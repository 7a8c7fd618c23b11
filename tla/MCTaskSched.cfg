SPECIFICATION Spec
CONSTANTS
  Task = {0, 1, 2, 3}
  Idle = 0
  Lowest = 3
  Event = {}
  InvalidId = InvalidId
  Mutex = {1}
  Flag = {}
  AutoReset = {}
  Kind <- MCNoEvent
  Sort <- MCNoEvent
  Size <- MCNoEvent
  InitCnt <- MCNoEvent
  CntWidth = 2
  TimeSlice = 1
  Width = 8
  NullPrio = 0
  Programs <- MCPrograms
  Guarded = TRUE
  MaxLock = 1
INVARIANTS ListsMatchStates HighestRuns  MutexKept Inherited PairReturned
