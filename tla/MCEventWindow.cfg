SPECIFICATION ESpec
CONSTANTS
  Task = {0, 1, 2, 3}
  Idle = 0
  Lowest = 3
  Event = {1}
  InvalidId = InvalidId
  Mutex = {}
  Flag = {}
  AutoReset = {}
  Kind <- MCKind
  Sort <- MCSort
  Size <- MCSize
  InitCnt <- MCZero
  CntWidth = 2
  TimeSlice = 1
  Width = 8
  NullPrio = 0
  Programs <- MCPosted
  Guarded = TRUE
  MaxLock = 1
  Timeouts = {0}
  MaxRequest = 2
  MaxMail = 3
INVARIANTS NoLostWakeup
