SPECIFICATION LiveSpec
CONSTANTS
  Task = {0, 1, 2, 3}
  Idle = 0
  Lowest = 3
  Event = {1}
  InvalidId = InvalidId
  Mutex = {}
  Flag = {1}
  AutoReset = {1}
  Kind <- MCMbox
  Sort <- MCFifo
  Size <- MCOne
  InitCnt <- MCZero
  CntWidth = 2
  TimeSlice = 2
  Width = 8
  NullPrio = 0
  Programs <- MCPrograms
  Guarded = TRUE
  MaxLock = 1
  Timeouts = {1, 2}
  MaxRequest = 2
  MaxMail = 2
PROPERTIES WaitEnds UnlockedRobin
