SPECIFICATION FairSpec
CONSTANTS
  Task = {t1}
  Isr = Isr
  Nobody = Nobody
  Tmr = {0, 1, 2}
  Kinds <- MCKinds
  MaxBurst = 1
  Careful = TRUE
CHECK_DEADLOCK FALSE
INVARIANTS NoneLost DueExact
PROPERTIES TimerFires
