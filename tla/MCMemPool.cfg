SPECIFICATION Spec
CONSTANTS
  Task = {t1, t2}
  MaxMM = 2
  Areas = {0, 3}
  BlockNum = 2
  Quiet = TRUE
INVARIANTS HeldOnce PoolExact
