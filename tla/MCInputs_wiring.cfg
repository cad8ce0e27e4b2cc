SPECIFICATION SpecInputs
CONSTANTS
  f1 = f1
  t1 = t1
  t2 = t2
  Unseen = Unseen
  Threads = {t1, t2}
  Fingerprints = {f1}
  Gates <- OnOrOff
  Limit = 2
  Window = 2
  SendMayFail = TRUE
  MaxTime = 3
  MaxCaptures = 5
  MaxRestarts = 1
  MaxFailures = 4
SYMMETRY SameThreads
CHECK_DEADLOCK FALSE
INVARIANTS
  InputsTypeOK
  NothingForgotten
  FloodIsBounded
  OnceButForTasks
