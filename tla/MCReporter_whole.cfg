SPECIFICATION SpecReporter
SYMMETRY SameThreads
CONSTANTS
  a = a
  b = b
  f1 = f1
  t1 = t1
  t2 = t2
  Unseen = Unseen
  NoAge = NoAge
  NotSent = NotSent
  Threads = {t1, t2}
  Fingerprints = {f1}
  Gates <- WebOnly
  Limit = 1
  Window = 1
  SendMayFail = FALSE
  MaxTime = 1
  MaxCaptures = 3
  MaxRestarts = 1
  MaxFailures = 3
  Payloads = {a, b}
  BufferMax = 1
  MaxBatch = 2
  Attempts = 1
  FallbackAfter = 0
  Invalid = {}
  Ignored = {}
  Unstorable = {}
  Unencodable = {b}
  Configured <- NoChannel
  Around <- NoneFail
  MaxDropped = 1
INVARIANTS
  CountIsAccountedFor
  OutboxHolds
