SPECIFICATION BusySpec
CONSTANTS
  a = a
  b = b
  c = c
  d = d
  t1 = t1
  NoAge = NoAge
  Configured <- TopicOrSeam
  Around <- SomeFail
  Threads = {t1}
  Payloads = {a, b, c, d}
  BufferMax = 2
  MaxBatch = 3
  Attempts = 2
  FallbackAfter = 1
  Invalid = {b}
  Ignored = {}
  Unstorable = {c}
  Unencodable = {d}
  MaxCrashes = 1
  MaxDropped = 1
INVARIANTS
  HeldBounded
  HeldExactlyOnce
  SettledIsStored
PROPERTIES
  IsMailbox
  DeadStoreIsHeard
  TopicIsHonoured
  BacklogIsTold
