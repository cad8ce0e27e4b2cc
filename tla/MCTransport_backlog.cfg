SPECIFICATION BusySpec
CONSTANTS
  a = a
  b = b
  c = c
  d = d
  t1 = t1
  NoAge = NoAge
  Configured <- NoChannel
  Around <- NoneFail
  Threads = {t1}
  Payloads = {a, b, c, d}
  BufferMax = 2
  MaxBatch = 1
  Attempts = 2
  FallbackAfter = 1
  Invalid = {}
  Ignored = {}
  Unstorable = {}
  Unencodable = {}
  MaxCrashes = 0
  MaxDropped = 1
PROPERTIES
  RecoveredOwnerIsTold
