SPECIFICATION Spec
CONSTANTS
  NoIssue = NoIssue
  NoTime = NoTime
  Idle = Idle
  Workers = {w1, w2}
  Occurrences = {1, 3}
  Keep = 2
  Hour = 1
  Day = 3
  Factor = 2
  Minimum = 2
  Levels = {1, 2}
  Floor = 1
  Fatal = 2
  QuietStart = 2
  QuietEnd = 0
  OnNew = TRUE
  OnRegression = TRUE
  OnSpike = TRUE
  MaxTime = 2
  MaxReports = 3
  MaxEdits = 2
SYMMETRY Symmetric
CHECK_DEADLOCK FALSE
INVARIANTS
  RepeatsTellNobody
PROPERTIES
  MutedIsQuiet
  TrueSpikeIsHeard
