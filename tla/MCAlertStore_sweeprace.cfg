SPECIFICATION Spec
CONSTANTS
  t1 = t1
  t2 = t2
  w1 = w1
  w2 = w2
  user = user
  Workers = {w1, w2}
  Traces = {t1}
  Similarity <- Alike
  Candidates = 1
  TopLevel = 0
  Retention <- NoDays
  Keep = 1
  ForwardToSentry = FALSE
  Occurrences = {1}
  Notes = {}
  Users = {NoUser}
  MaxDelay = 0
  MaxTime = 2
  MaxReports = 3
  MaxEdits = 1
  MaxCrashes = 0
  NoRow = NoRow
  NoTime = NoTime
  NoNote = NoNote
  EmptyNote = EmptyNote
  NoUser = NoUser
PROPERTIES
  OpenNeverSwept
