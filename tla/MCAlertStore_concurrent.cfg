SPECIFICATION Spec
SYMMETRY SameWorkers
CONSTANTS
  t1 = t1
  t2 = t2
  w1 = w1
  w2 = w2
  user = user
  Workers = {w1, w2}
  Traces = {t1}
  Similarity <- Alike
  Candidates = 1
  TopLevel = 0
  Retention <- NoDays
  Keep = 2
  ForwardToSentry = TRUE
  Occurrences = {1}
  Notes = {"note"}
  Users = {user}
  MaxDelay = 0
  MaxTime = 1
  MaxReports = 3
  MaxEdits = 2
  MaxCrashes = 1
  NoRow = NoRow
  NoTime = NoTime
  NoNote = NoNote
  EmptyNote = EmptyNote
  NoUser = NoUser
INVARIANTS
  TypeOK
  DeadlineOnlyWhileMuted
  RegressedOnEvidence
  CountNeverInvented
  EventsCapped
  OpenedOncePerLife
  
PROPERTIES
  DoneErasureForgets
