SPECIFICATION FairSpec
CONSTANTS
  t1 = t1
  t2 = t2
  w1 = w1
  w2 = w2
  user = user
  Workers = {w1}
  Traces = {t1, t2}
  Similarity <- Alike
  Candidates = 1
  TopLevel = 1
  Retention <- EarlyRetention
  Keep = 1
  ForwardToSentry = FALSE
  Occurrences = {2}
  Notes = {}
  Users = {NoUser}
  MaxDelay = 1
  MaxTime = 2
  MaxReports = 2
  MaxEdits = 2
  MaxCrashes = 0
  NoRow = NoRow
  NoTime = NoTime
  NoNote = NoNote
  EmptyNote = EmptyNote
  NoUser = NoUser
INVARIANTS
  KnownGaugesTrue
  CountIsTheFact
  IssueCoversSample
PROPERTIES
  OpenNeverSwept
  KeepsPromise
  ClosedGoesAway
