SPECIFICATION Spec
CONSTANTS
  Nothing = Nothing
  Occurrences <- Reported
  Generated <- GeneratedPaths
  Threshold = 9
  ShortFrames = 4
  Candidates = 2
  MaxArrivals = 4
  MaxEdits = 1
CHECK_DEADLOCK FALSE
INVARIANTS
  OneBugOpensOneIssue
  NoDrift
  OtherMessageOtherIssue
