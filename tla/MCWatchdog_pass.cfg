SPECIFICATION FairSpec
CONSTANTS
  svc1 = svc1
  svc2 = svc2
  metric = metric
  beat = beat
  silence = silence
  Targets = {svc1, svc2}
  Metrics = {metric}
  Heartbeats = {}
  Silences = {silence}
  Normal <- Folded
  HasAlertmanager = TRUE
  Owner = TRUE
  PrometheusFails = TRUE
  MaxChanges = 3
PROPERTIES
  AnsweredPassClosesWhatWasAsked
  ClosesWhatItSawForAnother
  ExpectedRecoveryCloses
  BlindSpotIsFiled
