SPECIFICATION Spec
CONSTANTS
  svc1 = svc1
  svc2 = svc2
  metric = metric
  beat = beat
  silence = silence
  Targets = {svc1}
  Metrics = {metric}
  Heartbeats = {}
  Silences = {}
  Normal <- Distinct
  HasAlertmanager = FALSE
  Owner = TRUE
  PrometheusFails = TRUE
  MaxChanges = 2
PROPERTIES
  ClosesOnlyWhatWasAsked
