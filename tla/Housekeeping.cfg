SPECIFICATION Spec
CONSTANTS
  parsed_body = parsed_body
  inference_events = inference_events
  access_log = access_log
  Order <- MCOrder
  Interval <- MCInterval
  Rollup = inference_events
  DayLength = 3
  Retention = 1
  LastSlot = 4
  SweepFaults = 1
  config_drift = config_drift
  provider_health = provider_health
  Checks <- MCChecks
  Wavering = {provider_health}
  Timer = timer
  Manual = manual
  MaxChanges = 2
  MaxAccepts = 1
  PulseFaults = 1
  heartbeat = heartbeat
  telegram = telegram
  Procs <- MCProcs
  Body <- MCBody
  References <- MCReferences
  Rows <- MCRows
  Installed <- MCInstalled
  NoProc = NoProc
  MaxFaults = 2
INVARIANTS  MigrationsAreSound
PROPERTIES PulsesAreSound RowsSettle EverybodyComesUp
CHECK_DEADLOCK FALSE
