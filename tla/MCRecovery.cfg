SPECIFICATION Spec
CONSTANTS
  NChannels = 2
  MaxFailures = 2
  MaxClock = 12
  TimeSteps = {1}
  Flaky = {0}
  ConnectTimeout = 2
  ProbeInterval = 1
CHECK_DEADLOCK FALSE
INVARIANTS
  RecoveryTypeOK
  IsolatesInTime
  RejoinsInTime
