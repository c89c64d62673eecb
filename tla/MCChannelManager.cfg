CONSTANTS
  NChannels = 1
  MaxFailures = 7
  MaxClock = 310
  TimeSteps <- MCTimeSteps
SPECIFICATION ManagerSpec
INVARIANTS
  ManagerTypeOK
  RecordCoherent
  FailureIsolates
  NeverAbandoned
PROPERTY BackoffNeverShrinks
