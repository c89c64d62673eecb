CONSTANTS
  Tasks = {a, b}
  NoTask = NoTask
  Dsns = {d1, d2}
  Faults = {}
  IdleTimeout = 60
  ReapPeriod = 30
  MaxClock = 0
  TimeStep = 30
SPECIFICATION FairSpec
INVARIANTS
  OwnServer
