CONSTANTS
  t1 = t1
  t2 = t2
  NChannels = 1
  MaxFailures = 4
  MaxClock = 0
  TimeSteps = {3}
  Requests = {r1}
  Kinds = {"path"}
  Targets = {t1}
  HashOf <- MCHashOf
  Strategy = "Order"
  DirectFirst = FALSE
  Dsn <- MCDsn
  Sessions = {s1}
  Faults = {"err", "hang"}
  ProbeInterval = 600
SPECIFICATION FairSpec
PROPERTIES
  EveryRequestEnds
