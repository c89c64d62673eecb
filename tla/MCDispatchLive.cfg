CONSTANTS
  t1 = t1
  t2 = t2
  NChannels = 2
  MaxFailures = 4
  MaxClock = 0
  TimeSteps = {3}
  Requests = {r1, r2}
  Kinds = {"path"}
  Targets = {t2}
  HashOf <- MCHashOf
  Strategy = "Hash"
  DirectFirst = TRUE
  Dsn <- MCDsn
  Sessions = {s1}
  Faults = {"err", "crash", "hang", "leave"}
  ProbeInterval = 0
SPECIFICATION FairSpec
PROPERTIES
  FailoverSpec
  OnlyPeersDelay
  EveryCheckEnds
