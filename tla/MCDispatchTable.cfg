CONSTANTS
  t1 = t1
  t2 = t2
  NChannels = 2
  MaxFailures = 4
  MaxClock = 6
  TimeSteps = {3, 6}
  Requests = {r1, r2}
  Kinds = {"connect"}
  Targets = {t2}
  HashOf <- MCHashOf
  Strategy = "Order"
  DirectFirst = FALSE
  Dsn <- MCDsn
  Sessions = {s1}
  Faults = {"err"}
  ProbeInterval = 6
SPECIFICATION Spec
SYMMETRY RequestSymmetry
INVARIANTS
  TypeOK
  SnapshotsLagBehind
  RejectsWhenExhausted
  ServesFromBest
PROPERTIES
  MarksFollowVerdicts
  VerdictsTakeEffect
  SkipsOnEvidence
