CONSTANTS
  Tasks = {a, b}
  NoTask = NoTask
  Dsns = {d1}
  Faults = {"err", "hang"}
  IdleTimeout = 60
  ReapPeriod = 30
  MaxClock = 150
  TimeStep = 30
SPECIFICATION FairSpec
INVARIANTS
  TypeOK
  IdleEntriesGo
PROPERTIES
  EvictionSparesRecentlyUsed
  EvictionSparesTunnels
  EveryCallEnds
