SPECIFICATION Spec
CONSTANTS
  c1 = c1
  c2 = c2
  Unset = Unset
  Bad = Bad
  Absent = Absent
  Broken = Broken
  Error = Error
  Conns = {c1, c2}
  Startups <- MCStartups
  Requests <- MCRequests
INVARIANTS
  ServerTypeOK
  RefusesBadSettings
  RunsAsConfigured
PROPERTIES
  AuthorityIsHonoured
  ShutdownCompletes
  OnlyPeersHold
