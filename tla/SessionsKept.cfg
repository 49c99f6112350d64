SPECIFICATION SessionsSpec
CONSTANTS
  s1 = s1
  s2 = s2
  n1 = n1
  n2 = n2
  Sessions = {s1, s2}
  Requests = {h1, h2}
  Names = {n1, n2}
  ShortName <- SameName
  NoSession = NoSession
  NoRequest = NoRequest
  NoVolume = NoVolume
  Ops = {"create", "ensure", "reset", "delete", "dry_run", "cleanup"}
  FaultKinds = {"config", "store", "call", "exit", "restart"}
  MaxFaults = 1
SYMMETRY RequestSymmetry
INVARIANTS
  JobsSerialised
  ReportSound
  WorkspaceMounted
  NothingLeft
PROPERTIES
  CleanupSparesOwned
  ForeignKept
