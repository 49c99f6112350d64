CONSTANTS
  Requests = {r1, r2}
  Startup = Startup
  Nobody = Nobody
  NoDir = NoDir
  Torn = Torn
  s1 = s1
  h1 = h1
  h2 = h2
  k1 = k1
  k2 = k2
  b1 = b1
  a1 = a1
  g1 = g1
  c1 = c1
  c2 = c2
  SkillIds = {k1, k2, b1}
  Dirs <- MCDirs
  Contents = {c1, c2}
  Builtins = {b1}
  Secrets = {s1}
  Conns = {h1}
  Kernels = {h2}
  Agents = {a1}
  Gateways = {g1}
  Absent = Absent
  Literal = Literal
  NoAgent = NoAgent
  NoConn = NoConn
  NoSource = NoSource
  Sources <- MCSources
  FirstDocs <- MCFirstDocs
  FirstShelves <- MCFirstShelves
  Scenarios <- MCScenarios
  FaultKinds = {"call", "reply", "host", "db", "abandon", "crash"}
  MaxFaults = 1
SYMMETRY Alike
SPECIFICATION Spec
CHECK_DEADLOCK FALSE
INVARIANTS
  StoresAgree
  HostFollowsDocument
PROPERTY
  IfMatchNotClobbered
