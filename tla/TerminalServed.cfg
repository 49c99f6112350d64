SPECIFICATION Spec
CONSTANTS
  Sockets = {a1, a2}
  Controls = {c1}
  Ptys = {p1, p2}
  NoPty = NoPty
  NoLease = NoLease
  NoGen = NoGen
  MaxGen = 1
  NoTask = NoTask
  Ops = {"create", "ensure", "stop", "delete", "resume", "kill", "status"}
  FaultKinds = {"call", "config", "slow", "exit", "down", "restart", "depart", "store"}
  MaxFaults = 1
PROPERTIES
  LeasesMatchClients
  RecoveryRemembered
CHECK_DEADLOCK FALSE
SYMMETRY AllSymmetry
