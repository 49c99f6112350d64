SPECIFICATION FairSpec
CONSTANTS
  Sockets = {a1}
  Controls = {c1}
  Ptys = {p1}
  NoPty = NoPty
  NoLease = NoLease
  NoGen = NoGen
  MaxGen = 1
  NoTask = NoTask
  Ops = {"create", "ensure", "stop", "delete", "resume", "kill", "status"}
  FaultKinds = {"call", "config", "slow", "exit", "down", "restart", "depart", "store"}
  MaxFaults = 1
PROPERTIES
  SocketEnds
  HandlersReturn
CHECK_DEADLOCK FALSE
