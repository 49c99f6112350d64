SPECIFICATION MCSpec
CONSTANTS
  Clients = {c1, c2}
  Nobody = nobody
  Paths <- MCPaths
  Up = ".."
  NoFile = nofile
  Garbled = garbled
  MaxParts = 3
  Bodies <- MCBodies
  First <- MCFirst
  Routes = {"write", "move", "remove", "read", "query"}
  FaultKinds = {"io", "resolve", "crash"}
  MaxFaults = 1
  MaxOutputBytes = 3
  PipeCapacity = 1
  ChannelCapacity = 1
  MaxPrinted = 2
  MaxChunk = 2
INVARIANTS ExitedMeansAll
PROPERTIES PagesSurvive MoveKeepsLinks RunEnds
CHECK_DEADLOCK FALSE
