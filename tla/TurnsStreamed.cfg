SPECIFICATION FairSpec
CONSTANTS
  Readers = {r1, r2}
  MaxTurns = 2
  MaxEvents = 1
  Capacity = 1
  NoTurn = 0
  Nobody = Nobody
  FaultKinds = {"call", "store", "hangup", "kill", "reboot"}
  MaxFaults = 1
INVARIANTS
  SeenIsStored
  StatusSettles
PROPERTIES
  TurnsApart
  ActiveEnds
CHECK_DEADLOCK FALSE
