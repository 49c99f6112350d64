SPECIFICATION GatewaysSpec
CONSTANTS
  GatewayIds = {g1, g2}
  Requests = {r1, r2}
  Startup = Startup
  Nobody = Nobody
  Confs = {1, 2}
  NoConf = 0
  NoGateway = NoGateway
  Ops = {"apply"}
  Concurrent = TRUE
  Attempts = 2
  FaultKinds = {}
  MaxFaults = 0
SYMMETRY AllSymmetry
INVARIANTS
  AppliesConverge
  OperatorsToldTruth
PROPERTIES
  OrphansOnly
  EnabledRun
