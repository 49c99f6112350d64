SPECIFICATION HandlersSpec
CONSTANTS
  h1 = h1
  h2 = h2
  s1 = s1
  n1 = n1
  NoSession = NoSession
  NoRequest = NoRequest
  NoVolume = NoVolume
  GatewayIds = {g1}
  Requests = {r1}
  Startup = Startup
  Nobody = Nobody
  Confs = {1}
  NoConf = 0
  NoGateway = NoGateway
  Ops = {"apply", "delete"}
  Concurrent = TRUE
  Attempts = 2
  FaultKinds = {"config", "giveup", "restart", "reboot"}
  MaxFaults = 1
PROPERTIES
  EveryRequestReturns
  EveryTaskEnds
