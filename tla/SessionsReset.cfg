SPECIFICATION ResetSpec
CONSTANTS
  s1 = s1
  s2 = s2
  n1 = n1
  n2 = n2
  Sessions = {s1}
  Requests = {h1}
  Names = {n1}
  ShortName <- OneSession
  NoSession = NoSession
  NoRequest = NoRequest
  NoVolume = NoVolume
  Ops = {"create", "reset"}
  FaultKinds = {}
  MaxFaults = 0
INVARIANT ResetSucceeds
