SPECIFICATION StreamsSpec
CONSTANTS
  Streams = {s1, s2}
  Callers = {c1, c2}
  c1 = c1
  c2 = c2
  Calls <- MCCalls
  NoRecord = norecord
  Nobody = nobody
  MaxShutdowns = 1
  Cap = 1
  MaxFrames = 2
  Requests <- MCRequests
  NoRequest = norequest
  SkillIds = {k1}
  Paths = {"SKILL.md", "notes"}
  Texts = {1, 2}
  Sources <- MCSources
  Shipped <- MCShipped
  NoDir = NoDir
  Torn = Torn
  NoOp = NoOp
  MaxVersions = 4
  MaxFaults = 2
INVARIANTS
  RecordedOnce
  AckedRecoverable
PROPERTIES
  ImplementsSkillHost
  DroppedIsRecorded
  EndsUnlessJammed
CHECK_DEADLOCK FALSE
