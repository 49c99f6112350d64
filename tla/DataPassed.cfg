SPECIFICATION DataSpec
CONSTANTS
  Sources <- MCSources
  Paths <- MCPaths
  Yaml <- MCYaml
  Unsafe <- MCUnsafe
  GoodIds = {"k", "l", "m", "x", "y", "o"}
  MaxEntries = 6
  MaxEntryBytes = 2
  MaxTotalBytes = 6
  Documents <- MCDocuments
  Requests <- MCRequests
  Secrets = {"S", "T"}
  MaxSteps = 2
  Forms = {"lf", "crlf", "bare", "blank", "bad"}
  Turns <- MCTurns
  Clients = {c1, c2, c3}
  Ids = {w1, w2}
  Entries = {"file", ".agents", "skill", "mine"}
  Managed = {"skill", "mine"}
  Always = {".agents"}
  Lists = {{"skill", "mine", "file"}}
  Scratch <- MCScratch
  Ops = {"create", "rename", "delete", "mount", "session", "clone", "save", "open"}
  NoRow = norow
  NoVolume = novolume
  Nobody = nobody
  MaxFaults = 1
SYMMETRY Alike
INVARIANTS
  BundleIsConsistent
  ValidatedIsStored
  EditChangesOnlyIt
  LaunchIsFrozen
  StartedAsWritten
  EventsArriveWhole
  ToolCallsMatch
PROPERTY WorkspacesKept
CHECK_DEADLOCK FALSE
