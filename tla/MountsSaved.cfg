SPECIFICATION Spec
CONSTANTS
  Clients = {c1, c2}
  Ids = {w1}
  Entries = {"file", ".agents", "skill", "mine", "other"}
  Managed = {"skill", "mine"}
  Always = {".agents"}
  Lists = {{"skill", "mine", "other"}, {"skill", "mine", "file"}}
  Scratch <- MCScratch
  Ops = {"create", "rename", "delete", "mount", "session", "clone", "save", "open"}
  NoRow = norow
  NoVolume = novolume
  Nobody = nobody
  MaxFaults = 1
SYMMETRY Alike
INVARIANT MountsAreExcluded
CHECK_DEADLOCK FALSE
