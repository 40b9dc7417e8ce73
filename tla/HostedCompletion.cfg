SPECIFICATION HSpec
CONSTANTS
  old = old
  new = new
  Absent = Absent
  N = 2
  Content = {old, new}
  Dirs = {"config", "root"}
  DirOf <- MCDirOf
  LateFaults = {"write", "restore", "restored", "cleanup"}
  Editable = {}
  Hosted = 1
  Profiles = {"lean", "full"}
  Deaths = TRUE
SYMMETRY Contents
INVARIANTS HTypeOK RollbackIsCoherent
PROPERTIES AllOrNothing TruthfulOutcome ManifestLast
