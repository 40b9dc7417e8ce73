SPECIFICATION FairSpec
CONSTANTS
  old = old
  new = new
  Absent = Absent
  N = 2
  Content = {old, new}
  Dirs = {"agents", "skills"}
  DirOf <- MCDirOf
  LateFaults = {"seal", "write", "restore", "commit", "restored", "cleanup"}
  Editable = {1, 2}
INVARIANTS TypeOK Recoverable NoOrphans
PROPERTIES AllOrNothing DecidedIsFinal Settles
