SPECIFICATION HSpec
CONSTANTS
  old = old
  new = new
  Absent = Absent
  N = 2
  Content = {old, new}
  Dirs = {"config", "root"}
  DirOf <- MCDirOf
  LateFaults = {"commit"}
  Editable = {}
  Hosted = 1
  Profiles = {"lean", "full"}
  Deaths = TRUE
PROPERTY DecidedIsFinal
