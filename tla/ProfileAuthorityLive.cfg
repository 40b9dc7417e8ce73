SPECIFICATION FairSpec
CONSTANTS
  p1 = p1
  p2 = p2
  Procs = {p1, p2}
  Inodes = {1, 2, 3, 4, 5, 6}
  lean = lean
  full = full
  Docs = {full}
  Absent = Absent
  None = None
  Nobody = Nobody
  Faults = {"sync", "path", "acquire", "temp", "sidecarSync"}
PROPERTY EveryCompletionEnds
