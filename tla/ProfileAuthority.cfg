SPECIFICATION Spec
CONSTANTS
  p1 = p1
  p2 = p2
  Procs = {p1, p2}
  Inodes = {1, 2, 3, 4, 5, 6, 7}
  lean = lean
  full = full
  Docs = {lean, full}
  Absent = Absent
  None = None
  Nobody = Nobody
  Faults = {"replace", "sync", "sidecar", "undo", "held", "release", "death"}
SYMMETRY Alike
INVARIANTS TypeOK OneWriter
PROPERTIES OwnSidecarOnly Serialized
