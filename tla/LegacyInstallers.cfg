SPECIFICATION Spec
CONSTANTS
  Settings = {"settings"}
  Skills = {"skill"}
  Overlays = {"o1", "o2"}
  Cleanups = {"old"}
  Direct = {"settings"}
  Rendered <- TwoReleases
  Merged = {"config"}
  Replaced = {"prompt", "skill"}
  Optional = {"config"}
  Legacy = "old"
  Servers = {s1, s2}
  Tokens = {t1}
  Revisions = {1, 2}
  MaxInstalls = 2
  MaxFaults = 1
  PiEdits = 1
  MaxEdits = 2
  DocEdits = 2
  MaxReviews = 3
  MaxDamage = 1
INVARIANTS TypeOK InstalledAndKept PointerIsSafe
PROPERTIES OwnershipKept OpenCodeIsMerged
CHECK_DEADLOCK FALSE
