SPECIFICATION Spec
CONSTANTS
  Servers = {"one", "two"}
  Words <- UserWords
  Sections <- UserSections
  Edits = 2
INVARIANT TypeOK
PROPERTY CodexIsMerged
CHECK_DEADLOCK FALSE
