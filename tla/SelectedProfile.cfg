SPECIFICATION Spec
CONSTANTS
  Clients = {c1, c2}
  Roots = {alpha, beta}
  Profiles = {lean, full}
  Global = Global
  NoKey = NoKey
  NotSet = NotSet
  Missing = Missing
  Absent = Absent
  Corrupt = Corrupt
  Nobody = Nobody
  Tiers = {1, 2}
  CandidateKeys = {1, 3}
  OverrideKeys = {2}
  Projects = {"A"}
  Targets = {"pi"}
  Capabilities = {"bounded-review"}
SYMMETRY Alike
INVARIANT TypeOK
PROPERTIES SelectionIsKept SourcesStayApart
