SPECIFICATION FairSpec
CONSTANTS
  a1 = a1
  a2 = a2
  a3 = a3
  p1 = p1
  p2 = p2
  Attempts = {a1, a2, a3}
  Processes = {p1, p2}
  Home <- MCHome
  Roots = {"claude", "codex"}
  Nobody = Nobody
INVARIANTS TypeOK MutualExclusion HeldHasHolder QueueIsWaiting
PROPERTIES NoOvertaking EveryAttemptEnds
