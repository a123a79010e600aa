CONSTANTS
  s1 = s1
  s2 = s2
  p1 = p1
  p2 = p2
  main = main
  dev = dev
  Session = {s1, s2}
  Exclusive = FALSE
  Prompt = {p1, p2}
  Branch = {main, dev}
  Tag = {}
  MaxCommits = 2
  MaxClock = 2
SYMMETRY Symmetric
SPECIFICATION Spec
CHECK_DEADLOCK FALSE
INVARIANTS
  TypeOK
  ReferencesResolve
  HistoryComplete
PROPERTY
  VersionsImmutable
