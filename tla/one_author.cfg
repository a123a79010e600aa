CONSTANTS
  s1 = s1
  s2 = s2
  p1 = p1
  p2 = p2
  main = main
  dev = dev
  t1 = t1
  Session = {s1, s2}
  Prompt = {p1, p2}
  Branch = {main, dev}
  Tag = {t1}
  Exclusive = TRUE
  MaxCommits = 2
  MaxClock = 2
SYMMETRY Symmetric
SPECIFICATION Spec
CHECK_DEADLOCK FALSE
INVARIANTS
  ParentsOlder
PROPERTIES
  AtomicSpec
  CommitAppends
  MergeFastForwards
