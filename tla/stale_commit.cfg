CONSTANTS
    s1 = s1
  s2 = s2
  p1 = p1
  main = main
  dev = dev
  Session = {s1, s2}
  Exclusive = FALSE
  Prompt = {p1}
  Branch = {main, dev}
  Tag = {}
  MaxCommits = 3
  MaxClock = 3
SYMMETRY Symmetric
SPECIFICATION Spec
CHECK_DEADLOCK FALSE
PROPERTY CommitAppends
