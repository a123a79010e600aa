SPECIFICATION Spec
INVARIANTS TypeOK RecordedForksComplete ForkCountIsForks
CHECK_DEADLOCK FALSE
SYMMETRY Symmetric
CONSTANTS
  s1 = s1
  s2 = s2
  first = first
  second = second
  other = other
  main = main
  v1 = v1
  Session = {s1, s2}
  Prompt = {first, second, other}
  Slug = {"same", "other"}
  SlugOf <- MCSlugOf
  Branch = {main}
  Tag = {v1}
  MaxCommits = 4
  MaxClock = 4
