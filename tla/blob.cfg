CONSTANTS
  s1 = s1
  s2 = s2
  open = open
  sealed = sealed
  c1 = c1
  Session = {s1, s2}
  Namespace = {open, sealed}
  Encoded = {sealed}
  Content = {c1}
SPECIFICATION FairSpec
CHECK_DEADLOCK FALSE
INVARIANTS TypeOK RowsHaveFiles UnreadableOnlyWhileWritten
PROPERTY RowsReadableAgain
