CONSTANTS
    s1 = s1
  sealed = sealed
  other = other
  c1 = c1
  Session = {s1}
  Namespace = {sealed, other}
  Encoded = {sealed, other}
  Content = {c1}
SPECIFICATION FairSpec
CHECK_DEADLOCK FALSE
PROPERTY RowsReadableAgain
