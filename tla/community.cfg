SPECIFICATION Spec
INVARIANTS TypeOK StarCountIsRows
PROPERTIES VersionsGoWithPrompt PublishedByHolder
CHECK_DEADLOCK FALSE
SYMMETRY Symmetric
CONSTANTS
  s1 = s1
  s2 = s2
  shut = shut
  p1 = p1
  ann = ann
  ben = ben
  k1 = k1
  k2 = k2
  m1 = m1
  c1 = c1
  h1 = h1
  none = none
  Session = {s1, s2}
  Namespace = {shut}
  Prompt = {p1}
  Collection = {k1, k2}
  Comment = {m1}
  Cert = {c1}
  Hook = {h1}
  Home <- HomeShut
  Shelf = shut
  Actor = {ann, ben}
  NoCert = none
  Lives = {0}
  MaxTime = 1
  MaxVersions = 1
  MaxAsks = 7
