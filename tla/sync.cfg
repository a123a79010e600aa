CONSTANTS
  q2 = q2
  p1 = p1
  p2 = p2
  t1 = t1
  Prompt = {q2}
  Branch = {b1}
  Tag = {t1}
  MaxCommits = 2
  MaxClock = 3
  Writer = {w1, w2}
  Push = {p1, p2}
  Scope <- MCScope
SYMMETRY Symmetric
SPECIFICATION Spec
INVARIANTS TypeOK ReceiverConsistent NothingPassedOver
PROPERTIES ReplicaSpec NeverSetBack
CHECK_DEADLOCK FALSE
