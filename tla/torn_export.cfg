CONSTANTS
  q2 = q2
  p1 = p1
  p2 = p2
  Prompt = {q2}
  Branch = {b1}
  Tag = {}
  MaxCommits = 2
  MaxClock = 2
  Writer = {w1, w2}
  Push = {p1, p2}
  Scope <- MCScope
SYMMETRY Symmetric
SPECIFICATION Spec
INVARIANTS ExportOfOneMoment
CHECK_DEADLOCK FALSE
