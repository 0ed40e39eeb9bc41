SPECIFICATION Spec
CONSTANTS
  Clients = {c1, c2}
  Models = {m1}
  Providers = {p1, p2}
  Requests = {r1}
  Listers = {l1, l2}
  Kinds = {"ok", "quota", "other"}
  Window = 2
  MaxDup = 2
  MaxTime = 3
  None = None
SYMMETRY MCSymmetry
INVARIANTS
  TypeOK
  AnswersCurrent
  CountsMatch
PROPERTIES
  MarksAreOwn
CHECK_DEADLOCK FALSE
