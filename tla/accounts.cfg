CONSTANTS
  r1 = r1
  r2 = r2
  o1 = o1
  o2 = o2
  p1 = p1
  p2 = p2
  t1 = t1
  t2 = t2
  s1 = s1
  None = None
  Requests = {r1, r2}
  Openids = {o1, o2}
  Phones = {p1, p2}
  Tokens = {t1, t2}
  Scenes = {s1}
SPECIFICATION Spec
SYMMETRY Symmetry
INVARIANTS BoundProvedPhone AnsweredIsBound TokenBindsOnce
CHECK_DEADLOCK FALSE
