CONSTANTS
  r1 = r1
  r2 = r2
  r3 = r3
  r4 = r4
  u1 = u1
  u2 = u2
  c1 = c1
  c2 = c2
  s1 = s1
  s2 = s2
  Request = {r1, r2, r3, r4}
  Student = {u1, u2}
  Curriculum = {c1, c2}
  Initially <- MCInitially
SPECIFICATION Spec
SYMMETRY Symmetry
INVARIANT MarkedIsCompleted
CHECK_DEADLOCK FALSE
