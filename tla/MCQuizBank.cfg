CONSTANTS
  r1 = r1
  r2 = r2
  r3 = r3
  own = own
  other = other
  t1 = t1
  t2 = t2
  None = None
  Request = {r1, r2, r3}
  Curriculum = {own, other}
  Title = {t1, t2}
  Drafts <- MCDrafts
  Elsewhere <- MCElsewhere
  Initially <- MCInitially
  Options <- MCOptions
SPECIFICATION Spec
SYMMETRY Symmetry
INVARIANTS TypeOK ActiveIsPlayable DrawIsWellSized ImportedOnce
CHECK_DEADLOCK FALSE
