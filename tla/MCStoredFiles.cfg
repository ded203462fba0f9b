CONSTANTS
  Request = {r1, r2, r3}
  Department = {d1}
  User = {u1}
  Course = {c1}
  Banner = {b1}
  Logo = {l1, l2}
  Content = {f1}
  Title = {t1}
  Given = {d1, f1, t1}
  None = None
SYMMETRY Symmetry
SPECIFICATION Spec
INVARIANTS
  PictureIsThere
  RecordingHasItsFile
CHECK_DEADLOCK FALSE
