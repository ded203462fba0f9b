CONSTANTS
  r1 = r1
  r2 = r2
  r3 = r3
  r4 = r4
  r5 = r5
  None = None
  Request = {r1, r2, r3, r4, r5}
  MaxNow = 2
  MaxUsers = 2
SPECIFICATION Spec
SYMMETRY Symmetry
INVARIANTS TypeOK LogoutIsFinal OneSessionPerLogin ResetWasVerified
CHECK_DEADLOCK FALSE
