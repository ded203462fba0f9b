CONSTANTS
  User = {u1, u2}
  Course = {c1}
  Request = {r1, r2}
  Handler = {h1, h2}
  MaxCrashes = 1
SYMMETRY Symmetry
SPECIFICATION Spec
INVARIANTS
  EnrollmentBacked
  PayableIsRecoverable
  StatusIsTruthful
  OneSuccessNotice
  IInv
PROPERTY LedgerSpec
CHECK_DEADLOCK FALSE
