CONSTANTS
  User = {u1}
  Course = {c1}
  Request = {r1, r2}
  Handler = {h1}
  MaxCrashes = 1
SPECIFICATION FairSpec
PROPERTIES
  PaidLeadsToEnrolled
  OrderSettles
CHECK_DEADLOCK FALSE
