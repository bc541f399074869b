SPECIFICATION Spec
CONSTANTS
  u1 = u1
  u2 = u2
  c1 = c1
  c2 = c2
  admin = admin
  user = user
  NoRow = NoRow
  Users <- TwoUsers
  Calls <- TwoCalls
  Roles <- TwoRoles
  RefreshLife = 1
  AccessLife = 1
  MaxTime = 2
  MaxLogins = 2
SYMMETRY Interchangeable
INVARIANT
  IndInv
PROPERTY
  SessionEnds
CHECK_DEADLOCK FALSE
