SPECIFICATION Spec
CONSTANTS
  Users = {u1, u2}
  Names = {n1, n2}
  Passwords = {x}
  Paths = {p1}
  Sessions = {s1}
  Requests = {q1, q2}
  None = None
  AccessTTL = 1
  RefreshTTL = 1
  CastTTL = 2
  MaxClock = 3
SYMMETRY Symmetry
INVARIANTS
  TypeOK
  SetupLeavesServer
  AccountsAccounted
  AccessEnds
CHECK_DEADLOCK FALSE
