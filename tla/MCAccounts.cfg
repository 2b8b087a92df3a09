SPECIFICATION Spec
CONSTANTS
  Users = {u1, u2}
  Sessions = {s1, s2, s3}
  Requests = {r1, r2}
  Nobody = Nobody
  NoSession = NoSession
SYMMETRY Symmetric
CHECK_DEADLOCK FALSE
INVARIANTS TypeOK SessionEndsOnce DeactivationEndsSessions OwnerRemains
