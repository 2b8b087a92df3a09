SPECIFICATION Spec
CONSTANTS
  Orders = {o1}
  Challenges = {c1, c2, c3, c4}
  Workers = {w1, w2}
  ClaimLife = 1
  TicketLife = 3
  OtpLife = 2
  Window = 1
  MaxSends = 2
  MaxAttempts = 2
  MaxTime = 2
  MaxUndone = 1
  NoOrder = NoOrder
  NoChallenge = NoChallenge
SYMMETRY Symmetric
INVARIANTS TypeOK TicketOnce SendsBounded AttemptsBounded OneSession
CHECK_DEADLOCK FALSE
