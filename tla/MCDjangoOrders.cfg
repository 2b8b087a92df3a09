SPECIFICATION Spec
CONSTANTS
  e1 = e1
  e2 = e2
  t1 = t1
  t2 = t2
  Orders = {e1, e2}
  Price <- TwoOrders
  Keys = {k1, k2}
  Attempts = {a1, a2, a3}
  Tiers = {t1}
  Threshold <- OneTier
  NoOrder = NoOrder
SYMMETRY Symmetric
CHECK_DEADLOCK FALSE
INVARIANTS TypeOK AnswersAreTrue ClaimFindsPass
PROPERTIES KeepsContract
