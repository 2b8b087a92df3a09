SPECIFICATION Spec
CONSTANTS
  e1 = e1
  e2 = e2
  e3 = e3
  t1 = t1
  Workers = {w1, w2}
  OrderIds = {e1, e2, e3}
  Amount <- EqualOrders
  Tiers = {t1}
  Threshold <- OneTier
  Refunds = {1}
  Keys = {}
  NoKey = NoKey
  NoOrder = NoOrder
SYMMETRY SymmetricOrders
PROPERTIES ConsumedOnce
