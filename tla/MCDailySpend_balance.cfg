SPECIFICATION Spec
CONSTANTS
  e1 = e1
  e2 = e2
  e3 = e3
  t1 = t1
  Workers = {w1, w2}
  OrderIds = {e1, e2}
  Amount <- TwoOrders
  Tiers = {}
  Threshold <- NoTier
  Refunds = {1}
  Keys = {k}
  NoKey = NoKey
  NoOrder = NoOrder
SYMMETRY Symmetric
INVARIANTS BalanceIsNetSpend
