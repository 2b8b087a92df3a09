SPECIFICATION Spec
CONSTANTS
  Recs = {c1, c2}
  Desks = {d1, d2}
  MaxRequests = 4
  MaxTime = 2
  EditedTo <- Windows
  Limit = 2
  Threshold = 0
  MaxQuantity = 1
  UseCelery = TRUE
  MaxFailures = 2
  NoRec = NoRec
  NoWindow = NoWindow
  Policies <- SomePolicies
  DefaultTiers <- Defaults
  MaxVersion = 2
  Staff = {s1, s2}
  Orders = {e1, e2}
  Amounts = {1, 2}
  DayLength = 2
  Offsets = {1}
  LastSlot = 4
  NoPolicy = NoPolicy
CHECK_DEADLOCK FALSE
INVARIANTS TypeOK PromotionsAreAccepted VersionNamesContent StockIsAccounted RefundIsProportional DayPassCoversItsDay
PROPERTIES OverduePromotionsEnd
