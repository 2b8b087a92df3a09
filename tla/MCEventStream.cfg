SPECIFICATION FairSpec
CONSTANTS
  Writers = {w1, w2}
  Clients = {c1}
  Capacity = 1
  Limit = 1
  Redis = TRUE
  MaxEvents = 3
INVARIANTS TypeOK OncePerConnection SubscribedMissNothing
PROPERTIES SlowClientsBlockNobody
