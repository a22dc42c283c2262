SPECIFICATION FairSpec
CONSTANTS
    s1 = s1  s2 = s2  r1 = r1  r2 = r2  u1 = u1  u2 = u2  o1 = o1  o2 = o2
    None = None
    Shards = {s1, s2}
    Requests = {r1, r2}
    Updaters = {u1, u2}
    Optimizers = {o1}
    Order <- OppositeOrders
    ShardOf <- Contended
    SlotCapacity = 1
CHECK_DEADLOCK FALSE
INVARIANT CirclesHaveACause
INVARIANT PinExcludesChange
INVARIANT SlotsAreConserved
PROPERTY RequestsEnd
PROPERTY UpdatesEnd
