CONSTANTS
    a1 = a1  a2 = a2  d1 = d1  d2 = d2  k1 = k1  k2 = k2
    Account = {a1}
    Document = {d1}
    Call = {k1, k2}
    MaxGen = 2
    MaxUnlocks = 2
    MaxGrants = 1
    MaxOffers = 1
    MaxRevision = 1
    None = None
SPECIFICATION Spec
CHECK_DEADLOCK FALSE
INVARIANTS FillsOnce OneRefresh
PROPERTIES FillInItsSession NoRequestAfterLock CallsEnd
