CONSTANTS
    t1 = t1
    t2 = t2
    x = x
    p1 = p1
    p2 = p2
    Tab = {t1}
    Api = {x}
    Password = {p1, p2}
    Attempts = 3
    MaxVersion = 3
    MaxSetups = 1
    None = None
SPECIFICATION FairSpec
CHECK_DEADLOCK FALSE
INVARIANTS TypeOK OneBundlePerVersion RaceLostOnce StoredParses
PROPERTIES ImplementsRegister PublishEnds
