CONSTANTS
    a1 = a1
    c1 = c1
    c2 = c2
    p1 = p1
    p2 = p2
    r1 = r1
    r2 = r2
    Account = {a1}
    Client = {c1, c2}
    Password = {p1, p2}
    Request = {r1, r2}
    Ttl = 1
    Window = 1
    Retention = 1
    LimitMax = 2
    AdmissionMax = 3
    MaxTime = 2
    MaxTries = 1
    MaxFaults = 1
    None = None
SPECIFICATION Spec
SYMMETRY Symmetry
CHECK_DEADLOCK FALSE
INVARIANTS OneSessionPerLogin LoginCompletes AttemptsBounded SweepSparesAttempts
PROPERTIES FinishedInTime
