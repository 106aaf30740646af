SPECIFICATION FairSpec
CONSTANTS
    s1 = s1
    s2 = s2
    s3 = s3
    d1 = d1
    d2 = d2
    r1 = r1
    r2 = r2
    r3 = r3
    Session = {s1, s2}
    DeviceId = {d1, d2}
    Request = {r1, r2}
    Op <- WithoutLegacy
    None = None
INVARIANT RevokedDeviceLosesAccess
PROPERTY BoundForGood
PROPERTY RequestsEnd
