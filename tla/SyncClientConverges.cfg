CONSTANTS
    d1 = d1  d2 = d2  t1 = t1  t2 = t2  i1 = i1  i2 = i2
    m1 = m1  m2 = m2  m3 = m3
    Device = {d1}
    Thread = {t1}
    Item = {i1, i2}
    MutationId = {m1, m2, m3}
    MaxEdits = 2
    Limit = 1
    None = None
SPECIFICATION FairSpec
PROPERTIES Converges
