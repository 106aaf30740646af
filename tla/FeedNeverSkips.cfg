CONSTANTS
    v1 = v1  a1 = a1  a2 = a2  m1 = m1  m2 = m2  m3 = m3
    r1 = r1  r2 = r2  r3 = r3  i1 = i1  i2 = i2
    Account = {a1}
    Vault = {v1}
    Item = {i1, i2}
    MutationId = {m1, m2, m3}
    Request = {r1, r2, r3}
    Mutation <- CreateDelete
    Limit = 1
    None = None
SPECIFICATION Spec
SYMMETRY Symmetry
CHECK_DEADLOCK FALSE
INVARIANTS FeedNeverSkips
