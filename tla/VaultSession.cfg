CONSTANTS
    i1 = i1  i2 = i2  t1 = t1  t2 = t2  t3 = t3
    Item = {i1}
    Task = {t1, t2}
    MaxGeneration = 4
    MaxRevision = 1
    MaxSetups = 1
    MaxQueue = 1
    MaxConflicts = 1
    None = None
SPECIFICATION Spec
SYMMETRY Symmetry
INVARIANTS LockForgets 
 
CHECK_DEADLOCK FALSE
