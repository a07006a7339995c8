\* A flush that fails between the switches of two tables.
CONSTANTS
    t1 = t1
    t2 = t2
    x1 = x1
    x2 = x2
    Tables = {t1, t2}
    NoAttr = 1
    TransIds = {x1, x2}
    MaxLoads = 2
    MaxBatch = 1
    Faults = {"flush"}
    NoTable = NoTable
    Invalid = Invalid
SPECIFICATION Spec
PROPERTIES RolledBackInvisible
CHECK_DEADLOCK FALSE
