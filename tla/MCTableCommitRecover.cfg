\* A restart after a crash in the middle of a transaction.
CONSTANTS
    t1 = t1
    x1 = x1
    x2 = x2
    Tables = {t1}
    NoAttr = 1
    TransIds = {x1, x2}
    MaxLoads = 2
    MaxBatch = 1
    Faults = {"crash"}
    NoTable = NoTable
    Invalid = Invalid
SPECIFICATION Spec
PROPERTIES OpenedTableHasNoSession
