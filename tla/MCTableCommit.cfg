\* One table of two columns, every fault: the commit protocol.
CONSTANTS
    t1 = t1
    x1 = x1
    x2 = x2
    x3 = x3
    Tables = {t1}
    NoAttr = 2
    TransIds = {x1, x2, x3}
    MaxLoads = 3
    MaxBatch = 2
    Faults = {"crash", "kill", "rename", "flush", "flip"}
    NoTable = NoTable
    Invalid = Invalid
SPECIFICATION Spec
INVARIANTS TypeOK ColumnsAgree
PROPERTIES AtomicVersions
