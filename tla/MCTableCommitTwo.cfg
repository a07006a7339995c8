\* Two tables in one transaction; the flush and the flip succeed.
CONSTANTS
    t1 = t1
    t2 = t2
    x1 = x1
    x2 = x2
    Tables = {t1, t2}
    NoAttr = 2
    TransIds = {x1, x2}
    MaxLoads = 3
    MaxBatch = 1
    Faults = {"crash", "kill", "rename"}
    NoTable = NoTable
    Invalid = Invalid
SPECIFICATION Spec
INVARIANTS SharedIsCurrent CommitPublishes CommitProtocolInv
SYMMETRY Symmetry
