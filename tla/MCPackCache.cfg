SPECIFICATION Spec
CONSTANTS
    Threads = {t1, t2}
    PackrowSize = 2
    MaxRows = 4
    MaxBatch = 2
    MaxLoads = 3
    LoadsPerTrx = 3
    CachingLevel = 1
    NoThread = NoThread
    None = None
SYMMETRY Symmetry
INVARIANTS TypeOK PacksFresh LocksExact OneLoader
