SPECIFICATION Spec
CONSTANTS
    Threads = {t1}
    PackrowSize = 2
    MaxRows = 4
    MaxBatch = 2
    MaxLoads = 2
    LoadsPerTrx = 2
    CachingLevel = 1
    NoThread = NoThread
    None = None
INVARIANTS Decodable
