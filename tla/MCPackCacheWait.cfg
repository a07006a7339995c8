SPECIFICATION FairSpec
CONSTANTS
    Threads = {t1, t2, t3}
    PackrowSize = 1
    MaxRows = 2
    MaxBatch = 2
    MaxLoads = 2
    LoadsPerTrx = 1
    CachingLevel = 0
    NoThread = NoThread
    None = None
INVARIANTS LocksExact Decodable
PROPERTIES WaitEnds
