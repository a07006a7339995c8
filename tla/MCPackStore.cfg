CONSTANTS
    PackrowSize = 2
    SpliceSize = 2
    FileSizeLimit = 3
    MaxPackSize = 2
    MaxPacks = 3
    MaxFile = 6
    MaxLoads = 3
    WithNulls = FALSE
SPECIFICATION Spec
INVARIANTS TypeOK CommittedReadable SessionReadable FileSizeBound
