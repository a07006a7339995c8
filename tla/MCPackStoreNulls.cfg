CONSTANTS
    PackrowSize = 2
    SpliceSize = 1
    FileSizeLimit = 3
    MaxPackSize = 2
    MaxPacks = 2
    MaxFile = 6
    MaxLoads = 4
    WithNulls = TRUE
SPECIFICATION Spec
INVARIANTS CommittedReadable SessionReadable
