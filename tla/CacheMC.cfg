SPECIFICATION BoundedSpec
CONSTANTS
    NumLines = 2
    LineSize = 2
    NumWays = 2
    WordSize = 2
    BelowLatency = 5
    NumTags = 2
    Value = {0, 1}
    MaxWrites = 2
INVARIANTS
    TypeOK
    OneCopy
    LinesAccounted
PROPERTY
    ImplementsFlatMemory
