SPECIFICATION FairSpec
CONSTANTS
    NumPipes = 3
    MemPipe = 2
    BranchPipe = 3
    WBOrder <- MCWBOrder
    Regs = {"r1", "r2"}
    Opcodes <- DataflowOpcodes
    InstBufSize = 4
    NumInstFetch = 2
    NumInstDecode = 2
    BufSize = 1
    ResStationSize = 1
    ProgramLength = 4
INVARIANTS
    TypeOK
    ReadsLastWriter
    ScoreboardExact
PROPERTIES
    ImplementsInOrderIssue
    EveryOpRetires
