SPECIFICATION FlowSpec
CONSTANTS
    NumPipes = 3
    MemPipe = 2
    BranchPipe = 3
    WBOrder <- MCWBOrder
    Regs = {"r1", "r2"}
    Opcodes <- FlowOpcodes
    InstBufSize = 3
    NumInstFetch = 2
    NumInstDecode = 2
    BufSize = 1
    ResStationSize = 1
    ProgramLength = 5
INVARIANTS
    NoInstBufferOverflow
    StationsBounded
    LatchDiscipline
    ExactlyOnce
    SpeculationContained
