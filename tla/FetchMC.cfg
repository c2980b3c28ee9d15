SPECIFICATION Spec
CONSTANTS
    Program <- MCProgram
    NumInstFetch = 3
    Latencies = {1, 2, 3}
    Depth = 6
INVARIANTS
    PathKept
    PredictionStands
    PortHolds
PROPERTY
    FetchGoesOn
