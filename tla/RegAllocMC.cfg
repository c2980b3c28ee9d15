SPECIFICATION Spec
CONSTANTS
    Block <- MCBlock
    Succ <- MCSucc
    Depth <- MCDepth
    Ways <- MCWays
    Classes <- MCClasses
    Programs <- MCPrograms
    NumColors = 2
INVARIANTS SameMeaning InterferencesKept ClassesRespected OnlySpillable
PROPERTY Ends
