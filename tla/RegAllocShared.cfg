SPECIFICATION Spec
CONSTANTS
    Block <- MCBlock
    Succ <- MCSucc
    Depth <- MCDepth
    Ways <- MCWays
    Classes <- MCClasses
    Programs <- SharedPrograms
    NumColors = 2
INVARIANT OperandsListed
