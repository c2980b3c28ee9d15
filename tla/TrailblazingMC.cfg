SPECIFICATION Spec
CONSTANTS
    NumInstr = 12
    Simple = {13, 15, 16, 17, 19, 20}
    Cond = {14}
    Loop = {18}
    Up <- MCUp
    Prev <- MCPrev
    Ways <- MCWays
    rx = rx
    ry = ry
    rc = rc
    Reg = {rx, ry, rc}
    CCReg = {rc}
    BranchReads <- MCBranch
    Barrier = {}
    NumSlots = 2
    Form <- MCForm
    MaxOps = 3
    MAXLIVE = 32
INVARIANTS
    DependencesKept
    BranchesKept
    EveryOperationOnce
    NeverForcedExit
PROPERTIES
    OnlyUp
    Advances
