CONSTANTS
    PIPELENGTH = 6
    Class = {"alu", "load", "store"}
    Unit <- MCUnit
    Table <- MCTable
    Capacity <- MCCapacity
    WriteTime <- MCWriteTime
    ReadTime <- MCReadTime
    Enq <- MCNone
    Deq <- MCNone
    WriteThrough = FALSE
    Reg = {r1, r2}
    NoReg = NoReg
    Access <- MCAccess
    MemoryTime <- MCMemoryTime
    Successors <- MCSuccessors
    Layout <- MCLayout
SPECIFICATION Spec
INVARIANTS AssertionHolds NoUnitOverclaimed AccessesInOrder
CHECK_DEADLOCK FALSE
