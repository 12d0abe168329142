SPECIFICATION Spec
CONSTANTS
    Base = 14
    Width = 4
    Narrow = 2
    Panic = Panic
    Items <- AllItems
    ScriptNums <- Results
    Foreign <- ForeignVarInts
    MaxItems = 2
INVARIANTS
    ReadAsWritten
    WholeIsRead
    OneEncoding
    SizesAgree
    ClampedToNearest
CHECK_DEADLOCK FALSE
