SPECIFICATION Spec
CONSTANTS
    Base = 4
    Width = 4
    Narrow = 2
    Orders <- AddressOrders
    TxOutputs <- AllOutputs
    Sha256 <- Hashes
    Panic = Panic
INVARIANTS
    AcceptsTheOneOutput
CHECK_DEADLOCK FALSE
