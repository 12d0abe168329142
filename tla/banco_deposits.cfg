SPECIFICATION Spec
CONSTANTS
    o1 = o1
    o2 = o2
    d1 = d1
    d2 = d2
    Nothing = Nothing
    LBTC = "L-BTC"
    FEE_AMOUNT = 2
    OrderIds = {o1, o2}
    Terms <- Twins
    Deposits = {d1, d2}
    Payments <- ExactUSDT
    GenesisCoins <- LargeCoins
    Faults = {"crash", "db", "rpc", "lostReply", "lag"}
    MaxFaults = 1
SYMMETRY TwinSymmetry
INVARIANTS
    FulfilledHaveTheirOwn
    BooksBalance
