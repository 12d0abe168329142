SPECIFICATION Spec
CONSTANTS
    o1 = o1
    o2 = o2
    d1 = d1
    d2 = d2
    Nothing = Nothing
    LBTC = "L-BTC"
    FEE_AMOUNT = 2
    OrderIds = {o1}
    Terms <- OneBuyer
    Deposits = {d1, d2}
    Payments <- ExactAndLess
    GenesisCoins <- FourCoins
    Faults = {}
    MaxFaults = 0
INVARIANTS
    TradedNeverExpires
