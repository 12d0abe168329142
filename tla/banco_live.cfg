SPECIFICATION FairSpec
CONSTANTS
    o1 = o1
    o2 = o2
    d1 = d1
    d2 = d2
    Nothing = Nothing
    LBTC = "L-BTC"
    FEE_AMOUNT = 2
    OrderIds = {o2}
    Terms <- Sellers
    Deposits = {d1, d2}
    Payments <- ExactLBTC
    GenesisCoins <- TwoCoins
    Faults = {"crash", "db", "rpc", "lostReply", "lag"}
    MaxFaults = 1
PROPERTIES
    EveryOrderSettles
