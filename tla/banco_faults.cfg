SPECIFICATION Spec
CONSTANTS
    o1 = o1
    o2 = o2
    d1 = d1
    d2 = d2
    Nothing = Nothing
    LBTC = "L-BTC"
    FEE_AMOUNT = 2
    OrderIds = {o1, o2}
    Terms <- Mirrored
    Deposits = {d1}
    Payments <- AllPayments
    GenesisCoins <- ThreeCoins
    Faults = {"crash", "db", "rpc", "lostReply", "lag", "drop"}
    MaxFaults = 2
INVARIANTS
    TypeOK
    FulfilledHasTrade
    TradedDepositsAreExact
    TraderIsMadeWhole
    SnapshotStaysCurrent
    ExactDepositIsTradable
PROPERTIES
    ClosedOrdersStayClosed
    ImplementsLifecycle
