SPECIFICATION Spec
CONSTANTS
    Clients = {c1}
    Ticks = 1
    Parts = 1
    AskPrices <- PriceThree
    Amounts <- OneAmount
    MaxAsks = 1
    MaxThrows = 0
INVARIANT
    RefusedBeyondSlippage
