SPECIFICATION Spec
CONSTANTS
    Clients = {c1}
    Ticks = 100
    Parts = 100
    AskPrices <- FractionalPrices
    Amounts <- EdgeAmounts
    MaxAsks = 2
    MaxThrows = 1
INVARIANTS
    TypeOK
    SavedAsPreviewed
    BancoIsPaid
    LastAskIsQuoted
    NeverOlderThanPreviewed
