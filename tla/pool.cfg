SPECIFICATION FairSpec
CONSTANTS
    g1 = g1
    g2 = g2
    b1 = b1
    b2 = b2
    b3 = b3
    Nothing = Nothing
    Goroutines = {g1, g2}
    Buffers = {b1, b2, b3}
    Capacity = 1
    Longest = 2
    Numbers <- TwoNumbers
INVARIANTS
    TypeOK
    OneUser
    OwnBytes
PROPERTIES
    CallsReturn
