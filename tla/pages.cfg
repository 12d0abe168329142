SPECIFICATION FairSpec
CONSTANTS
    s1 = s1
    s2 = s2
    f1 = f1
    Nothing = Nothing
    Streams = {s1, s2}
    Offers = {f1}
    MaxEvents = 2
INVARIANTS
    TypeOK
PROPERTIES
    ImplementsSubscription
    HandlersEnd
    SentIsShown
CHECK_DEADLOCK FALSE
