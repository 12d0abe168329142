SPECIFICATION FairSpec
CONSTANTS
    MaxFailures = 3
INVARIANTS
    TypeOK
    NeedsAreMet
    OneAccount
PROPERTIES
    ServesAgain
CHECK_DEADLOCK FALSE
