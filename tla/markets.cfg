SPECIFICATION Spec
CONSTANTS
    r1 = r1
    r2 = r2
    Requests = {r1, r2}
    Pairs <- CodePairs
    MaxBalance = 2
    MaxChanges = 1
SYMMETRY RequestSymmetry
INVARIANTS
    TypeOK
    LimitsWereHeld
