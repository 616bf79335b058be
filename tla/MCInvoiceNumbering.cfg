\* Four creators race for the numbers of one company.
CONSTANTS
    d1 = d1  d2 = d2  s1 = s1  r1 = r1
    Creators <- MCCreators
    Kind <- MCKind
    MaxAttempts = 2
    MaxTxAttempts = 2
SPECIFICATION MCSpec
INVARIANTS GaplessInOrder ClashMeansOthersWon
PROPERTY EveryRequestEnds
