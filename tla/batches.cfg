SPECIFICATION Spec
CONSTANTS
    MaxSrc = 3
    MaxDst = 2
    Sizes = {1, 2, 5}
    SizeLimits = {0, 3}
    LengthLimits = {0, 1, 2}
    Rounds <- SmallRounds
INVARIANTS
    TypeOK
    IdsNameTheirMsgs
    SentInOrder
    AllSubmitted
    BatchesAreGreedy
