SPECIFICATION FairSpec
CONSTANTS
    MaxSeq = 2
    Ordered = FALSE
    StorePos <- Numeric
    PageLimit = 1
    Verifies = FALSE
    NoAck <- BothAcks
    OptCount <- AtOnce
    Delay = 0
    ProofLag = 0
    Traffic <- FromSrc2
    Mortal <- NoneMortal
    Rivals = FALSE
    Patient = FALSE
    Refresh = FALSE
    RtyAttNum = 2
    MaxFaults = 0
PROPERTIES
    ReceivedAreAcked
