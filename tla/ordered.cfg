SPECIFICATION FairSpec
CONSTANTS
    MaxSeq = 2
    Ordered = TRUE
    StorePos <- Numeric
    PageLimit = 2
    Verifies = FALSE
    NoAck <- BothAcks
    OptCount <- AtOnce
    Delay = 3
    ProofLag = 0
    Traffic <- FromSrc2
    Mortal <- AllMortal
    Rivals = FALSE
    Patient = FALSE
    Refresh = FALSE
    RtyAttNum = 3
    MaxFaults = 0
INVARIANTS
    CloseStrandsNoAck
    NoRedundantMsgs
PROPERTIES
    EventuallySettled
