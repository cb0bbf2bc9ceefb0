SPECIFICATION FairSpec
CONSTANTS
    MaxSeq = 1
    Ordered = FALSE
    StorePos <- Numeric
    PageLimit = 2
    Verifies = FALSE
    NoAck <- BothAcks
    OptCount <- Batches2
    Delay = 2
    ProofLag = 0
    Traffic <- FromSrc1
    Mortal <- AllMortal
    Rivals = TRUE
    Patient = TRUE
    Refresh = FALSE
    RtyAttNum = 2
    MaxFaults = 2
INVARIANTS
    ExclusiveOutcome
    ViewsStayValid
    ListsCoveredByHeaders
    CountedAreSettled
PROPERTIES
    ImplementsLifecycle
    EventuallySettled
