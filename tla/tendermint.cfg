SPECIFICATION Spec
CONSTANTS
    MaxSeq = 1
    Ordered = FALSE
    StorePos <- Numeric
    PageLimit = 2
    Verifies = TRUE
    NoAck <- BothAcks
    OptCount <- Batches2
    Delay = 0
    ProofLag = 1
    Traffic <- OneEachWay
    Mortal <- AllMortal
    Rivals = FALSE
    Patient = TRUE
    Refresh = TRUE
    RtyAttNum = 2
    MaxFaults = 1
INVARIANTS
    TypeOK
    AcksProvable
    OnlyNewPacketsUnprovable
