SPECIFICATION FairSpec
CONSTANTS
    Versions = {1, 2}
    Authority = TRUE
    PermitUnsafe = FALSE
    Targets <- AndHalfway
    Timeouts = FALSE
    Delay = 0
    ProofLag = 1
    MaxSeq = 1
    MaxCancels = 0
    MaxFailures = 2
    MaxFaults = 1
INVARIANTS
    TypeOK
    StepsAreAccepted
    DoneIsAgreed
    ConfigFollows
PROPERTIES
    ProposalsComplete
