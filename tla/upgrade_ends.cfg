SPECIFICATION FairSpec
CONSTANTS
    Versions = {1, 2}
    Authority = FALSE
    PermitUnsafe = TRUE
    Targets <- OnlyToTheEnd
    Timeouts = TRUE
    Delay = 0
    ProofLag = 0
    MaxSeq = 2
    MaxCancels = 1
    MaxFailures = 2
    MaxFaults = 0
PROPERTIES
    EventuallyUniform
