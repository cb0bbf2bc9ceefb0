SPECIFICATION FairSpec
CONSTANTS
    Delay = 2
    MaxEnds = 4
    MaxFailed = 2
    MaxFaults = 3
INVARIANTS
    TypeOK
    CreatedIsOpen
    OrphansAreFaults
    CleanWithoutFaults
PROPERTIES
    EventuallyOpen
