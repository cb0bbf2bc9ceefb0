SPECIFICATION Spec
CONSTANTS
    MaxSeq = 2
    Ordered = FALSE
    StorePos <- AnyStorePos
    PageLimit = 9
    Verifies = TRUE
    Orgs = {"o1", "o2", "o3", "o4"}
    Founders = {"o1", "o2", "o3"}
    Movers = {"o1", "o4"}
    Budgets <- SmallBudgets
    MaxHeight = 8
    RetryHeight = 3
INVARIANTS
    TypeOK
    HeightsCommitted
    CleanWithoutInterference
PROPERTIES
    FrozenForever
    EventuallyAcked
