SPECIFICATION Spec
CONSTANTS
    Period = 1
    MaxTime = 3
    MaxClients = 5
    Budgets <- SmallBudgets
INVARIANTS
    TypeOK
    IdsAreOurs
    CleanWhenUndisturbed
PROPERTIES
    OnlyMissingClients
    NothingForgotten
    WipedUntilInit
    EventuallyConfigured
