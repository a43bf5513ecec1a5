SPECIFICATION FairSpec
CONSTANTS
    MaxId = 2
    MaxHistory = 1
    Contents = {"first", "second"}
    Budgets <- MCBudgets
INVARIANTS
    TimeoutOrPointer
    ClientAgrees
PROPERTIES
    PopupsGo
    Implements
CHECK_DEADLOCK FALSE
