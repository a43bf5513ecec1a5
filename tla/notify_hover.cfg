SPECIFICATION Spec
CONSTANTS
    MaxId = 2
    MaxHistory = 1
    Contents = {"first", "second"}
    Budgets <- MCBudgets
PROPERTIES
    StaysUnderPointer
CHECK_DEADLOCK FALSE
