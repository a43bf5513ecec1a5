SPECIFICATION FairSpec
CONSTANTS
    lock = lock
    hint = hint
    Cmds <- MCCmds
    HintCmd = hint
    Never <- MCNever
    Budgets <- MCBudgets
INVARIANTS
    SleepIsGuarded
    EnabledAgrees
    NoTimerLost
    HintIsOwed
PROPERTIES
    AwayIsNoticed
    InhibitorsObeyed
CHECK_DEADLOCK FALSE
