SPECIFICATION FairSpec
CONSTANTS
    lock = lock
    hint = hint
    Cmds <- MCCmds
    HintCmd = hint
    Never <- MCNever
    Budgets <- SteadyBudgets
PROPERTIES
    ResumeFollowsActivity
CHECK_DEADLOCK FALSE
