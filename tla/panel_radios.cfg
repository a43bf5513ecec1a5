SPECIFICATION FairSpec
CONSTANTS
    Starts <- MCStarts
    Attempts <- MCAttempts
    Contexts <- MCContexts
    Devices = {d1}
    MaxRequests = 2
    MaxMishaps = 1
INVARIANTS
    SwitchesAgree
    AirplaneHolds
PROPERTIES
    AttemptsAreReported
    OperationsEnd
CHECK_DEADLOCK FALSE
