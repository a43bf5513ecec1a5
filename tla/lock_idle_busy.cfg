SPECIFICATION Spec
CONSTANTS
    Letters <- MCLetters
    Secret <- MCSecret
    BufferLen = 4
    Backends = {"pam"}
    MaxAttempts = 2
INVARIANTS
    IdleMeansNothingPending
CHECK_DEADLOCK FALSE
