SPECIFICATION FairSpec
CONSTANTS
    Letters <- MCLetters
    Secret <- MCSecret
    BufferLen = 4
    Backends = {"pam", "shadow"}
    MaxAttempts = 2
INVARIANTS
    TypeOK
    NothingLingers
    ValidatingIsAnswered
    QueueBoundedByFailures
    SuccessIsLast
PROPERTIES
    Implements
    EveryAttemptIsAnswered
    ComesToRest
CHECK_DEADLOCK FALSE
