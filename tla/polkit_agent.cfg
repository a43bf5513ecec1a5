SPECIFICATION FairSpec
CONSTANTS
    Requests = {r1, r2, r3}
    Passwords = {right, wrong}
    Right = right
    Empty = empty
    MaxPrompts = 2
INVARIANTS
    SecretsStayPrivate
    DialogsAreStacked
PROPERTIES
    Implements
    RequestsEnd
CHECK_DEADLOCK FALSE
