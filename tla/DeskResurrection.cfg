SPECIFICATION Spec
CONSTANTS
    Account = {a1}
    Prefix = {"p"}
    PrefixOf <- MCAlike
    Req = {q1, q2}
    Worker = {w}
    MaxPending = 1
    MaxAttempts = 2
    MaxSession = 2
    MaxEvents = 3
PROPERTY DeletionIsFinal
CHECK_DEADLOCK FALSE
