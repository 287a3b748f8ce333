\* One operator command outstanding at a time; sessions are reopened once the
\* vehicle has forgotten the numbers of the last one.
SPECIFICATION Spec
CONSTANTS
    RetryLimit = 3
    KeepaliveAfter = 2
    CommandTimeout = 7
    SeqNumbers = 10
    QueueDepth = 2
    Verdicts = {"Ok", "IllegalInMode"}
    Patient = TRUE
    MaxCalls = 2
    MaxRestarts = 1
INVARIANTS
    LinkHeld
PROPERTY
    CallsRefined
