SPECIFICATION Spec
CONSTANTS
    Minutes = {1}
    MaxVer = 2
    MaxRetry = 1
    MaxFaults = 1
    MaxRepairs = 1
    Prompt = FALSE
INVARIANTS
    TypeOK
    UnsentRowHasIntent
    SentIsAtBroker
PROPERTIES
    KeepsPromise
