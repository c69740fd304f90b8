SPECIFICATION FairSpec
CONSTANTS
    Minutes = {1}
    MaxVer = 1
    MaxRetry = 2
    MaxFaults = 2
    MaxRepairs = 1
    Prompt = TRUE
PROPERTIES
    IntentSettles
    OrphanRowIsSwept
