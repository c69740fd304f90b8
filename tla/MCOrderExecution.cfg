SPECIFICATION FairSpec
CONSTANTS
    Sides = {"LONG"}
    Scenarios <- Days
    MaxEntries = 2
    MaxInFlight = 1
INVARIANTS
    TypeOK
    StopCoversPosition
PROPERTIES
    LeftoverExitGoes
CHECK_DEADLOCK FALSE
