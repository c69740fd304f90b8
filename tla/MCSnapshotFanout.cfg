SPECIFICATION FairSpec
CONSTANTS
    Last = 2
    MaxRepairs = 2
    MaxRewinds = 1
    MaxFaults = 1
    Budget = 2
    Reserved = 1
INVARIANTS
    TypeOK
    UnpublishedIsOwed
PROPERTIES
    RowIsPublished
CHECK_DEADLOCK FALSE
