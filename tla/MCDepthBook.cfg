SPECIFICATION FairSpec
CONSTANTS
    Levels = {1, 2}
    MaxEvents = 3
    MaxUpdates = 3
    LastSecond = 1
    Scenarios <- Days
INVARIANTS TypeOK SessionBookIsCurrent ChunkWeighsTheBook GapsAreTheLosses
PROPERTY GapIsAnswered
