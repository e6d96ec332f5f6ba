CONSTANTS
    NReader = 2
    MaxChunks = 2
    MaxMessages = 3
    LargeChoices <- MCLargeChoices
    Stoppable = {0}
SPECIFICATION FairSpec
INVARIANTS
    NoOverwriteWhileReading
PROPERTIES
    ImplementsQueue
    EveryMessageDelivered
    ShutdownStops
CHECK_DEADLOCK FALSE
