SPECIFICATION NetlinkFairSpec
CONSTANTS
    kMaxNlMessageRetries = 2
    MaxMessages = 3
    MaxFaults = 2
INVARIANTS
    DumpsTakeTurns
    AnsweredOnce
PROPERTIES
    QueueMoves
CHECK_DEADLOCK FALSE
