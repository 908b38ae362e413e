SPECIFICATION FairSpec
CONSTANTS
    Debuggers <- MCDebuggers
    MaxSent = 3
    Signals = TRUE
INVARIANTS
    TypeOK
    RepliesMatch
    OrderlyPollsDoNotBlock
PROPERTIES
    
    InterruptStops
    KillEndsSession
