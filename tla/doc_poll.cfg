SPECIFICATION Spec
CONSTANTS
    Debuggers <- MCRetries
    MaxSent = 2
    Signals = FALSE
INVARIANTS
    PollsDoNotBlock
