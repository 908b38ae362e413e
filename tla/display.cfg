SPECIFICATION FairSpec
CONSTANTS
    Values = {0, 1}
    Configs <- MCConfigs
    PipeCap = 2
    MaxSteps = 2
    MaxInterrupts = 2
INVARIANTS
    HeaderDeclares
    TimesIncrease
    FileFollows
PROPERTY
    CloseEnds
