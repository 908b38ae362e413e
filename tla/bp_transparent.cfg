SPECIFICATION Spec
CONSTANTS
    Pages = {1, 2}
    Offsets = {1}
    Bits <- MCBits
    HighBits <- MCHighBits
    BREAK <- MCBREAK
    OverBreakpoints = FALSE
INVARIANTS
    TypeOK
    Transparent
PROPERTIES
    HitShowsProgram
