SPECIFICATION Spec
CONSTANTS
    Half = 8
    HalfNibble = 2
    Code <- MCCode
    Inputs <- MCInputs
    Breakpoints <- Safe
    Sram <- MCSram
INVARIANTS
    SumsRight
    DifferencesRight
    ComparisonsRight
    ProductsRight
    ShiftsRight
    MovesRight
    SkipsRight
    NeverInOperand
    SameClocks
CHECK_DEADLOCK FALSE
