SPECIFICATION FairSpec
CONSTANTS
    Timers = {"timer0"}
    TcntModulus <- MCTcntModulus
    Divisors = {1, 2}
    CKPeriod = 2
    FuncMask = {"TOV0"}
    Irqs = {"RESET", "TIMER0_OVF", "TIMER1_CAPT"}
    NamedIrqs = {"RESET", "TIMER0_OVF", "TIMER1_CAPT"}
    VectorAddr <- MCVectorAddr
    PC_size = 2
    OtherCKS = {1}
    DebuggerIrqs = {"RESET", "TIMER1_CAPT"}
    DebuggerResets = TRUE
    DebuggerWrites = TRUE
    MaxDepth = 1
    MaxNodes = 2
PROPERTIES
    KeepsInterruptPromise
    NoStarvation
    MainlineRuns
