SPECIFICATION Spec
CONSTANTS
    Timers = {"timer0", "timer1"}
    TcntModulus <- MCTcntModulus
    Divisors = {1, 2}
    CKPeriod = 2
    FuncMask = {"TOV0", "TOV1"}
    Irqs = {"RESET", "TIMER0_OVF", "TIMER1_OVF", "TIMER1_CAPT", "NO_VECTOR"}
    NamedIrqs = {"RESET", "TIMER0_OVF", "TIMER1_OVF", "TIMER1_CAPT"}
    VectorAddr <- MCVectorAddr
    PC_size = 2
    OtherCKS = {1, 2}
    DebuggerIrqs = {"RESET", "NO_VECTOR"}
    DebuggerResets = TRUE
    DebuggerWrites = FALSE
    MaxDepth = 1
    MaxNodes = 3
INVARIANTS
    TypeOK
    PendingUnique
    ReturnChain
    OneNodePerDevice
    ListsSwept
    RunningHasDivisor
