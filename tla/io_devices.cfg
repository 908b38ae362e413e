SPECIFICATION FairSpec
CONSTANTS
    CKPeriod = 2
    SpiBits = 2
    SpiDivisors = {1, 2}
    UartFrame = 2
    UartBauds = {1, 2}
    AdcClocks = 2
    AdcDivisors = {1, 2}
    FIFO_LEN = 3
    FIFO_RESET = 2
    FlenModulus = 6
    Bytes = {0, 1}
    EeHigh = {0, 1}
    EeLow = {0, 1}
    Endpoints = {"0", "1"}
    UsbRegisters = {"HADDR"}
    KeptRegisters = {"UIER"}
    FetchedRegisters = {"UISR"}
    SetupBytes = 2
    CountModulus = 3
    Sessions <- MCSessions
    UcrInputs <- MCUcrInputs
    AdcsrInputs <- MCAdcsrInputs
    Lines <- MCLines
    MaxNodes = 3
INVARIANTS
    TypeOK
    TablesAgree
    InterruptsEarned
    FlagsServed
    CountersRun
    SentBeforeComplete
    FifoIsQueue
PROPERTY
    DrainsWhenQuiet
