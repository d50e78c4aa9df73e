CONSTANTS
    Callers = {c1}
    MaxBar = 3
    BarsPerDay = 3
    DeadlineHour = 1
    KolEnabled = TRUE
    EnforceActivity = TRUE
    RecoverFlag = TRUE
    BootMode = "mainnet"
    Max <- Limited
    MaxFaults = 2
SPECIFICATION Spec
INVARIANTS RecoveredCyclesStayExecuted WalletMatchesLedger BooksMatchLog ModeConsistent FloorOncePerLife
PROPERTIES RestartKeepsPosition
