CONSTANTS
    Trades <- SomeTrades
    Regimes = {"trend", "chop"}
    Signals = {"momentum", "flow"}
    Workers = {w1}
    Vague = Vague
    Sharp = Plain
    Plain = Plain
    Brief = Brief
    Preloads <- SomeStarts
    TOP_K = 3
    MaxCloses = 2
    Limit = 3
SPECIFICATION MemorySpec
INVARIANTS VerdictMatchesRecord
CHECK_DEADLOCK FALSE
