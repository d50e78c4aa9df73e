CONSTANTS
    Primary = eth
    Others = {}
    Ticks = {t1}
    Regimes = {"trend"}
    TTL = 3
    STALE = 1
    WINDOW = 1
    Entries = 2
    LastHour = 4
    Limit = 2
SPECIFICATION AdviceSpec
INVARIANTS AdviceExpires StaleIsAnnounced CalibrationPairsEntry
CHECK_DEADLOCK FALSE
