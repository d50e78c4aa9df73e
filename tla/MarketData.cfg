CONSTANTS
    Windows <- Lengths
    PAGE = 2
    CHUNK = 1
    ATTEMPTS = 2
    FUNDING = 2
    DAY = 3
    KEPT = 2
    HISTORY = 1
    FirstHour = 4
    LastHour = 6
    MaxPulls = 2
SPECIFICATION MarketSpec
INVARIANTS RecordingIsComplete NothingFromLater OnlyTheLastMayForm
PROPERTIES PullReturns
