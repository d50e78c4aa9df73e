CONSTANTS
    None = None
    Prices = {1, 3}
    Capital = 10
    Fee = 1
    MaxLots = 2
    MaxHour = 3
    HoursPerDay = 3
    KolEnabled = TRUE
    EnforceActivity = TRUE
    BootConfig <- Daily
    Cockpit <- OnlyOff
    Max <- Mixed
SPECIFICATION Spec
INVARIANTS FloorWasOwned BankedStaysInCash
PROPERTIES SavedFloorNeverFalls NoTradeAfterHalt
