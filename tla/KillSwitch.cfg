CONSTANTS
    None = None
    HaltHours = 2
    MaxHour = 3
    MaxUpdates = 2
    MaxEvents <- Mixed
SPECIFICATION Spec
INVARIANTS HaltsWithinOneCycle FiresOnce HaltIsAnnounced
PROPERTIES FloorStopsTrading
