CONSTANTS
    None = None
    Prices = {1, 3}
    Token = Token
    Default = Default
    Slip = 1
    Capital = 10
    MaxOrder = 2
    ExitUsd = 3
    PositionPct = 40
    ExposurePct = 60
    LossPct = 20
    MaxLosses = 2
    HoursPerDay = 3
    MaxHour = 5
    Paper = TRUE
    MaxEvents <- OneEach
SPECIFICATION Spec
INVARIANTS StopIsArmed
PROPERTIES ExposureCapped RestartAddsNothing
