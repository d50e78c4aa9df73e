CONSTANTS
    Symbols <- Two
    Tapes <- Recordings
    Grid <- Presets
    ReturnScore <- Gain
    Capital = 18
    Size = 15
    Gas = 1
    Rate = 10
    Tick = 1
    Train = 2
    Test = 3
    MinTrain = 1
    HoldoutBars = 2
    MinBeat = 1
SPECIFICATION TwinSpec
INVARIANTS SimMatchesPaper TradesExplainCash EachBarTestedOnce DurationIsLongestEpisode PointInTime
CHECK_DEADLOCK FALSE
