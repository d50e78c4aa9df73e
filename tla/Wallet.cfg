CONSTANTS
    Operators = {op}
    Rungs = 2
    USDT = 2
    Token = 1
    MaxSize = 2
    MaxCalls = 2
    MaxSent = 2
    MaxFaults = 1
SPECIFICATION Spec
INVARIANTS FillIsMined OneSwapPerCall
PROPERTIES PhantomsClose
CHECK_DEADLOCK FALSE
