CONSTANTS
    Drainers = {loop, http}
    Budget <- TwoEach
    Window = 1
    Requests = {r1, r2}
    MaxCmds = 2
    Max <- Rough
SPECIFICATION Spec
INVARIANTS RerunsAreBounded
