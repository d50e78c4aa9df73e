CONSTANTS
    Drainers = {loop}
    Budget <- TwoEach
    Window = 3
    Requests = {r1}
    MaxCmds = 3
    Max <- Serial
SPECIFICATION FairSpec
PROPERTIES ServedOnceInOrder QueuedIsServed
