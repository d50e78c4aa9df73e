--------------------------- MODULE MCCommandQueue ---------------------------
(* Bounds for the runs of CommandQueue.                                    *)
EXTENDS CommandQueue

Limits(crash, lost, bad) ==
    [e \in Events |-> CASE e = "crash" -> crash [] e = "lost" -> lost [] e = "malformed" -> bad]

Serial == Limits(1, 0, 1)
Rough  == Limits(1, 1, 1)

TwoEach == [w \in Drainers |-> 2]
=============================================================================
