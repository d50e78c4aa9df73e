---------------------------- MODULE MCKillSwitch ----------------------------
(* Bounds for the run of KillSwitch. *)
EXTENDS KillSwitch

Limits(lost, cockpit, crash) ==
    [e \in Events |-> CASE e = "lost" -> lost [] e = "cockpit" -> cockpit [] e = "crash" -> crash]

Mixed == Limits(1, 1, 1)
=============================================================================
