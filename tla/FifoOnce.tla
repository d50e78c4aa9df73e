------------------------------ MODULE FifoOnce ------------------------------
(***************************************************************************)
(* What a queue of operator commands promises: commands are taken up       *)
(* strictly in the order they were accepted, and a command is executed at  *)
(* most once, and only while it is the last one taken up.                  *)
(***************************************************************************)
EXTENDS Naturals

CONSTANT Limit        \* commands that can ever be accepted

VARIABLES accepted,   \* commands accepted so far
          taken,      \* commands taken up so far
          runs        \* how often each command was executed

Init == accepted = 0 /\ taken = 0 /\ runs = [i \in 1..Limit |-> 0]

Accept == /\ accepted < Limit
          /\ accepted' = accepted + 1
          /\ UNCHANGED <<taken, runs>>

Take == /\ taken < accepted
        /\ taken' = taken + 1
        /\ UNCHANGED <<accepted, runs>>

Execute == /\ taken > 0 /\ runs[taken] = 0
           /\ runs' = [runs EXCEPT ![taken] = 1]
           /\ UNCHANGED <<accepted, taken>>

Next == Accept \/ Take \/ Execute

Spec == Init /\ [][Next]_<<accepted, taken, runs>>
=============================================================================
