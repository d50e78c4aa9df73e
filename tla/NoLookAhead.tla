---------------------------- MODULE NoLookAhead ----------------------------
(***************************************************************************)
(* Two runs of one harness over recordings that agree up to some bar, in   *)
(* step.  What a run has decided from the bars up to there cannot differ:  *)
(* the claim of the engine (core/backtest/engine.py:108), of the walk-     *)
(* forward harness and of the thesis gate, whose verdict is to be blind to *)
(* the holdout.                                                            *)
(***************************************************************************)
EXTENDS Research

VARIABLES tape2, leg2, at2, believed2, pending2, acct2, book2, curve2,
          scores2, done2, verdict2

Twin == INSTANCE Research WITH
            tape <- tape2, leg <- leg2, at <- at2, believed <- believed2,
            pending <- pending2, acct <- acct2, book <- book2, curve <- curve2,
            scores <- scores2, done <- done2, verdict <- verdict2

engine2 == <<at2, believed2, pending2, acct2, book2, curve2>>
vars2   == <<tape2, leg2, engine2, scores2, done2, verdict2>>

TwinInit == Init /\ Twin!Init

\* Both take a step, or the one that has one left.
TwinNext ==
    \/ Next /\ Twin!Next
    \/ Next /\ leg2 = Idle /\ UNCHANGED vars2
    \/ leg = Idle /\ Twin!Next /\ UNCHANGED vars

TwinSpec == TwinInit /\ [][TwinNext]_<<vars, vars2>>

\* The bars a run has used: of the leg that runs, of the slice its candidates were tried
\* on, of the legs published.
Used(i) == \/ leg # Idle /\ i < leg.from + at
           \/ scores # <<>> /\ i <= leg.to
           \/ \E k \in DOMAIN done : i <= done[k].leg.to

\* The two recordings agree on them, for every symbol.
Agree == \A s \in DOMAIN Symbols : \A i \in 1..Length : Used(i) => tape[s][i] = tape2[s][i]

\* Point in time (engine.py:108, walk_forward.py:61, evaluate.py:241): two runs over
\* recordings that agree on the bars used so far are in the same state - the orders,
\* the account, the parameters chosen, the verdict.
PointInTime ==
    Agree =>
        <<leg, engine, scores, done, verdict>> = <<leg2, engine2, scores2, done2, verdict2>>
=============================================================================
