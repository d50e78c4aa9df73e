----------------------------- MODULE KillSwitch -----------------------------
(***************************************************************************)
(* What may stop the agent, and how the operator starts it again: the kill *)
(* switch (convex/config.ts: halted), the equity floor and the watchdog    *)
(* over failing swaps (agent/loop.py), and the Telegram bot with its       *)
(* Resume buttons and commands (agent/notify.py).  Three parties touch the *)
(* switch: the loop's thread, the bot's polling thread, and whoever uses   *)
(* the cockpit, POST /halt and POST /resume.  Every call to Convex or to   *)
(* Telegram may fail, silently.                                            *)
(*                                                                         *)
(* The market is one bit: whether the equity at this bar is at or under    *)
(* the floor.  A cycle has at most one execution, which fills, fails, does *)
(* not happen, or raises out of the cycle.  A press on Reject changes      *)
(* nothing: every approval about the switch has on_reject = None.          *)
(***************************************************************************)
EXTENDS Naturals, Sequences

CONSTANTS
    None,        \* no failure so far
    HaltHours,   \* hours of failure after which the watchdog halts (4)
    MaxHour,     \* bound: the last bar
    MaxUpdates,  \* bound: commands and presses of the operator
    MaxEvents          \* bound: how often each environment event may happen

Events == {"lost", "cockpit", "crash"}
Asks   == 1..MaxHour
Taps   == [kind : {"halt", "resume", "approve"}, ask : {0} \union Asks]

ASSUME TimeAssumption  == HaltHours \in Nat \ {0} /\ MaxHour \in Nat /\ None \notin Nat
ASSUME BoundAssumption == MaxUpdates \in Nat /\ MaxEvents \in [Events -> Nat]

VARIABLES
    halted,                          \* config.halted
    hour, under,                     \* the bar; is its equity at or under the floor?
    pc, firstFail, wasHalted,        \* the loop: where the cycle is, the first of the
    haltedByFloor,                   \* failures, what the last cycle saw
    sent, pending, lapsed,           \* approvals: messages sent, registered, timed out
    updates, confirmed,              \* Telegram: what the operator did, what was fetched
    poller,                          \* the polling thread
    fillsSince, notice,              \* history: fills since the switch was last turned,
    fired, handled,                  \* the notices of this halt that were due, were lost,
                                     \* whether one was heard; taps and updates acted on
    used                                \* environment events so far

bar     == <<hour, under>>
loop    == <<pc, firstFail, wasHalted, haltedByFloor, notice>>
buttons == <<sent, pending, lapsed>>
bot     == <<updates, confirmed, poller, fired, handled>>
switch  == <<halted, fillsSince>>
vars    == <<switch, bar, loop, buttons, bot, used>>

Stages == {"idle", "watch", "floor", "ask", "register", "stop", "gate", "trade"}
Unsaid == [due |-> 0, lost |-> 0, heard |-> FALSE]
Asleep == [pc |-> "poll", next |-> 1, upto |-> 0]

TypeOK ==
    /\ halted \in BOOLEAN /\ hour \in 0..MaxHour /\ under \in BOOLEAN
    /\ pc \in Stages /\ firstFail \in 0..hour \union {None}
    /\ wasHalted \in BOOLEAN /\ haltedByFloor \in BOOLEAN
    /\ sent \in Nat /\ pending \subseteq 1..sent /\ lapsed \subseteq pending
    /\ updates \in Seq(Taps) /\ confirmed \in 0..Len(updates)
    /\ poller \in [pc : {"poll", "handle", "resume"}, next : Nat \ {0},
                   upto : 0..Len(updates)]
    /\ fillsSince \in Nat /\ notice \in [due : Nat, lost : Nat, heard : BOOLEAN]
    /\ fired \in [Asks -> Nat] /\ handled \in [1..MaxUpdates -> Nat]
    /\ used \in [Events -> Nat]

Init ==
    /\ halted = FALSE /\ hour = 0 /\ under = FALSE
    /\ pc = "idle" /\ firstFail = None /\ wasHalted = FALSE /\ haltedByFloor = FALSE
    /\ sent = 0 /\ pending = {} /\ lapsed = {}
    /\ updates = <<>> /\ confirmed = 0 /\ poller = Asleep
    /\ fillsSince = 0 /\ notice = Unsaid
    /\ fired = [a \in Asks |-> 0] /\ handled = [u \in 1..MaxUpdates |-> 0]
    /\ used = [e \in Events |-> 0]

Spend(e) == used[e] < MaxEvents[e] /\ used' = [used EXCEPT ![e] = @ + 1]

\* setHalted: the switch is set, and turning it starts a new count of fills.
Turn(on) == halted' = on /\ fillsSince' = (IF on = halted THEN fillsSince ELSE 0)

\* set_halted through the bridge: done, or lost unnoticed.
SetHalted(on) == \/ Turn(on) /\ UNCHANGED used
                 \/ UNCHANGED switch /\ Spend("lost")

-----------------------------------------------------------------------------
(* The loop's thread: one cycle per bar.                                   *)

NextBar ==
    /\ pc = "idle" /\ hour < MaxHour
    /\ pc' = "watch" /\ hour' = hour + 1 /\ under' \in BOOLEAN
    /\ UNCHANGED <<switch, firstFail, wasHalted, haltedByFloor, notice, buttons,
                   bot, used>>

\* Hours since the first failure, with no fill in between.
Sustained == firstFail # None /\ hour - firstFail >= HaltHours

\* _check_sustained_failure.
Watchdog ==
    /\ pc = "watch" /\ pc' = "floor"
    /\ \/ Sustained /\ SetHalted(TRUE) /\ firstFail' = None
       \/ ~Sustained /\ UNCHANGED <<switch, firstFail, used>>
    /\ UNCHANGED <<bar, wasHalted, haltedByFloor, notice, buttons, bot>>

\* Mutant of FloorHit: the floor speaks up once per halt only.
MutFloorHitOnce == under /\ ~haltedByFloor
FloorHit        == under

Owed == [notice EXCEPT !.due = @ + 1]

\* _check_equity_floor up to the notice; a floor that cannot be read is no floor.
Floor ==
    /\ pc = "floor"
    /\ \/ FloorHit /\ pc' = "ask" /\ haltedByFloor' = TRUE /\ notice' = Owed /\ UNCHANGED used
       \/ ~FloorHit /\ pc' = "gate" /\ UNCHANGED <<haltedByFloor, notice, used>>
       \/ pc' = "gate" /\ Spend("lost") /\ UNCHANGED <<haltedByFloor, notice>>
    /\ UNCHANGED <<switch, bar, firstFail, wasHalted, buttons, bot>>

\* Where the cycle goes after the notice: the floor sets the switch, a halt that was
\* read from it is done with.
Noticed == /\ pc' = (IF haltedByFloor THEN "stop" ELSE "idle")
           /\ wasHalted' = (wasHalted \/ ~haltedByFloor)

\* send_approval: the message goes out before its buttons are registered; it, or the
\* reply that names it, may be lost, and the cycle goes on as if it had been heard.
Ask ==
    /\ pc = "ask"
    /\ \/ /\ sent' = sent + 1 /\ notice' = [notice EXCEPT !.heard = TRUE]
          /\ \/ pc' = "register" /\ UNCHANGED <<wasHalted, used>>
             \/ Noticed /\ Spend("lost")
       \/ sent' = sent /\ notice' = [notice EXCEPT !.lost = @ + 1] /\ Noticed /\ Spend("lost")
    /\ UNCHANGED <<switch, bar, firstFail, haltedByFloor, pending, lapsed, bot>>

Register ==
    /\ pc = "register" /\ Noticed
    /\ pending' = pending \union {sent}
    /\ UNCHANGED <<switch, bar, firstFail, haltedByFloor, notice, sent, lapsed, bot,
                   used>>

\* The end of _check_equity_floor, and of the cycle.
Stop ==
    /\ pc = "stop" /\ pc' = "idle" /\ wasHalted' = TRUE
    /\ SetHalted(TRUE)
    /\ UNCHANGED <<bar, firstFail, haltedByFloor, notice, buttons, bot>>

\* Mutant of Blocks: the switch stops the agent on its rising edge only.
MutBlocksOnEdge == halted /\ ~wasHalted
Blocks          == halted

\* is_halted, which fails open; a rising edge that the floor has not announced is.
Gate ==
    /\ pc = "gate"
    /\ \/ /\ Blocks /\ (wasHalted \/ haltedByFloor)
          /\ pc' = "idle" /\ wasHalted' = TRUE /\ UNCHANGED <<notice, used>>
       \/ /\ Blocks /\ ~(wasHalted \/ haltedByFloor)
          /\ pc' = "ask" /\ notice' = Owed /\ UNCHANGED <<wasHalted, used>>
       \/ ~Blocks /\ pc' = "trade" /\ UNCHANGED <<wasHalted, notice, used>>
       \/ pc' = "trade" /\ Spend("lost") /\ UNCHANGED <<wasHalted, notice>>
    /\ UNCHANGED <<switch, bar, firstFail, haltedByFloor, buttons, bot>>

\* Mutant of Finished: the next halt is still taken for the floor's.
MutFinishedKeepsFloor == wasHalted' = FALSE /\ notice' = Unsaid /\ UNCHANGED haltedByFloor

\* _finalise of a cycle that was not halted.
Finished == wasHalted' = FALSE /\ notice' = Unsaid /\ haltedByFloor' = FALSE

\* _handle_execution of a fill and of a failure.
Filled == firstFail' = None /\ fillsSince' = fillsSince + 1
Failed == /\ firstFail' = (IF firstFail = None THEN hour ELSE firstFail)
          /\ UNCHANGED fillsSince

\* Everything after the switch: a fill, a failure, no execution; or an exception, after
\* which run_forever goes on to the next bar.
Trade ==
    /\ pc = "trade" /\ pc' = "idle"
    /\ \/ (Filled \/ Failed \/ UNCHANGED <<firstFail, fillsSince>>) /\ Finished
       \/ UNCHANGED <<firstFail, fillsSince, wasHalted, haltedByFloor, notice>>
    /\ UNCHANGED <<halted, bar, buttons, bot, used>>

-----------------------------------------------------------------------------
(* The bot's polling thread.                                               *)

\* The time of an approval runs out.
Lapse ==
    /\ \E a \in pending \ lapsed : lapsed' = lapsed \union {a}
    /\ UNCHANGED <<switch, bar, loop, sent, pending, bot, used>>

Acknowledged       == IF poller.next > confirmed THEN poller.next - 1 ELSE confirmed

\* _expire_pending, whose on_reject is None here, and getUpdates with the offset:
\* Telegram forgets what comes before it, and returns the rest.
GetUpdates ==
    /\ poller.pc = "poll"
    /\ pending' = pending \ lapsed /\ lapsed' = {}
    /\ confirmed' = Acknowledged
    /\ LET first == IF poller.next > confirmed THEN poller.next ELSE confirmed + 1
       IN poller' = IF first > Len(updates)
                    THEN [Asleep EXCEPT !.next = first]
                    ELSE [pc |-> "handle", next |-> first, upto |-> Len(updates)]
    /\ UNCHANGED <<switch, bar, loop, sent, updates, fired, handled, used>>

\* The offset goes up before the update is processed, and the batch goes on.
Onward == IF poller.next < poller.upto THEN [poller EXCEPT !.next = @ + 1, !.pc = "handle"]
                                       ELSE [Asleep EXCEPT !.next = poller.next + 1]

\* A slash command.
Command ==
    /\ poller.pc = "handle" /\ updates[poller.next].kind # "approve"
    /\ SetHalted(updates[poller.next].kind = "halt")
    /\ handled' = [handled EXCEPT ![poller.next] = @ + 1]
    /\ poller' = Onward
    /\ UNCHANGED <<bar, loop, buttons, updates, confirmed, fired>>

\* Mutant of Popped: the approval is looked up and stays.
MutPoppedStays(a) == pending' = pending /\ lapsed' = lapsed
Popped(a)         == pending' = pending \ {a} /\ lapsed' = lapsed \ {a}

\* A press on Resume: the approval is popped, and acted on if it was there in time.
Press ==
    /\ poller.pc = "handle" /\ updates[poller.next].kind = "approve"
    /\ LET a == updates[poller.next].ask
       IN /\ Popped(a)
          /\ \/ /\ a \in pending \ lapsed
                /\ fired' = [fired EXCEPT ![a] = @ + 1]
                /\ poller' = [poller EXCEPT !.pc = "resume"]
             \/ /\ a \notin pending \ lapsed
                /\ poller' = Onward /\ UNCHANGED fired
    /\ handled' = [handled EXCEPT ![poller.next] = @ + 1]
    /\ UNCHANGED <<switch, bar, loop, sent, updates, confirmed, used>>

\* The on_approve of the approval just popped.
Resume ==
    /\ poller.pc = "resume"
    /\ SetHalted(FALSE)
    /\ poller' = Onward
    /\ UNCHANGED <<bar, loop, buttons, updates, confirmed, fired, handled>>

-----------------------------------------------------------------------------
(* The operator, and crashes.                                              *)

\* A command or a press; a message can be pressed again, and as soon as it is there.
Tap ==
    /\ Len(updates) < MaxUpdates
    /\ \E t \in [kind : {"halt", "resume"}, ask : {0}] \union [kind : {"approve"}, ask : 1..sent] :
           updates' = Append(updates, t)
    /\ UNCHANGED <<switch, bar, loop, buttons, confirmed, poller, fired, handled, used>>

\* The cockpit, POST /halt and /resume, and the wallet manager.
Cockpit ==
    /\ Spend("cockpit")
    /\ \E on \in BOOLEAN : Turn(on)
    /\ UNCHANGED <<bar, loop, buttons, bot>>

\* Memory is lost: the loop's, the registered approvals, the bot's offset.
Crash ==
    /\ Spend("crash")
    /\ pc' = "idle" /\ firstFail' = None /\ wasHalted' = FALSE /\ haltedByFloor' = FALSE
    /\ notice' = Unsaid
    /\ pending' = {} /\ lapsed' = {} /\ poller' = Asleep
    /\ UNCHANGED <<switch, bar, sent, updates, confirmed, fired, handled>>

\* The last bar has been dealt with.
Rest == pc = "idle" /\ hour = MaxHour /\ UNCHANGED vars

Poll == GetUpdates \/ Command \/ Press \/ Resume

Next == \/ NextBar \/ Watchdog \/ Floor \/ Ask \/ Register \/ Stop \/ Gate \/ Trade
        \/ Poll \/ Lapse \/ Tap \/ Cockpit \/ Crash \/ Rest

Spec == Init /\ [][Next]_vars

-----------------------------------------------------------------------------
(* Properties.                                                             *)

\* "The agent halts within one cycle" (convex/config.ts): from the moment the switch is
\* on, by whomever, the cycle that had passed the gate may fill, and one cycle for each
\* reading of the switch that was lost.
HaltsWithinOneCycle == halted => fillsSince <= 1 + used["lost"]

\* Nothing fills at or under the floor while Convex answers, whatever the operator does
\* with the switch: a Resume does not outvote the floor.
FloorStopsTrading == [][(under /\ fillsSince' > fillsSince) => used["lost"] > 0]_vars

\* "on_approve / on_reject fire at most once" (agent/notify.py): over repeated presses,
\* redelivered updates, expiry and restarts.
FiresOnce == \A a \in Asks : fired[a] <= 1

\* An update is acted on once; a second time only if a crash came before it was
\* confirmed to Telegram.
HandledOnce == \A u \in 1..MaxUpdates : handled[u] <= 1 + used["crash"]

\* A halt the loop has on record was announced, by the floor or by the switch: no sequence
\* of floor halts, resumes, kills and exceptions leaves it without a notice that was due,
\* and the operator is untold only if every one of them was lost - of a floor that stays
\* hit, one in each cycle (loop.py:515-548, 276-289, 1373-1381).
HaltIsAnnounced ==
    pc = "idle" /\ wasHalted => notice.due > 0 /\ (notice.heard \/ notice.lost >= notice.due)

\* Nothing is forgotten: what Telegram will not send again was acted on, so a crash
\* between two updates of a batch loses neither.
NoUpdateLost == \A u \in 1..confirmed : handled[u] > 0
=============================================================================
