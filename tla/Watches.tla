------------------------------ MODULE Watches ------------------------------
(***************************************************************************)
(* Market watches: rows of the Convex table watches (convex/watches.ts)    *)
(* that every cycle compares with what it sees (agent/watches.py, and      *)
(* _check_watches in agent/loop.py).  A watch alerts when its condition    *)
(* becomes true; the flag last_state of the row, written before the alert, *)
(* keeps it from alerting again until the condition was seen false.        *)
(*                                                                         *)
(* Several threads may check the same rows: the loop, and POST /cycle.     *)
(* Neither holds a claim on a row, each write may be lost                  *)
(* (ConvexBridge._call), and the process may die between any two steps.    *)
(* A cycle that ends early (halt, floor, autopilot, KOL overlay) never     *)
(* gets to the watches: it is a Tick that does not happen.                 *)
(***************************************************************************)
EXTENDS Naturals, FiniteSets

CONSTANTS
    Watch,    \* ids of rows, numbers in the order of creation
    Threads,  \* threads that run cycles
    Loop,     \* the one of them that is scheduled (run_forever)
    Raw,      \* what the cockpit may submit: [kind, target, op, threshold]
    Markets,  \* what a bar may show: [symbol, price, regime, drawdown, equity]
    Pushed,   \* prices the push feed may hold
    MaxEvents \* bound: losses, crashes, halts and moves of the market together

Kinds        == {"price", "regime", "drawdown", "equity"}
NumericKinds == {"price", "drawdown", "equity"}
NumericOps   == {"lt", "gt"}
Nothing      == "none"
NoPrice      == 0

ASSUME WatchAssumption  == Watch \subseteq Nat /\ IsFiniteSet(Watch)
ASSUME LoopAssumption   == Loop \in Threads
ASSUME RawAssumption    == Raw # {}
ASSUME MarketAssumption == Pushed \subseteq Nat \ {NoPrice} /\ Markets # {}
ASSUME LimitAssumption  == MaxEvents \in Nat

VARIABLES
    row,      \* the table: [spec, status, last_state]
    market,   \* the newest bar with the ledger's equity and drawdown
    push,     \* the price in the push feed's cache while it is fresh
    halted,   \* cycles return before the watches
    worker,   \* the threads: [pc, todo, seen, shot]
    alerted,  \* history: alert sent since the row was last armed
    dropped,  \* history: since then an alert died on its way
    excused,  \* history: the row may fire again (armed, or the write was lost)
    passed,   \* history: rows another thread wrote since this one read them
    owed,     \* history: a cycle saw the condition false, and no alert was tried since
    used      \* environment events so far

world   == <<market, push, halted>>
history == <<alerted, dropped, excused, passed, owed>>
vars    == <<row, world, worker, history, used>>

Spend == used < MaxEvents /\ used' = used + 1

-----------------------------------------------------------------------------
(* One watch against one snapshot.                                         *)

\* Submissions that are stored, and the spec each is stored as.
Valid(raw) ==
    /\ raw.kind \in Kinds
    /\ raw.kind # "regime" => raw.op \in NumericOps
    /\ raw.kind \in {"regime", "price"} => raw.target # ""

validate_watch_spec(raw) ==
    IF raw.kind = "regime" THEN [raw EXCEPT !.op = "eq", !.threshold = 0]
    ELSE [raw EXCEPT !.target = IF raw.kind = "price" THEN raw.target ELSE ""]

\* A price watch on a symbol that is not traded now observes nothing.
Observable(spec, shot) == spec.kind = "price" => spec.target = shot.symbol

ConditionTrue(spec, shot) ==
    /\ Observable(spec, shot)
    /\ CASE spec.op = "eq" -> spec.target = shot.regime
         [] spec.op = "lt" -> shot[spec.kind] < spec.threshold
         [] spec.op = "gt" -> shot[spec.kind] > spec.threshold

\* Mutant of Evaluate: level-triggered.
MutEvaluateLevel(spec, last, shot) ==
    IF ~Observable(spec, shot) THEN Nothing
    ELSE IF ConditionTrue(spec, shot) THEN "fired"
    ELSE IF last = "fired" THEN "clear" ELSE Nothing

\* Mutant of Evaluate: a watch that fired is never armed again.
MutEvaluateOnce(spec, last, shot) ==
    IF ConditionTrue(spec, shot) /\ last # "fired" THEN "fired" ELSE Nothing

\* The state to write, or Nothing when nothing changed.
Evaluate(spec, last, shot) ==
    IF ~Observable(spec, shot) THEN Nothing
    ELSE IF ConditionTrue(spec, shot) /\ last # "fired" THEN "fired"
    ELSE IF ~ConditionTrue(spec, shot) /\ last = "fired" THEN "clear"
    ELSE Nothing

-----------------------------------------------------------------------------
NoRow     == [spec |-> CHOOSE raw \in Raw : TRUE, status |-> "absent", last_state |-> "clear"]
Resting   == [pc |-> "idle", todo |-> {}, seen |-> [w \in Watch |-> "clear"],
              shot |-> CHOOSE m \in Markets : TRUE]
Exists(w) == row[w].status # "absent"
Active(w) == row[w].status = "active"
Snapshot  == IF push = NoPrice THEN market ELSE [market EXCEPT !.price = push]
Shots     == Markets \union {[m EXCEPT !.price = p] : m \in Markets, p \in Pushed}
First(s)  == CHOOSE w \in s : \A v \in s : w <= v

Specs     == Raw \union {validate_watch_spec(raw) : raw \in {r \in Raw : Valid(r)}}

TypeOK ==
    /\ row \in [Watch -> [spec : Specs, status : {"absent", "active", "cancelled"},
                          last_state : {"clear", "fired"}]]
    /\ market \in Markets /\ push \in Pushed \union {NoPrice} /\ halted \in BOOLEAN
    /\ worker \in [Threads -> [pc : {"idle", "check", "fire"}, todo : SUBSET Watch,
                              seen : [Watch -> {"clear", "fired"}], shot : Shots]]
    /\ \A t \in Threads : worker[t].pc # "idle" => worker[t].todo # {}
    /\ alerted \subseteq Watch /\ dropped \subseteq Watch /\ excused \subseteq Watch
    /\ owed \subseteq Watch
    /\ passed \in [Threads -> SUBSET Watch]
    /\ used \in Nat

Init ==
    /\ row = [w \in Watch |-> NoRow]
    /\ market \in Markets /\ push = NoPrice /\ halted = FALSE
    /\ worker = [t \in Threads |-> Resting]
    /\ alerted = {} /\ dropped = {} /\ excused = Watch
    /\ passed = [t \in Threads |-> {}] /\ owed = {}
    /\ used = 0

-----------------------------------------------------------------------------
(* The operator and the market.                                            *)

create(w, raw) ==
    /\ ~Exists(w) /\ \A v \in Watch : v < w => Exists(v)
    /\ Valid(raw)
    /\ row' = [row EXCEPT ![w] = [spec |-> validate_watch_spec(raw), status |-> "active",
                                  last_state |-> "clear"]]
    /\ excused' = excused \union {w} /\ owed' = owed \union {w}
    /\ UNCHANGED <<world, worker, alerted, dropped, passed, used>>

cancel(w) ==
    /\ Active(w)
    /\ row' = [row EXCEPT ![w].status = "cancelled"]
    /\ UNCHANGED <<world, worker, history, used>>

Bar ==
    /\ Spend
    /\ market' \in Markets \ {market}
    /\ UNCHANGED <<row, push, halted, worker, history>>

\* The push feed's cache is updated, or its price grows too old.
fresh_price ==
    /\ Spend
    /\ push' \in (Pushed \union {NoPrice}) \ {push}
    /\ UNCHANGED <<row, market, halted, worker, history>>

Halt ==
    /\ IF halted THEN UNCHANGED used ELSE Spend
    /\ halted' = ~halted
    /\ UNCHANGED <<row, market, push, worker, history>>

-----------------------------------------------------------------------------
(* A cycle that gets to its watches.                                       *)

Tick(t) ==
    /\ worker[t].pc = "idle" /\ ~halted
    /\ \E w \in Watch : Active(w)
    /\ worker' = [worker EXCEPT ![t] =
         [pc |-> "check", todo |-> {w \in Watch : Active(w)}, shot |-> Snapshot,
          seen |-> [w \in Watch |-> IF Active(w) THEN row[w].last_state ELSE "clear"]]]
    /\ passed' = [passed EXCEPT ![t] = {}]
    /\ owed' = owed \union {w \in Watch : /\ Active(w) /\ Observable(row[w].spec, Snapshot)
                                          /\ ~ConditionTrue(row[w].spec, Snapshot)}
    /\ UNCHANGED <<row, world, alerted, dropped, excused, used>>

\* The thread is done with w; with an empty list its cycle goes on.
Advance(t, w) ==
    worker' = [worker EXCEPT ![t] =
        IF worker[t].todo = {w} THEN Resting
        ELSE [pc |-> "check", todo |-> worker[t].todo \ {w}, shot |-> worker[t].shot,
              seen |-> [worker[t].seen EXCEPT ![w] = "clear"]]]

\* set_watch_state: what the row says, and what that means to the history.
set_watch_state(t, w, s) ==
    /\ row' = [row EXCEPT ![w].last_state = s]
    /\ alerted' = alerted \ {w} /\ dropped' = dropped \ {w}
    /\ excused' = IF s = "clear" THEN excused \union {w} ELSE excused \ {w}
    /\ passed' = [u \in Threads |-> IF u = t THEN passed[u] \ {w}
                                    ELSE passed[u] \union ({w} \intersect worker[u].todo)]
    /\ UNCHANGED <<owed, used>>

\* The write is lost; of the flag a cycle did not manage to clear no alert is owed.
Lost(t, w) ==
    /\ Spend
    /\ excused' = excused \union {w} /\ owed' = owed \ {w}
    /\ passed' = [passed EXCEPT ![t] = @ \ {w}]
    /\ UNCHANGED <<row, alerted, dropped>>

Unchanged(t, w) ==
    /\ passed' = [passed EXCEPT ![t] = @ \ {w}]
    /\ UNCHANGED <<row, alerted, dropped, excused, owed, used>>

Verdict(t) ==
    LET w == First(worker[t].todo) IN Evaluate(row[w].spec, worker[t].seen[w], worker[t].shot)

\* Mutant of Check: the first alert of a cycle ends it.
MutCheckDropsRest(t) ==
    /\ worker[t].pc = "check"
    /\ LET w == First(worker[t].todo) IN
       IF Verdict(t) = Nothing
       THEN Advance(t, w) /\ Unchanged(t, w)
       ELSE /\ set_watch_state(t, w, Verdict(t)) \/ Lost(t, w)
            /\ worker' = [worker EXCEPT ![t] = Resting]
    /\ UNCHANGED world

\* process_watches: the flag first, the alert after it.
Check(t) ==
    /\ worker[t].pc = "check"
    /\ LET w == First(worker[t].todo) IN
       IF Verdict(t) = Nothing
       THEN Advance(t, w) /\ Unchanged(t, w)
       ELSE /\ set_watch_state(t, w, Verdict(t)) \/ Lost(t, w)
            /\ IF Verdict(t) = "fired" THEN worker' = [worker EXCEPT ![t].pc = "fire"]
               ELSE Advance(t, w)
    /\ UNCHANGED world

\* _fire: the channel refuses the agent's name (Watcher is not in AGENTS), so the alert
\* is the notice alone, and sending it may fail.
Fire(t) ==
    /\ worker[t].pc = "fire"
    /\ LET w == First(worker[t].todo) IN
       /\ Advance(t, w)
       /\ owed' = owed \ {w}
       /\ \/ alerted' = alerted \union {w} /\ UNCHANGED <<dropped, used>>
          \/ Spend /\ dropped' = dropped \union {w} /\ UNCHANGED alerted
    /\ UNCHANGED <<row, world, excused, passed>>

\* The process dies; what it was about to send is gone.
Crash(t) ==
    /\ Spend
    /\ worker' = [worker EXCEPT ![t] = Resting]
    /\ dropped' = IF worker[t].pc = "fire" THEN dropped \union {First(worker[t].todo)} ELSE dropped
    /\ passed' = [passed EXCEPT ![t] = {}] /\ owed' = owed \ worker[t].todo
    /\ UNCHANGED <<row, world, alerted, excused>>

Next ==
    \/ \E w \in Watch : cancel(w) \/ \E raw \in Raw : create(w, raw)
    \/ Bar \/ fresh_price \/ Halt
    \/ \E t \in Threads : Tick(t) \/ Check(t) \/ Fire(t) \/ Crash(t)

Spec == Init /\ [][Next]_vars

\* The loop's cycles are run again and again (run_forever); nothing says that POST /cycle
\* is called.  What either began it goes on with.
Fairness == WF_vars(Tick(Loop)) /\ \A t \in Threads : WF_vars(Check(t)) /\ WF_vars(Fire(t))
FairSpec == Spec /\ Fairness

-----------------------------------------------------------------------------
Firing(w) == \E t \in Threads : worker[t].pc = "fire" /\ First(worker[t].todo) = w

\* A row that says fired stands for an alert that was sent, is just being sent, or died on
\* its way: no alert is suppressed by a flag that nothing was sent for (watches.py:146).
ArmedMeansAnnounced ==
    \A w \in Watch : Exists(w) /\ row[w].last_state = "fired"
        => w \in alerted \/ w \in dropped \/ Firing(w)

\* A condition that stays true alerts once.  A thread decides to alert again only if the
\* row was armed in between, the write of the flag was lost, or another thread wrote the
\* row after this one had read it.
SteadyConditionAlertsOnce ==
    [][\A t \in Threads :
         worker[t].pc = "check" /\ worker'[t].pc = "fire"
            => \E w \in worker[t].todo :
                 First(worker[t].todo) = w /\ (w \in excused \/ w \in passed[t])]_vars

\* Every episode of a condition is announced: when it holds from some time on, while the
\* watch is active and cycles get to it, an alert was sent since a cycle last saw it false
\* (or since the watch was made), unless that alert, or the write that arms the watch
\* again (watches.py:125), was lost.
TrueConditionIsAnnounced ==
    \A w \in Watch :
        <>[](Active(w) /\ ~halted /\ ConditionTrue(row[w].spec, Snapshot)) => <>[](w \notin owed)
=============================================================================
