---------------------------- MODULE CommandQueue ----------------------------
(***************************************************************************)
(* Operator commands: enqueued by the cockpit or by an approved proposal   *)
(* (convex/agentCommands.ts, convex/approvals.ts), fetched and executed by *)
(* the drainers (agent/command_worker.py) - the tail of every iteration of *)
(* run_forever and every POST /twak/drain - through ConvexBridge, whose    *)
(* calls fail silently.                                                    *)
(*                                                                         *)
(* Commands are numbered in the order of queued_at_ms.  What a command     *)
(* does is one side effect, which happens or does not; the handler returns *)
(* or raises, whichever it was, and the row says no more than that.        *)
(***************************************************************************)
EXTENDS Naturals, FiniteSets

CONSTANTS
    Drainers,  \* threads that drain: the loop's, and those of POST /twak/drain
    Budget,    \* commands one drain may run (5 in the loop, 1 in the endpoint)
    Window,    \* rows agentCommands:list returns (20)
    Requests,  \* approval requests
    MaxCmds,   \* bound: commands ever enqueued
    Max        \* bound: how often each environment event may happen

Events   == {"crash", "lost", "malformed"}
Ids      == 1..MaxCmds
Statuses == {"absent", "queued", "running", "done", "failed"}

ASSUME DrainAssumption == /\ Drainers # {} /\ IsFiniteSet(Drainers)
                          /\ Budget \in [Drainers -> Nat \ {0}]
                          /\ Window \in Nat \ {0}
ASSUME CmdAssumption   == MaxCmds \in Nat \ {0} /\ "user" \notin Requests
ASSUME LimitAssumption == Max \in [Events -> Nat]

VARIABLES
    count, status, origin, malformed,  \* agent_commands: rows, in order
    request,                           \* approval_requests: status of each
    garbled,                           \* requests whose payload is not JSON
    worker,                            \* the drainers
    effects,                           \* how often each command took effect
    used                               \* environment events so far

table   == <<count, status, origin, malformed>>
desk    == <<request, garbled>>
vars    == <<table, desk, worker, effects, used>>

Doing(pc, i, n, ok) == [pc |-> pc, cmd |-> i, left |-> n, ok |-> ok]
Resting     == Doing("idle", 1, 0, FALSE)
Fetching(n) == Doing("fetch", 1, n, FALSE)
Spend(e)  == used[e] < Max[e] /\ used' = [used EXCEPT ![e] = @ + 1]

TypeOK ==
    /\ count \in 0..MaxCmds
    /\ status \in [Ids -> Statuses] /\ malformed \in [Ids -> BOOLEAN]
    /\ origin \in [Ids -> Requests \union {"user"}]
    /\ \A i \in Ids : status[i] = "absent" <=> i > count
    /\ request \in [Requests -> {"absent", "pending", "approved", "rejected"}]
    /\ garbled \subseteq Requests
    /\ worker \in [Drainers -> [pc : {"idle", "fetch", "mark", "dispatch", "report"}, cmd : Ids,
                                left : Nat, ok : BOOLEAN]]
    /\ effects \in [Ids -> Nat]
    /\ used \in [Events -> Nat]

Init ==
    /\ count = 0 /\ status = [i \in Ids |-> "absent"]
    /\ origin = [i \in Ids |-> "user"] /\ malformed = [i \in Ids |-> FALSE]
    /\ request = [r \in Requests |-> "absent"] /\ garbled = {}
    /\ worker = [w \in Drainers |-> Resting]
    /\ effects = [i \in Ids |-> 0]
    /\ used = [e \in Events |-> 0]

-----------------------------------------------------------------------------
(* The tables.                                                             *)

\* A new row at the end of agent_commands.
Insert(who, bad) ==
    /\ count < MaxCmds
    /\ count' = count + 1
    /\ status' = [status EXCEPT ![count + 1] = "queued"]
    /\ origin' = [origin EXCEPT ![count + 1] = who]
    /\ malformed' = [malformed EXCEPT ![count + 1] = bad]

\* agentCommands:enqueue takes params as it comes, JSON or not.
Enqueue ==
    /\ \/ Insert("user", FALSE) /\ UNCHANGED used
       \/ Insert("user", TRUE) /\ Spend("malformed")
    /\ UNCHANGED <<desk, worker, effects>>

\* approvals:propose, with a payload that parses or not.
Propose(r) ==
    /\ request[r] = "absent"
    /\ request' = [request EXCEPT ![r] = "pending"]
    /\ \/ UNCHANGED <<garbled, used>>
       \/ garbled' = garbled \union {r} /\ Spend("malformed")
    /\ UNCHANGED <<table, worker, effects>>

\* approvals:resolve, a transaction: an approval patches the request and inserts
\* the command, and does neither when the payload does not parse.
Resolve(r) ==
    /\ request[r] = "pending"
    /\ \/ /\ request' = [request EXCEPT ![r] = "rejected"]
          /\ UNCHANGED table
       \/ /\ r \notin garbled
          /\ request' = [request EXCEPT ![r] = "approved"]
          /\ Insert(r, FALSE)
    /\ UNCHANGED <<garbled, worker, effects, used>>

-----------------------------------------------------------------------------
(* The drainers.                                                           *)

\* A drain starts: for _ in range(5) in run_forever, one call in /twak/drain.
Drain(w) ==
    /\ worker[w].pc = "idle"
    /\ worker' = [worker EXCEPT ![w] = Fetching(Budget[w])]
    /\ UNCHANGED <<table, desk, effects, used>>

\* Mutants of Waiting: rows found "running" are taken up again; the newest
\* queued row is served first.
Listed == {i \in 1..count : i + Window > count}
MutWaitingOrRunning == {i \in Listed : status[i] \in {"queued", "running"}}
Waiting == {i \in Listed : status[i] = "queued"}

MutFirstNewest(i, set) == i \in set /\ \A j \in set : j <= i
First(i, set)          == i \in set /\ \A j \in set : i <= j

\* pop_queued_command: the oldest queued row among the newest Window rows.  The
\* read may fail; json.loads of malformed params raises out of the drain.
Fetch(w) ==
    /\ worker[w].pc = "fetch"
    /\ \/ /\ Waiting = {} \/ \E i \in Waiting : First(i, Waiting) /\ malformed[i]
          /\ worker' = [worker EXCEPT ![w] = Resting]
          /\ UNCHANGED used
       \/ /\ worker' = [worker EXCEPT ![w] = Resting]
          /\ Spend("lost")
       \/ \E i \in Waiting :
            /\ First(i, Waiting) /\ ~malformed[i]
            /\ worker' = [worker EXCEPT ![w] = Doing("mark", i, worker[w].left, FALSE)]
            /\ UNCHANGED used
    /\ UNCHANGED <<table, desk, effects>>

\* A status update, which overwrites whatever is there, or is lost unnoticed.
Write(i, new) ==
    \/ status' = [status EXCEPT ![i] = new] /\ UNCHANGED used
    \/ UNCHANGED status /\ Spend("lost")

\* update_command_status(running).
Mark(w) ==
    /\ worker[w].pc = "mark"
    /\ Write(worker[w].cmd, "running")
    /\ worker' = [worker EXCEPT ![w].pc = "dispatch"]
    /\ UNCHANGED <<count, origin, malformed, desk, effects>>

\* _dispatch returns or raises, and neither says whether the effect took place: it
\* raises when the CLI fails or times out, after the broadcast or before it; it returns
\* when the CLI ends with exit code 0, were it with an error in its reply, without a
\* hash, or with the hash of a transaction that reverts.
Dispatch(w) ==
    /\ worker[w].pc = "dispatch"
    /\ \E happens, returns \in BOOLEAN :
        /\ effects' = IF happens THEN [effects EXCEPT ![worker[w].cmd] = @ + 1] ELSE effects
        /\ worker' = [worker EXCEPT ![w] = Doing("report", worker[w].cmd, worker[w].left, returns)]
    /\ UNCHANGED <<table, desk, used>>

\* Where a drain goes after one command.
Continue(w) ==
    worker' = [worker EXCEPT ![w] = IF worker[w].left > 1
                                    THEN Fetching(worker[w].left - 1)
                                    ELSE Resting]

\* update_command_status(done or failed); the next command, if the budget allows.
Report(w) ==
    /\ worker[w].pc = "report"
    /\ Write(worker[w].cmd, IF worker[w].ok THEN "done" ELSE "failed")
    /\ Continue(w)
    /\ UNCHANGED <<count, origin, malformed, desk, effects>>

\* A process dies and is restarted, with the drainers in it (the loop and the server
\* may be two processes): nothing takes up a row left "running".
Crash ==
    /\ Spend("crash")
    /\ \E dead \in SUBSET Drainers \ {{}} :
           worker' = [w \in Drainers |-> IF w \in dead THEN Resting ELSE worker[w]]
    /\ UNCHANGED <<table, desk, effects>>

DrainStep(w) == Drain(w) \/ Fetch(w) \/ Mark(w) \/ Dispatch(w) \/ Report(w)

Next == \/ Enqueue \/ Crash
        \/ \E r \in Requests : Propose(r) \/ Resolve(r)
        \/ \E w \in Drainers : DrainStep(w)

Spec == Init /\ [][Next]_vars

\* run_forever drains again and again, and a handler returns or raises.
FairSpec == Spec /\ \A w \in Drainers : WF_vars(DrainStep(w))

-----------------------------------------------------------------------------
(* Properties.                                                             *)

\* An approval becomes one command, a rejection or an open request none, however
\* often the buttons are pressed (approvals:resolve checks "pending" in the same
\* transaction).
OneCommandPerApproval ==
    \A r \in Requests :
        Cardinality({i \in 1..count : origin[i] = r}) = IF request[r] = "approved" THEN 1 ELSE 0

\* No claim is taken on a row, so two drainers may execute it twice, and a row whose
\* mark was lost is executed again; but that is all: each drainer once, and once more
\* for each update that was lost, whatever crashes and in whatever order.
RerunsAreBounded ==
    \A i \in Ids : effects[i] <= Cardinality(Drainers) + used["lost"]

\* One drainer, no lost call and a burst that fits the window: the commands are
\* taken up in the order they were queued and executed at most once, over
\* restarts too.
Promise == INSTANCE FifoOnce WITH Limit <- MaxCmds, accepted <- count,
                                  taken <- Cardinality({i \in 1..count : status[i] # "queued"}),
                                  runs <- effects
ServedOnceInOrder == Promise!Spec

\* A queued command with no malformed one before it is taken up eventually.
QueuedIsServed ==
    \A i \in Ids : (status[i] = "queued" /\ \A j \in 1..i : ~malformed[j]) ~> (status[i] # "queued")

=============================================================================
