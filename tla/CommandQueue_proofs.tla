------------------------- MODULE CommandQueue_proofs -------------------------
(***************************************************************************)
(* Proofs about module CommandQueue, for every number of drainers, every   *)
(* budget, window and number of commands, and however many calls are lost  *)
(* and processes killed.                                                   *)
(***************************************************************************)
EXTENDS CommandQueue, FiniteSetTheorems, TLAPS

-----------------------------------------------------------------------------
(* Types.                                                                  *)

Pcs   == {"idle", "fetch", "mark", "dispatch", "report"}
State == [pc : Pcs, cmd : Ids, left : Nat, ok : BOOLEAN]

LEMMA DoingTyped ==
  /\ Ids \subseteq Nat \ {0} /\ Resting \in State /\ Resting.pc = "idle"
  /\ \A n \in Nat : Fetching(n) \in State /\ Fetching(n).pc = "fetch"
  /\ \A pc \in Pcs, i \in Ids, n \in Nat, ok \in BOOLEAN :
        /\ Doing(pc, i, n, ok) \in State /\ Doing(pc, i, n, ok).pc = pc
        /\ Doing(pc, i, n, ok).cmd = i /\ Doing(pc, i, n, ok).ok = ok
  BY CmdAssumption DEF Resting, Fetching, Doing, State, Pcs, Ids

\* A spent event leaves the counters natural, and no smaller.
LEMMA SpendTyped ==
  ASSUME TypeOK, NEW e \in Events, Spend(e)
  PROVE  /\ used' \in [Events -> Nat]
         /\ used'[e] = used[e] + 1
         /\ \A f \in Events \ {e} : used'[f] = used[f]
  BY DEF Spend, TypeOK

LEMMA LostGrows ==
  ASSUME TypeOK, (\E e \in Events : Spend(e)) \/ UNCHANGED used
  PROVE  used["lost"] \in Nat /\ used["lost"] <= used'["lost"]
  <1>. "lost" \in Events
    BY DEF Events
  <1>1. CASE UNCHANGED used
    BY <1>1 DEF TypeOK
  <1>2. ASSUME NEW e \in Events, Spend(e)
        PROVE  used["lost"] \in Nat /\ used["lost"] <= used'["lost"]
    BY <1>2, SpendTyped DEF TypeOK
  <1>. QED BY <1>1, <1>2

\* A new row is the only one that changes.
LEMMA InsertTyped ==
  ASSUME TypeOK, NEW who \in Requests \union {"user"}, NEW bad \in BOOLEAN, Insert(who, bad)
  PROVE  /\ count' \in 0..MaxCmds
         /\ status' \in [Ids -> Statuses] /\ malformed' \in [Ids -> BOOLEAN]
         /\ origin' \in [Ids -> Requests \union {"user"}]
         /\ \A i \in Ids : status'[i] = "absent" <=> i > count'
         /\ count + 1 \in Ids
  <1>. count \in Nat /\ MaxCmds \in Nat /\ count < MaxCmds /\ count + 1 \in Ids
    BY CmdAssumption DEF TypeOK, Insert, Ids
  <1>1. /\ count' \in 0..MaxCmds
        /\ status' \in [Ids -> Statuses] /\ malformed' \in [Ids -> BOOLEAN]
        /\ origin' \in [Ids -> Requests \union {"user"}]
    BY DEF TypeOK, Insert, Statuses
  <1>2. ASSUME NEW i \in Ids
        PROVE  status'[i] = "absent" <=> i > count'
    <2>. i \in Nat
      BY CmdAssumption DEF Ids
    <2>1. CASE i = count + 1
      BY <2>1 DEF TypeOK, Insert
    <2>2. CASE i # count + 1
      <3>1. status'[i] = status[i] /\ count' = count + 1
        BY <2>2 DEF TypeOK, Insert
      <3>2. status[i] = "absent" <=> i > count
        BY DEF TypeOK
      <3>. QED BY <2>2, <3>1, <3>2
    <2>. QED BY <2>1, <2>2
  <1>. QED BY <1>1, <1>2

\* A status update leaves the absent rows absent and makes no row wait.
LEMMA WriteTyped ==
  ASSUME TypeOK, NEW k \in Ids, NEW new \in {"running", "done", "failed"}, Write(k, new),
         status[k] # "absent"
  PROVE  /\ status' \in [Ids -> Statuses]
         /\ \A i \in Ids : status'[i] = "absent" <=> i > count
         /\ \A i \in Ids : status'[i] = status[i] \/ (i = k /\ status'[i] = new)
         /\ used' \in [Events -> Nat] /\ used["lost"] <= used'["lost"]
         /\ status'[k] # new => used'["lost"] = used["lost"] + 1
  <1>. "lost" \in Events /\ used \in [Events -> Nat] /\ status \in [Ids -> Statuses]
    BY DEF Events, TypeOK
  <1>1. CASE status' = [status EXCEPT ![k] = new] /\ UNCHANGED used
    BY <1>1 DEF TypeOK, Statuses
  <1>2. CASE UNCHANGED status /\ Spend("lost")
    BY <1>2, SpendTyped DEF TypeOK
  <1>. QED BY <1>1, <1>2 DEF Write

\* The row a drainer works on exists.
Holding == \A w \in Drainers : worker[w].pc \in {"mark", "dispatch", "report"} =>
                                 status[worker[w].cmd] # "absent"

Typed == TypeOK /\ Holding

LEMMA TypedInit == Init => Typed
  <1>. SUFFICES ASSUME Init PROVE Typed
    OBVIOUS
  <1>1. status = [i \in Ids |-> "absent"] /\ \A i \in Ids : i > 0
    BY CmdAssumption DEF Init, Ids
  <1>2. /\ count \in 0..MaxCmds /\ \A i \in Ids : status[i] = "absent" <=> i > count
        /\ status \in [Ids -> Statuses]
    BY <1>1, CmdAssumption DEF Init, Statuses
  <1>3. worker \in [Drainers -> State] /\ \A w \in Drainers : worker[w].pc = "idle"
    BY DoingTyped DEF Init
  <1>4. /\ malformed \in [Ids -> BOOLEAN] /\ origin \in [Ids -> Requests \union {"user"}]
        /\ request \in [Requests -> {"absent", "pending", "approved", "rejected"}]
        /\ garbled \subseteq Requests /\ effects \in [Ids -> Nat] /\ used \in [Events -> Nat]
    BY DEF Init
  <1>. QED BY <1>1, <1>2, <1>3, <1>4 DEF Typed, TypeOK, Holding, State, Pcs

\* What a waiting row is.
LEMMA WaitingTyped ==
  ASSUME TypeOK, NEW i \in Waiting
  PROVE  i \in Ids /\ status[i] = "queued"
  <1>. count \in 0..MaxCmds /\ MaxCmds \in Nat
    BY CmdAssumption DEF TypeOK
  <1>. QED BY DEF Waiting, Listed, Ids

\* The worker after each step of a drainer, and what else stays.
LEMMA ContinueTyped ==
  ASSUME worker \in [Drainers -> State], NEW w \in Drainers, Continue(w)
  PROVE  /\ worker' \in [Drainers -> State] /\ worker'[w].pc \in {"idle", "fetch"}
         /\ \A v \in Drainers \ {w} : worker'[v] = worker[v]
  <1>1. worker[w].left > 1 => worker[w].left - 1 \in Nat
    BY DEF State
  <1>. QED BY <1>1, DoingTyped DEF Continue

LEMMA TypedStep == Typed /\ [Next]_vars => Typed'
  <1>. SUFFICES ASSUME Typed, [Next]_vars PROVE Typed'
    OBVIOUS
  <1>. USE DEF Typed
  <1>w. worker \in [Drainers -> State]
    BY DEF TypeOK, State, Pcs
  <1>1. CASE Enqueue
    <2>1. PICK bad \in BOOLEAN : Insert("user", bad) /\ (UNCHANGED used \/ Spend("malformed"))
      BY <1>1 DEF Enqueue
    <2>2. used' \in [Events -> Nat]
      BY <2>1, SpendTyped DEF TypeOK, Events
    <2>3. \A i \in Ids : status[i] # "absent" => status'[i] # "absent"
      BY <2>1, CmdAssumption DEF TypeOK, Insert, Ids
    <2>. QED BY <1>1, <2>1, <2>2, <2>3, InsertTyped DEF Enqueue, TypeOK, Holding, desk
  <1>2. CASE \E r \in Requests : Propose(r)
    <2>1. PICK r \in Requests : Propose(r)
      BY <1>2
    <2>2. used' \in [Events -> Nat]
      BY <2>1, SpendTyped DEF Propose, TypeOK, Events
    <2>3. /\ request' \in [Requests -> {"absent", "pending", "approved", "rejected"}]
          /\ garbled' \subseteq Requests
      BY <2>1 DEF Propose, TypeOK
    <2>. QED BY <2>1, <2>2, <2>3 DEF Propose, TypeOK, Holding, table
  <1>3. CASE \E r \in Requests : Resolve(r)
    <2>1. PICK r \in Requests : Resolve(r)
      BY <1>3
    <2>2. request' \in [Requests -> {"absent", "pending", "approved", "rejected"}]
      BY <2>1 DEF Resolve, TypeOK
    <2>3. CASE UNCHANGED table
      BY <2>1, <2>2, <2>3 DEF Resolve, TypeOK, Holding, table
    <2>4. CASE Insert(r, FALSE)
      <3>1. \A i \in Ids : status[i] # "absent" => status'[i] # "absent"
        BY <2>4, CmdAssumption DEF TypeOK, Insert, Ids
      <3>. QED BY <2>1, <2>2, <2>4, <3>1, InsertTyped DEF Resolve, TypeOK, Holding
    <2>. QED BY <2>1, <2>3, <2>4 DEF Resolve
  <1>4. CASE Crash
    <2>1. worker' \in [Drainers -> State] /\ \A w \in Drainers : worker'[w] \in {Resting, worker[w]}
      BY <1>4, <1>w, DoingTyped DEF Crash
    <2>2. used' \in [Events -> Nat]
      BY <1>4, SpendTyped DEF Crash, Events
    <2>. QED BY <1>4, <2>1, <2>2, DoingTyped DEF Crash, TypeOK, Holding, State, Pcs, table, desk
  <1>5. ASSUME NEW w \in Drainers, Drain(w)
        PROVE  Typed'
    <2>1. Fetching(Budget[w]) \in State /\ Fetching(Budget[w]).pc = "fetch"
      BY DoingTyped, DrainAssumption
    <2>2. worker' \in [Drainers -> State] /\ worker'[w].pc = "fetch"
      BY <1>5, <1>w, <2>1 DEF Drain
    <2>. QED BY <1>5, <2>2 DEF Drain, TypeOK, Holding, State, Pcs, table, desk
  <1>6. ASSUME NEW w \in Drainers, Fetch(w)
        PROVE  Typed'
    <2>1. used' \in [Events -> Nat]
      BY <1>6, SpendTyped DEF Fetch, TypeOK, Events
    <2>2. CASE worker' = [worker EXCEPT ![w] = Resting]
      BY <1>6, <1>w, <2>1, <2>2, DoingTyped
         DEF Fetch, TypeOK, Holding, State, Pcs, table, desk
    <2>3. CASE \E i \in Waiting :
                 worker' = [worker EXCEPT ![w] = Doing("mark", i, worker[w].left, FALSE)]
      <3>1. PICK i \in Waiting :
                 worker' = [worker EXCEPT ![w] = Doing("mark", i, worker[w].left, FALSE)]
        BY <2>3
      <3>2. i \in Ids /\ status[i] = "queued"
        BY WaitingTyped
      <3>3. worker' \in [Drainers -> State] /\ worker'[w].cmd = i
            /\ \A v \in Drainers \ {w} : worker'[v] = worker[v]
        <4>1. worker[w].left \in Nat
          BY <1>w DEF State
        <4>2. /\ Doing("mark", i, worker[w].left, FALSE) \in State
              /\ Doing("mark", i, worker[w].left, FALSE).cmd = i
          BY <3>2, <4>1 DEF Doing, State, Pcs
        <4>. QED BY <1>w, <3>1, <4>2
      <3>. QED BY <1>6, <2>1, <3>2, <3>3 DEF Fetch, TypeOK, Holding, State, Pcs, table, desk
    <2>. QED BY <1>6, <2>2, <2>3 DEF Fetch
  <1>7. ASSUME NEW w \in Drainers, Mark(w)
        PROVE  Typed'
    <2>1. worker[w].cmd \in Ids /\ status[worker[w].cmd] # "absent"
      BY <1>7, <1>w DEF Mark, Holding, State
    <2>2. /\ worker' \in [Drainers -> State] /\ \A v \in Drainers : worker'[v].cmd = worker[v].cmd
          /\ \A v \in Drainers \ {w} : worker'[v] = worker[v]
      BY <1>7, <1>w DEF Mark, State, Pcs
    <2>3. /\ status' \in [Ids -> Statuses] /\ used' \in [Events -> Nat]
          /\ \A i \in Ids : status'[i] = "absent" <=> i > count
          /\ \A i \in Ids : status[i] # "absent" => status'[i] # "absent"
      BY <1>7, <2>1, WriteTyped DEF Mark
    <2>. QED BY <1>7, <2>1, <2>2, <2>3 DEF Mark, TypeOK, Holding, State, Pcs, desk
  <1>8. ASSUME NEW w \in Drainers, Dispatch(w)
        PROVE  Typed'
    <2>1. /\ worker' \in [Drainers -> State] /\ \A v \in Drainers : worker'[v].cmd = worker[v].cmd
          /\ \A v \in Drainers \ {w} : worker'[v] = worker[v]
      <3>1. PICK returns \in BOOLEAN :
              worker' = [worker EXCEPT ![w] = Doing("report", worker[w].cmd, worker[w].left, returns)]
        BY <1>8 DEF Dispatch
      <3>2. worker[w].cmd \in Ids /\ worker[w].left \in Nat /\ "report" \in Pcs
        BY <1>w DEF State, Pcs
      <3>3. /\ Doing("report", worker[w].cmd, worker[w].left, returns) \in State
            /\ Doing("report", worker[w].cmd, worker[w].left, returns).cmd = worker[w].cmd
        BY <3>2 DEF Doing, State, Pcs
      <3>. QED BY <1>w, <3>1, <3>3
    <2>2. worker[w].cmd \in Ids /\ status[worker[w].cmd] # "absent"
      BY <1>8, <1>w DEF Dispatch, Holding, State
    <2>3. effects' \in [Ids -> Nat]
      BY <1>8, <2>2 DEF Dispatch, TypeOK
    <2>. QED BY <1>8, <2>1, <2>2, <2>3 DEF Dispatch, TypeOK, Holding, State, Pcs, table, desk
  <1>9. ASSUME NEW w \in Drainers, Report(w)
        PROVE  Typed'
    <2>1. worker[w].cmd \in Ids /\ status[worker[w].cmd] # "absent"
      BY <1>9, <1>w DEF Report, Holding, State
    <2>2. /\ worker' \in [Drainers -> State] /\ worker'[w].pc \in {"idle", "fetch"}
          /\ \A v \in Drainers \ {w} : worker'[v] = worker[v]
      BY <1>9, <1>w, ContinueTyped DEF Report
    <2>3. /\ status' \in [Ids -> Statuses] /\ used' \in [Events -> Nat]
          /\ \A i \in Ids : status'[i] = "absent" <=> i > count
          /\ \A i \in Ids : status[i] # "absent" => status'[i] # "absent"
      BY <1>9, <2>1, WriteTyped DEF Report
    <2>. QED BY <1>9, <1>w, <2>1, <2>2, <2>3 DEF Report, TypeOK, Holding, State, Pcs, desk
  <1>10. CASE UNCHANGED vars
    BY <1>10 DEF vars, table, desk, TypeOK, Holding
  <1>. QED BY <1>1, <1>2, <1>3, <1>4, <1>5, <1>6, <1>7, <1>8, <1>9, <1>10 DEF Next, DrainStep

\* The tables and the drainers are well typed, and a drainer only ever works on a row
\* that exists.
THEOREM Typing == Spec => []Typed
  <1>. QED BY TypedInit, TypedStep, PTL DEF Spec

-----------------------------------------------------------------------------
(* How often a command may run.                                            *)

\* The drainers that are at one of the points pcs with command i.
At(i, pcs) == {w \in Drainers : worker[w].pc \in pcs /\ worker[w].cmd = i}
Ahead(i)   == At(i, {"mark", "dispatch"})
Sure(i)    == At(i, {"dispatch"})

\* While a row waits, whoever is about to execute it lost its mark.  Once it does
\* not, nobody joins those who fetched it before, at most one per drainer.
RunBound(i) ==
    IF status[i] \in {"absent", "queued"}
    THEN effects[i] + Cardinality(Sure(i)) <= used["lost"]
    ELSE effects[i] + Cardinality(Ahead(i)) <= Cardinality(Drainers) + used["lost"]

BoundInv == \A i \in Ids : RunBound(i)

LEMMA AtFinite ==
  ASSUME NEW i, NEW pcs
  PROVE  /\ IsFiniteSet(At(i, pcs)) /\ Cardinality(At(i, pcs)) \in Nat
         /\ Cardinality(At(i, pcs)) <= Cardinality(Drainers)
         /\ Cardinality(Drainers) \in Nat
  BY DrainAssumption, FS_Subset, FS_CardinalityType, At(i, pcs) \subseteq Drainers DEF At

\* Fewer drainers, fewer of them at a point.
LEMMA Fewer ==
  ASSUME NEW A, NEW B, A \subseteq B, IsFiniteSet(B)
  PROVE  Cardinality(A) \in Nat /\ Cardinality(B) \in Nat /\ Cardinality(A) <= Cardinality(B)
  BY FS_Subset, FS_CardinalityType

\* A row whose own numbers do not get worse keeps its bound.
LEMMA BoundKept ==
  ASSUME Typed, Typed', NEW i \in Ids, RunBound(i),
         status'[i] \in {"absent", "queued"} <=> status[i] \in {"absent", "queued"},
         effects'[i] = effects[i], used["lost"] <= used'["lost"],
         status[i] \in {"absent", "queued"} => Sure(i)' \subseteq Sure(i),
         status[i] \notin {"absent", "queued"} => Ahead(i)' \subseteq Ahead(i)
  PROVE  RunBound(i)'
  <1>. /\ effects[i] \in Nat /\ used["lost"] \in Nat /\ used'["lost"] \in Nat
    BY DEF Typed, TypeOK, Events
  <1>. Cardinality(Drainers) \in Nat
    BY AtFinite
  <1>1. CASE status[i] \in {"absent", "queued"}
    <2>1. Cardinality(Sure(i)') \in Nat /\ Cardinality(Sure(i)) \in Nat
          /\ Cardinality(Sure(i)') <= Cardinality(Sure(i))
      BY <1>1, AtFinite, Fewer DEF Sure
    <2>. QED BY <1>1, <2>1 DEF RunBound
  <1>2. CASE status[i] \notin {"absent", "queued"}
    <2>1. Cardinality(Ahead(i)') \in Nat /\ Cardinality(Ahead(i)) \in Nat
          /\ Cardinality(Ahead(i)') <= Cardinality(Ahead(i))
      BY <1>2, AtFinite, Fewer DEF Ahead
    <2>. QED BY <1>2, <2>1 DEF RunBound
  <1>. QED BY <1>1, <1>2

\* A row that stops waiting had no effect that a lost mark does not explain.
LEMMA BoundTaken ==
  ASSUME Typed, Typed', NEW i \in Ids, RunBound(i),
         status[i] \in {"absent", "queued"}, status'[i] \notin {"absent", "queued"},
         effects'[i] = effects[i], used["lost"] <= used'["lost"]
  PROVE  RunBound(i)'
  <1>1. /\ effects[i] \in Nat /\ used["lost"] \in Nat /\ used'["lost"] \in Nat
    BY DEF Typed, TypeOK, Events
  <1>2. Cardinality(Drainers) \in Nat /\ Cardinality(Sure(i)) \in Nat
    BY AtFinite DEF Sure
  <1>3. Cardinality(Ahead(i)') \in Nat /\ Cardinality(Ahead(i)') <= Cardinality(Drainers)
    <2>. Ahead(i)' \subseteq Drainers
      BY DEF Ahead, At
    <2>. QED BY DrainAssumption, Fewer
  <1>. QED BY <1>1, <1>2, <1>3 DEF RunBound

\* A drainer that moves out of every point leaves the others where they are.
LEMMA Leaves ==
  ASSUME NEW w \in Drainers, NEW i \in Ids,
         \A v \in Drainers \ {w} : worker'[v] = worker[v],
         worker'[w].pc \notin {"mark", "dispatch"}
  PROVE  Sure(i)' \subseteq Sure(i) /\ Ahead(i)' \subseteq Ahead(i)
  BY DEF Sure, Ahead, At

\* Where a drainer goes from one point to the next with its command.
LEMMA MovesOn ==
  ASSUME NEW w \in Drainers, NEW i \in Ids,
         \A v \in Drainers \ {w} : worker'[v] = worker[v],
         worker'[w].cmd = worker[w].cmd, worker[w].pc \in {"mark", "dispatch"}
  PROVE  /\ Ahead(i)' \subseteq Ahead(i)
         /\ i # worker[w].cmd => Sure(i)' \subseteq Sure(i)
         /\ Sure(i)' \subseteq Sure(i) \union {w}
  BY DEF Sure, Ahead, At

LEMMA BoundInit == Init => BoundInv
  <1>. SUFFICES ASSUME Init, NEW i \in Ids PROVE RunBound(i)
    BY DEF BoundInv
  <1>1. \A w \in Drainers : worker[w].pc = "idle"
    BY DoingTyped DEF Init
  <1>2. Sure(i) = {}
    BY <1>1 DEF Sure, At
  <1>3. Cardinality(Sure(i)) = 0
    BY <1>2, FS_EmptySet
  <1>. QED BY <1>3 DEF RunBound, Init, Events

\* The command of a step at which a status is written: k is the row, new its value.
LEMMA BoundWritten ==
  ASSUME Typed, Typed', BoundInv, NEW k \in Ids, NEW new \in {"running", "done", "failed"},
         Write(k, new), status[k] # "absent", UNCHANGED effects,
         \A i \in Ids : Ahead(i)' \subseteq Ahead(i),
         \A i \in Ids \ {k} : Sure(i)' \subseteq Sure(i),
         \E w \in Drainers : Sure(k)' \subseteq Sure(k) \union {w}
  PROVE  BoundInv'
  <1>1. /\ \A i \in Ids : status'[i] = status[i] \/ (i = k /\ status'[i] = new)
        /\ used["lost"] <= used'["lost"]
        /\ status'[k] # new => used'["lost"] = used["lost"] + 1
    BY WriteTyped DEF Typed
  <1>2. ASSUME NEW i \in Ids \ {k}
        PROVE  RunBound(i)'
    BY <1>1, BoundKept DEF BoundInv
  <1>3. RunBound(k)'
    <2>1. CASE status[k] \notin {"absent", "queued"}
      BY <1>1, <2>1, BoundKept DEF BoundInv
    <2>2. CASE status[k] \in {"absent", "queued"} /\ status'[k] = new
      BY <1>1, <2>2, BoundTaken DEF BoundInv
    <2>3. CASE status[k] \in {"absent", "queued"} /\ status'[k] # new
      <3>1. used'["lost"] = used["lost"] + 1 /\ status'[k] = status[k]
        BY <1>1, <2>3
      <3>2. effects[k] \in Nat /\ used["lost"] \in Nat /\ effects'[k] = effects[k]
        BY DEF Typed, TypeOK, Events
      <3>3. effects[k] + Cardinality(Sure(k)) <= used["lost"]
        BY <2>3 DEF BoundInv, RunBound
      <3>4. PICK w \in Drainers : Sure(k)' \subseteq Sure(k) \union {w}
        OBVIOUS
      <3>5. IsFiniteSet(Sure(k)) /\ Cardinality(Sure(k)) \in Nat
        BY AtFinite DEF Sure
      <3>6. /\ IsFiniteSet(Sure(k) \union {w})
            /\ Cardinality(Sure(k) \union {w}) <= Cardinality(Sure(k)) + 1
        <4>1. CASE w \in Sure(k)
          <5>1. Sure(k) \union {w} = Sure(k)
            BY <4>1
          <5>2. Cardinality(Sure(k)) <= Cardinality(Sure(k)) + 1
            BY <3>5
          <5>. QED BY <3>5, <5>1, <5>2, Zenon
        <4>2. CASE w \notin Sure(k)
          <5>1. Cardinality(Sure(k) \union {w}) = Cardinality(Sure(k)) + 1
            BY <3>5, <4>2, FS_AddElement
          <5>. QED BY <3>5, <5>1, FS_AddElement
        <4>. QED BY <4>1, <4>2
      <3>7. /\ Cardinality(Sure(k)') \in Nat
            /\ Cardinality(Sure(k)') <= Cardinality(Sure(k)) + 1
        <4>1. /\ Cardinality(Sure(k)') \in Nat /\ Cardinality(Sure(k) \union {w}) \in Nat
              /\ Cardinality(Sure(k)') <= Cardinality(Sure(k) \union {w})
          BY <3>4, <3>6, Fewer
        <4>. QED BY <3>5, <3>6, <4>1
      <3>. QED BY <2>3, <3>1, <3>2, <3>3, <3>5, <3>7 DEF RunBound
    <2>. QED BY <1>1, <2>1, <2>2, <2>3
  <1>. QED BY <1>2, <1>3 DEF BoundInv

LEMMA BoundStep == Typed /\ Typed' /\ BoundInv /\ [Next]_vars => BoundInv'
  <1>. SUFFICES ASSUME Typed, Typed', BoundInv, [Next]_vars PROVE BoundInv'
    OBVIOUS
  <1>w. /\ worker \in [Drainers -> State] /\ "lost" \in Events /\ used["lost"] \in Nat
        /\ TypeOK
    BY DEF Typed, TypeOK, State, Pcs, Events
  <1>1. ASSUME UNCHANGED <<worker, effects>>, used["lost"] <= used'["lost"],
               UNCHANGED table \/ (\E who, bad : Insert(who, bad))
        PROVE  BoundInv'
    <2>. SUFFICES ASSUME NEW i \in Ids PROVE RunBound(i)'
      BY DEF BoundInv
    <2>1. status'[i] \in {"absent", "queued"} <=> status[i] \in {"absent", "queued"}
      <3>1. CASE UNCHANGED table
        BY <3>1 DEF table
      <3>2. CASE \E who, bad : Insert(who, bad)
        <4>1. status' = [status EXCEPT ![count + 1] = "queued"] /\ count < MaxCmds
          BY <3>2 DEF Insert
        <4>2. count + 1 \in Ids /\ count + 1 > count
          BY <4>1, CmdAssumption DEF Typed, TypeOK, Ids
        <4>3. status[count + 1] = "absent"
          BY <4>2 DEF Typed, TypeOK
        <4>. QED BY <4>1, <4>2, <4>3 DEF Typed, TypeOK
      <3>. QED BY <1>1, <3>1, <3>2
    <2>2. Sure(i)' = Sure(i) /\ Ahead(i)' = Ahead(i) /\ effects'[i] = effects[i]
      BY <1>1 DEF Sure, Ahead, At
    <2>. QED BY <1>1, <2>1, <2>2, BoundKept DEF BoundInv
  <1>2. ASSUME NEW w \in Drainers, UNCHANGED <<table, effects>>, used["lost"] <= used'["lost"],
               \A v \in Drainers \ {w} : worker'[v] = worker[v],
               \/ worker'[w].pc \notin {"mark", "dispatch"}
               \/ /\ worker'[w].pc = "mark" /\ status[worker'[w].cmd] = "queued"
        PROVE  BoundInv'
    <2>. SUFFICES ASSUME NEW i \in Ids PROVE RunBound(i)'
      BY DEF BoundInv
    <2>1. Sure(i)' \subseteq Sure(i)
      BY <1>2 DEF Sure, At
    <2>2. status[i] \notin {"absent", "queued"} => Ahead(i)' \subseteq Ahead(i)
      BY <1>2 DEF Ahead, At
    <2>. QED BY <1>2, <2>1, <2>2, BoundKept DEF BoundInv, table
  <1>3. CASE Enqueue
    <2>1. used["lost"] <= used'["lost"]
      BY <1>3, <1>w, LostGrows DEF Enqueue, Events
    <2>2. /\ UNCHANGED <<worker, effects>> /\ \E who, bad : Insert(who, bad)
      BY <1>3 DEF Enqueue
    <2>. QED BY <1>1, <2>1, <2>2
  <1>4. CASE \E r \in Requests : Propose(r) \/ Resolve(r)
    <2>1. used["lost"] <= used'["lost"]
      BY <1>4, <1>w, LostGrows DEF Propose, Resolve, Events
    <2>2. /\ UNCHANGED <<worker, effects>>
          /\ UNCHANGED table \/ \E who, bad : Insert(who, bad)
      BY <1>4 DEF Propose, Resolve
    <2>. QED BY <1>1, <2>1, <2>2
  <1>5. CASE Crash
    <2>1. used["lost"] = used'["lost"]
      BY <1>5, <1>w, SpendTyped DEF Crash, Events
    <2>2. \A v \in Drainers : worker'[v] = worker[v] \/ worker'[v].pc = "idle"
      BY <1>5, DoingTyped DEF Crash
    <2>. SUFFICES ASSUME NEW i \in Ids PROVE RunBound(i)'
      BY DEF BoundInv
    <2>3. Sure(i)' \subseteq Sure(i) /\ Ahead(i)' \subseteq Ahead(i)
      BY <2>2 DEF Sure, Ahead, At
    <2>. QED BY <1>5, <1>w, <2>1, <2>3, BoundKept DEF BoundInv, Crash, table
  <1>6. ASSUME NEW w \in Drainers, Drain(w)
        PROVE  BoundInv'
    <2>1. Fetching(Budget[w]).pc = "fetch"
      BY DoingTyped, DrainAssumption
    <2>2. worker'[w].pc = "fetch" /\ \A v \in Drainers \ {w} : worker'[v] = worker[v]
      BY <1>6, <1>w, <2>1 DEF Drain
    <2>. QED BY <1>6, <1>2, <1>w, <2>2 DEF Drain
  <1>7. ASSUME NEW w \in Drainers, Fetch(w)
        PROVE  BoundInv'
    <2>1. used["lost"] <= used'["lost"]
      BY <1>7, <1>w, LostGrows DEF Fetch, Events
    <2>2. CASE worker' = [worker EXCEPT ![w] = Resting]
      <3>1. worker'[w].pc = "idle" /\ \A v \in Drainers \ {w} : worker'[v] = worker[v]
        BY <1>w, <2>2, DoingTyped
      <3>. QED BY <1>7, <1>2, <2>1, <3>1 DEF Fetch
    <2>3. CASE \E i \in Waiting :
                 worker' = [worker EXCEPT ![w] = Doing("mark", i, worker[w].left, FALSE)]
      <3>1. PICK i \in Waiting :
                 worker' = [worker EXCEPT ![w] = Doing("mark", i, worker[w].left, FALSE)]
        BY <2>3
      <3>2. worker'[w].pc = "mark" /\ worker'[w].cmd = i
            /\ \A v \in Drainers \ {w} : worker'[v] = worker[v]
        BY <1>w, <3>1 DEF Doing
      <3>3. status[i] = "queued"
        BY <1>w, WaitingTyped
      <3>. QED BY <1>7, <1>2, <2>1, <3>2, <3>3 DEF Fetch
    <2>. QED BY <1>7, <2>2, <2>3 DEF Fetch
  <1>8. ASSUME NEW w \in Drainers, Mark(w)
        PROVE  BoundInv'
    <2>1. /\ worker'[w].cmd = worker[w].cmd /\ worker[w].pc = "mark"
          /\ \A v \in Drainers \ {w} : worker'[v] = worker[v]
      BY <1>8, <1>w DEF Mark, State
    <2>2. worker[w].cmd \in Ids /\ status[worker[w].cmd] # "absent"
      BY <1>8, <1>w DEF Mark, Typed, Holding, State
    <2>3. /\ \A i \in Ids : Ahead(i)' \subseteq Ahead(i)
          /\ \A i \in Ids \ {worker[w].cmd} : Sure(i)' \subseteq Sure(i)
          /\ Sure(worker[w].cmd)' \subseteq Sure(worker[w].cmd) \union {w}
      BY <2>1, <2>2, MovesOn
    <2>. QED BY <1>8, <2>2, <2>3, BoundWritten DEF Mark
  <1>9. ASSUME NEW w \in Drainers, Dispatch(w)
        PROVE  BoundInv'
    <2>k. PICK k \in Ids : k = worker[w].cmd
      BY <1>w DEF State
    <2>1. /\ worker[w].pc = "dispatch" /\ worker'[w].pc = "report"
          /\ \A v \in Drainers \ {w} : worker'[v] = worker[v]
      BY <1>9, <1>w DEF Dispatch, State, Doing
    <2>2. ASSUME NEW i \in Ids \ {k}
          PROVE  RunBound(i)'
      <3>1. effects'[i] = effects[i]
        BY <1>9, <1>w, <2>k DEF Dispatch, TypeOK
      <3>. QED BY <1>9, <1>w, <2>1, <3>1, Leaves, BoundKept DEF BoundInv, Dispatch, table
    <2>3. RunBound(k)'
      <3>1. effects[k] \in Nat /\ effects'[k] \in {effects[k], effects[k] + 1}
        BY <1>9, <1>w, <2>k DEF Dispatch, TypeOK
      <3>2. /\ w \in Sure(k) /\ w \in Ahead(k)
            /\ Sure(k)' \subseteq Sure(k) \ {w} /\ Ahead(k)' \subseteq Ahead(k) \ {w}
        BY <2>k, <2>1 DEF Sure, Ahead, At
      <3>3. ASSUME NEW A, NEW B, IsFiniteSet(B), w \in B, A \subseteq B \ {w}
            PROVE  Cardinality(A) \in Nat /\ Cardinality(A) <= Cardinality(B) - 1
                   /\ Cardinality(B) \in Nat
        BY <3>3, FS_RemoveElement, FS_CardinalityType, Fewer, IsFiniteSet(B \ {w}),
           Cardinality(B \ {w}) = Cardinality(B) - 1
      <3>4. IsFiniteSet(Sure(k)) /\ IsFiniteSet(Ahead(k))
        BY AtFinite DEF Sure, Ahead
      <3>5. /\ Cardinality(Sure(k)') \in Nat /\ Cardinality(Sure(k)) \in Nat
            /\ Cardinality(Sure(k)') <= Cardinality(Sure(k)) - 1
        BY <3>2, <3>3, <3>4
      <3>6. /\ Cardinality(Ahead(k)') \in Nat /\ Cardinality(Ahead(k)) \in Nat
            /\ Cardinality(Ahead(k)') <= Cardinality(Ahead(k)) - 1
        BY <3>2, <3>3, <3>4
      <3>7. status' = status /\ used' = used /\ RunBound(k) /\ Cardinality(Drainers) \in Nat
        BY <1>9, <2>1, AtFinite DEF Dispatch, table, BoundInv
      <3>. QED BY <1>w, <3>1, <3>5, <3>6, <3>7 DEF RunBound
    <2>. QED BY <2>2, <2>3 DEF BoundInv
  <1>10. ASSUME NEW w \in Drainers, Report(w)
         PROVE  BoundInv'
    <2>1. worker[w].cmd \in Ids /\ status[worker[w].cmd] # "absent"
      BY <1>10, <1>w DEF Report, Typed, Holding, State
    <2>2. /\ worker'[w].pc \in {"idle", "fetch"}
          /\ \A v \in Drainers \ {w} : worker'[v] = worker[v]
      BY <1>10, <1>w, ContinueTyped DEF Report
    <2>3. \A i \in Ids : Sure(i)' \subseteq Sure(i) /\ Ahead(i)' \subseteq Ahead(i)
      BY <2>2, Leaves
    <2>. QED BY <1>10, <2>1, <2>3, BoundWritten DEF Report
  <1>11. CASE UNCHANGED vars
    BY <1>11, <1>1, <1>w DEF vars
  <1>. QED BY <1>3, <1>4, <1>5, <1>6, <1>7, <1>8, <1>9, <1>10, <1>11 DEF Next, DrainStep

\* A command runs at most once per drainer and once more per lost update, whatever races,
\* crashes or raises.
THEOREM RerunsBounded == Spec => []RerunsAreBounded
  <1>1. Typed /\ BoundInv => RerunsAreBounded
    <2>. SUFFICES ASSUME Typed, BoundInv, NEW i \in Ids
                  PROVE  effects[i] <= Cardinality(Drainers) + used["lost"]
      BY DEF RerunsAreBounded
    <2>1. effects[i] \in Nat /\ used["lost"] \in Nat
      BY DEF Typed, TypeOK, Events
    <2>2. /\ Cardinality(Drainers) \in Nat
          /\ Cardinality(Sure(i)) \in Nat /\ Cardinality(Ahead(i)) \in Nat
      BY AtFinite DEF Sure, Ahead
    <2>. QED BY <2>1, <2>2 DEF BoundInv, RunBound
  <1>. QED BY <1>1, TypedInit, TypedStep, BoundInit, BoundStep, PTL DEF Spec

-----------------------------------------------------------------------------
(* What an approval makes.                                                 *)

Of(r) == {i \in 1..count : origin[i] = r}

\* A new row counts for the one it is inserted for.
LEMMA InsertCounts ==
  ASSUME TypeOK, NEW who \in Requests \union {"user"}, NEW bad \in BOOLEAN, Insert(who, bad),
         NEW r \in Requests
  PROVE  Cardinality(Of(r)') = IF r = who THEN Cardinality(Of(r)) + 1 ELSE Cardinality(Of(r))
  <1>. /\ count \in Nat /\ count' = count + 1 /\ count + 1 \in Ids
       /\ \A i \in 1..count : i \in Ids /\ i # count + 1
    BY CmdAssumption DEF TypeOK, Insert, Ids
  <1>1. origin' = [origin EXCEPT ![count + 1] = who] /\ origin \in [Ids -> Requests \union {"user"}]
    BY DEF TypeOK, Insert
  <1>2. IsFiniteSet(Of(r)) /\ count + 1 \notin Of(r)
    <2>1. IsFiniteSet(1..count)
      BY FS_Interval
    <2>2. Of(r) \subseteq 1..count
      BY DEF Of
    <2>3. IsFiniteSet(Of(r))
      BY <2>1, <2>2, FS_Subset
    <2>. QED BY <2>3 DEF Of
  <1>3. CASE r = who
    <2>1. Of(r)' = Of(r) \union {count + 1}
      BY <1>1, <1>3 DEF Of
    <2>. QED BY <1>2, <1>3, <2>1, FS_AddElement
  <1>4. CASE r # who
    <2>1. Of(r)' = Of(r)
      BY <1>1, <1>4 DEF Of
    <2>. QED BY <1>4, <2>1
  <1>. QED BY <1>3, <1>4

LEMMA ApprovalInit == Init => OneCommandPerApproval
  <1>. SUFFICES ASSUME Init, NEW r \in Requests
                PROVE  Cardinality(Of(r)) = IF request[r] = "approved" THEN 1 ELSE 0
    BY DEF OneCommandPerApproval, Of
  <1>1. Of(r) = {}
    BY DEF Init, Of
  <1>2. request[r] # "approved"
    BY DEF Init
  <1>. QED BY <1>1, <1>2, FS_EmptySet

LEMMA ApprovalStep == Typed /\ OneCommandPerApproval /\ [Next]_vars => OneCommandPerApproval'
  <1>. SUFFICES ASSUME Typed, OneCommandPerApproval, [Next]_vars, NEW r \in Requests
                PROVE  Cardinality(Of(r)') = IF request'[r] = "approved" THEN 1 ELSE 0
    BY DEF OneCommandPerApproval, Of
  <1>r. /\ Cardinality(Of(r)) = IF request[r] = "approved" THEN 1 ELSE 0
        /\ TypeOK /\ "user" \notin Requests
    BY CmdAssumption DEF OneCommandPerApproval, Of, Typed
  <1>1. CASE UNCHANGED <<count, origin>> /\ (request'[r] = "approved" <=> request[r] = "approved")
    BY <1>r, <1>1 DEF Of
  <1>2. CASE Enqueue
    <2>1. PICK bad \in BOOLEAN : Insert("user", bad)
      BY <1>2 DEF Enqueue
    <2>2. Cardinality(Of(r)') = Cardinality(Of(r))
      BY <1>r, <2>1, InsertCounts
    <2>. QED BY <1>2, <1>r, <2>2 DEF Enqueue, desk
  <1>3. CASE \E q \in Requests : Propose(q)
    BY <1>3, <1>1, <1>r DEF Propose, table, TypeOK
  <1>4. ASSUME NEW q \in Requests, Resolve(q)
        PROVE  Cardinality(Of(r)') = IF request'[r] = "approved" THEN 1 ELSE 0
    <2>1. CASE UNCHANGED table /\ request' = [request EXCEPT ![q] = "rejected"]
      BY <1>1, <1>4, <1>r, <2>1 DEF Resolve, table, TypeOK
    <2>2. CASE Insert(q, FALSE) /\ request' = [request EXCEPT ![q] = "approved"]
      <3>1. Cardinality(Of(r)') = IF r = q THEN Cardinality(Of(r)) + 1 ELSE Cardinality(Of(r))
        BY <1>r, <2>2, InsertCounts
      <3>2. r = q => request[r] = "pending" /\ request'[r] = "approved"
        BY <1>4, <1>r, <2>2 DEF Resolve, TypeOK
      <3>3. r # q => request'[r] = request[r]
        BY <1>r, <2>2 DEF TypeOK
      <3>. QED BY <1>r, <3>1, <3>2, <3>3
    <2>. QED BY <1>4, <2>1, <2>2 DEF Resolve
  <1>5. CASE \E w \in Drainers : DrainStep(w)
    BY <1>5, <1>1 DEF DrainStep, Drain, Fetch, Mark, Dispatch, Report, table, desk
  <1>6. CASE Crash \/ UNCHANGED vars
    BY <1>6, <1>1 DEF Crash, vars, table, desk
  <1>. QED BY <1>2, <1>3, <1>4, <1>5, <1>6 DEF Next

\* An approval makes one command, a rejection none, however often a button is pressed.
THEOREM ApprovalMakesOne == Spec => []OneCommandPerApproval
  <1>. QED BY TypedInit, TypedStep, ApprovalInit, ApprovalStep, PTL DEF Spec
-----------------------------------------------------------------------------
(* A queue with one drainer implements FifoOnce.                           *)

\* The loop drains and nobody posts to /twak/drain, no call to Convex is lost, and
\* whatever is queued fits the window of the read.
Quiet == /\ \E w \in Drainers : Drainers = {w}
         /\ Max["lost"] = 0
         /\ Window >= MaxCmds

Taken == Cardinality({i \in 1..count : status[i] # "queued"})

\* The commands taken up are the first t ones, each executed at most once, and not yet
\* by the drainer that is about to; the next one is all a drainer can have fetched.
Upto(t) ==
    /\ t \in 0..count
    /\ \A i \in 1..count : status[i] # "queued" <=> i <= t
    /\ \A i \in Ids : effects[i] = 0 \/ (i <= t /\ effects[i] = 1)
    /\ \A w \in Drainers :
        /\ worker[w].pc = "mark" => worker[w].cmd = t + 1 /\ t < count
        /\ worker[w].pc \in {"dispatch", "report"} => worker[w].cmd = t /\ t > 0
        /\ worker[w].pc = "dispatch" => effects[t] = 0

OrderInv == \E t \in Nat : Upto(t)

\* How many rows do not wait, when they are the first t of n.
LEMMA CountFirst ==
  ASSUME NEW n \in Nat, NEW s, NEW t \in 0..n, \A i \in 1..n : s[i] # "queued" <=> i <= t
  PROVE  Cardinality({i \in 1..n : s[i] # "queued"}) = t
  <1>1. {i \in 1..n : s[i] # "queued"} = 1..t
    OBVIOUS
  <1>2. 1 \in Int /\ t \in Int /\ t \in Nat
    OBVIOUS
  <1>3. Cardinality(1..t) = IF 1 > t THEN 0 ELSE t - 1 + 1
    BY <1>2, FS_Interval
  <1>4. Cardinality(1..t) = t
    BY <1>2, <1>3
  <1>. QED BY <1>1, <1>4

LEMMA NothingLost == ASSUME TypeOK, Quiet PROVE ~Spend("lost")
  BY DEF TypeOK, Quiet, Spend, Events

\* A step that takes nothing up and executes nothing.
LEMMA UptoQuiet ==
  ASSUME NEW t \in Nat, Upto(t), UNCHANGED <<table, effects>>,
         \A w \in Drainers : worker'[w] = worker[w] \/ worker'[w].pc \in {"idle", "fetch"}
  PROVE  Upto(t)'
  BY DEF Upto, table

LEMMA UptoInsert ==
  ASSUME Typed, NEW t \in Nat, Upto(t), UNCHANGED <<worker, effects>>,
         NEW who, NEW bad, Insert(who, bad)
  PROVE  Upto(t)' /\ count' = count + 1 /\ count < MaxCmds
  <1>1. count \in Nat /\ count' = count + 1 /\ count < MaxCmds /\ count + 1 \in Ids
    BY CmdAssumption DEF Typed, TypeOK, Insert, Ids
  <1>2. /\ status'[count + 1] = "queued"
        /\ \A i \in Ids : i # count + 1 => status'[i] = status[i]
    BY <1>1 DEF Typed, TypeOK, Insert
  <1>4. \A i \in 1..count' : i \in Ids /\ (i = count + 1 \/ i \in 1..count)
    BY <1>1, CmdAssumption DEF Ids
  <1>3. \A i \in 1..count' : status'[i] # "queued" <=> i <= t
    BY <1>1, <1>2, <1>4 DEF Upto
  <1>. QED BY <1>1, <1>3 DEF Upto

\* The oldest waiting row is the next one.
LEMMA FetchesNext ==
  ASSUME Typed, Quiet, NEW t \in Nat, Upto(t), NEW i \in Waiting, First(i, Waiting)
  PROVE  i = t + 1 /\ t < count
  <1>1. count \in Nat /\ count <= MaxCmds /\ Window \in Nat /\ MaxCmds \in Nat
    BY CmdAssumption, DrainAssumption DEF Typed, TypeOK
  <1>2. i \in 1..count /\ i > t
    BY <1>1 DEF Waiting, Listed, Upto
  <1>3. t + 1 \in Waiting
    BY <1>1, <1>2 DEF Waiting, Listed, Upto, Quiet
  <1>. QED BY <1>1, <1>2, <1>3 DEF First

\* A write to the row a drainer has taken up.
LEMMA UptoWrite ==
  ASSUME Typed, Quiet, NEW k \in 1..count, NEW new \in {"running", "done", "failed"}, Write(k, new)
  PROVE  /\ status'[k] # "queued"
         /\ \A i \in 1..count : i # k => status'[i] = status[i]
  <1>1. k \in Ids /\ \A i \in 1..count : i \in Ids
    BY CmdAssumption DEF Typed, TypeOK, Ids
  <1>2. status' = [status EXCEPT ![k] = new]
    BY NothingLost DEF Write, Typed
  <1>. QED BY <1>1, <1>2 DEF Typed, TypeOK

\* Every step of the queue is a step of FifoOnce, or none.
LEMMA OrderStep ==
  ASSUME Quiet, Typed, Typed', OrderInv, [Next]_vars
  PROVE  OrderInv' /\ [Promise!Next]_<<count, Taken, effects>>
<1>. PICK t \in Nat : Upto(t)
  BY DEF OrderInv
<1>w. /\ worker \in [Drainers -> State] /\ effects \in [Ids -> Nat] /\ count \in Nat
      /\ \A i \in 1..count : i \in Ids
      /\ TypeOK /\ TypeOK'
  BY CmdAssumption DEF Typed, TypeOK, State, Pcs, Ids
<1>t. Taken = t /\ t \in 0..count
  BY <1>w, CountFirst DEF Taken, Upto
<1>n. count' \in Nat
  BY CmdAssumption DEF Typed, TypeOK
<1>1. ASSUME NEW u \in Nat, Upto(u)'
      PROVE  OrderInv' /\ Taken' = u
  BY <1>1, <1>n, CountFirst DEF Taken, Upto, OrderInv
<1>2. ASSUME Upto(t)', count' = count, effects' = effects
      PROVE  OrderInv' /\ [Promise!Next]_<<count, Taken, effects>>
  BY <1>1, <1>2, <1>t
<1>3. ASSUME NEW who, NEW bad, Insert(who, bad), UNCHANGED <<worker, effects>>
      PROVE  OrderInv' /\ [Promise!Next]_<<count, Taken, effects>>
  <2>1. Upto(t)' /\ count' = count + 1 /\ count < MaxCmds
    BY <1>3, UptoInsert
  <2>. QED BY <1>1, <1>3, <1>t, <2>1 DEF Promise!Next, Promise!Accept, Taken
<1>4. CASE Enqueue
  BY <1>3, <1>4 DEF Enqueue
<1>5. CASE \E r \in Requests : Propose(r) \/ Resolve(r)
  <2>1. UNCHANGED <<worker, effects>> /\ (UNCHANGED table \/ \E who, bad : Insert(who, bad))
    BY <1>5 DEF Propose, Resolve
  <2>. QED BY <1>2, <1>3, <2>1, UptoQuiet DEF table
<1>6. CASE Crash
  <2>1. /\ UNCHANGED <<table, effects>>
        /\ \A w \in Drainers : worker'[w] = worker[w] \/ worker'[w].pc = "idle"
    BY <1>6, DoingTyped DEF Crash
  <2>. QED BY <1>2, <2>1, UptoQuiet DEF table
<1>7. ASSUME NEW w \in Drainers, DrainStep(w)
      PROVE  OrderInv' /\ [Promise!Next]_<<count, Taken, effects>>
  <2>0. Drainers = {w} /\ worker[w] \in State /\ ~Spend("lost")
    BY <1>w, NothingLost DEF Quiet
  <2>1. CASE Drain(w)
    <3>1. worker'[w].pc = "fetch" /\ UNCHANGED <<table, effects>>
      BY <1>w, <2>1, DoingTyped, DrainAssumption DEF Drain
    <3>. QED BY <1>2, <2>0, <3>1, UptoQuiet DEF table
  <2>2. CASE Fetch(w)
    <3>1. CASE worker' = [worker EXCEPT ![w] = Resting]
      <4>1. worker'[w].pc = "idle" /\ UNCHANGED <<table, effects>>
        BY <1>w, <2>2, <3>1, DoingTyped DEF Fetch
      <4>. QED BY <1>2, <2>0, <4>1, UptoQuiet DEF table
    <3>2. ASSUME NEW i \in Waiting, First(i, Waiting),
                 worker' = [worker EXCEPT ![w] = Doing("mark", i, worker[w].left, FALSE)]
          PROVE  OrderInv' /\ [Promise!Next]_<<count, Taken, effects>>
      <4>1. i = t + 1 /\ t < count
        BY <3>2, FetchesNext
      <4>2. worker'[w].pc = "mark" /\ worker'[w].cmd = i
        BY <1>w, <3>2 DEF Doing
      <4>3. UNCHANGED <<table, effects>>
        BY <2>2 DEF Fetch
      <4>4. Upto(t)'
        BY <2>0, <4>1, <4>2, <4>3 DEF Upto, table
      <4>. QED BY <1>2, <4>3, <4>4 DEF table
    <3>. QED BY <2>2, <3>1, <3>2 DEF Fetch
  <2>3. CASE Mark(w)
    <3>1. worker[w].cmd = t + 1 /\ t + 1 \in 1..count /\ effects[t + 1] = 0
      BY <1>w, <2>3 DEF Mark, Upto
    <3>2. /\ status'[t + 1] # "queued" /\ UNCHANGED <<count, effects>>
          /\ \A i \in 1..count : i # t + 1 => status'[i] = status[i]
      BY <2>3, <3>1, UptoWrite DEF Mark
    <3>3. worker'[w].pc = "dispatch" /\ worker'[w].cmd = t + 1
      BY <1>w, <2>0, <2>3, <3>1 DEF Mark, State
    <3>4. Upto(t + 1)'
      <4>1. \A i \in 1..count : status'[i] # "queued" <=> i <= t + 1
        BY <3>2 DEF Upto
      <4>2. \A i \in Ids : effects[i] = 0 \/ (i <= t + 1 /\ effects[i] = 1)
        BY CmdAssumption DEF Upto, Ids
      <4>. QED BY <1>w, <2>0, <3>1, <3>2, <3>3, <4>1, <4>2 DEF Upto
    <3>5. Taken' = t + 1
      BY <1>1, <3>4
    <3>6. Taken < count /\ Taken' = Taken + 1 /\ UNCHANGED <<count, effects>>
      BY <1>w, <1>t, <3>1, <3>2, <3>5
    <3>7. Promise!Take
      BY <3>6 DEF Promise!Take, Taken
    <3>. QED BY <1>1, <3>4, <3>7 DEF Promise!Next
  <2>4. CASE Dispatch(w)
    <3>1. worker[w].cmd = t /\ t > 0 /\ effects[t] = 0 /\ t \in Ids
      BY <1>w, <2>4 DEF Dispatch, Upto
    <3>2. /\ UNCHANGED table
          /\ effects' \in {effects, [effects EXCEPT ![t] = @ + 1]}
          /\ worker'[w].pc = "report" /\ worker'[w].cmd = t
      BY <1>w, <2>4, <3>1 DEF Dispatch, Doing
    <3>3. effects' \in {effects, [effects EXCEPT ![t] = 1]}
      BY <3>1, <3>2
    <3>4. \A i \in Ids : effects'[i] = 0 \/ (i <= t /\ effects'[i] = 1)
      BY <1>w, <3>1, <3>3 DEF Upto
    <3>5. Upto(t)'
      BY <2>0, <3>1, <3>2, <3>4 DEF Upto, table
    <3>6. Taken' = Taken /\ count' = count
      BY <1>1, <1>t, <3>2, <3>5 DEF table
    <3>. QED BY <1>1, <1>t, <3>1, <3>3, <3>5, <3>6 DEF Promise!Next, Promise!Execute, Taken
  <2>5. CASE Report(w)
    <3>1. worker[w].cmd = t /\ t \in 1..count
      BY <1>w, <1>t, <2>5 DEF Report, Upto
    <3>2. /\ status'[t] # "queued" /\ UNCHANGED <<count, effects>>
          /\ \A i \in 1..count : i # t => status'[i] = status[i]
      BY <2>5, <3>1, UptoWrite DEF Report
    <3>3. worker'[w].pc \in {"idle", "fetch"}
      BY <1>w, <2>5, ContinueTyped DEF Report
    <3>4. Upto(t)'
      BY <2>0, <3>1, <3>2, <3>3 DEF Upto
    <3>. QED BY <1>2, <3>2, <3>4
  <2>. QED BY <1>7, <2>1, <2>2, <2>3, <2>4, <2>5 DEF DrainStep
<1>8. CASE UNCHANGED vars
  BY <1>2, <1>8, UptoQuiet DEF vars, table
<1>. QED BY <1>4, <1>5, <1>6, <1>7, <1>8 DEF Next

\* With one drainer, no lost call and a burst that fits the window, the queue keeps the
\* promise of FifoOnce: commands are taken up in the order they were queued, each is
\* executed at most once and before the next is taken up - over restarts, malformed
\* commands and handlers that raise after the effect, whoever approves what meanwhile.
THEOREM QueueIsFifo == ASSUME Quiet PROVE Spec => ServedOnceInOrder
<1>1. ASSUME Init PROVE OrderInv /\ Promise!Init
  <2>1. count = 0 /\ effects = [i \in Ids |-> 0] /\ \A w \in Drainers : worker[w].pc = "idle"
    BY <1>1, DoingTyped DEF Init
  <2>2. Upto(0)
    BY <2>1 DEF Upto
  <2>3. Taken = 0
    BY <2>1, <2>2, CountFirst DEF Taken, Upto
  <2>. QED BY <2>1, <2>2, <2>3 DEF OrderInv, Promise!Init, Taken, Ids
<1>2. Typed /\ Typed' /\ OrderInv /\ [Next]_vars
        => OrderInv' /\ [Promise!Next]_<<count, Taken, effects>>
  BY OrderStep
<1>. QED BY <1>1, <1>2, Typing, PTL DEF Spec, ServedOnceInOrder, Promise!Spec, Taken
=============================================================================
