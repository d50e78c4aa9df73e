--------------------------- MODULE Watches_proofs ---------------------------
(***************************************************************************)
(* Theorems about Watches, for any set of watches, threads and markets and *)
(* any number of losses, crashes and moves of the market.  And about the   *)
(* bars a watch is compared with, module MarketData, for pulls of any      *)
(* length and number: a recording is its window, whole and in order        *)
(* (Window), nothing in a bar is from later (Timely), and only the last    *)
(* bar of a recording may still change.                                    *)
(***************************************************************************)
EXTENDS Watches, MarketData, FiniteSetTheorems, SequenceTheorems, WellFoundedInduction, TLAPS

Flags == {"clear", "fired"}
Jobs  == [pc : {"idle", "check", "fire"}, todo : SUBSET Watch, seen : [Watch -> Flags], shot : Shots]

\* A row that says clear may fire; so may a row a thread has read as clear and still has to
\* decide about, unless another thread wrote it since.
Undecided(t, w) ==
    /\ worker[t].pc # "idle" /\ w \in worker[t].todo /\ worker[t].seen[w] = "clear"
    /\ worker[t].pc = "fire" => w # First(worker[t].todo)

ClearMayFire   == \A w \in Watch : row[w].last_state = "clear" => w \in excused
ReadMayFire    == \A t \in Threads, w \in Watch :
                      Undecided(t, w) => w \in excused \/ w \in passed[t]
FiringInv      == TypeOK /\ ClearMayFire /\ ReadMayFire

-----------------------------------------------------------------------------
(* Helpers.                                                                *)

\* A list of watches that is not empty has a first one.
LEMMA FirstOfList ==
    ASSUME NEW s \in SUBSET Watch, s # {}
    PROVE  First(s) \in s
  <1>. DEFINE Less == OpToRel(<, Nat)
  <1>1. PICK w \in s : \A v \in s : <<v, w>> \notin Less
    <2>1. IsWellFoundedOn(Less, Nat) /\ s \subseteq Nat
      BY NatLessThanWellFounded, WatchAssumption
    <2>. HIDE DEF Less
    <2>. QED BY <2>1, WFMin
  <1>2. \A v \in s : ~(v < w)
    BY <1>1, WatchAssumption DEF OpToRel
  <1>3. \A v \in s : w <= v
    BY <1>2, WatchAssumption
  <1>. QED BY <1>3 DEF First

\* A thread at work has a watch in hand.
LEMMA InHand ==
    ASSUME TypeOK, NEW t \in Threads, worker[t].pc # "idle"
    PROVE  First(worker[t].todo) \in worker[t].todo /\ First(worker[t].todo) \in Watch
  BY FirstOfList DEF TypeOK

\* Submissions that are stored are stored as specs, and the row of nothing has one.
LEMMA StoredSpec ==
    ASSUME NEW raw \in Raw, Valid(raw)
    PROVE  validate_watch_spec(raw) \in Specs
  BY DEF Specs

\* What a thread sees is one of the snapshots.
LEMMA SnapshotTyped == TypeOK => Snapshot \in Shots
  BY DEF Snapshot, Shots, TypeOK

-----------------------------------------------------------------------------
(* Type correctness.                                                       *)

LEMMA InitTyped == Init => TypeOK
  <1>. SUFFICES ASSUME Init PROVE TypeOK
    OBVIOUS
  <1>1. NoRow.spec \in Specs /\ Resting.shot \in Shots
    BY RawAssumption, MarketAssumption DEF NoRow, Specs, Resting, Shots
  <1>2. NoRow \in [spec : Specs, status : {"absent", "active", "cancelled"}, last_state : Flags]
    BY <1>1 DEF NoRow, Flags
  <1>3. Resting \in Jobs
    BY <1>1 DEF Resting, Jobs, Flags
  <1>. QED BY <1>2, <1>3 DEF Init, TypeOK, Resting, Jobs, Flags

\* Leaving a watch keeps every thread typed, and keeps the list only if there is more.
LEMMA AdvanceTyped ==
    ASSUME TypeOK, NEW t \in Threads, worker[t].pc # "idle",
           Advance(t, First(worker[t].todo))
    PROVE  /\ worker' \in [Threads -> Jobs]
           /\ \A u \in Threads : worker'[u].pc # "idle" => worker'[u].todo # {}
           /\ \A u \in Threads \ {t} : worker'[u] = worker[u]
           /\ worker'[t].pc \in {"idle", "check"}
           /\ worker'[t].pc # "idle" =>
                 /\ worker'[t].todo = worker[t].todo \ {First(worker[t].todo)}
                 /\ \A w \in worker'[t].todo : worker'[t].seen[w] = worker[t].seen[w]
  <1>. DEFINE w == First(worker[t].todo)
              next == [pc |-> "check", todo |-> worker[t].todo \ {w}, shot |-> worker[t].shot,
                       seen |-> [worker[t].seen EXCEPT ![w] = "clear"]]
  <1>1. worker \in [Threads -> Jobs] /\ w \in worker[t].todo /\ w \in Watch
    BY InHand DEF TypeOK, Jobs, Flags
  <1>2. CASE worker[t].todo = {w}
    <2>1. worker' = [worker EXCEPT ![t] = Resting]
      BY <1>2 DEF Advance
    <2>2. Resting \in Jobs /\ Resting.pc = "idle"
      BY MarketAssumption DEF Resting, Jobs, Flags, Shots
    <2>. QED BY <1>1, <2>1, <2>2 DEF TypeOK
  <1>3. CASE worker[t].todo # {w}
    <2>1. worker' = [worker EXCEPT ![t] = next]
      BY <1>3 DEF Advance
    <2>2. next \in Jobs /\ next.pc = "check" /\ next.todo = worker[t].todo \ {w}
      BY <1>1 DEF Jobs, Flags
    <2>3. \A v \in next.todo : next.seen[v] = worker[t].seen[v]
      BY <1>1 DEF Jobs
    <2>4. next.todo # {}
      BY <1>1, <1>3, <2>2
    <2>. HIDE DEF next
    <2>. QED BY <1>1, <2>1, <2>2, <2>3, <2>4 DEF TypeOK
  <1>. QED BY <1>2, <1>3

\* A write, or its loss, keeps the rows and the history typed.
LEMMA WriteTyped ==
    ASSUME TypeOK, NEW t \in Threads, NEW w \in Watch, NEW s \in Flags,
           set_watch_state(t, w, s) \/ Lost(t, w) \/ Unchanged(t, w)
    PROVE  /\ row' \in [Watch -> [spec : Specs, status : {"absent", "active", "cancelled"},
                                  last_state : Flags]]
           /\ alerted' \subseteq Watch /\ dropped' \subseteq Watch /\ excused' \subseteq Watch
           /\ owed' \subseteq Watch
           /\ passed' \in [Threads -> SUBSET Watch] /\ used' \in Nat
  <1>1. CASE set_watch_state(t, w, s)
    BY <1>1 DEF set_watch_state, TypeOK, Flags
  <1>2. CASE Lost(t, w)
    BY <1>2 DEF Lost, Spend, TypeOK, Flags
  <1>3. CASE Unchanged(t, w)
    BY <1>3 DEF Unchanged, TypeOK, Flags
  <1>. QED BY <1>1, <1>2, <1>3

\* A verdict that is something is a flag, and an alert needs a flag read as clear.
LEMMA Verdicts ==
    ASSUME TypeOK, NEW t \in Threads
    PROVE  /\ Verdict(t) \in Flags \union {Nothing}
           /\ Verdict(t) = "fired" => worker[t].seen[First(worker[t].todo)] # "fired"
  BY DEF Verdict, Evaluate, Flags, Nothing

LEMMA CheckTyped ==
    ASSUME TypeOK, NEW t \in Threads, Check(t)
    PROVE  TypeOK'
  <1>. DEFINE w == First(worker[t].todo)
  <1>1. worker[t].pc # "idle" /\ w \in Watch /\ world' = world
    BY InHand DEF Check
  <1>2. CASE Verdict(t) = Nothing
    BY <1>1, <1>2, AdvanceTyped, WriteTyped DEF Check, TypeOK, Jobs, Flags, world
  <1>3. CASE Verdict(t) # Nothing
    <2>1. /\ Verdict(t) \in Flags
          /\ set_watch_state(t, w, Verdict(t)) \/ Lost(t, w)
      BY <1>3, Verdicts DEF Check
    <2>2. worker' \in [Threads -> Jobs]
          /\ \A u \in Threads : worker'[u].pc # "idle" => worker'[u].todo # {}
      <3>1. CASE Verdict(t) = "fired"
        <4>1. worker' = [worker EXCEPT ![t].pc = "fire"]
          BY <1>3, <3>1 DEF Check
        <4>. QED BY <1>1, <4>1 DEF TypeOK, Jobs, Flags
      <3>2. CASE Verdict(t) # "fired"
        BY <1>1, <1>3, <3>2, AdvanceTyped DEF Check
      <3>. QED BY <3>1, <3>2
    <2>. QED BY <1>1, <2>1, <2>2, WriteTyped DEF TypeOK, Jobs, Flags, world
  <1>. QED BY <1>2, <1>3

LEMMA StepTyped == TypeOK /\ [Next]_vars => TypeOK'
  <1>. SUFFICES ASSUME TypeOK, [Next]_vars PROVE TypeOK'
    OBVIOUS
  <1>1. ASSUME NEW w \in Watch, cancel(w) PROVE TypeOK'
    <2>1. row' \in [Watch -> [spec : Specs, status : {"absent", "active", "cancelled"},
                             last_state : Flags]]
      BY <1>1 DEF cancel, TypeOK, Flags
    <2>. QED BY <1>1, <2>1 DEF cancel, TypeOK, world, history, Flags
  <1>2. CASE \E w \in Watch, raw \in Raw : create(w, raw)
    BY <1>2, StoredSpec DEF create, TypeOK, world
  <1>3. CASE Bar
    BY <1>3 DEF Bar, Spend, TypeOK, history
  <1>4. CASE fresh_price
    BY <1>4 DEF fresh_price, Spend, TypeOK, history
  <1>5. CASE Halt
    BY <1>5 DEF Halt, Spend, TypeOK, history
  <1>6. ASSUME NEW t \in Threads, Tick(t) PROVE TypeOK'
    <2>. DEFINE job == [pc |-> "check", todo |-> {w \in Watch : Active(w)}, shot |-> Snapshot,
                        seen |-> [w \in Watch |-> IF Active(w) THEN row[w].last_state ELSE "clear"]]
    <2>1. job \in Jobs /\ job.todo # {}
      BY <1>6, SnapshotTyped DEF Tick, Jobs, Flags, TypeOK
    <2>2. worker' = [worker EXCEPT ![t] = job]
      BY <1>6 DEF Tick
    <2>. HIDE DEF job
    <2>. QED BY <1>6, <2>1, <2>2 DEF Tick, TypeOK, world, Jobs, Flags
  <1>7. ASSUME NEW t \in Threads, Check(t) PROVE TypeOK'
    BY <1>7, CheckTyped
  <1>8. ASSUME NEW t \in Threads, Fire(t) PROVE TypeOK'
    BY <1>8, InHand, AdvanceTyped DEF Fire, Spend, TypeOK, world, Jobs, Flags
  <1>9. ASSUME NEW t \in Threads, Crash(t) PROVE TypeOK'
    <2>1. Resting \in Jobs /\ Resting.pc = "idle"
      BY MarketAssumption DEF Resting, Jobs, Flags, Shots
    <2>2. dropped' \subseteq Watch
      BY <1>9, InHand DEF Crash, TypeOK
    <2>. QED BY <1>9, <2>1, <2>2 DEF Crash, Spend, TypeOK, world, Jobs, Flags
  <1>10. CASE UNCHANGED vars
    BY <1>10 DEF vars, TypeOK, world, history
  <1>. QED BY <1>1, <1>2, <1>3, <1>4, <1>5, <1>6, <1>7, <1>8, <1>9, <1>10 DEF Next

\* Every state of table, threads and history is well typed, and a thread at work has a
\* watch in hand (process_watches).
THEOREM Typing == Spec => []TypeOK
  BY InitTyped, StepTyped, PTL DEF Spec

-----------------------------------------------------------------------------
(* No alert is suppressed by a flag that nothing was sent for.             *)

\* The watch a thread is about to announce stays the one it is about to announce.
LEMMA FiringStays ==
    ASSUME NEW w \in Watch, Firing(w), NEW t \in Threads, worker[t].pc # "fire",
           \A u \in Threads \ {t} : worker'[u] = worker[u]
    PROVE  Firing(w)'
  BY DEF Firing

LEMMA StepAnnounced ==
    TypeOK /\ ArmedMeansAnnounced /\ [Next]_vars => ArmedMeansAnnounced'
  <1>. SUFFICES ASSUME TypeOK, ArmedMeansAnnounced, [Next]_vars, NEW v \in Watch,
                       (Exists(v) /\ row[v].last_state = "fired")'
                PROVE  (v \in alerted \/ v \in dropped \/ Firing(v))'
    BY DEF ArmedMeansAnnounced
  <1>. DEFINE Told == v \in alerted \/ v \in dropped \/ Firing(v)
  <1>0. Exists(v) /\ row[v].last_state = "fired" => Told
    BY DEF ArmedMeansAnnounced
  <1>1. ASSUME NEW w \in Watch, cancel(w) PROVE Told'
    <2>1. Exists(v) /\ row[v].last_state = "fired"
      BY <1>1 DEF cancel, Exists, Active, TypeOK
    <2>. QED BY <1>0, <1>1, <2>1 DEF cancel, history, Firing
  <1>2. ASSUME NEW w \in Watch, NEW raw \in Raw, create(w, raw) PROVE Told'
    <2>1. Exists(v) /\ row[v].last_state = "fired"
      BY <1>2 DEF create, Exists, TypeOK
    <2>. QED BY <1>0, <1>2, <2>1 DEF create, history, Firing
  <1>3. CASE Bar \/ fresh_price \/ Halt
    BY <1>0, <1>3 DEF Bar, fresh_price, Halt, history, Firing, Exists
  <1>4. ASSUME NEW t \in Threads, Tick(t) PROVE Told'
    <2>1. Told
      BY <1>0, <1>4 DEF Tick, Exists
    <2>2. worker[t].pc # "fire" /\ \A u \in Threads \ {t} : worker'[u] = worker[u]
      BY <1>4 DEF Tick, TypeOK
    <2>. QED BY <1>4, <2>1, <2>2, FiringStays DEF Tick
  <1>5. ASSUME NEW t \in Threads, Check(t) PROVE Told'
    <2>. DEFINE w == First(worker[t].todo)
    <2>1. worker[t].pc = "check" /\ w \in Watch /\ w \in worker[t].todo
      BY <1>5, InHand DEF Check
    <2>2. \A u \in Threads \ {t} : worker'[u] = worker[u]
      <3>1. CASE Verdict(t) = "fired"
        BY <1>5, <3>1 DEF Check, TypeOK, Nothing
      <3>2. CASE Verdict(t) # "fired"
        BY <1>5, <2>1, <3>2, AdvanceTyped DEF Check
      <3>. QED BY <3>1, <3>2
    <2>3. CASE row' = row /\ UNCHANGED <<alerted, dropped>>
      BY <1>0, <2>1, <2>2, <2>3, FiringStays DEF Exists
    <2>4. CASE Verdict(t) # Nothing /\ set_watch_state(t, w, Verdict(t))
      <3>1. CASE v # w
        <4>1. row'[v] = row[v] /\ (v \in alerted => v \in alerted')
              /\ (v \in dropped => v \in dropped')
          BY <2>4, <3>1 DEF set_watch_state, TypeOK
        <4>. QED BY <1>0, <2>1, <2>2, <4>1, FiringStays DEF Exists
      <3>2. CASE v = w
        <4>1. Verdict(t) = "fired"
          BY <2>1, <2>4, <3>2 DEF set_watch_state, TypeOK
        <4>2. worker' = [worker EXCEPT ![t].pc = "fire"]
          BY <1>5, <4>1 DEF Check, Nothing
        <4>3. worker'[t].pc = "fire" /\ worker'[t].todo = worker[t].todo
          BY <4>2 DEF TypeOK
        <4>. QED BY <3>2, <4>3 DEF Firing
      <3>. QED BY <3>1, <3>2
    <2>. QED BY <1>5, <2>3, <2>4 DEF Check, Lost, Unchanged
  <1>6. ASSUME NEW t \in Threads, Fire(t) PROVE Told'
    <2>. DEFINE w == First(worker[t].todo)
    <2>1. w \in alerted' \union dropped' /\ alerted \subseteq alerted' /\ dropped \subseteq dropped'
      BY <1>6 DEF Fire
    <2>2. Told
      BY <1>0, <1>6 DEF Fire, Exists
    <2>3. \A u \in Threads \ {t} : worker'[u] = worker[u]
      BY <1>6, AdvanceTyped DEF Fire
    <2>. QED BY <2>1, <2>2, <2>3 DEF Firing
  <1>7. ASSUME NEW t \in Threads, Crash(t) PROVE Told'
    <2>1. Told
      BY <1>0, <1>7 DEF Crash, Exists
    <2>2. \A u \in Threads \ {t} : worker'[u] = worker[u]
      BY <1>7 DEF Crash, TypeOK
    <2>3. /\ alerted' = alerted /\ dropped \subseteq dropped'
          /\ worker[t].pc = "fire" => First(worker[t].todo) \in dropped'
      BY <1>7 DEF Crash
    <2>. QED BY <2>1, <2>2, <2>3 DEF Firing
  <1>8. CASE UNCHANGED vars
    BY <1>0, <1>8 DEF vars, history, Firing, Exists
  <1>. QED BY <1>1, <1>2, <1>3, <1>4, <1>5, <1>6, <1>7, <1>8 DEF Next

\* No alert is suppressed by a flag that nothing was sent for, with any number of threads,
\* losses and crashes (process_watches, _fire).
THEOREM ArmedIsAnnounced == Spec => []ArmedMeansAnnounced
  <1>1. Init => ArmedMeansAnnounced
    BY DEF Init, ArmedMeansAnnounced, Exists, NoRow
  <1>. QED BY <1>1, StepAnnounced, Typing, PTL DEF Spec

-----------------------------------------------------------------------------
(* A steady condition alerts once.                                         *)

LEMMA InitFiring == Init => FiringInv
  <1>1. Init => ClearMayFire /\ ReadMayFire
    BY DEF Init, ClearMayFire, ReadMayFire, Undecided, Resting
  <1>. QED BY <1>1, InitTyped DEF FiringInv

LEMMA CheckFiring ==
    ASSUME FiringInv, NEW t \in Threads, Check(t)
    PROVE  ClearMayFire' /\ ReadMayFire'
  <1>. DEFINE w == First(worker[t].todo)
  <1>0. TypeOK
    BY DEF FiringInv
  <1>1. worker[t].pc = "check" /\ w \in Watch /\ w \in worker[t].todo
    BY <1>0, InHand DEF Check
  <1>2. \A u \in Threads \ {t} : worker'[u] = worker[u]
    <2>1. CASE Verdict(t) = "fired"
      BY <1>0, <2>1 DEF Check, TypeOK, Nothing
    <2>2. CASE Verdict(t) # "fired"
      BY <1>0, <1>1, <2>2, AdvanceTyped DEF Check
    <2>. QED BY <2>1, <2>2
  <1>3. \A v \in Watch : Undecided(t, v)' => v # w /\ Undecided(t, v)
    <2>1. CASE Verdict(t) = "fired"
      <3>1. worker'[t] = [worker[t] EXCEPT !.pc = "fire"]
        BY <1>0, <2>1 DEF Check, TypeOK, Nothing
      <3>2. /\ worker'[t].pc = "fire" /\ worker'[t].todo = worker[t].todo
            /\ worker'[t].seen = worker[t].seen
        BY <1>0, <3>1 DEF TypeOK
      <3>. QED BY <1>1, <3>2 DEF Undecided
    <2>2. CASE Verdict(t) # "fired"
      BY <1>0, <1>1, <2>2, AdvanceTyped DEF Check, Undecided
    <2>. QED BY <2>1, <2>2
  <1>4. \A v \in Watch \ {w} :
          /\ row'[v] = row[v] /\ (v \in excused' <=> v \in excused)
          /\ \A u \in Threads : v \in passed[u] => v \in passed'[u]
    <2>1. CASE set_watch_state(t, w, Verdict(t))
      BY <1>0, <1>1, <2>1 DEF set_watch_state, TypeOK
    <2>2. CASE Lost(t, w) \/ Unchanged(t, w)
      BY <1>0, <1>1, <2>2 DEF Lost, Unchanged, TypeOK
    <2>. QED BY <2>1, <2>2 DEF Check
  <1>5. ClearMayFire'
    <2>1. row'[w].last_state = "clear" => w \in excused'
      <3>1. CASE row' = row /\ excused \subseteq excused'
        BY <1>1, <3>1 DEF FiringInv, ClearMayFire
      <3>2. CASE Verdict(t) # Nothing /\ set_watch_state(t, w, Verdict(t))
        BY <1>0, <1>1, <3>2 DEF set_watch_state, TypeOK
      <3>. QED BY <3>1, <3>2 DEF Check, Lost, Unchanged
    <2>. QED BY <1>4, <2>1 DEF FiringInv, ClearMayFire
  <1>6. \A u \in Threads \ {t} : Undecided(u, w) => w \in excused' \/ w \in passed'[u]
    <2>. SUFFICES ASSUME NEW u \in Threads \ {t}, Undecided(u, w)
                  PROVE  w \in excused' \/ w \in passed'[u]
      OBVIOUS
    <2>1. w \in excused \/ w \in passed[u]
      BY <1>1 DEF FiringInv, ReadMayFire
    <2>2. CASE excused \subseteq excused' /\ passed'[u] = passed[u]
      BY <2>1, <2>2
    <2>3. CASE set_watch_state(t, w, Verdict(t))
      BY <1>1, <2>3 DEF set_watch_state, Undecided
    <2>4. Lost(t, w) \/ Unchanged(t, w) => excused \subseteq excused' /\ passed'[u] = passed[u]
      BY <1>0 DEF Lost, Unchanged, TypeOK
    <2>. QED BY <2>2, <2>3, <2>4 DEF Check
  <1>7. ReadMayFire'
    <2>. SUFFICES ASSUME NEW u \in Threads, NEW v \in Watch, Undecided(u, v)'
                  PROVE  v \in excused' \/ v \in passed'[u]
      BY DEF ReadMayFire
    <2>1. CASE u = t
      BY <1>3, <1>4, <2>1 DEF FiringInv, ReadMayFire
    <2>2. CASE u # t
      <3>1. Undecided(u, v)
        BY <1>2, <2>2 DEF Undecided
      <3>. QED BY <1>4, <1>6, <2>2, <3>1 DEF FiringInv, ReadMayFire
    <2>. QED BY <2>1, <2>2
  <1>. QED BY <1>5, <1>7

LEMMA StepFiring == FiringInv /\ [Next]_vars => FiringInv'
  <1>. SUFFICES ASSUME FiringInv, [Next]_vars PROVE ClearMayFire' /\ ReadMayFire'
    BY StepTyped DEF FiringInv
  <1>0. TypeOK /\ ClearMayFire /\ ReadMayFire
    BY DEF FiringInv
  <1>1. ASSUME NEW w \in Watch, cancel(w) PROVE ClearMayFire' /\ ReadMayFire'
    <2>1. \A v \in Watch : row'[v].last_state = row[v].last_state
      BY <1>0, <1>1 DEF cancel, TypeOK
    <2>. QED BY <1>0, <1>1, <2>1 DEF cancel, history, ClearMayFire, ReadMayFire, Undecided
  <1>2. ASSUME NEW w \in Watch, NEW raw \in Raw, create(w, raw) PROVE ClearMayFire' /\ ReadMayFire'
    <2>1. \A v \in Watch \ {w} : row'[v] = row[v]
      BY <1>0, <1>2 DEF create, TypeOK
    <2>. QED BY <1>0, <1>2, <2>1 DEF create, history, ClearMayFire, ReadMayFire, Undecided
  <1>3. CASE Bar \/ fresh_price \/ Halt
    BY <1>0, <1>3 DEF Bar, fresh_price, Halt, history, ClearMayFire, ReadMayFire, Undecided
  <1>4. ASSUME NEW t \in Threads, Tick(t) PROVE ClearMayFire' /\ ReadMayFire'
    <2>1. \A u \in Threads \ {t} : worker'[u] = worker[u] /\ passed'[u] = passed[u]
      BY <1>0, <1>4 DEF Tick, TypeOK
    <2>2. \A v \in Watch : Undecided(t, v)' => row[v].last_state = "clear"
      BY <1>0, <1>4 DEF Tick, Undecided, TypeOK
    <2>. QED BY <1>0, <1>4, <2>1, <2>2 DEF Tick, ClearMayFire, ReadMayFire, Undecided
  <1>5. ASSUME NEW t \in Threads, Check(t) PROVE ClearMayFire' /\ ReadMayFire'
    BY <1>5, CheckFiring
  <1>6. ASSUME NEW t \in Threads, Fire(t) PROVE ClearMayFire' /\ ReadMayFire'
    <2>1. \A u \in Threads \ {t} : worker'[u] = worker[u]
      BY <1>0, <1>6, AdvanceTyped DEF Fire
    <2>2. \A v \in Watch : Undecided(t, v)' => Undecided(t, v)
      BY <1>0, <1>6, AdvanceTyped DEF Fire, Undecided
    <2>. QED BY <1>0, <1>6, <2>1, <2>2 DEF Fire, ClearMayFire, ReadMayFire, Undecided
  <1>7. ASSUME NEW t \in Threads, Crash(t) PROVE ClearMayFire' /\ ReadMayFire'
    <2>1. \A u \in Threads \ {t} : worker'[u] = worker[u] /\ passed'[u] = passed[u]
      BY <1>0, <1>7 DEF Crash, TypeOK
    <2>2. worker'[t].pc = "idle"
      BY <1>0, <1>7 DEF Crash, TypeOK, Resting
    <2>. QED BY <1>0, <1>7, <2>1, <2>2 DEF Crash, ClearMayFire, ReadMayFire, Undecided
  <1>8. CASE UNCHANGED vars
    BY <1>0, <1>8 DEF vars, history, ClearMayFire, ReadMayFire, Undecided
  <1>. QED BY <1>1, <1>2, <1>3, <1>4, <1>5, <1>6, <1>7, <1>8 DEF Next

\* A second alert of a steady condition needs a row that was armed in between, a lost write
\* of the flag, or another thread's write between this one's read and its decision.
THEOREM AlertsOnce == Spec => SteadyConditionAlertsOnce
  <1>. DEFINE Twice(t) ==
         worker[t].pc = "check" /\ worker'[t].pc = "fire"
            => \E w \in worker[t].todo :
                 First(worker[t].todo) = w /\ (w \in excused \/ w \in passed[t])
  <1>1. ASSUME FiringInv, [Next]_vars, NEW t \in Threads,
               worker[t].pc = "check", worker'[t].pc = "fire"
        PROVE  \E w \in worker[t].todo :
                 First(worker[t].todo) = w /\ (w \in excused \/ w \in passed[t])
    <2>0. TypeOK
      BY <1>1 DEF FiringInv
    <2>1. First(worker[t].todo) \in worker[t].todo /\ First(worker[t].todo) \in Watch
      BY <1>1, <2>0, InHand
    <2>2. Check(t)
      <3>1. ASSUME NEW u \in Threads, Tick(u) \/ Crash(u) PROVE FALSE
        <4>1. worker'[u].pc # "fire" /\ \A v \in Threads \ {u} : worker'[v] = worker[v]
          BY <2>0, <3>1 DEF Tick, Crash, Resting, TypeOK
        <4>. QED BY <1>1, <4>1
      <3>2. ASSUME NEW u \in Threads, Fire(u) PROVE FALSE
        BY <1>1, <2>0, <3>2, AdvanceTyped DEF Fire
      <3>3. ASSUME NEW u \in Threads \ {t}, Check(u) PROVE FALSE
        <4>1. CASE Verdict(u) = "fired"
          BY <1>1, <2>0, <3>3, <4>1 DEF Check, TypeOK, Nothing
        <4>2. CASE Verdict(u) # "fired"
          BY <1>1, <2>0, <3>3, <4>2, AdvanceTyped DEF Check
        <4>. QED BY <4>1, <4>2
      <3>4. worker' # worker
        BY <1>1
      <3>. QED BY <1>1, <3>1, <3>2, <3>3, <3>4
            DEF Next, cancel, create, Bar, fresh_price, Halt, vars
    <2>3. Verdict(t) = "fired"
      BY <1>1, <2>0, <2>2, AdvanceTyped DEF Check
    <2>4. worker[t].seen[First(worker[t].todo)] = "clear"
      BY <2>0, <2>1, <2>3, Verdicts DEF TypeOK
    <2>. QED BY <1>1, <2>1, <2>4 DEF FiringInv, ReadMayFire, Undecided
  <1>2. FiringInv /\ [Next]_vars => [\A t \in Threads : Twice(t)]_vars
    BY <1>1
  <1>3. Spec => []FiringInv
    BY InitFiring, StepFiring, PTL DEF Spec
  <1>. QED BY <1>2, <1>3, PTL DEF Spec, SteadyConditionAlertsOnce

-----------------------------------------------------------------------------
(* MarketData: the bars.                                                   *)

\* A set of numbers has a least one.
LEMMA LeastOf ==
  ASSUME NEW T, T \subseteq Nat, T # {}
  PROVE  \E x \in T : \A y \in T : x <= y
<1> DEFINE Less == OpToRel(<, Nat)
<1>1. PICK x \in T : \A y \in T : <<y, x>> \notin Less
  <2>1. IsWellFoundedOn(Less, Nat)
    BY NatLessThanWellFounded
  <2> HIDE DEF Less
  <2>. QED BY <2>1, WFMin
<1>2. \A y \in T : ~(y < x)
  BY <1>1 DEF OpToRel
<1>. QED BY <1>2

LEMMA HourType ==
  /\ PAGE \in Nat /\ CHUNK \in Nat /\ HISTORY \in Nat /\ FirstHour \in Nat /\ LastHour \in Nat
  /\ HISTORY > 0 /\ FirstHour > 0 /\ MaxPulls \in Nat /\ PAGE > 1
  /\ \A w \in Windows : w \in Nat /\ w > 1 /\ w < FirstHour
BY HourAssumption

\* A set of hours has a last one.
LEMMA NewestBound ==
  ASSUME NEW S \in SUBSET Hours, S # {}
  PROVE  \E m \in S : \A r \in S : m >= r
<1> DEFINE Left == {LastHour - t : t \in S}
<1>1. LastHour \in Nat /\ \A t \in S : t \in Nat /\ t <= LastHour
  BY HourType DEF Hours
<1>2. Left \subseteq Nat /\ Left # {}
  BY <1>1
<1>3. PICK x \in Left : \A y \in Left : x <= y
  <2> HIDE DEF Left
  <2>. QED BY <1>2, LeastOf
<1>4. PICK t \in S : x = LastHour - t
  OBVIOUS
<1>5. ASSUME NEW r \in S PROVE t >= r
  <2>1. x <= LastHour - r
    BY <1>3
  <2> HIDE DEF Left
  <2>. QED BY <1>1, <1>4, <2>1
<1>. QED BY <1>5

LEMMA NewestOf ==
  ASSUME NEW S \in SUBSET Hours, S # {}
  PROVE  Max(S) \in S /\ Newest(S) \in S /\ \A r \in S : Max(S) >= r
<1>1. \E m \in S : \A r \in S : m >= r
  BY NewestBound
<1>2. Max(S) \in S /\ \A r \in S : Max(S) >= r
  BY <1>1 DEF Max
<1>. QED BY <1>2 DEF Newest

LEMMA HoursFinite ==
  ASSUME NEW S \in SUBSET Hours
  PROVE  IsFiniteSet(S) /\ Cardinality(S) \in Nat /\ \A r \in S : r \in Nat /\ r > 0
<1>1. LastHour \in Nat
  BY HourType
<1>2. IsFiniteSet(1 .. LastHour)
  BY <1>1, FS_Interval
<1>3. IsFiniteSet(S)
  BY <1>2, FS_Subset DEF Hours
<1>. QED BY <1>1, <1>3, FS_CardinalityType DEF Hours

\* The row bisect finds is at or before the time it looks for: no row behind it has as few
\* rows up to itself.
LEMMA BisectedBefore ==
  ASSUME NEW rows \in SUBSET Hours, NEW t \in Nat, Upto(rows, t) > 0
  PROVE  At(rows, Upto(rows, t)) \in 0..t
<1> DEFINE S == {r \in rows : r <= t}
           Below(r) == {u \in rows : u <= r}
           n == Upto(rows, t)
<1>1. \A r \in rows : r \in Nat
  BY HoursFinite
<1>2. S \in SUBSET Hours /\ S # {} /\ n = Cardinality(S)
  <2>1. S \in SUBSET Hours /\ n = Cardinality(S)
    BY DEF Upto
  <2>2. n # 0
    OBVIOUS
  <2>. QED BY <2>1, <2>2, FS_EmptySet
<1>3. \E r \in rows : Cardinality(Below(r)) = n
  <2>1. Max(S) \in S /\ \E m \in S : \A r \in S : m >= r
    <3>1. Max(S) \in S
      BY <1>2, NewestOf
    <3>. QED BY <1>2, <3>1, NewestBound
  <2>2. PICK m \in S : \A r \in S : m >= r
    BY <2>1
  <2>3. Below(m) = S
    BY <1>1, <2>2
  <2>. QED BY <1>2, <2>2, <2>3
<1>4. At(rows, n) \in rows /\ Cardinality(Below(At(rows, n))) = n
  BY <1>3 DEF At
<1>5. At(rows, n) <= t
  <2> SUFFICES ASSUME ~(At(rows, n) <= t) PROVE FALSE
    OBVIOUS
  <2> DEFINE a == At(rows, n)
  <2>1. a \in Nat /\ a \in Below(a) /\ a \notin S
    BY <1>1, <1>4
  <2>2. S \subseteq Below(a)
    BY <1>1, <2>1
  <2>3. IsFiniteSet(Below(a))
    BY HoursFinite
  <2>4. Cardinality(S) < Cardinality(Below(a))
    <3> HIDE DEF a, S, Below
    <3>. QED BY <2>1, <2>2, <2>3, FS_Subset, FS_CardinalityType
  <2>. QED BY <1>2, <1>4, <2>4, HoursFinite
<1>. QED BY <1>1, <1>4, <1>5

LEMMA ReadingType ==
  ASSUME NEW rows \in SUBSET Hours, NEW t \in Nat, NEW fetched \in Nat
  PROVE  Interest(t, rows) \in 0..t /\ Sentiment(t, fetched) \in 0..t
<1>1. Readings(fetched) \in SUBSET Hours
  BY DEF Readings
<1>2. Sentiment(t, fetched) \in 0..t
  BY <1>1, BisectedBefore DEF Sentiment
<1>3. Interest(t, rows) \in 0..t
  <2> DEFINE idx == Upto(rows, t)
  <2>1. Interest(t, rows) = IF idx > 0 /\ t - At(rows, idx) <= 1 THEN At(rows, idx) ELSE 0
    BY DEF Interest
  <2>2. idx > 0 => At(rows, idx) \in 0..t
    BY BisectedBefore
  <2> HIDE DEF idx
  <2>. QED BY <2>1, <2>2
<1>. QED BY <1>2, <1>3

-----------------------------------------------------------------------------
(* Type correctness.                                                       *)

Stages  == {"candles", "funding", "funding pages", "interest", "interest pages", "merge",
            "write"}
Candle  == [t : Nat, final : BOOLEAN]
OneBar     == [t : Nat, final : BOOLEAN, fr : Nat, oi : Nat, fg : Nat]
Pull    == [pc : Stages \cup {"idle"}, window : Nat, start : Nat, end : Nat, cursor : Nat,
            tries : Nat, got : Seq(Candle), rows : SUBSET Hours, fr : SUBSET Hours,
            rates : Seq(Nat)]

DataType ==
    /\ now \in Nat /\ FirstHour <= now /\ listed \in Nat /\ listed <= now /\ now <= listed + 1
    /\ pull \in Pull /\ (pull.pc # "idle" => pull.window \in Windows)
    /\ records \in [Windows -> Seq(OneBar)] /\ live \in Seq(OneBar) /\ pulls \in Nat
    /\ frCache \in SUBSET Hours /\ oiCache \in SUBSET Hours /\ fgCache \in Nat

\* The bars of a window of w hours that begins at s: in order, w of them or w - 1, all
\* but that of the last hour closed.
Window(bars, w, s) ==
    /\ Len(bars) \in {w - 1, w}
    /\ \A i \in 1..Len(bars) : bars[i].t = s + i - 1 /\ (i < w => bars[i].final)

LEMMA CandlesType ==
  ASSUME NEW from \in Nat, NEW to \in Nat, now \in Nat
  PROVE  /\ Candles(from, to) \in Seq(Candle)
         /\ Len(Candles(from, to)) = IF to < from THEN 0 ELSE to - from + 1
         /\ \A i \in 1..Len(Candles(from, to)) :
               Candles(from, to)[i] = [t |-> from + i - 1, final |-> from + i - 1 < now]
<1> DEFINE n == IF to < from THEN 0 ELSE to - from + 1
           c(i) == [t |-> from + i - 1, final |-> from + i - 1 < now]
<1>1. n \in Nat
  OBVIOUS
<1>2. Candles(from, to) = [i \in 1..n |-> c(i)]
  BY DEF Candles
<1>3. \A i \in 1..n : c(i) \in Candle
  <2> SUFFICES ASSUME NEW i \in 1..n PROVE c(i) \in Candle
    OBVIOUS
  <2>1. from + i - 1 \in Nat /\ (from + i - 1 < now) \in BOOLEAN
    BY <1>1
  <2>. QED BY <2>1 DEF Candle
<1> HIDE DEF n, c
<1>4. Candles(from, to) \in Seq(Candle) /\ Len(Candles(from, to)) = n
  BY <1>1, <1>2, <1>3
<1>. QED BY <1>2, <1>4 DEF n, c

\* What is on disk is whole, and knows of nothing later; what the feed returned has closed.
Timely(bar) == bar.fr <= bar.t /\ bar.oi <= bar.t /\ bar.fg <= bar.t
Forward(bars) == \A i \in DOMAIN bars : i > 1 => bars[i - 1].fr <= bars[i].fr
DiskInv ==
    /\ \A w \in Windows : Forward(records[w])
    /\ \A w \in Windows : records[w] # <<>> => \E s \in Nat : Window(records[w], w, s)
    /\ \A w \in Windows : \A i \in DOMAIN records[w] : Timely(records[w][i])
    /\ \A i \in DOMAIN live : live[i].final

\* The candles read so far are the closed ones from the start of the window to the
\* cursor; once they are all there the window does not change.
PullInv ==
    /\ pull.pc = "candles" =>
        /\ pull.start > 0 /\ pull.end = pull.start + pull.window - 1 /\ pull.end <= now
        /\ pull.cursor = pull.start + Len(pull.got) /\ pull.cursor <= pull.end
        /\ \A i \in 1..Len(pull.got) : pull.got[i].t = pull.start + i - 1 /\ pull.got[i].final
    /\ pull.pc \in Stages \ {"candles"} => \E s \in Nat : Window(pull.got, pull.window, s)

\* The loop over the settlements: what the bars behind it got is of their time or before and
\* older than what the pointer still has ahead.
MergeInv ==
    /\ pull.pc \notin {"merge", "write"} => pull.rates = <<>>
    /\ \A i \in 1..Len(pull.rates) :
          /\ i <= Len(pull.got) /\ pull.rates[i] <= pull.got[i].t
          /\ i > 1 => pull.rates[i - 1] <= pull.rates[i]
          /\ \A r \in pull.fr : pull.rates[i] < r
    /\ pull.pc = "merge" => Len(pull.rates) < Len(pull.got)
    /\ pull.pc = "write" => Len(pull.rates) = Len(pull.got)

DataInv == DataType /\ DiskInv /\ PullInv /\ MergeInv

LEMMA NoPullType == NoPull \in Pull /\ NoPull.pc = "idle" /\ NoPull.rates = <<>>
BY DEF NoPull, Pull, Stages, Hours

LEMMA StageType ==
  ASSUME NEW p \in Pull, NEW pc \in Stages
  PROVE  /\ Stage(p, pc) \in Pull
         /\ Stage(p, pc).pc = pc /\ Stage(p, pc).got = p.got /\ Stage(p, pc).window = p.window
         /\ Stage(p, pc).rates = p.rates
<1> DEFINE c == IF p.got = <<>> THEN 1 ELSE p.got[1].t
<1>1. c \in Nat
  <2>1. p.got \in Seq(Candle)
    BY DEF Pull
  <2>2. p.got # <<>> => 1 \in 1..Len(p.got)
    BY <2>1
  <2>3. CASE p.got # <<>>
    <3>1. p.got[1] \in Candle
      BY <2>1, <2>2, <2>3
    <3>. QED BY <2>3, <3>1 DEF Candle
  <2>. QED BY <2>3
<1>2. Stage(p, pc) = [p EXCEPT !.pc = pc, !.tries = 1, !.rows = {}, !.cursor = c]
  BY DEF Stage
<1> HIDE DEF c
<1>3. Stage(p, pc) \in Pull
  <2>1. {} \in SUBSET Hours /\ pc \in Stages \cup {"idle"} /\ 1 \in Nat
    OBVIOUS
  <2>. QED BY <1>1, <1>2, <2>1 DEF Pull
<1>4. /\ Stage(p, pc).pc = pc /\ Stage(p, pc).got = p.got /\ Stage(p, pc).window = p.window
      /\ Stage(p, pc).rates = p.rates
  BY <1>2 DEF Pull
<1>. QED BY <1>3, <1>4

\* A window of more than one bar has a first and a last one.
LEMMA WindowEnds ==
  ASSUME NEW bars \in Seq(Candle), NEW w \in Windows, NEW s \in Nat, Window(bars, w, s)
  PROVE  /\ bars # <<>> /\ 1 \in DOMAIN bars /\ Len(bars) \in DOMAIN bars
         /\ bars[1].t \in Nat /\ bars[Len(bars)].t \in Nat
<1>1. w \in Nat /\ w > 1
  BY HourType
<1>2. Len(bars) \in Nat /\ Len(bars) > 0 /\ DOMAIN bars = 1..Len(bars)
  BY <1>1 DEF Window
<1>3. 1 \in 1..Len(bars) /\ Len(bars) \in 1..Len(bars)
  BY <1>2
<1>4. bars[1] \in Candle /\ bars[Len(bars)] \in Candle
  BY <1>3
<1>5. bars # <<>>
  BY <1>2
<1>. QED BY <1>2, <1>3, <1>4, <1>5 DEF Candle

-----------------------------------------------------------------------------
(* A pull.                                                                 *)

LEMMA StartStep ==
  ASSUME DataInv, NEW w \in Windows, NEW force, Start(w, force)
  PROVE  DataInv'
<1> USE DEF DataInv, disk, feed
<1>1. w \in Nat /\ w > 1 /\ w < now /\ now \in Nat
  BY HourType DEF DataType
<1> DEFINE s == now - w + 1
<1>2. s \in Nat /\ s > 0 /\ s + w - 1 = now /\ s <= now
  BY <1>1
<1>3. pull' = [NoPull EXCEPT !.pc = "candles", !.window = w, !.start = s, !.end = now, !.cursor = s]
  BY DEF Start
<1> HIDE DEF s
<1>4. pull' \in Pull
  BY <1>1, <1>2, <1>3, NoPullType DEF Pull, Stages
<1>5. /\ pull'.pc = "candles" /\ pull'.window = w /\ pull'.start = s /\ pull'.end = now
      /\ pull'.cursor = s /\ pull'.got = <<>> /\ pull'.rates = <<>>
  BY <1>3 DEF NoPull
<1>6. UNCHANGED <<now, listed, disk, live>> /\ pulls' = pulls + 1
  BY DEF Start, Another
<1>7. DataType'
  BY <1>4, <1>5, <1>6 DEF DataType
<1>8. PullInv'
  BY <1>1, <1>2, <1>5, <1>6 DEF PullInv
<1>9. DiskInv'
  BY <1>6 DEF DiskInv
<1>10. MergeInv'
  BY <1>5 DEF MergeInv
<1>. QED BY <1>7, <1>8, <1>9, <1>10

LEMMA EnrichStep ==
  ASSUME DataInv, NEW w \in Windows, Enrich(w)
  PROVE  DataInv'
<1> USE DEF DataInv, disk, feed
<1> DEFINE got == [i \in DOMAIN records[w] |-> [t |-> records[w][i].t, final |-> records[w][i].final]]
<1>1. records[w] \in Seq(OneBar) /\ records[w] # <<>>
  BY DEF Enrich, DataType
<1>2. PICK s \in Nat : Window(records[w], w, s)
  BY <1>1 DEF DiskInv
<1>3. got \in Seq(Candle) /\ Len(got) = Len(records[w])
  <2>1. DOMAIN records[w] = 1..Len(records[w]) /\ Len(records[w]) \in Nat
    BY <1>1
  <2>2. \A i \in 1..Len(records[w]) : [t |-> records[w][i].t, final |-> records[w][i].final] \in Candle
    <3>1. \A i \in 1..Len(records[w]) : records[w][i] \in OneBar
      BY <1>1
    <3>. QED BY <3>1 DEF OneBar, Candle
  <2>. QED BY <2>1, <2>2
<1>4. Window(got, w, s)
  <2>1. \A i \in 1..Len(got) : got[i].t = records[w][i].t /\ got[i].final = records[w][i].final
    BY <1>1, <1>3
  <2> HIDE DEF got
  <2>. QED BY <1>2, <1>3, <2>1 DEF Window
<1> DEFINE p == [NoPull EXCEPT !.window = w, !.got = got]
<1>5. pull' = Stage(p, "funding")
  BY DEF Enrich
<1>6. UNCHANGED <<now, listed, disk, live>> /\ pulls' = pulls + 1
  BY DEF Enrich, Another
<1> HIDE DEF got
<1>7. p \in Pull /\ p.got = got /\ p.window = w /\ p.rates = <<>>
  BY <1>3, NoPullType, HourType DEF Pull
<1> HIDE DEF p
<1>8. pull' \in Pull /\ pull'.pc = "funding" /\ pull'.got = got /\ pull'.window = w /\ pull'.rates = <<>>
  BY <1>5, <1>7, StageType DEF Stages
<1>9. DataType'
  BY <1>6, <1>8 DEF DataType
<1>10. PullInv'
  BY <1>4, <1>8 DEF PullInv
<1>11. DiskInv'
  BY <1>6 DEF DiskInv
<1>12. MergeInv'
  BY <1>8 DEF MergeInv
<1>. QED BY <1>9, <1>10, <1>11, <1>12

LEMMA CandlePageStep ==
  ASSUME DataInv, CandlePage
  PROVE  DataInv'
<1> USE DEF DataInv, disk, feed
<1> DEFINE c == pull.cursor
           e == pull.end
           s == pull.start
           w == pull.window
           got == pull.got
           to == Least(c + PAGE - 1, Least(e, listed))
           batch == Candles(c, to)
           next == Past(batch[Len(batch)].t)
           read == [pull EXCEPT !.got = @ \o batch]
<1>1. /\ pull \in Pull /\ now \in Nat /\ listed \in Nat /\ listed <= now /\ now <= listed + 1
      /\ pull.pc = "candles" /\ w \in Windows
  BY DEF CandlePage, DataType
<1>2. c \in Nat /\ e \in Nat /\ s \in Nat /\ w \in Nat /\ got \in Seq(Candle)
  BY <1>1 DEF Pull
<1>3. /\ s > 0 /\ e = s + w - 1 /\ e <= now /\ c = s + Len(got) /\ c <= e
      /\ \A i \in 1..Len(got) : got[i].t = s + i - 1 /\ got[i].final
  BY <1>1 DEF PullInv
<1>4. pull' = IF Len(batch) < PAGE \/ next > e THEN Stage(read, "funding")
              ELSE [read EXCEPT !.cursor = next]
  BY DEF CandlePage
<1>5. UNCHANGED <<now, listed, disk, feed>>
  BY DEF CandlePage
<1> HIDE DEF c, e, s, w, got
<1>6. Len(got) \in Nat /\ c > 0 /\ e <= listed + 1
  BY <1>1, <1>2, <1>3
<1> DEFINE n == to - c + 1
           g == Len(got)
<1>7. /\ to \in Nat /\ n \in Nat /\ (IF to < c THEN 0 ELSE n) = n /\ n <= PAGE
      /\ n < PAGE \/ c + PAGE > e => g + n \in {w - 1, w}
      /\ \A i \in 1..g + n : i < w => s + i - 1 < now
      /\ n = PAGE /\ c + PAGE <= e => c + PAGE = s + (g + n) /\ \A i \in 1..g + n : s + i - 1 < now
  <2>0. /\ c \in Nat /\ e \in Nat /\ s \in Nat /\ w \in Nat /\ now \in Nat /\ listed \in Nat
        /\ c > 0 /\ e <= listed + 1
    BY <1>1, <1>2, <1>6
  <2>1. to = Least(c + PAGE - 1, Least(e, listed)) /\ PAGE \in Nat /\ PAGE > 1
    BY HourType
  <2> HIDE DEF to
  <2>2. n = to - c + 1 /\ g \in Nat /\ c = s + g /\ s > 0
    BY <1>3, <1>6
  <2>3. e = s + w - 1 /\ e <= now /\ c <= e
    BY <1>3
  <2> HIDE DEF to, n, g
  <2>4. to \in {c + PAGE - 1, e, listed} /\ to <= c + PAGE - 1 /\ to <= e
    BY <2>0, <2>1 DEF Least
  <2>5. to \in Nat /\ c - 1 <= to
    BY <2>0, <2>1, <2>3, <2>4
  <2>6. n \in Nat /\ (IF to < c THEN 0 ELSE n) = n /\ n <= PAGE /\ g + n = to - s + 1
    <3>1. n \in Nat /\ n <= PAGE
      BY <2>0, <2>1, <2>2, <2>4, <2>5
    <3>2. (IF to < c THEN 0 ELSE n) = n
      BY <2>0, <2>2, <2>5
    <3>3. g + n = to - s + 1
      BY <2>0, <2>2, <2>5
    <3>. QED BY <3>1, <3>2, <3>3
  <2>7. n < PAGE \/ c + PAGE > e => g + n \in {w - 1, w}
    <3>1. n < PAGE \/ c + PAGE > e => to \in {e - 1, e}
      BY <2>0, <2>1, <2>2, <2>3, <2>4, <2>5
    <3>. QED BY <2>0, <2>3, <2>5, <2>6, <3>1
  <2>8. ASSUME NEW i \in 1..g + n
        PROVE  /\ i < w => s + i - 1 < now
               /\ n = PAGE /\ c + PAGE <= e => s + i - 1 < now
    <3>1. i \in Nat /\ i <= to - s + 1
      BY <2>0, <2>2, <2>5, <2>6
    <3>2. i < w => s + i - 1 < now
      BY <2>0, <2>3, <3>1
    <3>3. n = PAGE /\ c + PAGE <= e => to < now
      BY <2>0, <2>1, <2>2, <2>3, <2>5
    <3>. QED BY <2>0, <2>5, <3>1, <3>2, <3>3
  <2>9. n = PAGE => c + PAGE = s + (g + n)
    BY <2>0, <2>1, <2>2
  <2>. QED BY <2>5, <2>6, <2>7, <2>8, <2>9
<1> HIDE DEF to
<1>8. /\ batch \in Seq(Candle) /\ Len(batch) = n
      /\ \A i \in 1..n : batch[i] = [t |-> c + i - 1, final |-> c + i - 1 < now]
  <2>1. /\ batch \in Seq(Candle) /\ Len(batch) = IF to < c THEN 0 ELSE to - c + 1
        /\ \A i \in 1..Len(batch) : batch[i] = [t |-> c + i - 1, final |-> c + i - 1 < now]
    BY <1>1, <1>2, <1>7, CandlesType
  <2> HIDE DEF batch
  <2>. QED BY <1>7, <2>1
<1> HIDE DEF batch, n
<1> DEFINE all == got \o batch
<1>9. /\ all \in Seq(Candle) /\ Len(all) = g + n
      /\ \A i \in 1..Len(all) : all[i].t = s + i - 1 /\ (s + i - 1 < now => all[i].final)
  <2>1. /\ got \in Seq(Candle) /\ batch \in Seq(Candle) /\ s \in Nat /\ c \in Nat /\ now \in Nat
        /\ c = s + Len(got) /\ Len(got) \in Nat /\ Len(batch) = n /\ n \in Nat
    BY <1>1, <1>2, <1>3, <1>6, <1>7, <1>8
  <2>2. all \in Seq(Candle)
    BY <2>1
  <2>3. /\ Len(all) = Len(got) + Len(batch)
        /\ \A i \in 1..Len(got) + Len(batch) : all[i] = IF i <= Len(got) THEN got[i] ELSE batch[i - Len(got)]
    BY <2>1, ConcatProperties, Zenon
  <2> HIDE DEF all
  <2>4. ASSUME NEW i \in 1..Len(all)
        PROVE  all[i].t = s + i - 1 /\ (s + i - 1 < now => all[i].final)
    <3>1. i \in Nat /\ i >= 1 /\ i <= Len(got) + n /\ i \in 1..Len(got) + Len(batch)
      BY <2>1, <2>3
    <3>2. CASE i <= Len(got)
      <4>1. i \in 1..Len(got) /\ all[i] = got[i]
        BY <2>1, <2>3, <3>1, <3>2
      <4>. QED BY <1>3, <4>1
    <3>3. CASE i > Len(got)
      <4> DEFINE k == i - Len(got)
      <4>1. k \in 1..n /\ c + k - 1 = s + i - 1
        BY <2>1, <3>1, <3>3
      <4>2. all[i] = batch[k]
        BY <2>1, <2>3, <3>1, <3>3
      <4> HIDE DEF k
      <4>3. batch[k] = [t |-> c + k - 1, final |-> c + k - 1 < now]
        BY <1>8, <4>1
      <4>4. all[i].t = c + k - 1 /\ all[i].final = (c + k - 1 < now)
        BY <4>2, <4>3
      <4>. QED BY <4>1, <4>4
    <3>. QED BY <2>1, <3>1, <3>2, <3>3
  <2>. QED BY <2>1, <2>2, <2>3, <2>4
<1>10. n = PAGE => next = c + PAGE
  <2> SUFFICES ASSUME n = PAGE PROVE next = c + PAGE
    OBVIOUS
  <2>1. n \in 1..n /\ PAGE \in Nat
    BY HourType
  <2>2. batch[n].t = c + n - 1
    BY <1>8, <2>1
  <2>. QED BY <1>2, <1>8, <2>1, <2>2 DEF Past
<1>11. read = [pull EXCEPT !.got = all]
  BY DEF got
<1> HIDE DEF all, next
<1>12. read \in Pull /\ read.got = all /\ read.window = w /\ read.pc = "candles"
       /\ read.start = s /\ read.end = e /\ read.rates = <<>>
  <2>1. read \in Pull
    BY <1>1, <1>9, <1>11 DEF Pull
  <2>2. read.got = all /\ read.window = w /\ read.pc = "candles" /\ read.start = s /\ read.end = e
    BY <1>1, <1>11 DEF Pull, w, s, e
  <2>3. read.rates = pull.rates /\ pull.rates = <<>>
    BY <1>1, <1>11 DEF Pull, MergeInv
  <2>. QED BY <2>1, <2>2, <2>3
<1> HIDE DEF read, g
<1>13. DiskInv'
  BY <1>5 DEF DiskInv
<1>14. n \in Nat /\ PAGE \in Nat /\ n <= PAGE
  BY <1>7, HourType
<1>15. CASE n < PAGE \/ next > e
  <2>1. pull' = Stage(read, "funding")
    BY <1>4, <1>8, <1>15
  <2>2. pull' \in Pull /\ pull'.pc = "funding" /\ pull'.got = all /\ pull'.window = w /\ pull'.rates = <<>>
    BY <1>12, <2>1, StageType DEF Stages
  <2>3. n < PAGE \/ c + PAGE > e
    BY <1>10, <1>14, <1>15
  <2>4. Window(all, w, s)
    BY <1>7, <1>9, <2>3 DEF Window
  <2>5. DataType'
    BY <1>1, <1>5, <2>2 DEF DataType
  <2>6. PullInv'
    BY <1>2, <2>2, <2>4 DEF PullInv
  <2>7. MergeInv'
    BY <2>2 DEF MergeInv
  <2>. QED BY <1>13, <2>5, <2>6, <2>7
<1>16. CASE ~ (n < PAGE \/ next > e)
  <2>1. pull' = [read EXCEPT !.cursor = next]
    BY <1>4, <1>8, <1>16
  <2>2. n = PAGE /\ next = c + PAGE
    BY <1>10, <1>14, <1>16
  <2>3. next \in Nat /\ next <= e
    BY <1>2, <1>14, <1>16, <2>2
  <2>4. next = s + Len(all) /\ \A i \in 1..Len(all) : all[i].t = s + i - 1 /\ all[i].final
    BY <1>7, <1>9, <2>2, <2>3
  <2>5. pull' \in Pull
    BY <1>12, <2>1, <2>3 DEF Pull
  <2>6. /\ pull'.pc = "candles" /\ pull'.got = all /\ pull'.window = w /\ pull'.start = s
        /\ pull'.end = e /\ pull'.cursor = next /\ pull'.rates = <<>>
    BY <1>12, <2>1 DEF Pull
  <2>7. DataType'
    BY <1>1, <1>5, <2>5, <2>6 DEF DataType
  <2>8. PullInv'
    BY <1>3, <1>5, <2>3, <2>4, <2>6 DEF PullInv, Stages
  <2>9. MergeInv'
    BY <2>6 DEF MergeInv
  <2>. QED BY <1>13, <2>7, <2>8, <2>9
<1>. QED BY <1>15, <1>16

LEMMA LargerOf ==
  ASSUME NEW a \in Int, NEW b \in Int
  PROVE  Max({a, b}) \in {a, b} /\ Max({a, b}) >= a /\ Max({a, b}) >= b
<1>1. \E x \in {a, b} : \A y \in {a, b} : x >= y
  <2>1. CASE a >= b
    BY <2>1
  <2>2. CASE b >= a
    BY <2>2
  <2>. QED BY <2>1, <2>2
<1>. QED BY <1>1 DEF Max

LEMMA NoPullStep ==
  ASSUME DataInv, pull' = NoPull, UNCHANGED <<now, listed, disk, feed>>
  PROVE  DataInv'
<1> USE DEF DataInv, disk, feed
<1>1. DataType'
  BY NoPullType DEF DataType
<1>2. PullInv'
  BY NoPullType DEF PullInv, Stages
<1>3. MergeInv'
  BY NoPullType DEF MergeInv
<1>. QED BY <1>1, <1>2, <1>3 DEF DiskInv

\* Once the candles are there a pull only goes from stage to stage.
LEMMA StageStep ==
  ASSUME DataInv, pull.pc \in Stages \ {"candles", "merge", "write"},
         pull' \in Pull, pull'.pc \in Stages \ {"candles", "write"},
         pull'.got = pull.got, pull'.window = pull.window, pull'.rates = pull.rates,
         UNCHANGED <<now, listed, records, fgCache, feed>>,
         frCache' \in SUBSET Hours, oiCache' \in SUBSET Hours
  PROVE  DataInv'
<1> USE DEF DataInv, feed
<1>1. DataType'
  BY DEF DataType, Stages
<1>2. PullInv'
  BY DEF PullInv
<1>3. MergeInv'
  <2>1. pull'.rates = <<>>
    BY DEF MergeInv
  <2>2. PICK s \in Nat : Window(pull.got, pull.window, s)
    BY DEF PullInv
  <2>3. pull.got \in Seq(Candle) /\ pull.window \in Windows
    BY DEF DataType, Pull, Stages
  <2>4. Len(pull.got) > 0
    BY <2>2, <2>3, WindowEnds
  <2>. QED BY <2>1, <2>4 DEF MergeInv
<1>. QED BY <1>1, <1>2, <1>3 DEF DiskInv

LEMMA CandleFailsStep ==
  ASSUME DataInv, CandleFails
  PROVE  DataInv'
<1>1. CASE pull.tries = ATTEMPTS
  BY <1>1, NoPullStep DEF CandleFails
<1>2. CASE pull.tries # ATTEMPTS
  <2> USE DEF DataInv, disk, feed
  <2>1. /\ pull' = [pull EXCEPT !.tries = @ + 1, !.cursor = pull.start, !.got = <<>>]
        /\ UNCHANGED <<now, listed, disk, feed>> /\ pull.pc = "candles"
    BY <1>2 DEF CandleFails
  <2>2. pull \in Pull /\ pull.window \in Windows
    BY <2>1 DEF DataType
  <2>3. pull.tries + 1 \in Nat /\ pull.start \in Nat /\ pull.window \in Nat /\ pull.window > 1
    BY <2>2, HourType DEF Pull
  <2>4. pull' \in Pull
    <3>1. <<>> \in Seq(Candle)
      OBVIOUS
    <3>2. pull' = [pull EXCEPT !.tries = pull.tries + 1, !.cursor = pull.start, !.got = <<>>]
      BY <2>1
    <3>. QED BY <2>2, <2>3, <3>1, <3>2 DEF Pull
  <2>5. /\ pull'.pc = "candles" /\ pull'.got = <<>> /\ pull'.window = pull.window
        /\ pull'.start = pull.start /\ pull'.end = pull.end /\ pull'.cursor = pull.start
        /\ pull'.rates = pull.rates
    BY <2>1, <2>2 DEF Pull
  <2>6. DataType'
    BY <2>1, <2>2, <2>4, <2>5 DEF DataType
  <2>7. pull.start > 0 /\ pull.end = pull.start + pull.window - 1 /\ pull.end <= now
    BY <2>1 DEF PullInv
  <2>8. pull.start <= pull.end
    BY <2>3, <2>7
  <2>9. PullInv'
    <3>1. pull.start = pull.start + Len(<<>>) /\ 1..Len(<<>>) = {}
      BY <2>3
    <3>. QED BY <2>1, <2>5, <2>7, <2>8, <3>1 DEF PullInv
  <2>10. MergeInv'
    BY <2>1, <2>5 DEF MergeInv
  <2>. QED BY <2>1, <2>6, <2>9, <2>10 DEF DiskInv
<1>. QED BY <1>1, <1>2

LEMMA RowsFailStep ==
  ASSUME DataInv, RowsFail
  PROVE  DataInv'
<1>1. /\ pull \in Pull /\ pull.pc \in {"funding pages", "interest pages"}
      /\ frCache \in SUBSET Hours /\ oiCache \in SUBSET Hours
      /\ UNCHANGED <<now, listed, disk, feed>>
  BY DEF RowsFail, DataInv, DataType
<1>2. pull' \in Pull /\ pull'.pc \in Stages \ {"candles", "write"}
      /\ pull'.got = pull.got /\ pull'.window = pull.window /\ pull'.rates = pull.rates
  <2>1. CASE pull.tries < ATTEMPTS
    <3> DEFINE p == Stage(pull, pull.pc)
    <3>1. p \in Pull /\ p.pc = pull.pc /\ p.got = pull.got /\ p.window = pull.window /\ p.rates = pull.rates
      <4>1. pull.pc \in Stages
        BY <1>1 DEF Stages
      <4>. QED BY <1>1, <4>1, StageType
    <3>2. pull' = [p EXCEPT !.tries = pull.tries + 1]
      BY <2>1 DEF RowsFail
    <3>3. pull.tries + 1 \in Nat
      <4>1. pull.tries \in Nat
        BY <1>1 DEF Pull
      <4>. QED BY <4>1
    <3> HIDE DEF p
    <3>4. pull' \in Pull
      BY <3>1, <3>2, <3>3 DEF Pull
    <3>5. pull'.pc = p.pc /\ pull'.got = p.got /\ pull'.window = p.window
      /\ pull'.rates = p.rates
      BY <3>1, <3>2 DEF Pull
    <3>. QED BY <1>1, <3>1, <3>4, <3>5 DEF Stages
  <2>2. CASE ~(pull.tries < ATTEMPTS) /\ pull.pc = "funding pages"
    <3> DEFINE p == [pull EXCEPT !.fr = {}]
    <3>1. p \in Pull /\ p.got = pull.got /\ p.window = pull.window /\ p.rates = pull.rates
      BY <1>1 DEF Pull
    <3>2. pull' = Stage(p, "interest")
      BY <2>2 DEF RowsFail
    <3> HIDE DEF p
    <3>. QED BY <3>1, <3>2, StageType DEF Stages
  <2>3. CASE ~(pull.tries < ATTEMPTS) /\ pull.pc # "funding pages"
    <3>1. pull' = Stage(pull, "merge")
      BY <2>3 DEF RowsFail
    <3>. QED BY <1>1, <3>1, StageType DEF Stages
  <2>. QED BY <2>1, <2>2, <2>3
<1>. QED BY <1>1, <1>2, StageStep DEF Stages, disk

LEMMA FundingBeginsStep ==
  ASSUME DataInv, FundingBegins
  PROVE  DataInv'
<1>1. /\ pull \in Pull /\ pull.pc = "funding"
      /\ frCache \in SUBSET Hours /\ oiCache \in SUBSET Hours
      /\ UNCHANGED <<now, listed, disk, feed>>
  BY DEF FundingBegins, DataInv, DataType
<1>2. pull' \in Pull /\ pull'.pc \in Stages \ {"candles", "write"}
      /\ pull'.got = pull.got /\ pull'.window = pull.window /\ pull'.rates = pull.rates
  <2>1. CASE Covers(frCache)
    <3> DEFINE p == [pull EXCEPT !.fr = frCache]
    <3>1. p \in Pull /\ p.got = pull.got /\ p.window = pull.window /\ p.rates = pull.rates
      BY <1>1 DEF Pull
    <3>2. pull' = Stage(p, "interest")
      BY <2>1 DEF FundingBegins
    <3> HIDE DEF p
    <3>. QED BY <3>1, <3>2, StageType DEF Stages
  <2>2. CASE ~ Covers(frCache)
    <3>1. pull' = Stage(pull, "funding pages")
      BY <2>2 DEF FundingBegins
    <3>. QED BY <1>1, <3>1, StageType DEF Stages
  <2>. QED BY <2>1, <2>2
<1>. QED BY <1>1, <1>2, StageStep DEF Stages, disk

LEMMA InterestBeginsStep ==
  ASSUME DataInv, InterestBegins
  PROVE  DataInv'
<1>1. /\ pull \in Pull /\ pull.pc = "interest"
      /\ frCache \in SUBSET Hours /\ oiCache \in SUBSET Hours
      /\ UNCHANGED <<now, listed, disk, feed>>
  BY DEF InterestBegins, DataInv, DataType
<1>2. pull' \in Pull /\ pull'.pc \in Stages \ {"candles", "write"}
      /\ pull'.got = pull.got /\ pull'.window = pull.window /\ pull'.rates = pull.rates
  <2>1. CASE Covers(oiCache)
    <3> DEFINE p == Stage(pull, "merge")
    <3>1. p \in Pull /\ p.pc = "merge" /\ p.got = pull.got /\ p.window = pull.window /\ p.rates = pull.rates
      BY <1>1, StageType DEF Stages
    <3>2. pull' = [p EXCEPT !.rows = oiCache]
      BY <2>1 DEF InterestBegins
    <3> HIDE DEF p
    <3>3. pull' \in Pull
      BY <1>1, <3>1, <3>2 DEF Pull
    <3>4. pull'.pc = p.pc /\ pull'.got = p.got /\ pull'.window = p.window
      /\ pull'.rates = p.rates
      BY <3>1, <3>2 DEF Pull
    <3>. QED BY <3>1, <3>3, <3>4 DEF Stages
  <2>2. CASE ~ Covers(oiCache)
    <3>1. pull' = Stage(pull, "interest pages")
      BY <2>2 DEF InterestBegins
    <3>. QED BY <1>1, <3>1, StageType DEF Stages
  <2>. QED BY <2>1, <2>2
<1>. QED BY <1>1, <1>2, StageStep DEF Stages, disk

LEMMA FundingPageStep ==
  ASSUME DataInv, FundingPage
  PROVE  DataInv'
<1> DEFINE batch == FirstOf({t \in Settlements : pull.cursor <= t /\ t <= LastBar}, PAGE)
           rows  == pull.rows \cup batch
           last  == Cardinality(batch) < PAGE \/ Max(batch) <= pull.cursor \/ Past(Max(batch)) > LastBar
<1>1. /\ pull \in Pull /\ pull.pc = "funding pages"
      /\ frCache \in SUBSET Hours /\ oiCache \in SUBSET Hours
      /\ UNCHANGED <<now, listed, records, oiCache, fgCache, feed>>
  BY DEF FundingPage, DataInv, DataType
<1>2. IF last
      THEN /\ pull' = Stage([pull EXCEPT !.fr = rows], "interest")
           /\ frCache' = IF rows = {} THEN frCache ELSE rows
      ELSE /\ pull' = [pull EXCEPT !.rows = rows, !.cursor = Past(Max(batch))]
           /\ UNCHANGED frCache
  BY DEF FundingPage
<1>3. batch \in SUBSET Hours
  BY DEF FirstOf, Settlements
<1>4. rows \in SUBSET Hours
  BY <1>1, <1>3 DEF Pull
<1>5. ~ last => Past(Max(batch)) \in Nat
  <2> SUFFICES ASSUME ~ last PROVE Past(Max(batch)) \in Nat
    OBVIOUS
  <2>1. ~ (Cardinality(batch) < PAGE)
    OBVIOUS
  <2> HIDE DEF batch
  <2>2. batch # {}
    BY <2>1, FS_EmptySet, HourType
  <2>3. Max(batch) \in Hours
    BY <1>3, <2>2, NewestOf
  <2>. QED BY <2>3, HourType DEF Hours, Past
<1> HIDE DEF batch, rows, last
<1>6. CASE last
  <2> DEFINE p == [pull EXCEPT !.fr = rows]
  <2>1. p \in Pull /\ p.got = pull.got /\ p.window = pull.window /\ p.rates = pull.rates
    BY <1>1, <1>4 DEF Pull
  <2>2. pull' = Stage(p, "interest") /\ frCache' \in SUBSET Hours
    BY <1>1, <1>2, <1>4, <1>6
  <2> HIDE DEF p
  <2>3. pull' \in Pull /\ pull'.pc = "interest" /\ pull'.got = pull.got /\ pull'.window = pull.window
          /\ pull'.rates = pull.rates
    BY <2>1, <2>2, StageType DEF Stages
  <2>. QED BY <1>1, <2>2, <2>3, StageStep DEF Stages
<1>7. CASE ~ last
  <2>1. pull' = [pull EXCEPT !.rows = rows, !.cursor = Past(Max(batch))] /\ frCache' = frCache
    BY <1>2, <1>7
  <2>2. pull' \in Pull
    BY <1>1, <1>4, <1>5, <1>7, <2>1 DEF Pull
  <2>3. pull'.pc = pull.pc /\ pull'.got = pull.got /\ pull'.window = pull.window
          /\ pull'.rates = pull.rates
    BY <1>1, <2>1 DEF Pull
  <2>. QED BY <1>1, <2>1, <2>2, <2>3, StageStep DEF Stages
<1>. QED BY <1>6, <1>7

LEMMA InterestPageStep ==
  ASSUME DataInv, InterestPage
  PROVE  DataInv'
<1> DEFINE end   == Least(pull.cursor + CHUNK, LastBar)
           batch == {t \in Snapshots : pull.cursor <= t /\ t <= end}
           rows  == pull.rows \cup batch
           next  == PastChunk(batch, end)
<1>1. /\ pull \in Pull /\ pull.pc = "interest pages" /\ pull.window \in Windows
      /\ frCache \in SUBSET Hours /\ oiCache \in SUBSET Hours
      /\ UNCHANGED <<now, listed, records, frCache, fgCache, feed>>
  BY DEF InterestPage, DataInv, DataType
<1>2. IF next > LastBar
      THEN /\ pull' = [Stage(pull, "merge") EXCEPT !.rows = rows]
           /\ oiCache' = IF rows = {} THEN oiCache ELSE rows
      ELSE /\ pull' = [pull EXCEPT !.rows = rows, !.cursor = next]
           /\ UNCHANGED oiCache
  BY DEF InterestPage
<1>3. batch \in SUBSET Hours
  BY DEF Snapshots
<1>4. rows \in SUBSET Hours
  BY <1>1, <1>3 DEF Pull
<1>5. end \in Nat
  <2>1. PICK s \in Nat : Window(pull.got, pull.window, s)
    BY <1>1 DEF DataInv, PullInv, Stages
  <2>2. pull.got \in Seq(Candle) /\ pull.cursor \in Nat
    BY <1>1 DEF Pull
  <2>3. LastBar \in Nat
    BY <1>1, <2>1, <2>2, WindowEnds DEF LastBar
  <2>. QED BY <2>2, <2>3, HourType DEF Least
<1> HIDE DEF end
<1>6. next \in Nat
  <2> HIDE DEF batch
  <2>1. Newest(batch) \in Nat
    <3>1. CASE batch = {}
      BY <3>1 DEF Newest
    <3>2. CASE batch # {}
      <4>1. Newest(batch) \in Hours
        BY <1>3, <3>2, NewestOf
      <4>. QED BY <4>1, HourType DEF Hours
    <3>. QED BY <3>1, <3>2
  <2>2. Max({Newest(batch), end}) \in Nat
    <3>1. Newest(batch) \in Int /\ end \in Int
      BY <1>5, <2>1
    <3>2. Max({Newest(batch), end}) \in {Newest(batch), end}
      BY <3>1, LargerOf
    <3>. QED BY <1>5, <2>1, <3>2
  <2>. QED BY <2>2 DEF PastChunk
<1> HIDE DEF batch, rows, next
<1>7. CASE next > LastBar
  <2> DEFINE p == Stage(pull, "merge")
  <2>1. p \in Pull /\ p.pc = "merge" /\ p.got = pull.got /\ p.window = pull.window /\ p.rates = pull.rates
    BY <1>1, StageType DEF Stages
  <2>2. pull' = [p EXCEPT !.rows = rows] /\ oiCache' \in SUBSET Hours
    BY <1>1, <1>2, <1>4, <1>7
  <2> HIDE DEF p
  <2>3. pull' \in Pull
    BY <1>4, <2>1, <2>2 DEF Pull
  <2>4. pull'.pc = "merge" /\ pull'.got = pull.got /\ pull'.window = pull.window
          /\ pull'.rates = pull.rates
    BY <2>1, <2>2 DEF Pull
  <2>. QED BY <1>1, <2>2, <2>3, <2>4, StageStep DEF Stages
<1>8. CASE ~ (next > LastBar)
  <2>1. pull' = [pull EXCEPT !.rows = rows, !.cursor = next] /\ oiCache' = oiCache
    BY <1>2, <1>8
  <2>2. pull' \in Pull
    BY <1>1, <1>4, <1>6, <2>1 DEF Pull
  <2>3. pull'.pc = pull.pc /\ pull'.got = pull.got /\ pull'.window = pull.window
          /\ pull'.rates = pull.rates
    BY <1>1, <2>1 DEF Pull
  <2>. QED BY <1>1, <2>1, <2>2, <2>3, StageStep DEF Stages
<1>. QED BY <1>7, <1>8

-----------------------------------------------------------------------------
(* What is written, and the live feed.                                     *)

LEMMA IndexType ==
  ASSUME now \in Nat, fgCache \in Nat, NEW ok, Index(ok)
  PROVE  fgCache' \in Nat
BY DEF Index

\* A bar made of a candle and of readings at or before it.
LEMMA BarType ==
  ASSUME NEW candle \in Candle,
         NEW fr \in 0..candle.t, NEW oi \in 0..candle.t, NEW fg \in 0..candle.t
  PROVE  LET bar == BarOf(candle, fr, oi, fg) IN
         bar \in OneBar /\ bar.t = candle.t /\ bar.final = candle.final /\ Timely(bar)
<1>1. candle.t \in Nat /\ candle.final \in BOOLEAN
  BY DEF Candle
<1>2. fr \in Nat /\ oi \in Nat /\ fg \in Nat /\ fr <= candle.t /\ oi <= candle.t /\ fg <= candle.t
  BY <1>1
<1>. QED BY <1>1, <1>2 DEF BarOf, OneBar, Timely

\* The pointer takes what is at or before the bar, and leaves only what is later.
LEMMA MergeBarStep ==
  ASSUME DataInv, MergeBar
  PROVE  DataInv'
<1> USE DEF DataInv, disk, feed
<1> DEFINE got == pull.got
           k == Len(pull.rates) + 1
           t == got[k].t
           gone == Passed(pull.fr, t)
           new == IF gone = {} THEN Rate ELSE Max(gone)
           rates == Append(pull.rates, new)
           fr == pull.fr \ gone
           pc == IF Len(rates) = Len(got) THEN "write" ELSE "merge"
<1>1. /\ pull \in Pull /\ pull.pc = "merge" /\ pull.window \in Windows
      /\ UNCHANGED <<now, listed, disk, feed>>
  BY DEF MergeBar, DataType
<1>2. pull' = [pull EXCEPT !.fr = fr, !.rates = rates, !.pc = pc]
  BY DEF MergeBar
<1>3. PICK s \in Nat : Window(got, pull.window, s)
  BY <1>1 DEF PullInv, Stages
<1>4. /\ got \in Seq(Candle) /\ pull.fr \in SUBSET Hours /\ pull.rates \in Seq(Nat)
      /\ Len(pull.rates) < Len(got) /\ Len(got) \in Nat /\ Len(pull.rates) \in Nat
  BY <1>1 DEF Pull, MergeInv
<1>5. k \in 1..Len(got) /\ k \in Nat /\ t \in Nat
  <2>1. k \in 1..Len(got) /\ k \in Nat
    BY <1>4
  <2>2. got[k] \in Candle
    BY <1>4, <2>1
  <2>. QED BY <2>1, <2>2 DEF Candle
<1> HIDE DEF got
<1>6. /\ Rate \in Nat /\ Rate <= t /\ \A r \in pull.fr : r \in Nat /\ Rate < r
      /\ pull.rates # <<>> => Rate = pull.rates[Len(pull.rates)]
  <2>1. \A r \in pull.fr : r \in Nat /\ r > 0
    BY <1>4, HourType DEF Hours
  <2>2. CASE pull.rates = <<>>
    BY <1>5, <2>1, <2>2 DEF Rate
  <2>3. CASE pull.rates # <<>>
    <3> DEFINE n == Len(pull.rates)
    <3>1. n \in 1..n /\ n \in 1..Len(got) /\ k = n + 1 /\ Rate = pull.rates[n] /\ Rate \in Nat
      BY <1>4, <2>3 DEF Rate
    <3>2. Rate <= got[n].t /\ \A r \in pull.fr : Rate < r
      BY <3>1 DEF MergeInv, got
    <3>3. got[n].t = s + n - 1 /\ got[k].t = s + k - 1
      BY <1>3, <1>5, <3>1 DEF Window
    <3>4. got[n].t <= t /\ got[n].t \in Nat
      <4> HIDE DEF n, k
      <4>. QED BY <1>4, <1>5, <3>1, <3>3
    <3> HIDE DEF n, t
    <3>. QED BY <1>5, <2>1, <2>3, <3>1, <3>2, <3>4 DEF n
  <2>. QED BY <2>2, <2>3
<1>7. /\ new \in Nat /\ new <= t /\ Rate <= new /\ \A r \in fr : r \in Nat /\ new < r
      /\ fr \in SUBSET Hours /\ fr \subseteq pull.fr
  <2>1. /\ gone \in SUBSET Hours /\ gone \subseteq pull.fr /\ \A r \in gone : r <= t
        /\ \A r \in fr : r \in pull.fr /\ ~(r <= t)
    BY <1>4 DEF Passed
  <2> HIDE DEF gone, t
  <2>2. CASE gone = {}
    BY <1>4, <1>6, <2>1, <2>2
  <2>3. CASE gone # {}
    <3>1. Max(gone) \in gone
      BY <2>1, <2>3, NewestOf
    <3>2. new = Max(gone)
      BY <2>3
    <3> HIDE DEF new
    <3>3. new \in pull.fr /\ new <= t /\ new \in Nat
      BY <1>6, <2>1, <3>1, <3>2
    <3>. QED BY <1>4, <1>5, <1>6, <2>1, <3>3 DEF t
  <2>. QED BY <2>2, <2>3
<1> HIDE DEF new, fr
<1>8. /\ rates \in Seq(Nat) /\ Len(rates) = k
      /\ \A i \in 1..k : rates[i] = IF i < k THEN pull.rates[i] ELSE new
  BY <1>4, <1>7
<1> HIDE DEF rates
<1>9. pull' \in Pull /\ pull'.pc = pc /\ pull'.got = got /\ pull'.window = pull.window
      /\ pull'.fr = fr /\ pull'.rates = rates
  <2>1. pc \in Stages
    BY DEF Stages
  <2> HIDE DEF pc
  <2>2. pull' \in Pull
    BY <1>1, <1>2, <1>7, <1>8, <2>1 DEF Pull
  <2>. QED BY <1>1, <1>2, <2>2 DEF Pull, got
<1>10. DataType'
  BY <1>1, <1>9 DEF DataType, Stages
<1>11. PullInv'
  BY <1>1, <1>3, <1>9 DEF PullInv, got
<1>12. DiskInv'
  BY <1>1 DEF DiskInv
<1>13. MergeInv'
  <2>1. ASSUME NEW i \in 1..Len(rates)
        PROVE  /\ i <= Len(got) /\ rates[i] <= got[i].t
               /\ i > 1 => rates[i - 1] <= rates[i]
               /\ \A r \in fr : rates[i] < r
    <3>1. i \in 1..k /\ i \in Nat /\ i <= Len(got)
      BY <1>4, <1>5, <1>8
    <3>2. CASE i < k
      <4>1. i \in 1..Len(pull.rates) /\ rates[i] = pull.rates[i]
        BY <1>4, <1>8, <3>1, <3>2
      <4>2. i > 1 => i - 1 \in 1..k /\ rates[i - 1] = pull.rates[i - 1]
        <5> SUFFICES ASSUME i > 1 PROVE i - 1 \in 1..k /\ rates[i - 1] = pull.rates[i - 1]
          OBVIOUS
        <5>1. i - 1 \in 1..k /\ i - 1 < k
          BY <1>5, <3>1, <3>2
        <5>. QED BY <1>8, <5>1
      <4>. QED BY <1>7, <3>1, <4>1, <4>2 DEF MergeInv, got
    <3>3. CASE i = k
      <4>1. rates[i] = new /\ got[i].t = t
        BY <1>8, <3>1, <3>3
      <4>2. i > 1 => rates[i - 1] = Rate
        <5> SUFFICES ASSUME i > 1 PROVE rates[i - 1] = Rate
          OBVIOUS
        <5>1. i - 1 \in 1..k /\ i - 1 < k /\ i - 1 = Len(pull.rates) /\ pull.rates # <<>>
          BY <1>4, <3>1, <3>3
        <5>2. rates[i - 1] = pull.rates[i - 1]
          BY <1>8, <5>1
        <5>. QED BY <1>6, <5>1, <5>2
      <4>. QED BY <1>7, <3>1, <4>1, <4>2
    <3>. QED BY <1>5, <3>1, <3>2, <3>3
  <2>2. (pc = "write" => Len(rates) = Len(got)) /\ (pc = "merge" => Len(rates) < Len(got))
    BY <1>5, <1>8
  <2>3. pc \in {"merge", "write"}
    OBVIOUS
  <2> HIDE DEF pc
  <2>. QED BY <1>9, <2>1, <2>2, <2>3 DEF MergeInv
<1>. QED BY <1>10, <1>11, <1>12, <1>13

LEMMA WriteStep ==
  ASSUME DataInv, NEW ok \in BOOLEAN, Write(ok)
  PROVE  DataInv'
<1> USE DEF DataInv, feed
<1> DEFINE got == pull.got
           w == pull.window
           b(i) == LET t == got[i].t IN
                   BarOf(got[i], pull.rates[i], Interest(t, pull.rows), Sentiment(t, fgCache'))
           bars == [i \in DOMAIN got |-> b(i)]
<1>1. /\ pull \in Pull /\ pull.pc = "write" /\ w \in Windows /\ now \in Nat /\ fgCache \in Nat
      /\ records \in [Windows -> Seq(OneBar)]
  BY DEF Write, DataType
<1>2. /\ records' = [records EXCEPT ![w] = bars] /\ pull' = NoPull /\ Index(ok)
      /\ UNCHANGED <<now, listed, frCache, oiCache, feed>>
  BY DEF Write
<1>3. fgCache' \in Nat
  BY <1>1, <1>2, IndexType
<1>4. PICK s \in Nat : Window(got, w, s)
  BY <1>1 DEF PullInv, Stages
<1>5. /\ got \in Seq(Candle) /\ pull.fr \in SUBSET Hours /\ pull.rows \in SUBSET Hours
  BY <1>1 DEF Pull
<1>15. \A i \in 1..Len(got) : /\ pull.rates[i] \in 0..got[i].t
                              /\ i > 1 => pull.rates[i - 1] <= pull.rates[i]
  <2>1. pull.rates \in Seq(Nat) /\ Len(pull.rates) = Len(got)
    BY <1>1 DEF Pull, MergeInv
  <2>2. ASSUME NEW i \in 1..Len(got)
        PROVE  /\ pull.rates[i] \in 0..got[i].t
               /\ i > 1 => pull.rates[i - 1] <= pull.rates[i]
    <3>1. i \in 1..Len(pull.rates) /\ pull.rates[i] \in Nat
      BY <2>1
    <3>2. got[i] \in Candle
      BY <1>5
    <3>3. got[i].t \in Nat
      BY <3>2 DEF Candle
    <3>4. pull.rates[i] <= got[i].t /\ (i > 1 => pull.rates[i - 1] <= pull.rates[i])
      BY <3>1 DEF MergeInv
    <3>. QED BY <3>1, <3>3, <3>4
  <2>. QED BY <2>2
<1> HIDE DEF got, w
<1>6. ASSUME NEW i \in 1..Len(got)
      PROVE  b(i) \in OneBar /\ b(i).t = got[i].t /\ b(i).final = got[i].final /\ Timely(b(i))
             /\ b(i).fr = pull.rates[i]
  <2>1. got[i] \in Candle
    BY <1>5
  <2>2. got[i].t \in Nat
    BY <2>1 DEF Candle
  <2>3. /\ pull.rates[i] \in 0..got[i].t /\ Interest(got[i].t, pull.rows) \in 0..got[i].t
        /\ Sentiment(got[i].t, fgCache') \in 0..got[i].t
    BY <1>3, <1>5, <1>15, <2>2, ReadingType
  <2>4. b(i).fr = pull.rates[i]
    BY DEF BarOf
  <2> HIDE DEF b
  <2>5. b(i) = BarOf(got[i], pull.rates[i], Interest(got[i].t, pull.rows), Sentiment(got[i].t, fgCache'))
    BY DEF b
  <2>. QED BY <2>1, <2>3, <2>4, <2>5, BarType
<1> HIDE DEF b
<1>7. DOMAIN got = 1..Len(got) /\ Len(got) \in Nat
  BY <1>5
<1>8. bars \in Seq(OneBar) /\ Len(bars) = Len(got) /\ \A i \in 1..Len(got) : bars[i] = b(i)
  BY <1>6, <1>7
<1> HIDE DEF bars
<1>9. Window(bars, w, s)
  BY <1>4, <1>6, <1>8 DEF Window
<1>10. \A i \in DOMAIN bars : Timely(bars[i])
  <2>1. DOMAIN bars = 1..Len(got)
    BY <1>8
  <2>. QED BY <1>6, <1>8, <2>1
<1>16. Forward(bars)
  <2> SUFFICES ASSUME NEW i \in DOMAIN bars, i > 1 PROVE bars[i - 1].fr <= bars[i].fr
    BY DEF Forward
  <2>1. i \in 1..Len(got) /\ i - 1 \in 1..Len(got)
    BY <1>7, <1>8
  <2>2. bars[i - 1] = b(i - 1) /\ bars[i] = b(i)
    BY <1>8, <2>1
  <2>. QED BY <1>6, <1>15, <2>1, <2>2
<1>11. records' \in [Windows -> Seq(OneBar)] /\ records'[w] = bars
       /\ \A v \in Windows : v # w => records'[v] = records[v]
  BY <1>1, <1>2, <1>8
<1>12. DataType'
  BY <1>2, <1>3, <1>11, NoPullType DEF DataType
<1>13. PullInv'
  BY <1>2, NoPullType DEF PullInv, Stages
<1>14. DiskInv'
  <2>1. ASSUME NEW v \in Windows, records'[v] # <<>>
        PROVE  \E x \in Nat : Window(records'[v], v, x)
    <3>1. CASE v = w
      BY <1>4, <1>9, <1>11, <3>1
    <3>2. CASE v # w
      BY <1>11, <2>1, <3>2 DEF DiskInv
    <3>. QED BY <3>1, <3>2
  <2>2. ASSUME NEW v \in Windows, NEW i \in DOMAIN records'[v]
        PROVE  Timely(records'[v][i])
    <3>1. CASE v = w
      BY <1>10, <1>11, <2>2, <3>1
    <3>2. CASE v # w
      BY <1>11, <2>2, <3>2 DEF DiskInv
    <3>. QED BY <3>1, <3>2
  <2>3. live' = live
    BY <1>2
  <2>4. ASSUME NEW v \in Windows
        PROVE  Forward(records'[v])
    <3>1. CASE v = w
      BY <1>11, <1>16, <3>1
    <3>2. CASE v # w
      BY <1>11, <3>2 DEF DiskInv
    <3>. QED BY <3>1, <3>2
  <2>. QED BY <2>1, <2>2, <2>3, <2>4 DEF DiskInv
<1>17. MergeInv'
  BY <1>2, NoPullType DEF MergeInv
<1>. QED BY <1>12, <1>13, <1>14, <1>17

LEMMA EnrichSentimentStep ==
  ASSUME DataInv, NEW w \in Windows, NEW ok \in BOOLEAN, EnrichSentiment(w, ok)
  PROVE  DataInv'
<1> USE DEF DataInv, feed
<1> DEFINE old == records[w]
           b(i) == [old[i] EXCEPT !.fg = Sentiment(old[i].t, fgCache')]
           bars == [i \in DOMAIN old |-> b(i)]
<1>1. /\ pull.pc = "idle" /\ old # <<>> /\ now \in Nat /\ fgCache \in Nat
      /\ records \in [Windows -> Seq(OneBar)]
  BY DEF EnrichSentiment, DataType
<1>2. /\ records' = [records EXCEPT ![w] = bars] /\ Index(ok)
      /\ UNCHANGED <<now, listed, pull, frCache, oiCache, feed>>
  BY DEF EnrichSentiment
<1>3. fgCache' \in Nat
  BY <1>1, <1>2, IndexType
<1>4. PICK s \in Nat : Window(old, w, s)
  BY <1>1 DEF DiskInv
<1>5. old \in Seq(OneBar) /\ (\A i \in DOMAIN old : Timely(old[i])) /\ Forward(old)
  BY <1>1 DEF DiskInv
<1> HIDE DEF old
<1>6. DOMAIN old = 1..Len(old) /\ Len(old) \in Nat
  BY <1>5
<1>7. ASSUME NEW i \in 1..Len(old)
      PROVE  b(i) \in OneBar /\ b(i).t = old[i].t /\ b(i).final = old[i].final /\ Timely(b(i))
             /\ b(i).fr = old[i].fr
  <2>1. old[i] \in OneBar /\ Timely(old[i])
    BY <1>5, <1>6
  <2>2. old[i].t \in Nat
    BY <2>1 DEF OneBar
  <2>3. Sentiment(old[i].t, fgCache') \in 0..old[i].t
    BY <1>3, <2>2, ReadingType
  <2>4. Sentiment(old[i].t, fgCache') \in Nat /\ Sentiment(old[i].t, fgCache') <= old[i].t
    BY <2>2, <2>3
  <2>5. b(i) \in OneBar
    BY <2>1, <2>4 DEF OneBar
  <2>6. /\ b(i).t = old[i].t /\ b(i).final = old[i].final /\ b(i).fr = old[i].fr
        /\ b(i).oi = old[i].oi /\ b(i).fg = Sentiment(old[i].t, fgCache')
    BY <2>1 DEF OneBar
  <2>. QED BY <2>1, <2>4, <2>5, <2>6 DEF Timely
<1> HIDE DEF b
<1>8. bars \in Seq(OneBar) /\ Len(bars) = Len(old) /\ \A i \in 1..Len(old) : bars[i] = b(i)
  BY <1>6, <1>7
<1> HIDE DEF bars
<1>9. Window(bars, w, s)
  BY <1>4, <1>7, <1>8 DEF Window
<1>10. \A i \in DOMAIN bars : Timely(bars[i])
  <2>1. DOMAIN bars = 1..Len(old)
    BY <1>8
  <2>. QED BY <1>7, <1>8, <2>1
<1>16. Forward(bars)
  <2> SUFFICES ASSUME NEW i \in DOMAIN bars, i > 1 PROVE bars[i - 1].fr <= bars[i].fr
    BY DEF Forward
  <2>1. i \in 1..Len(old) /\ i - 1 \in 1..Len(old)
    BY <1>6, <1>8
  <2>2. bars[i - 1] = b(i - 1) /\ bars[i] = b(i)
    BY <1>8, <2>1
  <2>. QED BY <1>5, <1>6, <1>7, <2>1, <2>2 DEF Forward
<1>11. records' \in [Windows -> Seq(OneBar)] /\ records'[w] = bars
       /\ \A v \in Windows : v # w => records'[v] = records[v]
  BY <1>1, <1>2, <1>8
<1>12. DataType'
  BY <1>2, <1>3, <1>11 DEF DataType
<1>13. PullInv'
  BY <1>1, <1>2 DEF PullInv, Stages
<1>14. DiskInv'
  <2>1. ASSUME NEW v \in Windows, records'[v] # <<>>
        PROVE  \E x \in Nat : Window(records'[v], v, x)
    <3>1. CASE v = w
      BY <1>4, <1>9, <1>11, <3>1
    <3>2. CASE v # w
      BY <1>11, <2>1, <3>2 DEF DiskInv
    <3>. QED BY <3>1, <3>2
  <2>2. ASSUME NEW v \in Windows, NEW i \in DOMAIN records'[v]
        PROVE  Timely(records'[v][i])
    <3>1. CASE v = w
      BY <1>10, <1>11, <2>2, <3>1
    <3>2. CASE v # w
      BY <1>11, <2>2, <3>2 DEF DiskInv
    <3>. QED BY <3>1, <3>2
  <2>3. live' = live
    BY <1>2
  <2>4. ASSUME NEW v \in Windows
        PROVE  Forward(records'[v])
    <3>1. CASE v = w
      BY <1>11, <1>16, <3>1
    <3>2. CASE v # w
      BY <1>11, <3>2 DEF DiskInv
    <3>. QED BY <3>1, <3>2
  <2>. QED BY <2>1, <2>2, <2>3, <2>4 DEF DiskInv
<1>17. MergeInv'
  BY <1>2 DEF MergeInv
<1>. QED BY <1>12, <1>13, <1>14, <1>17

\* All candles but the newest listed one have closed.
LEMMA FetchStep ==
  ASSUME DataInv, NEW ok \in BOOLEAN, Fetch(ok)
  PROVE  DataInv'
<1> USE DEF DataInv
<1> DEFINE from == Max({1, listed - HISTORY})
           page == Candles(from, listed)
           cs == Closed(page)
           b(i) == BarOf(cs[i], 0, 0, Sentiment(cs[i].t, fgCache'))
           bars == [i \in DOMAIN cs |-> b(i)]
<1>1. now \in Nat /\ listed \in Nat /\ listed <= now /\ fgCache \in Nat
  BY DEF DataType
<1>2. /\ live' = bars /\ Index(ok)
      /\ UNCHANGED <<now, listed, pull, records, frCache, oiCache, pulls>>
  BY DEF Fetch
<1>3. fgCache' \in Nat
  BY <1>1, <1>2, IndexType
<1>4. from \in Nat
  <2>1. listed - HISTORY \in Int
    BY <1>1, HourType
  <2>2. from \in Int /\ from >= 1
    <3>1. from \in {1, listed - HISTORY} /\ from >= 1
      <4> DEFINE x == listed - HISTORY
      <4>1. x \in Int /\ 1 \in Int
        BY <2>1
      <4> HIDE DEF x
      <4>2. Max({1, x}) \in {1, x} /\ Max({1, x}) >= 1
        BY <4>1, LargerOf
      <4>. QED BY <4>2 DEF x
    <3> HIDE DEF from
    <3>. QED BY <2>1, <3>1
  <2>. QED BY <2>2
<1> HIDE DEF from
<1>5. /\ page \in Seq(Candle) /\ Len(page) = IF listed < from THEN 0 ELSE listed - from + 1
      /\ \A i \in 1..Len(page) : page[i] = [t |-> from + i - 1, final |-> from + i - 1 < now]
  BY <1>1, <1>4, CandlesType
<1> HIDE DEF page
<1>6. /\ cs \in Seq(Candle) /\ Len(cs) \in Nat /\ DOMAIN cs = 1..Len(cs)
      /\ \A i \in 1..Len(cs) : cs[i] = page[i] /\ i \in 1..Len(page) /\ i < Len(page)
  <2>1. CASE Len(page) = 0
    <3>1. cs = <<>>
      BY <1>5, <2>1 DEF Closed
    <3>. QED BY <3>1
  <2>2. CASE Len(page) > 0
    <3>1. Len(page) \in Nat /\ Len(page) - 1 \in Nat /\ Len(page) - 1 <= Len(page)
      BY <1>5, <2>2
    <3>2. cs \in Seq(Candle) /\ Len(cs) = Len(page) - 1 /\ \A i \in 1..Len(cs) : cs[i] = page[i]
      BY <1>5, <3>1 DEF Closed
    <3> HIDE DEF cs
    <3>. QED BY <3>1, <3>2
  <2>3. Len(page) \in Nat
    BY <1>5
  <2>. QED BY <2>1, <2>2, <2>3
<1> HIDE DEF cs
<1>7. ASSUME NEW i \in 1..Len(cs)
      PROVE  b(i) \in OneBar /\ b(i).final
  <2>1. cs[i] \in Candle
    BY <1>6
  <2>2. cs[i].t \in Nat
    BY <2>1 DEF Candle
  <2>3. Sentiment(cs[i].t, fgCache') \in 0..cs[i].t
    BY <1>3, <2>2, ReadingType
  <2>4. 0 \in 0..cs[i].t
    BY <2>2
  <2>5. b(i) \in OneBar /\ b(i).final = cs[i].final
    BY <2>1, <2>3, <2>4, BarType
  <2>6. i \in Nat /\ i < Len(page) /\ Len(page) \in Nat
    BY <1>5, <1>6
  <2>7. from + i - 1 < now
    BY <1>1, <1>4, <1>5, <2>6
  <2>8. cs[i].final = (from + i - 1 < now)
    <3>1. cs[i] = page[i] /\ i \in 1..Len(page)
      BY <1>6
    <3>2. page[i] = [t |-> from + i - 1, final |-> from + i - 1 < now]
      BY <1>5, <3>1
    <3>3. page[i].final = (from + i - 1 < now)
      BY <3>2
    <3>. QED BY <3>1, <3>3
  <2> HIDE DEF b
  <2>. QED BY <2>5, <2>7, <2>8
<1> HIDE DEF b
<1>8. bars \in Seq(OneBar) /\ DOMAIN bars = 1..Len(cs) /\ \A i \in 1..Len(cs) : bars[i] = b(i)
  BY <1>6, <1>7
<1> HIDE DEF bars
<1>9. DataType'
  BY <1>2, <1>3, <1>8 DEF DataType
<1>10. PullInv'
  BY <1>2 DEF PullInv
<1>11. DiskInv'
  <2>1. \A i \in DOMAIN live' : live'[i].final
    BY <1>2, <1>7, <1>8
  <2>. QED BY <1>2, <2>1 DEF DiskInv
<1>12. MergeInv'
  BY <1>2 DEF MergeInv
<1>. QED BY <1>9, <1>10, <1>11, <1>12

LEMMA ClockStep ==
  ASSUME DataInv, HourPasses \/ List
  PROVE  DataInv'
<1> USE DEF DataInv, disk, feed
<1>1. /\ now' \in Nat /\ listed' \in Nat /\ listed' <= now' /\ now' <= listed' + 1 /\ now <= now'
      /\ FirstHour <= now' /\ UNCHANGED <<pull, disk, feed>>
  <2>1. CASE HourPasses
    BY <2>1, HourType DEF HourPasses, DataType
  <2>2. CASE List
    BY <2>2, HourType DEF List, DataType
  <2>. QED BY <2>1, <2>2
<1>2. DataType'
  BY <1>1 DEF DataType
<1>3. PullInv'
  <2>1. pull.pc = "candles" => pull.end \in Nat /\ pull.end <= now /\ now \in Nat
    BY DEF PullInv, DataType, Pull
  <2>2. pull.pc = "candles" => pull.end <= now'
    BY <1>1, <2>1
  <2>. QED BY <1>1, <2>2 DEF PullInv
<1>4. MergeInv'
  BY <1>1 DEF MergeInv
<1>. QED BY <1>1, <1>2, <1>3, <1>4 DEF DiskInv

-----------------------------------------------------------------------------
(* The theorems.                                                           *)

LEMMA DataInit == MarketInit => DataInv
<1> SUFFICES ASSUME MarketInit PROVE DataInv
  OBVIOUS
<1>1. DataType
  BY NoPullType, HourType DEF MarketInit, DataType
<1>2. PullInv
  BY NoPullType DEF MarketInit, PullInv, Stages
<1>3. DiskInv
  BY DEF MarketInit, DiskInv, Forward
<1>4. MergeInv
  BY NoPullType DEF MarketInit, MergeInv
<1>. QED BY <1>1, <1>2, <1>3, <1>4 DEF DataInv

LEMMA DataStep == DataInv /\ [MarketNext]_marketVars => DataInv'
<1> SUFFICES ASSUME DataInv, [MarketNext]_marketVars PROVE DataInv'
  OBVIOUS
<1>1. ASSUME NEW w \in Windows, NEW flag \in BOOLEAN, Start(w, flag) \/ EnrichSentiment(w, flag)
      PROVE  DataInv'
  BY <1>1, StartStep, EnrichSentimentStep
<1>2. ASSUME NEW w \in Windows, Enrich(w) PROVE DataInv'
  BY <1>2, EnrichStep
<1>3. ASSUME Pulling PROVE DataInv'
  BY <1>3, CandlePageStep, FundingBeginsStep, FundingPageStep, InterestBeginsStep,
     InterestPageStep, MergeBarStep, WriteStep DEF Pulling
<1>4. ASSUME CandleFails \/ RowsFail \/ Reboot PROVE DataInv'
  BY <1>4, CandleFailsStep, RowsFailStep, NoPullStep DEF Reboot
<1>5. ASSUME NEW ok \in BOOLEAN, Fetch(ok) PROVE DataInv'
  BY <1>5, FetchStep
<1>6. ASSUME HourPasses \/ List PROVE DataInv'
  BY <1>6, ClockStep
<1>7. ASSUME UNCHANGED marketVars PROVE DataInv'
  BY <1>7 DEF marketVars, disk, feed, DataInv, DataType, PullInv, DiskInv, MergeInv
<1>. QED BY <1>1, <1>2, <1>3, <1>4, <1>5, <1>6, <1>7 DEF MarketNext

\* The recordings, the caches and the pull under way are what the client's frames are,
\* sequences of bars and sets of hours, and a pull is always of a window that was asked for
\* (BinanceClient, binance_client.py).
THEOREM RecordingsAreTyped == MarketSpec => []DataType
<1>1. DataInv => DataType
  BY DEF DataInv
<1>2. MarketInit => DataInv
  BY DataInit
<1>3. DataInv /\ [MarketNext]_marketVars => DataInv'
  BY DataStep
<1>. QED BY <1>1, <1>2, <1>3, PTL DEF MarketSpec

\* Paging loses and repeats no candle: a recording has its window whole and in order, but
\* perhaps for the last hour, whatever failed and however long it took
\* (BinanceClient._fetch_klines, fetch_ohlcv_historical).
THEOREM RecordingsAreComplete == MarketSpec => []RecordingIsComplete
<1>1. DataInv => RecordingIsComplete
  <2> SUFFICES ASSUME DataInv, NEW w \in Windows, records[w] # <<>>
               PROVE  InOrder(records[w]) /\ Len(records[w]) \in {w - 1, w}
    BY DEF RecordingIsComplete
  <2>1. PICK s \in Nat : Window(records[w], w, s)
    BY DEF DataInv, DiskInv
  <2>2. records[w] \in Seq(OneBar) /\ Len(records[w]) \in {w - 1, w}
    BY <2>1 DEF DataInv, DataType, Window
  <2>3. ASSUME NEW i \in DOMAIN records[w], i > 1
        PROVE  records[w][i].t = records[w][i - 1].t + 1
    <3>1. i \in 1..Len(records[w]) /\ i - 1 \in 1..Len(records[w]) /\ i \in Nat
      BY <2>2, <2>3
    <3>2. records[w][i].t = s + i - 1 /\ records[w][i - 1].t = s + (i - 1) - 1
      BY <2>1, <3>1 DEF Window
    <3>. QED BY <3>1, <3>2
  <2>. QED BY <2>2, <2>3 DEF InOrder
<1>2. MarketInit => DataInv
  BY DataInit
<1>3. DataInv /\ [MarketNext]_marketVars => DataInv'
  BY DataStep
<1>. QED BY <1>1, <1>2, <1>3, PTL DEF MarketSpec

\* The pointer over the settlements and the bisections give a bar what is of its own time or
\* before, and the settlements of a recording never go back, whichever rows the disk had
\* (_merge_derivatives, enrich_sentiment).
THEOREM ReadingsAreFromBefore == MarketSpec => []NothingFromLater
<1>1. DataInv => NothingFromLater
  BY DEF DataInv, DiskInv, Timely, Forward, NothingFromLater
<1>2. MarketInit => DataInv
  BY DataInit
<1>3. DataInv /\ [MarketNext]_marketVars => DataInv'
  BY DataStep
<1>. QED BY <1>1, <1>2, <1>3, PTL DEF MarketSpec

\* The loop never sees a candle that is still forming, and an evaluation at most as the last
\* bar of its recording (fetch_recent_bars drops the newest).
THEOREM OnlyTheLastForms == MarketSpec => []OnlyTheLastMayForm
<1>1. DataInv => OnlyTheLastMayForm
  <2> SUFFICES ASSUME DataInv PROVE OnlyTheLastMayForm
    OBVIOUS
  <2>1. ASSUME NEW w \in Windows, NEW i \in 1..Len(records[w]) - 1
        PROVE  records[w][i].final
    <3>1. records[w] \in Seq(OneBar) /\ w \in Nat
      BY HourType DEF DataInv, DataType
    <3>2. Len(records[w]) \in Nat /\ i \in 1..Len(records[w]) /\ i < Len(records[w])
      BY <3>1
    <3>3. PICK s \in Nat : Window(records[w], w, s)
      <4>1. records[w] # <<>>
        BY <3>2
      <4>. QED BY <4>1 DEF DataInv, DiskInv
    <3>4. i < w
      BY <3>1, <3>2, <3>3 DEF Window
    <3>. QED BY <3>2, <3>3, <3>4 DEF Window
  <2>2. \A i \in DOMAIN live : live[i].final
    BY DEF DataInv, DiskInv
  <2>. QED BY <2>1, <2>2 DEF OnlyTheLastMayForm
<1>2. MarketInit => DataInv
  BY DataInit
<1>3. DataInv /\ [MarketNext]_marketVars => DataInv'
  BY DataStep
<1>. QED BY <1>1, <1>2, <1>3, PTL DEF MarketSpec
=============================================================================
