-------------------------- MODULE KillSwitch_proofs --------------------------
(***************************************************************************)
(* Theorems about what may keep an order from being placed: KillSwitch,    *)
(* for any number of bars, operator's taps, lost calls, uses of the        *)
(* cockpit and crashes, and Memory, for any closes, threads and mishaps.   *)
(***************************************************************************)
EXTENDS KillSwitch, Memory, FiniteSetTheorems, SequenceTheorems, WellFoundedInduction, TLAPS

\* One message a bar, and the batch of the poller lies within what Telegram keeps.
Early    == {"watch", "floor", "ask", "gate"}
AsksOK   == /\ sent <= hour /\ (pc \in Early => sent < hour)
            /\ pc = "register" => sent > 0
BatchOK  == /\ Len(updates) <= MaxUpdates
            /\ poller.next <= Len(updates) + 1
            /\ poller.pc # "poll" => poller.next <= poller.upto
ShapeInv == TypeOK /\ AsksOK /\ BatchOK

-----------------------------------------------------------------------------
(* Helpers.                                                                *)

\* An environment event is counted, and nothing else is.
LEMMA SpendCounts ==
    ASSUME used \in [Events -> Nat], NEW e \in Events, Spend(e)
    PROVE  /\ used' \in [Events -> Nat] /\ used'[e] = used[e] + 1
           /\ \A f \in Events : f # e => used'[f] = used[f]
  BY DEF Spend

\* A write of the switch leaves it a switch with its count of fills.
LEMMA SetHaltedTyped ==
    ASSUME used \in [Events -> Nat], halted \in BOOLEAN, fillsSince \in Nat,
           NEW on \in BOOLEAN, SetHalted(on)
    PROVE  halted' \in BOOLEAN /\ fillsSince' \in Nat /\ used' \in [Events -> Nat]
  <1>1. CASE Turn(on) /\ UNCHANGED used
    BY <1>1 DEF Turn
  <1>2. CASE UNCHANGED switch /\ Spend("lost")
    BY <1>2, SpendCounts DEF switch, Events
  <1>. QED BY <1>1, <1>2 DEF SetHalted

\* The poller moves on within its batch, or past its end.
LEMMA OnwardTyped ==
    ASSUME ShapeInv, poller.pc # "poll"
    PROVE  /\ Onward \in [pc : {"poll", "handle", "resume"}, next : Nat \ {0},
                          upto : 0..Len(updates)]
           /\ Onward.next = poller.next + 1 /\ Onward.next <= Len(updates) + 1
           /\ Onward.pc \in {"poll", "handle"}
           /\ Onward.pc = "handle" => Onward.next <= Onward.upto
  <1>1. /\ poller \in [pc : {"poll", "handle", "resume"}, next : Nat \ {0},
                       upto : 0..Len(updates)]
        /\ poller.next <= poller.upto /\ updates \in Seq(Taps)
    BY DEF ShapeInv, TypeOK, BatchOK
  <1>2. CASE poller.next < poller.upto
    <2>1. Onward = [poller EXCEPT !.next = @ + 1, !.pc = "handle"]
      BY <1>2 DEF Onward
    <2>2. /\ Onward.pc = "handle" /\ Onward.next = poller.next + 1 /\ Onward.upto = poller.upto
          /\ Onward = [pc |-> "handle", next |-> poller.next + 1, upto |-> poller.upto]
      BY <1>1, <2>1
    <2>3. poller.next + 1 \in Nat \ {0} /\ poller.upto \in 0..Len(updates)
      BY <1>1
    <2>4. poller.next + 1 <= poller.upto /\ poller.upto <= Len(updates) /\ Len(updates) \in Nat
      BY <1>1, <1>2
    <2>. QED BY <2>2, <2>3, <2>4
  <1>3. CASE ~(poller.next < poller.upto)
    <2>1. Onward = [pc |-> "poll", next |-> poller.next + 1, upto |-> 0]
      BY <1>1, <1>3 DEF Onward, Asleep
    <2>. QED BY <1>1, <1>3, <2>1
  <1>. QED BY <1>2, <1>3

-----------------------------------------------------------------------------
(* Type correctness.                                                       *)

LEMMA InitShape == Init => ShapeInv
  <1>. SUFFICES ASSUME Init PROVE ShapeInv
    OBVIOUS
  <1>1. /\ hour \in 0..MaxHour /\ firstFail \in 0..hour \union {None}
        /\ pc \in Stages /\ pc \notin Early
    BY TimeAssumption DEF Init, Stages, Early
  <1>2. updates \in Seq(Taps) /\ Len(updates) = 0 /\ confirmed \in 0..Len(updates)
    BY DEF Init
  <1>3. poller = [pc |-> "poll", next |-> 1, upto |-> 0]
    BY DEF Init, Asleep
  <1>4. poller \in [pc : {"poll", "handle", "resume"}, next : Nat \ {0}, upto : 0..Len(updates)]
    BY <1>2, <1>3
  <1>5. /\ fired \in [Asks -> Nat] /\ handled \in [1..MaxUpdates -> Nat]
        /\ used \in [Events -> Nat]
    BY DEF Init
  <1>6. /\ sent = 0 /\ pending = {} /\ lapsed = {} /\ fillsSince = 0 /\ pc = "idle" /\ hour = 0
        /\ {halted, under, wasHalted, haltedByFloor} \subseteq BOOLEAN
        /\ notice \in [due : Nat, lost : Nat, heard : BOOLEAN]
    BY DEF Init, Unsaid
  <1>7. TypeOK
    BY <1>1, <1>2, <1>4, <1>5, <1>6 DEF TypeOK
  <1>8. AsksOK
    BY <1>1, <1>6 DEF AsksOK
  <1>9. BatchOK
    BY <1>2, <1>3, BoundAssumption DEF BatchOK
  <1>. QED BY <1>7, <1>8, <1>9 DEF ShapeInv

LEMMA LoopShape ==
    ASSUME ShapeInv,
           NextBar \/ Watchdog \/ Floor \/ Ask \/ Register \/ Stop \/ Gate \/ Trade
    PROVE  ShapeInv'
  <1>. USE TimeAssumption DEF ShapeInv, AsksOK, BatchOK, Early, bot, bar
  <1>0. "lost" \in Events /\ used \in [Events -> Nat] /\ hour \in Nat /\ hour <= MaxHour
    BY DEF TypeOK, Events
  <1>1. CASE NextBar
    BY <1>0, <1>1 DEF NextBar, TypeOK, Stages, switch, buttons
  <1>2. CASE Watchdog
    <2>1. halted' \in BOOLEAN /\ fillsSince' \in Nat /\ used' \in [Events -> Nat]
      BY <1>0, <1>2, SetHaltedTyped DEF Watchdog, TypeOK, switch
    <2>. QED BY <1>2, <2>1 DEF Watchdog, TypeOK, Stages, buttons
  <1>3. CASE Floor
    <2>1. used' \in [Events -> Nat]
      BY <1>0, <1>3, SpendCounts DEF Floor
    <2>2. notice' \in [due : Nat, lost : Nat, heard : BOOLEAN]
      BY <1>3 DEF Floor, Owed, TypeOK
    <2>3. pc = "floor" /\ pc' \in {"ask", "gate"} /\ haltedByFloor' \in BOOLEAN
      BY <1>3 DEF Floor, TypeOK
    <2>. QED BY <1>3, <2>1, <2>2, <2>3 DEF Floor, TypeOK, Stages, switch, buttons
  <1>4. CASE Ask
    <2>1. used' \in [Events -> Nat]
      BY <1>0, <1>4, SpendCounts DEF Ask
    <2>2. sent' \in Nat /\ sent' <= hour /\ sent <= sent' /\ (pc' = "register" => sent' > 0)
      BY <1>0, <1>4 DEF Ask, Noticed, TypeOK
    <2>3. pc' \in {"register", "stop", "idle"} /\ wasHalted' \in BOOLEAN
      BY <1>4 DEF Ask, Noticed, TypeOK
    <2>7. notice' \in [due : Nat, lost : Nat, heard : BOOLEAN]
      <3>1. notice \in [due : Nat, lost : Nat, heard : BOOLEAN]
        BY DEF TypeOK
      <3>2. notice' = [notice EXCEPT !.heard = TRUE] \/ notice' = [notice EXCEPT !.lost = @ + 1]
        BY <1>4 DEF Ask
      <3>3. [notice EXCEPT !.heard = TRUE] \in [due : Nat, lost : Nat, heard : BOOLEAN]
        BY <3>1
      <3>4. [notice EXCEPT !.lost = @ + 1] \in [due : Nat, lost : Nat, heard : BOOLEAN]
        BY <3>1
      <3>. QED BY <3>2, <3>3, <3>4
    <2>4. pending' \subseteq 1..sent' /\ lapsed' \subseteq pending'
      BY <1>4, <2>2 DEF Ask, TypeOK
    <2>5. UNCHANGED <<switch, bar, firstFail, haltedByFloor, pending, lapsed, bot>>
      BY <1>4 DEF Ask
    <2>6. TypeOK'
      BY <2>1, <2>2, <2>3, <2>4, <2>5, <2>7 DEF TypeOK, Stages, switch
    <2>. QED BY <2>2, <2>3, <2>5, <2>6
  <1>5. CASE Register
    BY <1>5 DEF Register, Noticed, TypeOK, Stages, switch
  <1>6. CASE Stop
    <2>1. halted' \in BOOLEAN /\ fillsSince' \in Nat /\ used' \in [Events -> Nat]
      BY <1>0, <1>6, SetHaltedTyped DEF Stop, TypeOK
    <2>. QED BY <1>6, <2>1 DEF Stop, TypeOK, Stages, buttons
  <1>7. CASE Gate
    <2>1. used' \in [Events -> Nat]
      BY <1>0, <1>7, SpendCounts DEF Gate
    <2>2. notice' \in [due : Nat, lost : Nat, heard : BOOLEAN]
      <3>1. notice \in [due : Nat, lost : Nat, heard : BOOLEAN]
        BY DEF TypeOK
      <3>2. notice' = Owed \/ notice' = notice
        BY <1>7 DEF Gate
      <3>. QED BY <3>1, <3>2 DEF Owed
    <2>3. pc = "gate" /\ pc' \in {"idle", "ask", "trade"} /\ wasHalted' \in BOOLEAN
      BY <1>7 DEF Gate, TypeOK
    <2>. QED BY <1>7, <2>1, <2>2, <2>3 DEF Gate, TypeOK, Stages, switch, buttons
  <1>8. CASE Trade
    <2>1. /\ firstFail' \in 0..hour \union {None} /\ fillsSince' \in Nat
          /\ wasHalted' \in BOOLEAN /\ haltedByFloor' \in BOOLEAN
          /\ notice' \in [due : Nat, lost : Nat, heard : BOOLEAN]
      <3>1. CASE (Filled \/ Failed \/ UNCHANGED <<firstFail, fillsSince>>) /\ Finished
        <4>1. firstFail' \in 0..hour \union {None} /\ fillsSince' \in Nat
          BY <1>0, <3>1 DEF Filled, Failed, TypeOK
        <4>. QED BY <3>1, <4>1 DEF Finished, Unsaid
      <3>2. CASE UNCHANGED <<firstFail, fillsSince, wasHalted, haltedByFloor, notice>>
        BY <3>2 DEF TypeOK
      <3>. QED BY <1>8, <3>1, <3>2 DEF Trade
    <2>2. pc' = "idle" /\ UNCHANGED <<halted, bar, buttons, bot, used>>
      BY <1>8 DEF Trade
    <2>. QED BY <2>1, <2>2 DEF TypeOK, Stages, buttons
  <1>. QED BY <1>1, <1>2, <1>3, <1>4, <1>5, <1>6, <1>7, <1>8

LEMMA PollShape ==
    ASSUME ShapeInv, Poll
    PROVE  ShapeInv'
  <1>. USE DEF ShapeInv, AsksOK, BatchOK, Early, bar, loop
  <1>0. /\ "lost" \in Events /\ used \in [Events -> Nat] /\ updates \in Seq(Taps)
        /\ Len(updates) \in Nat /\ confirmed \in 0..Len(updates)
        /\ poller \in [pc : {"poll", "handle", "resume"}, next : Nat \ {0},
                       upto : 0..Len(updates)]
        /\ pending \subseteq 1..sent /\ lapsed \subseteq pending
    BY DEF TypeOK, Events
  <1>9. poller.pc # "poll" => poller.next \in 1..MaxUpdates
    BY <1>0, BoundAssumption
  <1>1. CASE GetUpdates
    <2>. DEFINE first == IF poller.next > confirmed THEN poller.next ELSE confirmed + 1
    <2>1. first \in Nat \ {0} /\ first <= Len(updates) + 1
      BY <1>0
    <2>2. confirmed' \in 0..Len(updates)
      BY <1>0, <1>1 DEF GetUpdates, Acknowledged
    <2>3. /\ poller' \in [pc : {"poll", "handle", "resume"}, next : Nat \ {0},
                          upto : 0..Len(updates)]
          /\ poller'.next <= Len(updates) + 1
          /\ poller'.pc # "poll" => poller'.next <= poller'.upto
      <3>1. CASE first > Len(updates)
        <4>1. poller' = [pc |-> "poll", next |-> first, upto |-> 0]
          BY <1>1, <3>1 DEF GetUpdates, Asleep
        <4>. QED BY <1>0, <2>1, <4>1
      <3>2. CASE ~(first > Len(updates))
        <4>1. poller' = [pc |-> "handle", next |-> first, upto |-> Len(updates)]
          BY <1>1, <3>2 DEF GetUpdates
        <4>. QED BY <1>0, <2>1, <3>2, <4>1
      <3>. QED BY <3>1, <3>2
    <2>4. pending' \subseteq 1..sent /\ lapsed' \subseteq pending'
      BY <1>0, <1>1 DEF GetUpdates
    <2>5. UNCHANGED <<switch, bar, loop, sent, updates, fired, handled, used>>
      BY <1>1 DEF GetUpdates
    <2>. QED BY <2>2, <2>3, <2>4, <2>5 DEF TypeOK, switch
  <1>2. CASE Command
    <2>1. halted' \in BOOLEAN /\ fillsSince' \in Nat /\ used' \in [Events -> Nat]
      BY <1>0, <1>2, SetHaltedTyped DEF Command, TypeOK
    <2>2. handled' \in [1..MaxUpdates -> Nat]
      BY <1>2, <1>9 DEF Command, TypeOK
    <2>3. poller' = Onward /\ UNCHANGED <<bar, loop, buttons, updates, confirmed, fired>>
      BY <1>2 DEF Command
    <2>4. poller.pc # "poll"
      BY <1>2 DEF Command
    <2>. QED BY <2>1, <2>2, <2>3, <2>4, OnwardTyped DEF TypeOK, buttons
  <1>3. CASE Press
    <2>. DEFINE a == updates[poller.next].ask
    <2>1. pending' \subseteq 1..sent /\ lapsed' \subseteq pending'
      BY <1>0, <1>3 DEF Press, Popped
    <2>2. fired' \in [Asks -> Nat]
      <3>0. sent \in Nat /\ MaxHour \in Nat /\ sent <= MaxHour
        BY TimeAssumption DEF TypeOK
      <3>3. pending \subseteq Asks
        BY <1>0, <3>0 DEF Asks
      <3>1. fired \in [Asks -> Nat] /\ (a \in pending => a \in Asks)
        BY <3>3 DEF TypeOK
      <3>2. \/ a \in pending /\ fired' = [fired EXCEPT ![a] = @ + 1]
            \/ fired' = fired
        BY <1>3 DEF Press
      <3>. QED BY <3>1, <3>2
    <2>5. handled' \in [1..MaxUpdates -> Nat]
      <3>1. handled \in [1..MaxUpdates -> Nat]
        BY DEF TypeOK
      <3>2. handled' = [handled EXCEPT ![poller.next] = @ + 1] /\ poller.pc # "poll"
        BY <1>3 DEF Press
      <3>. QED BY <1>9, <3>1, <3>2
    <2>3. /\ poller' \in [pc : {"poll", "handle", "resume"}, next : Nat \ {0},
                          upto : 0..Len(updates)]
          /\ poller'.next <= Len(updates) + 1
          /\ poller'.pc # "poll" => poller'.next <= poller'.upto
      <3>1. CASE poller' = [poller EXCEPT !.pc = "resume"]
        <4>1. poller' = [pc |-> "resume", next |-> poller.next, upto |-> poller.upto]
          BY <1>0, <3>1
        <4>2. poller.next <= poller.upto
          BY <1>3 DEF Press
        <4>. QED BY <1>0, <4>1, <4>2
      <3>2. CASE poller' = Onward
        BY <1>3, <3>2, OnwardTyped DEF Press
      <3>. QED BY <1>3, <3>1, <3>2 DEF Press
    <2>4. UNCHANGED <<switch, bar, loop, sent, updates, confirmed, used>>
      BY <1>3 DEF Press
    <2>. QED BY <2>1, <2>2, <2>3, <2>4, <2>5 DEF TypeOK, switch
  <1>4. CASE Resume
    <2>1. halted' \in BOOLEAN /\ fillsSince' \in Nat /\ used' \in [Events -> Nat]
      BY <1>0, <1>4, SetHaltedTyped DEF Resume, TypeOK
    <2>2. /\ poller' = Onward /\ poller.pc # "poll"
          /\ UNCHANGED <<bar, loop, buttons, updates, confirmed, fired, handled>>
      BY <1>4 DEF Resume
    <2>. QED BY <2>1, <2>2, OnwardTyped DEF TypeOK, buttons
  <1>. QED BY <1>1, <1>2, <1>3, <1>4 DEF Poll

LEMMA OutsideShape ==
    ASSUME ShapeInv, Lapse \/ Tap \/ Cockpit \/ Crash \/ Rest \/ UNCHANGED vars
    PROVE  ShapeInv'
  <1>. USE DEF ShapeInv, AsksOK, BatchOK, Early
  <1>1. CASE Lapse
    BY <1>1 DEF Lapse, TypeOK, switch, bar, loop, bot
  <1>2. CASE Tap
    <2>1. PICK t \in [kind : {"halt", "resume"}, ask : {0}]
                     \union [kind : {"approve"}, ask : 1..sent] :
              updates' = Append(updates, t)
      BY <1>2 DEF Tap
    <2>2. t \in Taps
      BY TimeAssumption DEF Taps, Asks, TypeOK
    <2>3. /\ updates \in Seq(Taps) /\ Len(updates) \in Nat /\ updates' \in Seq(Taps)
          /\ Len(updates') = Len(updates) + 1 /\ Len(updates') <= MaxUpdates
      BY <1>2, <2>1, <2>2, BoundAssumption DEF Tap, TypeOK
    <2>4. UNCHANGED <<switch, bar, loop, buttons, confirmed, poller, fired, handled, used>>
      BY <1>2 DEF Tap
    <2>5. /\ confirmed' \in 0..Len(updates')
          /\ poller' \in [pc : {"poll", "handle", "resume"}, next : Nat \ {0},
                          upto : 0..Len(updates')]
          /\ poller'.next <= Len(updates') + 1
          /\ poller'.pc # "poll" => poller'.next <= poller'.upto
      BY <2>3, <2>4 DEF TypeOK
    <2>. QED BY <2>3, <2>4, <2>5 DEF TypeOK, switch, bar, loop, buttons
  <1>3. CASE Cockpit
    <2>1. halted' \in BOOLEAN /\ fillsSince' \in Nat
      BY <1>3 DEF Cockpit, Turn, TypeOK
    <2>2. used' \in [Events -> Nat] /\ UNCHANGED <<bar, loop, buttons, bot>>
      BY <1>3, SpendCounts DEF Cockpit, TypeOK, Events
    <2>. QED BY <2>1, <2>2 DEF TypeOK, bar, loop, buttons, bot
  <1>4. CASE Crash
    <2>1. used' \in [Events -> Nat]
      BY <1>4, SpendCounts DEF Crash, TypeOK, Events
    <2>2. /\ pc' = "idle" /\ firstFail' = None /\ wasHalted' = FALSE
          /\ haltedByFloor' = FALSE /\ pending' = {} /\ lapsed' = {}
          /\ notice' \in [due : Nat, lost : Nat, heard : BOOLEAN]
          /\ UNCHANGED <<switch, bar, sent, updates, confirmed, fired, handled>>
      BY <1>4 DEF Crash, Unsaid
    <2>3. poller' = [pc |-> "poll", next |-> 1, upto |-> 0]
      BY <1>4 DEF Crash, Asleep
    <2>4. Len(updates) \in Nat /\ updates' = updates
      BY <2>2 DEF TypeOK
    <2>5. /\ poller' \in [pc : {"poll", "handle", "resume"}, next : Nat \ {0},
                          upto : 0..Len(updates')]
          /\ poller'.next <= Len(updates') + 1 /\ poller'.pc = "poll"
      BY <2>3, <2>4
    <2>6. TypeOK'
      BY <2>1, <2>2, <2>4, <2>5 DEF TypeOK, Stages, switch, bar
    <2>. QED BY <2>2, <2>4, <2>5, <2>6 DEF bar
  <1>5. CASE Rest
    BY <1>5 DEF Rest, TypeOK, vars, switch, bar, loop, buttons, bot
  <1>6. CASE UNCHANGED vars
    BY <1>6 DEF TypeOK, vars, switch, bar, loop, buttons, bot
  <1>. QED BY <1>1, <1>2, <1>3, <1>4, <1>5, <1>6

LEMMA StepShape == ShapeInv /\ [Next]_vars => ShapeInv'
  BY LoopShape, PollShape, OutsideShape DEF Next

\* Every state of switch, loop, bot and operator is well typed: in particular what the
\* poller handles is an update Telegram has (agent/notify.py).
THEOREM Typing == Spec => []TypeOK
  <1>1. ShapeInv => TypeOK
    BY DEF ShapeInv
  <1>. QED BY <1>1, InitShape, StepShape, PTL DEF Spec

LEMMA ShapeSafe == Spec => []ShapeInv
  BY InitShape, StepShape, PTL DEF Spec

-----------------------------------------------------------------------------
(* The loop and the switch.                                                *)

\* Beside the fills since the switch went on, the cycle past the gate counts.
HaltInv  == halted => fillsSince + (IF pc = "trade" THEN 1 ELSE 0) <= 1 + used["lost"]

\* Under the floor only a lost reading lets a cycle get to the gate.
FloorInv == (under /\ pc \in {"gate", "trade"}) => used["lost"] > 0

\* Both flags of a halt are set only behind a notice that was due; at "ask" the last is
\* under way, elsewhere one was heard or all were lost.
ToldInv  == /\ wasHalted \/ haltedByFloor \/ pc \in {"ask", "register", "stop"} => notice.due > 0
            /\ notice.heard \/ notice.lost + (IF pc = "ask" THEN 1 ELSE 0) >= notice.due

\* A lost call is counted, and nothing is uncounted.
LEMMA LostCounts ==
    ASSUME ShapeInv, [Next]_vars
    PROVE  used["lost"] \in Nat /\ used'["lost"] \in Nat /\ used["lost"] <= used'["lost"]
  <1>1. used \in [Events -> Nat] /\ used' \in [Events -> Nat] /\ "lost" \in Events
    BY StepShape DEF ShapeInv, TypeOK, Events
  <1>2. used' = used \/ \E e \in Events : Spend(e)
    BY DEF Next, Poll, NextBar, Watchdog, Floor, Ask, Register, Stop, Gate, Trade, GetUpdates,
           Command, Press, Resume, Lapse, Tap, Cockpit, Crash, Rest, SetHalted, Events, vars
  <1>. QED BY <1>1, <1>2, SpendCounts

\* Turning the switch while no cycle gets past the gate.
LEMMA TurnCounted ==
    ASSUME ShapeInv, HaltInv, NEW on \in BOOLEAN, SetHalted(on) \/ Turn(on),
           used["lost"] <= used'["lost"], used'["lost"] \in Nat, pc' \in {pc, "floor", "idle"}
    PROVE  HaltInv'
  <1>1. fillsSince \in Nat /\ used["lost"] \in Nat /\ halted \in BOOLEAN
    BY DEF ShapeInv, TypeOK, Events
  <1>2. CASE Turn(on)
    <2>1. halted' => (halted /\ fillsSince' = fillsSince) \/ fillsSince' = 0
      BY <1>1, <1>2, Zenon DEF Turn
    <2>2. fillsSince' = 0 => HaltInv'
      BY DEF HaltInv
    <2>3. halted /\ fillsSince' = fillsSince => HaltInv'
      BY <1>1 DEF HaltInv
    <2>4. ~halted' => HaltInv'
      BY Zenon DEF HaltInv
    <2>. QED BY <2>1, <2>2, <2>3, <2>4, Zenon
  <1>3. CASE UNCHANGED switch
    BY <1>1, <1>3 DEF HaltInv, switch
  <1>. QED BY <1>2, <1>3 DEF SetHalted

LEMMA StepHalt == ShapeInv /\ HaltInv /\ [Next]_vars => HaltInv'
  <1>. SUFFICES ASSUME ShapeInv, HaltInv, [Next]_vars PROVE HaltInv'
    OBVIOUS
  <1>0. /\ used["lost"] \in Nat /\ used'["lost"] \in Nat /\ used["lost"] <= used'["lost"]
        /\ fillsSince \in Nat /\ "lost" \in Events /\ used \in [Events -> Nat]
    BY LostCounts DEF ShapeInv, TypeOK, Events
  <1>1. CASE Watchdog \/ Stop
    <2>1. UNCHANGED switch \/ \E on \in BOOLEAN : SetHalted(on)
      BY <1>1 DEF Watchdog, Stop
    <2>2. pc' \in {"floor", "idle"}
      BY <1>1 DEF Watchdog, Stop
    <2>3. CASE UNCHANGED switch
      BY <1>0, <2>2, <2>3 DEF HaltInv, switch
    <2>. QED BY <1>0, <2>1, <2>2, <2>3, TurnCounted
  <1>2. CASE Command \/ Resume \/ Cockpit
    <2>1. pc' = pc /\ \E on \in BOOLEAN : SetHalted(on) \/ Turn(on)
      BY <1>2 DEF Command, Resume, Cockpit, loop
    <2>. QED BY <1>0, <2>1, TurnCounted
  <1>3. CASE Gate
    <2>1. UNCHANGED switch
      BY <1>3 DEF Gate
    <2>2. CASE halted /\ pc' = "trade"
      <3>1. used'["lost"] = used["lost"] + 1 /\ pc = "gate"
        BY <1>0, <1>3, <2>2, SpendCounts DEF Gate, Blocks
      <3>. QED BY <1>0, <2>1, <3>1 DEF HaltInv, switch
    <2>3. CASE ~(halted /\ pc' = "trade")
      BY <1>0, <2>1, <2>3 DEF HaltInv, switch
    <2>. QED BY <2>2, <2>3
  <1>4. CASE Trade
    <2>1. /\ pc = "trade" /\ pc' = "idle" /\ UNCHANGED <<halted, used>>
          /\ fillsSince' \in {fillsSince, fillsSince + 1}
      BY <1>4 DEF Trade, Filled, Failed
    <2>. QED BY <1>0, <2>1 DEF HaltInv
  <1>5. CASE NextBar \/ Floor \/ Ask \/ Register \/ Crash
    <2>1. UNCHANGED switch /\ pc' # "trade"
      BY <1>5 DEF NextBar, Floor, Ask, Register, Crash, Noticed
    <2>. QED BY <1>0, <2>1 DEF HaltInv, switch
  <1>6. CASE GetUpdates \/ Press \/ Lapse \/ Tap \/ Rest \/ UNCHANGED vars
    <2>1. UNCHANGED <<switch, pc>>
      BY <1>6 DEF GetUpdates, Press, Lapse, Tap, Rest, vars, loop
    <2>. QED BY <1>0, <2>1 DEF HaltInv, switch
  <1>. QED BY <1>1, <1>2, <1>3, <1>4, <1>5, <1>6 DEF Next, Poll

\* "The agent halts within one cycle" (convex/config.ts): whoever turns the switch on,
\* at most the cycle that was past the gate fills, and one for each lost reading.
THEOREM HaltsInTime == Spec => []HaltsWithinOneCycle
  <1>1. Init => HaltInv
    BY DEF Init, HaltInv
  <1>2. ShapeInv /\ HaltInv => HaltsWithinOneCycle
    <2>. SUFFICES ASSUME ShapeInv, HaltInv PROVE HaltsWithinOneCycle
      OBVIOUS
    <2>1. fillsSince \in Nat /\ used["lost"] \in Nat
      BY DEF ShapeInv, TypeOK, Events
    <2>. QED BY <2>1 DEF HaltInv, HaltsWithinOneCycle
  <1>. QED BY <1>1, <1>2, ShapeSafe, StepHalt, PTL DEF Spec

LEMMA StepFloor == ShapeInv /\ FloorInv /\ [Next]_vars => FloorInv'
  <1>. SUFFICES ASSUME ShapeInv, FloorInv, [Next]_vars PROVE FloorInv'
    OBVIOUS
  <1>0. /\ used["lost"] \in Nat /\ used'["lost"] \in Nat /\ used["lost"] <= used'["lost"]
        /\ "lost" \in Events /\ used \in [Events -> Nat]
    BY LostCounts DEF ShapeInv, TypeOK, Events
  <1>1. CASE Floor
    <2>1. pc' = "gate" => ~under' \/ Spend("lost")
      BY <1>1 DEF Floor, FloorHit, bar
    <2>2. pc' # "trade"
      BY <1>1 DEF Floor
    <2>. QED BY <1>0, <2>1, <2>2, SpendCounts DEF FloorInv
  <1>2. CASE Gate
    <2>1. pc = "gate" /\ under' = under
      BY <1>2 DEF Gate, bar
    <2>. QED BY <1>0, <2>1 DEF FloorInv
  <1>3. CASE NextBar \/ Watchdog \/ Ask \/ Register \/ Stop \/ Trade \/ Crash
    <2>1. pc' \notin {"gate", "trade"}
      BY <1>3 DEF NextBar, Watchdog, Ask, Register, Stop, Trade, Crash, Noticed
    <2>. QED BY <2>1 DEF FloorInv
  <1>4. CASE Poll \/ Lapse \/ Tap \/ Cockpit \/ Rest \/ UNCHANGED vars
    <2>1. UNCHANGED <<under, pc>>
      BY <1>4 DEF Poll, GetUpdates, Command, Press, Resume, Lapse, Tap, Cockpit, Rest, vars,
                  loop, bar
    <2>. QED BY <1>0, <2>1 DEF FloorInv
  <1>. QED BY <1>1, <1>2, <1>3, <1>4 DEF Next

\* Nothing fills at or under the floor while every call is answered: the check comes
\* before the switch in each cycle (agent/loop.py), so no Resume outvotes it.
THEOREM FloorOutvotes == Spec => FloorStopsTrading
  <1>. DEFINE A == (under /\ fillsSince' > fillsSince) => used["lost"] > 0
  <1>1. Init => FloorInv
    BY DEF Init, FloorInv
  <1>2. ShapeInv /\ FloorInv /\ [Next]_vars => [A]_vars
    <2>. SUFFICES ASSUME ShapeInv, FloorInv, [Next]_vars, under, fillsSince' > fillsSince
                  PROVE  used["lost"] > 0
      OBVIOUS
    <2>1. fillsSince \in Nat
      BY DEF ShapeInv, TypeOK
    <2>2. CASE Trade
      BY <2>2 DEF Trade, FloorInv
    <2>3. CASE ~Trade
      <3>1. fillsSince' \in {fillsSince, 0}
        BY <2>3 DEF Next, Poll, NextBar, Watchdog, Floor, Ask, Register, Stop, Gate, GetUpdates,
                    Command, Press, Resume, Lapse, Tap, Cockpit, Crash, Rest, SetHalted, Turn,
                    vars, switch
      <3>. QED BY <2>1, <3>1
    <2>. QED BY <2>2, <2>3
  <1>. QED BY <1>1, <1>2, ShapeSafe, StepFloor, PTL DEF Spec, FloorStopsTrading

LEMMA StepTold == ShapeInv /\ ToldInv /\ [Next]_vars => ToldInv'
  <1>. SUFFICES ASSUME ShapeInv, ToldInv, [Next]_vars PROVE ToldInv'
    OBVIOUS
  <1>0. notice \in [due : Nat, lost : Nat, heard : BOOLEAN]
    BY DEF ShapeInv, TypeOK
  <1>1. CASE Floor
    <2>1. CASE pc' = "ask"
      BY <1>0, <1>1, <2>1 DEF Floor, Owed, ToldInv
    <2>2. CASE pc' # "ask"
      BY <1>0, <1>1, <2>2 DEF Floor, ToldInv
    <2>. QED BY <2>1, <2>2
  <1>2. CASE Ask
    <2>1. notice.due > 0 /\ (notice.heard \/ notice.lost + 1 >= notice.due) /\ pc' # "ask"
      BY <1>2 DEF Ask, Noticed, ToldInv
    <2>2. CASE notice' = [notice EXCEPT !.heard = TRUE]
      BY <1>0, <2>1, <2>2 DEF ToldInv
    <2>3. CASE notice' = [notice EXCEPT !.lost = @ + 1]
      BY <1>0, <2>1, <2>3 DEF ToldInv
    <2>. QED BY <1>2, <2>2, <2>3 DEF Ask
  <1>3. CASE Register \/ Stop
    <2>1. notice' = notice /\ pc \in {"register", "stop"} /\ pc' # "ask"
      BY <1>3 DEF Register, Noticed, Stop
    <2>. QED BY <1>0, <2>1 DEF ToldInv
  <1>4. CASE Gate
    <2>1. CASE pc' = "ask"
      <3>1. notice' = Owed /\ pc = "gate"
        BY <1>4, <2>1 DEF Gate
      <3>. QED BY <1>0, <2>1, <3>1 DEF Owed, ToldInv
    <2>2. CASE pc' # "ask"
      <3>1. /\ notice' = notice /\ pc = "gate" /\ pc' \in {"idle", "trade"}
            /\ haltedByFloor' = haltedByFloor
            /\ wasHalted' = wasHalted \/ wasHalted \/ haltedByFloor
        BY <1>4, <2>2 DEF Gate
      <3>. QED BY <1>0, <2>2, <3>1 DEF ToldInv
    <2>. QED BY <2>1, <2>2
  <1>5. CASE Trade
    <2>1. pc = "trade" /\ pc' = "idle"
      BY <1>5 DEF Trade
    <2>2. CASE Finished
      BY <2>1, <2>2 DEF Finished, Unsaid, ToldInv
    <2>3. CASE UNCHANGED <<wasHalted, haltedByFloor, notice>>
      BY <2>1, <2>3 DEF ToldInv
    <2>. QED BY <1>5, <2>2, <2>3 DEF Trade
  <1>6. CASE Crash
    BY <1>6 DEF Crash, Unsaid, ToldInv
  <1>7. CASE NextBar \/ Watchdog
    <2>1. pc' \in {"watch", "floor"} /\ pc \in {"idle", "watch"}
      BY <1>7 DEF NextBar, Watchdog
    <2>2. wasHalted' = wasHalted /\ haltedByFloor' = haltedByFloor /\ notice' = notice
      BY <1>7 DEF NextBar, Watchdog
    <2>. QED BY <2>1, <2>2 DEF ToldInv
  <1>8. CASE Poll \/ Lapse \/ Tap \/ Cockpit \/ Rest \/ UNCHANGED vars
    <2>1. UNCHANGED <<pc, wasHalted, haltedByFloor, notice>>
      BY <1>8 DEF Poll, GetUpdates, Command, Press, Resume, Lapse, Tap, Cockpit, Rest, vars, loop
    <2>. QED BY <2>1 DEF ToldInv
  <1>. QED BY <1>1, <1>2, <1>3, <1>4, <1>5, <1>6, <1>7, <1>8 DEF Next

\* A halt the loop has on record had a notice due, and the operator heard one unless every
\* one that was due got lost: no sequence of floor halts, resumes, kills and exceptions
\* leaves _was_halted or _halted_by_floor set without (agent/loop.py, agent/notify.py).
THEOREM HaltsAreAnnounced == Spec => []HaltIsAnnounced
  <1>1. Init => ToldInv
    BY DEF Init, Unsaid, ToldInv
  <1>2. ShapeInv /\ ToldInv => HaltIsAnnounced
    BY DEF ShapeInv, TypeOK, ToldInv, HaltIsAnnounced
  <1>. QED BY <1>1, <1>2, ShapeSafe, StepTold, PTL DEF Spec

-----------------------------------------------------------------------------
(* The buttons.                                                            *)

\* What is registered, or is about to be, has not fired yet.
FireInv == /\ \A a \in Asks : /\ fired[a] <= 1
                              /\ a \in pending \/ a > sent => fired[a] = 0
                              /\ pc = "register" /\ a = sent => fired[a] = 0
           /\ pc = "register" => sent \notin pending

LEMMA StepFire == ShapeInv /\ FireInv /\ [Next]_vars => FireInv'
  <1>. SUFFICES ASSUME ShapeInv, FireInv, [Next]_vars PROVE FireInv'
    OBVIOUS
  <1>0. /\ sent \in Nat /\ pending \subseteq 1..sent /\ lapsed \subseteq pending
        /\ fired \in [Asks -> Nat] /\ Asks = 1..MaxHour
    BY DEF ShapeInv, TypeOK, Asks
  <1>1. CASE Ask
    <2>1. pending' = pending /\ fired' = fired
      BY <1>1 DEF Ask, bot
    <2>2. CASE sent' = sent + 1 /\ pc' = "register"
      <3>1. sent' \notin pending
        BY <1>0, <2>2
      <3>2. \A a \in Asks : a > sent' \/ a = sent' => a > sent
        BY <1>0, <2>2
      <3>. QED BY <2>1, <2>2, <3>1, <3>2 DEF FireInv
    <2>3. CASE sent' \in {sent, sent + 1} /\ pc' # "register"
      <3>1. \A a \in Asks : a > sent' => a > sent
        BY <1>0, <2>3
      <3>. QED BY <2>1, <2>3, <3>1 DEF FireInv
    <2>. QED BY <1>1, <2>2, <2>3 DEF Ask, Noticed
  <1>2. CASE Register
    <2>1. /\ pc = "register" /\ pc' # "register" /\ pending' = pending \union {sent}
          /\ sent' = sent /\ fired' = fired
      BY <1>2 DEF Register, Noticed, bot
    <2>. QED BY <2>1 DEF FireInv
  <1>3. CASE Press
    <2>. DEFINE a == updates[poller.next].ask
    <2>1. pc' = pc /\ sent' = sent /\ pending' = pending \ {a}
      BY <1>3 DEF Press, Popped, loop
    <2>2. CASE fired' = fired
      BY <2>1, <2>2 DEF FireInv
    <2>3. CASE a \in pending /\ fired' = [fired EXCEPT ![a] = @ + 1]
      <3>1. \A b \in Asks : fired'[b] = IF b = a THEN fired[b] + 1 ELSE fired[b]
        BY <1>0, <2>3
      <3>2. a \in 1..sent /\ a \notin pending' /\ (pc = "register" => a # sent)
        BY <1>0, <2>1, <2>3 DEF FireInv
      <3>3. a \in Asks => fired[a] = 0 /\ fired'[a] = 1
        BY <2>3, <3>1 DEF FireInv
      <3>4. ~(a > sent)
        BY <1>0, <3>2
      <3>. QED BY <2>1, <3>1, <3>2, <3>3, <3>4 DEF FireInv
    <2>. QED BY <1>3, <2>2, <2>3 DEF Press
  <1>4. CASE GetUpdates \/ Crash
    <2>1. /\ pending' \subseteq pending /\ UNCHANGED <<sent, fired>>
          /\ pc' = pc \/ pc' = "idle"
      BY <1>4 DEF GetUpdates, Crash, loop
    <2>. QED BY <2>1 DEF FireInv
  <1>5. CASE NextBar \/ Watchdog \/ Floor \/ Stop \/ Gate \/ Trade
    <2>1. pc' # "register" /\ UNCHANGED <<sent, pending, fired>>
      BY <1>5 DEF NextBar, Watchdog, Floor, Stop, Gate, Trade, buttons, bot
    <2>. QED BY <2>1 DEF FireInv
  <1>6. CASE Command \/ Resume \/ Lapse \/ Tap \/ Cockpit \/ Rest \/ UNCHANGED vars
    <2>1. UNCHANGED <<pc, sent, pending, fired>>
      BY <1>6 DEF Command, Resume, Lapse, Tap, Cockpit, Rest, vars, loop, buttons, bot
    <2>. QED BY <2>1 DEF FireInv
  <1>. QED BY <1>1, <1>2, <1>3, <1>4, <1>5, <1>6 DEF Next, Poll

\* "on_approve / on_reject fire at most once" (agent/notify.py): an approval is popped
\* before it acts, and its message is never registered a second time.
THEOREM FiringOnce == Spec => []FiresOnce
  <1>1. Init => FireInv
    BY DEF Init, FireInv
  <1>2. FireInv => FiresOnce
    BY DEF FireInv, FiresOnce
  <1>. QED BY <1>1, <1>2, ShapeSafe, StepFire, PTL DEF Spec

-----------------------------------------------------------------------------
(* The updates.                                                            *)

\* Updates are acted on in order, from the poller's offset on; a press whose on_approve
\* is still to run has been acted on already.
Begun(u)  == u < poller.next \/ (u = poller.next /\ poller.pc = "resume")
HandInv == \A u \in 1..MaxUpdates :
               /\ handled[u] <= (IF Begun(u) THEN 1 ELSE 0) + used["crash"]
               /\ u <= confirmed \/ Begun(u) => handled[u] > 0

\* A crash is counted, and none is uncounted.
LEMMA CrashCounts ==
    ASSUME ShapeInv, [Next]_vars
    PROVE  used["crash"] \in Nat /\ used'["crash"] \in Nat /\ used["crash"] <= used'["crash"]
  <1>1. used \in [Events -> Nat] /\ used' \in [Events -> Nat] /\ "crash" \in Events
    BY StepShape DEF ShapeInv, TypeOK, Events
  <1>2. used' = used \/ \E e \in Events : Spend(e)
    BY DEF Next, Poll, NextBar, Watchdog, Floor, Ask, Register, Stop, Gate, Trade, GetUpdates,
           Command, Press, Resume, Lapse, Tap, Cockpit, Crash, Rest, SetHalted, Events, vars
  <1>. QED BY <1>1, <1>2, SpendCounts

\* The update at the poller's offset is acted on now, and none that was begun.
LEMMA Handling ==
    ASSUME ShapeInv, HandInv, [Next]_vars, poller.pc = "handle", UNCHANGED confirmed,
           handled' = [handled EXCEPT ![poller.next] = @ + 1],
           poller' = Onward \/ poller' = [poller EXCEPT !.pc = "resume"]
    PROVE  HandInv'
  <1>1. /\ poller.next \in Nat /\ handled \in [1..MaxUpdates -> Nat] /\ confirmed \in Nat
        /\ poller \in [pc : {"poll", "handle", "resume"}, next : Nat \ {0},
                       upto : 0..Len(updates)]
    BY DEF ShapeInv, TypeOK
  <1>2. \/ poller'.next = poller.next + 1 /\ poller'.pc \in {"poll", "handle"}
        \/ poller'.next = poller.next /\ poller'.pc = "resume"
    BY <1>1, OnwardTyped
  <1>3. SUFFICES ASSUME NEW u \in 1..MaxUpdates
                 PROVE  /\ handled'[u] <= (IF Begun(u)' THEN 1 ELSE 0) + used'["crash"]
                        /\ u <= confirmed' \/ Begun(u)' => handled'[u] > 0
    BY DEF HandInv
  <1>4. /\ handled[u] <= (IF Begun(u) THEN 1 ELSE 0) + used["crash"]
        /\ u <= confirmed \/ Begun(u) => handled[u] > 0
        /\ handled[u] \in Nat /\ u \in Nat
    BY <1>1 DEF HandInv
  <1>5. CASE u = poller.next
    <2>1. ~Begun(u) /\ Begun(u)'
      BY <1>1, <1>2, <1>5 DEF Begun
    <2>2. handled'[u] = handled[u] + 1
      BY <1>1, <1>5
    <2>. QED BY <1>4, <2>1, <2>2, CrashCounts
  <1>6. CASE u # poller.next
    <2>1. Begun(u)' = Begun(u)
      BY <1>1, <1>2, <1>4, <1>6 DEF Begun
    <2>2. handled'[u] = handled[u]
      BY <1>1, <1>6
    <2>. QED BY <1>4, <2>1, <2>2, CrashCounts
  <1>. QED BY <1>5, <1>6

LEMMA StepHand == ShapeInv /\ HandInv /\ [Next]_vars => HandInv'
  <1>. SUFFICES ASSUME ShapeInv, HandInv, [Next]_vars PROVE HandInv'
    OBVIOUS
  <1>0. /\ poller.next \in Nat /\ handled \in [1..MaxUpdates -> Nat] /\ confirmed \in Nat
        /\ used["crash"] \in Nat /\ used'["crash"] \in Nat /\ used["crash"] <= used'["crash"]
    BY CrashCounts DEF ShapeInv, TypeOK
  <1>1. CASE Command
    BY <1>1, Handling DEF Command
  <1>2. CASE Press
    BY <1>2, Handling DEF Press
  <1>3. CASE Resume
    <2>1. /\ poller.pc = "resume" /\ UNCHANGED <<handled, confirmed>>
          /\ poller'.next = poller.next + 1 /\ poller'.pc \in {"poll", "handle"}
      BY <1>3, OnwardTyped DEF Resume
    <2>2. \A u \in 1..MaxUpdates : Begun(u)' <=> Begun(u)
      BY <1>0, <2>1 DEF Begun
    <2>. QED BY <1>0, <2>1, <2>2 DEF HandInv
  <1>4. CASE GetUpdates
    <2>1. handled' = handled /\ poller.pc = "poll" /\ poller'.pc # "resume"
      BY <1>4 DEF GetUpdates, Asleep
    <2>2. IF poller.next > confirmed
          THEN poller'.next = poller.next /\ confirmed' = poller.next - 1
          ELSE poller'.next = confirmed + 1 /\ confirmed' = confirmed
      BY <1>4 DEF GetUpdates, Asleep, Acknowledged
    <2>3. \A u \in 1..MaxUpdates :
              /\ Begun(u) => Begun(u)'
              /\ u <= confirmed' \/ Begun(u)' => u <= confirmed \/ Begun(u)
      BY <1>0, <2>1, <2>2 DEF Begun
    <2>. QED BY <1>0, <2>1, <2>3 DEF HandInv
  <1>5. CASE Crash
    <2>1. UNCHANGED <<handled, confirmed>> /\ used'["crash"] = used["crash"] + 1
      BY <1>5, SpendCounts DEF Crash, ShapeInv, TypeOK, Events
    <2>2. \A u \in 1..MaxUpdates : ~Begun(u)'
      BY <1>5 DEF Crash, Asleep, Begun
    <2>. QED BY <1>0, <2>1, <2>2 DEF HandInv
  <1>6. CASE \/ NextBar \/ Watchdog \/ Floor \/ Ask \/ Register \/ Stop \/ Gate \/ Trade
             \/ Lapse \/ Tap \/ Cockpit \/ Rest \/ UNCHANGED vars
    <2>1. UNCHANGED <<handled, confirmed, poller>>
      BY <1>6 DEF NextBar, Watchdog, Floor, Ask, Register, Stop, Gate, Trade, Lapse, Tap,
                  Cockpit, Rest, vars, bot
    <2>2. \A u \in 1..MaxUpdates : Begun(u)' <=> Begun(u)
      BY <2>1 DEF Begun
    <2>. QED BY <1>0, <2>1, <2>2 DEF HandInv
  <1>. QED BY <1>1, <1>2, <1>3, <1>4, <1>5, <1>6 DEF Next, Poll

\* Initially nothing was done, and nothing is owed.
LEMMA InitHand == Init => HandInv
  <1>. SUFFICES ASSUME Init, NEW u \in 1..MaxUpdates
                PROVE  ~Begun(u) /\ handled[u] = 0 /\ used["crash"] = 0 /\ ~(u <= confirmed)
    BY DEF HandInv
  <1>. QED BY DEF Init, Asleep, Begun, Events

LEMMA HandSafe == Spec => []HandInv
  BY InitHand, ShapeSafe, StepHand, PTL DEF Spec

\* An update is acted on once, and a second time only over a crash: the offset goes up
\* before the update is processed (agent/notify.py).
THEOREM HandlingOnce == Spec => []HandledOnce
  <1>1. ShapeInv /\ HandInv => HandledOnce
    <2>. SUFFICES ASSUME ShapeInv, HandInv, NEW u \in 1..MaxUpdates
                  PROVE  handled[u] <= 1 + used["crash"]
      BY DEF HandledOnce
    <2>1. used["crash"] \in Nat /\ handled[u] \in Nat
      BY DEF ShapeInv, TypeOK, Events
    <2>. QED BY <2>1 DEF HandInv
  <1>. QED BY <1>1, ShapeSafe, HandSafe, PTL

\* What Telegram will not send again was acted on: only a later getUpdates confirms.
THEOREM NothingForgotten == Spec => []NoUpdateLost
  <1>1. ShapeInv /\ HandInv => NoUpdateLost
    <2>. SUFFICES ASSUME ShapeInv, HandInv, NEW u \in 1..confirmed PROVE handled[u] > 0
      BY DEF NoUpdateLost
    <2>1. Len(updates) \in Nat /\ Len(updates) <= MaxUpdates /\ confirmed \in 0..Len(updates)
      BY DEF ShapeInv, TypeOK, BatchOK
    <2>2. u \in 1..MaxUpdates /\ u <= confirmed
      BY <2>1, BoundAssumption
    <2>. QED BY <2>2 DEF HandInv
  <1>. QED BY <1>1, ShapeSafe, HandSafe, PTL

-----------------------------------------------------------------------------
(* Sums.                                                                   *)

\* A set of finite sets has a smallest one by inclusion.
LEMMA Smallest ==
  ASSUME NEW S, IsFiniteSet(S), NEW T, T \subseteq SUBSET S, T # {}
  PROVE  \E x \in T : \A y \in T : ~(y \subseteq x /\ y # x)
<1>1. IsWellFoundedOn(StrictSubsetOrdering(S), SUBSET S)
  BY FS_StrictSubsetOrderingWellFounded, FS_FiniteSubsetsOfFinite
<1>2. \E x \in T : \A y \in T : ~(<<y, x>> \in StrictSubsetOrdering(S))
  BY <1>1, WFMin, Zenon
<1>. QED BY <1>2 DEF StrictSubsetOrdering

\* What holds of 0, and of n + 1 once it holds of n, holds of every number.
LEMMA Counting ==
  ASSUME NEW Q, 0 \in Q, \A n \in Nat : n \in Q => n + 1 \in Q
  PROVE  \A n \in Nat : n \in Q
<1>. SUFFICES ASSUME Nat \ Q # {} PROVE FALSE
  OBVIOUS
<1> DEFINE Less == OpToRel(<, Nat)
<1>1. PICK m \in Nat \ Q : \A y \in Nat \ Q : <<y, m>> \notin Less
  <2>1. IsWellFoundedOn(Less, Nat) /\ Nat \ Q \subseteq Nat
    BY NatLessThanWellFounded
  <2> HIDE DEF Less
  <2>. QED BY <2>1, WFMin
<1>2. \A y \in Nat \ Q : ~(y < m)
  BY <1>1 DEF OpToRel
<1> HIDE DEF Less
<1>3. m \in Nat /\ m \notin Q
  BY <1>1
<1>4. m # 0 /\ m - 1 \in Nat /\ m - 1 + 1 = m /\ m - 1 < m
  BY <1>3
<1>. QED BY <1>2, <1>3, <1>4

Member(s) == CHOOSE x \in s : TRUE

\* F has the sum of f over every set of its arguments.
Sums(F, f) ==
    F = [s \in SUBSET DOMAIN f |-> IF s = {} THEN 0 ELSE f[Member(s)] + F[s \ {Member(s)}]]

\* The sum of a function, by its definition.
LEMMA SumIs ==
  ASSUME NEW f
  PROVE  SumFunction(f) = (CHOOSE F : Sums(F, f))[DOMAIN f]
BY DEF SumFunction, SumFunctionOnSet, FoldFunctionOnSet, MapThenFoldSet, Sums, Member

\* A member of a set is in it.
LEMMA MemberIn == ASSUME NEW s, s # {} PROVE Member(s) \in s
BY DEF Member

\* Such an F exists: it can be built for sets of at most n elements, for any n.
LEMMA SumsExist ==
  ASSUME NEW S, IsFiniteSet(S), NEW f \in [S -> Int]
  PROVE  \E F : Sums(F, f)
<1> DEFINE Body(F, s) == IF s = {} THEN 0 ELSE f[Member(s)] + F[s \ {Member(s)}]
           Upto(F, n) == \A s \in SUBSET S : Cardinality(s) <= n => F[s] = Body(F, s)
           Q == {n \in Nat : \E F : Upto(F, n)}
<1>0. \A s \in SUBSET S : IsFiniteSet(s) /\ Cardinality(s) \in Nat
  BY FS_Subset, FS_CardinalityType
<1>1. 0 \in Q
  <2> DEFINE F == [s \in SUBSET S |-> 0]
  <2>1. \A s \in SUBSET S : Cardinality(s) <= 0 => s = {}
    BY <1>0, FS_EmptySet
  <2>2. Upto(F, 0)
    BY <2>1
  <2>. QED BY <2>2
<1>2. ASSUME NEW n \in Nat, n \in Q PROVE n + 1 \in Q
  <2>1. PICK F : Upto(F, n)
    BY <1>2
  <2> DEFINE G == [s \in SUBSET S |-> Body(F, s)]
  <2>2. ASSUME NEW s \in SUBSET S, Cardinality(s) <= n + 1
        PROVE  G[s] = Body(G, s)
    <3>1. CASE s = {}
      BY <3>1
    <3>2. CASE s # {}
      <4> DEFINE x == Member(s)
                 t == s \ {x}
      <4>1. x \in s
        BY <3>2, MemberIn
      <4>2. t \in SUBSET S /\ Cardinality(t) = Cardinality(s) - 1
        BY <1>0, <4>1, FS_RemoveElement
      <4>3. Cardinality(t) <= n
        BY <1>0, <2>2, <4>2
      <4>4. F[t] = Body(F, t)
        BY <2>1, <4>2, <4>3
      <4>5. G[t] = F[t]
        BY <4>2, <4>4
      <4>6. G[s] = f[x] + F[t]
        BY <3>2
      <4>. QED BY <3>2, <4>5, <4>6
    <3>. QED BY <3>1, <3>2
  <2>3. Upto(G, n + 1)
    BY <2>2
  <2> HIDE DEF G, Upto
  <2>4. n + 1 \in Nat /\ \E H : Upto(H, n + 1)
    BY <2>3
  <2>. QED BY <2>4
<1>3. \A n \in Nat : n \in Q
  <2> HIDE DEF Q
  <2>. QED BY <1>1, <1>2, Counting
<1>4. PICK F : Upto(F, Cardinality(S))
  BY <1>0, <1>3
<1>5. \A s \in SUBSET S : Cardinality(s) <= Cardinality(S)
  BY FS_Subset
<1> DEFINE G == [s \in SUBSET S |-> Body(F, s)]
<1>6. \A s \in SUBSET S : G[s] = F[s]
  BY <1>4, <1>5
<1>7. \A s \in SUBSET S : s # {} => s \ {Member(s)} \in SUBSET S
  OBVIOUS
<1>8. \A s \in SUBSET S : Body(F, s) = Body(G, s)
  BY <1>6, <1>7
<1>9. DOMAIN f = S
  OBVIOUS
<1>10. Sums(G, f)
  BY <1>8, <1>9 DEF Sums
<1>. QED BY <1>10

\* What F says of a set does not depend on the element taken out first.
SumBy(F, f, S) ==
    /\ F \in [SUBSET S -> Int] /\ SumFunction(f) = F[S] /\ F[{}] = 0
    /\ \A s \in SUBSET S : \A x \in s : F[s] = f[x] + F[s \ {x}]

LEMMA SumRules ==
  ASSUME NEW S, IsFiniteSet(S), NEW f \in [S -> Int]
  PROVE  \E F : SumBy(F, f, S)
<1> DEFINE F == CHOOSE G : Sums(G, f)
<1>1. Sums(F, f)
  BY SumsExist
<1>2. SumFunction(f) = F[S]
  BY SumIs
<1> HIDE DEF F
<1>3. /\ F = [s \in SUBSET S |-> F[s]] /\ F[{}] = 0
      /\ \A s \in SUBSET S : s # {} => F[s] = f[Member(s)] + F[s \ {Member(s)}]
  BY <1>1 DEF Sums
<1>7. F[{}] \in Int
  BY <1>3
<1>4. ASSUME NEW s \in SUBSET S PROVE F[s] \in Int
  <2> DEFINE T == {t \in SUBSET S : F[t] \notin Int}
  <2>. SUFFICES ASSUME T # {} PROVE FALSE
    OBVIOUS
  <2>0. T \subseteq SUBSET S
    OBVIOUS
  <2> HIDE DEF T
  <2>1. PICK t \in T : \A u \in T : ~(u \subseteq t /\ u # t)
    BY <2>0, Smallest
  <2> USE DEF T
  <2>2. t \in SUBSET S /\ F[t] \notin Int
    OBVIOUS
  <2>6. t # {}
    BY <1>7, <2>2
  <2>3. Member(t) \in t /\ f[Member(t)] \in Int
    BY <2>2, <2>6, MemberIn
  <2>4. t \ {Member(t)} \notin T
    BY <2>1, <2>3
  <2>5. F[t \ {Member(t)}] \in Int
    BY <2>2, <2>4
  <2>7. F[t] = f[Member(t)] + F[t \ {Member(t)}]
    BY <1>3, <2>2, <2>6
  <2>. QED BY <2>2, <2>3, <2>5, <2>7
<1>5. ASSUME NEW s \in SUBSET S, NEW x \in s PROVE F[s] = f[x] + F[s \ {x}]
  <2> DEFINE T == {t \in SUBSET S : \E y \in t : F[t] # f[y] + F[t \ {y}]}
  <2>. SUFFICES ASSUME T # {} PROVE FALSE
    OBVIOUS
  <2>0. T \subseteq SUBSET S
    OBVIOUS
  <2> HIDE DEF T
  <2>1. PICK t \in T : \A u \in T : ~(u \subseteq t /\ u # t)
    BY <2>0, Smallest
  <2> USE DEF T
  <2>2. PICK y \in t : F[t] # f[y] + F[t \ {y}]
    OBVIOUS
  <2> DEFINE z == Member(t)
  <2>3. t \in SUBSET S /\ z \in t /\ y \in t
    BY MemberIn
  <2> HIDE DEF z
  <2>4. F[t] = f[z] + F[t \ {z}]
    BY <1>3, <2>3 DEF z
  <2>5. y # z
    BY <2>2, <2>4
  <2>6. t \ {z} \in SUBSET S /\ t \ {y} \in SUBSET S /\ t \ {z} \notin T /\ t \ {y} \notin T
    BY <2>1, <2>3
  <2>7. F[t \ {z}] = f[y] + F[(t \ {z}) \ {y}]
    BY <2>3, <2>5, <2>6
  <2>8. F[t \ {y}] = f[z] + F[(t \ {y}) \ {z}]
    BY <2>3, <2>5, <2>6
  <2>9. (t \ {y}) \ {z} = (t \ {z}) \ {y} /\ (t \ {z}) \ {y} \in SUBSET S
    BY <2>3
  <2>10. f[y] \in Int /\ f[z] \in Int /\ F[(t \ {z}) \ {y}] \in Int
    BY <1>4, <2>3, <2>9
  <2>11. F[t] = f[y] + F[t \ {y}]
    <3> DEFINE rest == F[(t \ {z}) \ {y}]
    <3>1. F[t] = f[z] + (f[y] + rest) /\ F[t \ {y}] = f[z] + rest
      BY <2>4, <2>7, <2>8, <2>9
    <3>2. f[y] \in Int /\ f[z] \in Int /\ rest \in Int
      BY <2>10
    <3> HIDE DEF rest
    <3>. QED BY <3>1, <3>2
  <2>. QED BY <2>2, <2>11
<1>6. F \in [SUBSET S -> Int]
  BY <1>3, <1>4
<1>8. SumBy(F, f, S)
  BY <1>2, <1>3, <1>5, <1>6 DEF SumBy
<1>. QED BY <1>8

\* Equal summands, one for one, have equal sums.
LEMMA SumsMatch ==
  ASSUME NEW S, IsFiniteSet(S), NEW f \in [S -> Int], NEW T, IsFiniteSet(T), NEW g \in [T -> Int],
         NEW h \in Bijection(S, T), \A x \in S : f[x] = g[h[x]]
  PROVE  SumFunction(f) = SumFunction(g)
<1>1. PICK F : SumBy(F, f, S)
  BY SumRules
<1>2. PICK G : SumBy(G, g, T)
  BY SumRules
<1>3. /\ \A x \in S : h[x] \in T
      /\ \A x, y \in S : h[x] = h[y] => x = y
      /\ \A y \in T : \E x \in S : h[x] = y
  BY DEF Bijection, Injection, Surjection, IsInjective
<1> DEFINE H(s) == {h[x] : x \in s}
           U == {s \in SUBSET S : F[s] # G[H(s)]}
<1>4. U = {}
  <2>. SUFFICES ASSUME U # {} PROVE FALSE
    OBVIOUS
  <2>0. U \subseteq SUBSET S
    OBVIOUS
  <2> HIDE DEF U
  <2>1. PICK s \in U : \A u \in U : ~(u \subseteq s /\ u # s)
    BY <2>0, Smallest
  <2> USE DEF U
  <2>2. s \in SUBSET S /\ F[s] # G[H(s)]
    OBVIOUS
  <2>3. s # {}
    <3>1. H({}) = {}
      OBVIOUS
    <3>. QED BY <1>1, <1>2, <2>2, <3>1 DEF SumBy
  <2>4. PICK x \in s : TRUE
    BY <2>3
  <2>5. s \ {x} \in SUBSET S /\ s \ {x} \notin U
    BY <2>1, <2>2, <2>4
  <2>6. F[s \ {x}] = G[H(s \ {x})]
    BY <2>5
  <2>7. H(s) \in SUBSET T /\ h[x] \in H(s)
    BY <1>3, <2>2, <2>4
  <2>8. H(s) \ {h[x]} = H(s \ {x})
    BY <1>3, <2>2, <2>4
  <2> HIDE DEF H
  <2>9. F[s] = f[x] + F[s \ {x}] /\ G[H(s)] = g[h[x]] + G[H(s) \ {h[x]}] /\ f[x] = g[h[x]]
    BY <1>1, <1>2, <2>2, <2>4, <2>7 DEF SumBy
  <2>. QED BY <2>2, <2>6, <2>8, <2>9
<1>5. H(S) = T
  BY <1>3
<1>6. F[S] = G[T]
  BY <1>4, <1>5
<1>. QED BY <1>1, <1>2, <1>6 DEF SumBy

-----------------------------------------------------------------------------
(* The dreamer drops nothing.                                              *)

\* A set of numbers has a least one.
LEMMA MinIn ==
  ASSUME NEW s, s \subseteq Nat, s # {}
  PROVE  Min(s) \in s
<1> DEFINE Less == OpToRel(<, Nat)
<1>1. PICK x \in s : \A y \in s : <<y, x>> \notin Less
  <2>1. IsWellFoundedOn(Less, Nat)
    BY NatLessThanWellFounded
  <2> HIDE DEF Less
  <2>. QED BY <2>1, WFMin
<1>2. \A y \in s : ~(y < x)
  BY <1>1 DEF OpToRel
<1>3. \A y \in s : x <= y
  BY <1>2
<1>. QED BY <1>3 DEF Min

\* A fold whose steps do nothing returns what it began with.
LEMMA FoldsStill ==
  ASSUME NEW n \in Nat, NEW it, NEW g, it[{}] = g,
         \A s \in SUBSET (1..n) : s # {} => it[s] = it[s \ {Min(s)}]
  PROVE  it[1..n] = g
<1> DEFINE D == 1..n
           T == {s \in SUBSET D : it[s] # g}
<1>. SUFFICES ASSUME T # {} PROVE FALSE
  OBVIOUS
<1>1. T \subseteq SUBSET D /\ IsFiniteSet(D) /\ T # {}
  BY FS_Interval
<1> HIDE DEF T, D
<1>2. PICK s \in T : \A u \in T : ~(u \subseteq s /\ u # s)
  BY <1>1, Smallest
<1> USE DEF T
<1>3. s \in SUBSET D /\ it[s] # g /\ s # {}
  OBVIOUS
<1>4. Min(s) \in s
  <2>1. s \subseteq Nat
    BY <1>3 DEF D
  <2>. QED BY <1>3, <2>1, MinIn
<1>5. s \ {Min(s)} \in SUBSET D /\ s \ {Min(s)} \notin T
  BY <1>2, <1>3, <1>4
<1>6. it[s \ {Min(s)}] = g
  BY <1>5
<1>. QED BY <1>3, <1>4, <1>6 DEF D

\* A row that is like no older one has none dropped.
LEMMA ComparedStill ==
  ASSUME NEW seen, NEW gone, NEW i \in Nat, i > 0,
         \A j \in 1..i - 1 : ~Duplicate(seen[i], seen[j])
  PROVE  Compared(seen, i, gone) = gone
<1> DEFINE q == [j \in 1..i - 1 |-> j]
           Op(j, g) == IF Kept(seen, g, j) /\ Duplicate(seen[i], seen[j])
                       THEN g \cup {Smaller(seen, i, j)} ELSE g
           Folds(it) == it = [s \in SUBSET DOMAIN q |->
                                 IF s = {} THEN gone ELSE Op(q[Min(s)], it[s \ {Min(s)}])]
<1>1. FoldRight(Op, q, gone) = (CHOOSE it : Folds(it))[DOMAIN q]
  BY DEF FoldRight, MapThenFoldSet
<1>2. \A s \in SUBSET (1..i - 1) : s # {} => Min(s) \in s /\ q[Min(s)] \in 1..i - 1
  <2>. TAKE s \in SUBSET (1..i - 1)
  <2>. HAVE s # {}
  <2>1. s \subseteq Nat
    OBVIOUS
  <2>2. Min(s) \in s
    BY <2>1, MinIn
  <2>. QED BY <2>2
<1>3. \A g : \A s \in SUBSET (1..i - 1) : s # {} => Op(q[Min(s)], g) = g
  BY <1>2
<1>4. \E it : Folds(it)
  <2> DEFINE c == [s \in SUBSET (1..i - 1) |-> gone]
  <2>1. \A s \in SUBSET (1..i - 1) : s # {} => s \ {Min(s)} \in SUBSET (1..i - 1)
    OBVIOUS
  <2> HIDE DEF Op
  <2>2. Folds(c)
    BY <1>3, <2>1
  <2> HIDE DEF Folds
  <2>. QED BY <2>2
<1> DEFINE it == CHOOSE f : Folds(f)
<1>5. Folds(it)
  <2> HIDE DEF Folds
  <2>. QED BY <1>4
<1> HIDE DEF it
<1>6. it[{}] = gone /\ \A s \in SUBSET (1..i - 1) : s # {} => it[s] = it[s \ {Min(s)}]
  <2>1. /\ it[{}] = gone
        /\ \A s \in SUBSET (1..i - 1) : s # {} => it[s] = Op(q[Min(s)], it[s \ {Min(s)}])
    <3> HIDE DEF Op
    <3>. QED BY <1>5
  <2>2. \A s \in SUBSET (1..i - 1) : s # {} => Op(q[Min(s)], it[s \ {Min(s)}]) = it[s \ {Min(s)}]
    <3> HIDE DEF Op
    <3>. QED BY <1>3
  <2> HIDE DEF Op
  <2>. QED BY <2>1, <2>2
<1>7. it[1..i - 1] = gone
  <2>1. i - 1 \in Nat
    OBVIOUS
  <2>. QED BY <1>6, <2>1, FoldsStill
<1>8. FoldRight(Op, q, gone) = gone
  <2>1. DOMAIN q = 1..i - 1
    OBVIOUS
  <2>. QED BY <1>1, <1>7, <2>1 DEF it
<1>. QED BY <1>8 DEF Compared

\* With no two rows alike, the dreamer drops none.
LEMMA NothingDropped ==
  ASSUME NEW R, NEW seen \in Seq(R), \A i, j \in DOMAIN seen : ~Duplicate(seen[i], seen[j])
  PROVE  Dropped(seen) = {}
<1> DEFINE q == [j \in DOMAIN seen |-> j]
           Op(j, g) == Compared(seen, j, g)
           Folds(it) == it = [s \in SUBSET DOMAIN q |->
                                 IF s = {} THEN {} ELSE Op(q[Min(s)], it[s \ {Min(s)}])]
<1>0. DOMAIN seen = 1..Len(seen) /\ Len(seen) \in Nat
  OBVIOUS
<1>1. FoldRight(Op, q, {}) = (CHOOSE it : Folds(it))[DOMAIN q]
  BY DEF FoldRight, MapThenFoldSet
<1>2. \A s \in SUBSET DOMAIN seen : s # {} => Min(s) \in s /\ q[Min(s)] = Min(s)
  BY <1>0, MinIn
<1>3. \A g : \A s \in SUBSET DOMAIN seen : s # {} => Op(q[Min(s)], g) = g
  <2>. SUFFICES ASSUME NEW g, NEW s \in SUBSET DOMAIN seen, s # {}
                PROVE  Compared(seen, q[Min(s)], g) = g
    OBVIOUS
  <2> DEFINE i == q[Min(s)]
  <2>1. i \in DOMAIN seen
    BY <1>2
  <2> HIDE DEF i
  <2>2. i \in Nat /\ i > 0 /\ \A j \in 1..i - 1 : j \in DOMAIN seen
    BY <1>0, <2>1
  <2>3. \A j \in 1..i - 1 : ~Duplicate(seen[i], seen[j])
    BY <2>1, <2>2
  <2>. QED BY <2>2, <2>3, ComparedStill DEF i
<1>4. \E it : Folds(it)
  <2> DEFINE c == [s \in SUBSET DOMAIN seen |-> {}]
  <2>1. \A s \in SUBSET DOMAIN seen : s # {} => s \ {Min(s)} \in SUBSET DOMAIN seen
    OBVIOUS
  <2> HIDE DEF Op
  <2>2. Folds(c)
    BY <1>3, <2>1
  <2> HIDE DEF Folds
  <2>. QED BY <2>2
<1> DEFINE it == CHOOSE f : Folds(f)
<1>5. Folds(it)
  <2> HIDE DEF Folds
  <2>. QED BY <1>4
<1> HIDE DEF it
<1>6. it[{}] = {} /\ \A s \in SUBSET DOMAIN seen : s # {} => it[s] = it[s \ {Min(s)}]
  <2>1. /\ it[{}] = {}
        /\ \A s \in SUBSET DOMAIN seen : s # {} => it[s] = Op(q[Min(s)], it[s \ {Min(s)}])
    <3> HIDE DEF Op
    <3>. QED BY <1>5
  <2>2. \A s \in SUBSET DOMAIN seen : s # {} => Op(q[Min(s)], it[s \ {Min(s)}]) = it[s \ {Min(s)}]
    <3> HIDE DEF Op
    <3>. QED BY <1>3
  <2> HIDE DEF Op
  <2>. QED BY <2>1, <2>2
<1>7. it[DOMAIN seen] = {}
  <2>1. \A s \in SUBSET (1..Len(seen)) : s # {} => it[s] = it[s \ {Min(s)}]
    BY <1>0, <1>6
  <2>2. it[{}] = {}
    BY <1>6
  <2> HIDE DEF q
  <2>3. it[1..Len(seen)] = {}
    BY <1>0, <2>1, <2>2, FoldsStill
  <2>. QED BY <1>0, <2>3
<1>8. FoldRight(Op, q, {}) = {}
  BY <1>1, <1>7 DEF it
<1>. QED BY <1>8 DEF Dropped

-----------------------------------------------------------------------------
(* What the agent learns.                                                  *)

Row    == [cycle : Nat, lesson : Lessons, pnl : Int, quality : {"", "low"}, stale : BOOLEAN]
Received == DOMAIN filed

Report == [setup : Texts, pnl : Int]
Thread == [pc : {"idle", "lesson", "upsert", "persist", "mark"}, cycle : Nat, trade : BOOLEAN,
           report : Report, lesson : Lessons, quality : {"", "low"}]
Record == [id : {"inst", "night", "refl"} \X Nat, kind : {"institutional", "research", "reflection"},
           text : Texts \cup {Brief}, pnl : Int]

TypesOfMemory ==
    /\ closes \in Seq(Report)
    /\ \A c \in Received : c \in Nat /\ filed[c] \in Report
    /\ rows \in Seq(Row) /\ dream \in [pc : {"idle", "pass"}, seen : Seq(Row)]
    /\ writer \in [Writers -> Thread] /\ mishaps \in Nat
    /\ vec \in Seq(Record)

Unique(index) == \A i, j \in DOMAIN index : index[i].id = index[j].id => i = j

Preloaded(r) == r.id[1] = "inst" /\ r.kind = "institutional"

\* The number of the night is not one the dreamer at work may take.
Night(r) ==
    /\ r.id[1] = "night" /\ r.kind = "research" /\ r.text = Brief
    /\ r.id[2] <= mishaps /\ (dream.pc = "pass" => r.id[2] # mishaps)

FiledOf(c) == ReflectionOf(c, filed[c])

\* The index holds what was filed last of every cycle, one record each, preloaded history
\* and digests, and nothing else.
IndexIsRecord ==
    /\ Unique(vec)
    /\ \A i \in DOMAIN vec :
          Preloaded(vec[i]) \/ Night(vec[i]) \/ \E c \in Received : vec[i] = FiledOf(c)
    /\ \A c \in Received : \E i \in DOMAIN vec : vec[i] = FiledOf(c)

IndexInv == TypesOfMemory /\ IndexIsRecord

\* Places before and after one that is taken out.
LEMMA PlacesMove ==
  ASSUME NEW n \in Nat, NEW k \in 1..n, NEW i \in 1..n - 1
  PROVE  /\ i < k => i \in 1..k - 1 /\ i <= k - 1
         /\ ~(i < k) => i - (k - 1) \in 1..n - k /\ ~(i <= k - 1)
         /\ i \in 1..(k - 1) + (n - k) /\ k + (i - (k - 1)) = i + 1
OBVIOUS

\* The places of a sequence are finitely many.
LEMMA Places ==
  ASSUME NEW n \in Nat
  PROVE  IsFiniteSet(1..n) /\ Cardinality(1..n) = n
BY FS_Interval

\* What is left of a sequence when one place is taken out.
LEMMA RemovalIs ==
  ASSUME NEW R, NEW s \in Seq(R), NEW k \in DOMAIN s
  PROVE  /\ RemoveAt(s, k) \in Seq(R)
         /\ Len(RemoveAt(s, k)) = Len(s) - 1
         /\ \A i \in 1..Len(s) - 1 : RemoveAt(s, k)[i] = s[IF i < k THEN i ELSE i + 1]
<1>1. Len(s) \in Nat /\ k \in 1..Len(s) /\ k \in Int
  OBVIOUS
<1> DEFINE a == SubSeq(s, 1, k - 1)
           b == SubSeq(s, k + 1, Len(s))
<1>2. a \in Seq(R) /\ Len(a) = k - 1 /\ \A i \in 1..k - 1 : a[i] = s[i]
  BY <1>1
<1>3. b \in Seq(R) /\ Len(b) = Len(s) - k /\ \A i \in 1..Len(s) - k : b[i] = s[k + i]
  BY <1>1
<1>6. Len(a) = k - 1 /\ Len(b) = Len(s) - k
  BY <1>2, <1>3
<1> HIDE DEF a, b
<1>4. /\ a \o b \in Seq(R) /\ Len(a \o b) = Len(s) - 1
      /\ \A i \in 1..Len(s) - 1 : (a \o b)[i] = s[IF i < k THEN i ELSE i + 1]
  <2>1. a \o b \in Seq(R) /\ Len(a \o b) = Len(s) - 1
    BY <1>1, <1>2, <1>3
  <2>2. ASSUME NEW i \in 1..Len(s) - 1 PROVE (a \o b)[i] = s[IF i < k THEN i ELSE i + 1]
    <3>1. CASE i < k
      <4>1. i \in 1..k - 1 /\ i \in 1..Len(a) + Len(b) /\ i <= Len(a)
        BY <1>1, <1>6, <3>1, PlacesMove
      <4>2. (a \o b)[i] = a[i]
        BY <1>2, <1>3, <4>1, ConcatProperties
      <4>. QED BY <1>2, <3>1, <4>1, <4>2
    <3>2. CASE ~(i < k)
      <4>0. i - (k - 1) \in 1..Len(s) - k /\ i \in 1..Len(a) + Len(b) /\ ~(i <= Len(a))
        BY <1>1, <1>6, <3>2, PlacesMove
      <4>1. (a \o b)[i] = b[i - (k - 1)] /\ i - (k - 1) \in 1..Len(s) - k
        <5>1. (a \o b)[i] = b[i - Len(a)]
          BY <1>2, <1>3, <4>0, ConcatProperties
        <5>. QED BY <1>2, <4>0, <5>1
      <4>2. b[i - (k - 1)] = s[k + (i - (k - 1))]
        BY <1>3, <4>1
      <4>3. k + (i - (k - 1)) = i + 1
        BY <1>1, PlacesMove
      <4>. QED BY <3>2, <4>1, <4>2, <4>3
    <3>. QED BY <3>1, <3>2
  <2>. QED BY <2>1, <2>2
<1>5. RemoveAt(s, k) = a \o b
  BY DEF RemoveAt, a, b
<1>. QED BY <1>4, <1>5

\* The record is in the index, with all those of another id, and no other.
LEMMA UpsertIs ==
  ASSUME vec \in Seq(Record), Unique(vec), NEW rec \in Record,
         NEW new, new = upsert(vec, rec)
  PROVE  /\ new \in Seq(Record) /\ Unique(new)
         /\ \A i \in DOMAIN new :
               \/ new[i] = rec
               \/ \E j \in DOMAIN vec : new[i] = vec[j] /\ vec[j].id # rec.id
         /\ \A j \in DOMAIN vec : vec[j].id # rec.id => \E i \in DOMAIN new : new[i] = vec[j]
         /\ \E i \in DOMAIN new : new[i] = rec
<1> DEFINE old == {i \in DOMAIN vec : vec[i].id = rec.id}
           k   == CHOOSE i \in old : TRUE
           m   == IF old = {} THEN vec ELSE RemoveAt(vec, k)
           grown == Append(m, rec)
<1>1. new = grown
  BY DEF upsert
<1>2. /\ m \in Seq(Record) /\ Unique(m)
      /\ \A i \in DOMAIN m : \E j \in DOMAIN vec : m[i] = vec[j] /\ vec[j].id # rec.id
      /\ \A j \in DOMAIN vec : vec[j].id # rec.id => \E i \in DOMAIN m : m[i] = vec[j]
  <2>1. CASE old = {}
    BY <2>1
  <2>2. CASE old # {}
    <3>1. k \in DOMAIN vec /\ vec[k].id = rec.id
      BY <2>2
    <3>2. m = RemoveAt(vec, k)
      BY <2>2
    <3> HIDE DEF k, m
    <3>3. Len(vec) \in Nat /\ k \in 1..Len(vec) /\ DOMAIN vec = 1..Len(vec)
      BY <3>1
    <3> DEFINE at(i) == IF i < k THEN i ELSE i + 1
    <3>4. /\ m \in Seq(Record) /\ DOMAIN m = 1..Len(vec) - 1
          /\ \A i \in DOMAIN m : m[i] = vec[at(i)]
      <4>1. /\ m \in Seq(Record) /\ Len(m) = Len(vec) - 1
            /\ \A i \in 1..Len(vec) - 1 : m[i] = vec[at(i)]
        BY <3>1, <3>2, RemovalIs
      <4> HIDE DEF at
      <4>2. DOMAIN m = 1..Len(m)
        BY <4>1
      <4>. QED BY <4>1, <4>2
    <3>5. \A i \in DOMAIN m : at(i) \in DOMAIN vec /\ at(i) # k
      BY <3>3, <3>4
    <3>6. \A i, j \in DOMAIN m : at(i) = at(j) => i = j
      BY <3>3, <3>4
    <3>7. \A j \in DOMAIN vec : j # k => \E i \in DOMAIN m : at(i) = j
      <4>. TAKE j \in DOMAIN vec
      <4>. HAVE j # k
      <4>1. CASE j < k
        BY <3>3, <3>4, <4>1
      <4>2. CASE j > k
        <5>1. j - 1 \in DOMAIN m /\ at(j - 1) = j
          BY <3>3, <3>4, <4>2
        <5>. QED BY <5>1
      <4>. QED BY <3>3, <4>1, <4>2
    <3> HIDE DEF at
    <3>8. \A j \in DOMAIN vec : vec[j].id = rec.id => j = k
      BY <3>1 DEF Unique
    <3>9. Unique(m)
      BY <3>4, <3>5, <3>6 DEF Unique
    <3>10. \A i \in DOMAIN m : m[i] = vec[at(i)] /\ vec[at(i)].id # rec.id
      BY <3>4, <3>5, <3>8
    <3>11. \A j \in DOMAIN vec : vec[j].id # rec.id => \E i \in DOMAIN m : m[i] = vec[j]
      BY <3>1, <3>4, <3>7
    <3>. QED BY <3>4, <3>5, <3>9, <3>10, <3>11
  <2>. QED BY <2>1, <2>2
<1> HIDE DEF m
<1>3. /\ new \in Seq(Record) /\ DOMAIN new = 1..Len(m) + 1 /\ DOMAIN m = 1..Len(m) /\ Len(m) \in Nat
      /\ new[Len(m) + 1] = rec /\ \A i \in DOMAIN m : new[i] = m[i]
  BY <1>1, <1>2
<1> HIDE DEF grown
<1>4. \A i \in DOMAIN new : i \in DOMAIN m \/ i = Len(m) + 1
  BY <1>3
<1>5. \A i \in DOMAIN m : i \in DOMAIN new /\ new[i].id # rec.id
  BY <1>2, <1>3
<1>6. Unique(new)
  <2>. SUFFICES ASSUME NEW i \in DOMAIN new, NEW j \in DOMAIN new, new[i].id = new[j].id
                PROVE  i = j
    BY DEF Unique
  <2>1. CASE i \in DOMAIN m /\ j \in DOMAIN m
    <3>1. m[i].id = m[j].id
      BY <1>3, <2>1
    <3>. QED BY <1>2, <2>1, <3>1 DEF Unique
  <2>2. CASE ~(i \in DOMAIN m /\ j \in DOMAIN m)
    <3>1. new[i].id = rec.id
      BY <1>3, <1>4, <2>2
    <3>2. i \notin DOMAIN m /\ j \notin DOMAIN m
      BY <1>5, <3>1
    <3>. QED BY <1>4, <3>2
  <2>. QED BY <2>1, <2>2
<1>7. \A i \in DOMAIN new :
          \/ new[i] = rec
          \/ \E j \in DOMAIN vec : new[i] = vec[j] /\ vec[j].id # rec.id
  BY <1>2, <1>3, <1>4
<1>8. \A j \in DOMAIN vec : vec[j].id # rec.id => \E i \in DOMAIN new : new[i] = vec[j]
  BY <1>2, <1>3, <1>5
<1>9. \E i \in DOMAIN new : new[i] = rec
  BY <1>3
<1>. QED BY <1>3, <1>6, <1>7, <1>8, <1>9

LEMMA IdleIsThread == Idle \in Thread /\ NoReport \in Report
BY DEF Idle, Thread, Lessons, NoReport, Report, Texts

\* The parts of a pair, the elements of a sequence.
LEMMA PairIs ==
  ASSUME NEW S, NEW T, NEW p \in S \X T
  PROVE  p[1] \in S /\ p[2] \in T /\ p = <<p[1], p[2]>>
OBVIOUS

LEMMA PlaceIs ==
  ASSUME NEW S, NEW s \in Seq(S), NEW i \in DOMAIN s
  PROVE  s[i] \in S
OBVIOUS

LEMMA InitIndex == MemoryInit => IndexInv
<1>. SUFFICES ASSUME MemoryInit PROVE IndexInv
  OBVIOUS
<1>1. /\ vec \in Seq([id : {"inst"} \X Nat, kind : {"institutional"}, text : Setups, pnl : Int])
      /\ Unique(vec)
  BY PreloadAssumption DEF MemoryInit, Unique
<1>2. \A i \in DOMAIN vec : vec[i] \in Record /\ Preloaded(vec[i])
  <2>. TAKE i \in DOMAIN vec
  <2> DEFINE r == vec[i]
  <2>1. r \in [id : {"inst"} \X Nat, kind : {"institutional"}, text : Setups, pnl : Int]
    BY <1>1, PlaceIs
  <2> HIDE DEF r
  <2>2. r.id \in {"inst"} \X Nat
    BY <2>1
  <2>3. r.id[1] = "inst" /\ r.id \in {"inst", "night", "refl"} \X Nat
    BY <2>2
  <2>4. r \in Record
    BY <2>1, <2>3 DEF Record, Setups, Texts
  <2>5. Preloaded(r)
    BY <2>1, <2>3 DEF Preloaded
  <2>. QED BY <2>4, <2>5 DEF r
<1>3. vec \in Seq(Record)
  BY <1>1, <1>2
<1>4. Received = {}
  BY DEF MemoryInit, Received
<1>5. IndexIsRecord
  BY <1>1, <1>2, <1>4 DEF IndexIsRecord
<1>6. writer \in [Writers -> Thread] /\ \A w \in Writers : writer[w].pc = "idle"
  BY IdleIsThread DEF MemoryInit, Idle
<1>7. TypesOfMemory
  BY <1>3, <1>4, <1>6 DEF TypesOfMemory, MemoryInit
<1>. QED BY <1>5, <1>6, <1>7 DEF IndexInv

\* A call counts as a mishap, or not.
LEMMA Counted ==
  ASSUME mishaps \in Nat, NEW ok, Arrives(ok) \/ Mishap \/ UNCHANGED mishaps
  PROVE  mishaps' \in Nat /\ mishaps <= mishaps' /\ (Mishap => mishaps' = mishaps + 1)
BY DEF Arrives, Mishap

\* The index is as good as before when it is not written and no close is forgotten.
LEMMA IndexStays ==
  ASSUME TypesOfMemory, IndexIsRecord, vec' = vec, mishaps' \in Nat, mishaps <= mishaps',
         filed' = filed,
         dream'.pc = "pass" => dream.pc = "pass" \/ mishaps' = mishaps + 1
  PROVE  IndexIsRecord'
<1>1. Received' = Received /\ \A c : FiledOf(c)' = FiledOf(c)
  BY DEF Received, FiledOf, ReflectionOf
<1>2. \A i \in DOMAIN vec : vec[i].id[2] \in Nat /\ mishaps \in Nat
  <2>. TAKE i \in DOMAIN vec
  <2>1. vec[i] \in Record /\ mishaps \in Nat
    BY DEF TypesOfMemory
  <2>2. vec[i].id \in {"inst", "night", "refl"} \X Nat
    BY <2>1 DEF Record
  <2>. QED BY <2>1, <2>2, PairIs
<1>3. \A i \in DOMAIN vec : Night(vec[i]) => Night(vec[i])'
  BY <1>2 DEF Night
<1>4. \A i \in DOMAIN vec : Preloaded(vec[i]) => Preloaded(vec[i])'
  BY DEF Preloaded
<1>. QED BY <1>1, <1>3, <1>4 DEF IndexIsRecord, Unique

\* A fill says nothing to the index yet.
LEMMA CloseIndex ==
  ASSUME IndexInv, NEW t \in Trades, NEW ok \in BOOLEAN, Close(t, ok)
  PROVE  IndexInv'
<1>1. TypesOfMemory /\ IndexIsRecord
  BY DEF IndexInv
<1>2. mishaps' \in Nat /\ mishaps <= mishaps'
  BY <1>1, Counted DEF Close, TypesOfMemory
<1>3. t \in Report
  BY TradeAssumption DEF Report, Setups, Texts
<1> DEFINE n == Len(closes) + 1
<1>4. closes' \in Seq(Report) /\ n \in Nat
  BY <1>1, <1>3 DEF TypesOfMemory, Close
<1>5. UNCHANGED <<vec, dream, filed, rows>> /\ Received' = Received
  BY DEF Close, Received
<1> DEFINE rec == [Idle EXCEPT !.pc = "lesson", !.cycle = n, !.report = t, !.trade = ok]
<1>6. writer' = [writer EXCEPT ![Loop] = rec] /\ rec \in Thread
  BY <1>3, <1>4, IdleIsThread DEF Close, Go, Thread, Idle
<1>7. writer' \in [Writers -> Thread]
  <2> HIDE DEF rec, n
  <2>. QED BY <1>1, <1>6 DEF TypesOfMemory
<1>8. TypesOfMemory'
  BY <1>1, <1>2, <1>4, <1>5, <1>7 DEF TypesOfMemory
<1>9. IndexIsRecord'
  BY <1>1, <1>2, <1>5, IndexStays
<1>. QED BY <1>8, <1>9 DEF IndexInv

\* A step that moves a thread, and may write a row, leaves the index as it is.
LEMMA ThreadIndex ==
  ASSUME IndexInv, NEW w \in Writers, NEW rec \in Thread, Go(w, rec),
         UNCHANGED <<closes, vec, dream, filed>>, rows' \in Seq(Row),
         mishaps' \in Nat, mishaps <= mishaps'
  PROVE  IndexInv'
<1>1. TypesOfMemory /\ IndexIsRecord
  BY DEF IndexInv
<1>2. writer' \in [Writers -> Thread] /\ Received' = Received
  BY <1>1 DEF TypesOfMemory, Go, Received
<1>3. TypesOfMemory'
  BY <1>1, <1>2 DEF TypesOfMemory
<1>4. IndexIsRecord'
  BY <1>1, IndexStays
<1>. QED BY <1>3, <1>4 DEF IndexInv

LEMMA PostIndex ==
  ASSUME IndexInv, NEW w \in Workers, NEW c \in 0..Len(closes), NEW heard \in BOOLEAN,
         NEW report \in Reports(c), Post(w, c, report, heard)
  PROVE  IndexInv'
<1> DEFINE rec == [Idle EXCEPT !.pc = "lesson", !.cycle = c, !.report = report]
<1>1. TypesOfMemory /\ closes \in Seq(Report) /\ c \in Nat
  BY DEF IndexInv, TypesOfMemory
<1>2. report \in Report
  <2>1. CASE c = 0
    BY <2>1, IdleIsThread DEF Reports
  <2>2. CASE c # 0
    <3>1. c \in DOMAIN closes
      BY <1>1, <2>2
    <3>2. closes[c] \in Report /\ NoReport \in Report
      BY <1>1, <3>1, PlaceIs, IdleIsThread
    <3>3. report \in {[setup |-> x, pnl |-> p] : x \in {closes[c].setup, NoReport.setup},
                                                p \in {closes[c].pnl, 0}}
      BY <2>2 DEF Reports
    <3>. QED BY <3>2, <3>3 DEF Report
  <2>. QED BY <2>1, <2>2
<1>3. rec \in Thread
  BY <1>1, <1>2, IdleIsThread DEF Thread, Idle
<1>4. w \in Writers /\ Go(w, rec) /\ UNCHANGED <<closes, vec, rows, dream, filed>> /\ Mishap
  BY DEF Post, Writers
<1>5. mishaps' \in Nat /\ mishaps <= mishaps' /\ rows' \in Seq(Row)
  BY <1>1, <1>4, Counted DEF TypesOfMemory
<1> HIDE DEF rec
<1>. QED BY <1>3, <1>4, <1>5, ThreadIndex

LEMMA LessonIndex ==
  ASSUME IndexInv, NEW w \in Writers, Lesson(w)
  PROVE  IndexInv'
<1>1. TypesOfMemory /\ writer[w] \in Thread
  BY DEF IndexInv, TypesOfMemory
<1>2. PICK s \in Synthesised :
          Go(w, [writer[w] EXCEPT !.pc = "upsert", !.lesson = s.lesson, !.quality = s.quality])
  BY DEF Lesson
<1> DEFINE rec == [writer[w] EXCEPT !.pc = "upsert", !.lesson = s.lesson, !.quality = s.quality]
<1>3. s.lesson \in Lessons /\ s.quality \in {"", "low"}
  <2>1. CASE \E l \in {a \in Answers : ~_is_generic(a)} : s = [lesson |-> l, quality |-> ""]
    <3>1. PICK l \in Answers : s = [lesson |-> l, quality |-> ""]
      BY <2>1
    <3>. QED BY <3>1 DEF Answers, Lessons
  <2>2. CASE s = [lesson |-> Vague, quality |-> "low"]
    BY <2>2 DEF Lessons
  <2>. QED BY <2>1, <2>2 DEF Synthesised
<1>4. rec \in Thread
  BY <1>1, <1>3 DEF Thread
<1>5. UNCHANGED <<closes, vec, rows, dream, filed, mishaps>> /\ rows' \in Seq(Row) /\ mishaps' \in Nat
  BY <1>1 DEF Lesson, TypesOfMemory
<1>6. mishaps <= mishaps'
  BY <1>5
<1> HIDE DEF rec
<1>. QED BY <1>1, <1>2, <1>4, <1>5, <1>6, ThreadIndex DEF rec

\* A row written is a row, and so is one patched.
LEMMA RecordIsTable ==
  ASSUME NEW table \in Seq(Row), NEW row \in Row
  PROVE  record(table, row) \in Seq(Row)
<1> DEFINE patched(i) == [table[i] EXCEPT !.lesson = row.lesson, !.quality = row.quality]
           new == [i \in DOMAIN table |->
                      IF table[i].cycle = row.cycle THEN patched(i) ELSE table[i]]
<1>1. \A i \in DOMAIN table : table[i] \in Row
  OBVIOUS
<1>2. \A i \in DOMAIN table : patched(i) \in Row
  BY <1>1 DEF Row
<1>3. \A i \in DOMAIN table : (IF table[i].cycle = row.cycle THEN patched(i) ELSE table[i]) \in Row
  BY <1>1, <1>2
<1> HIDE DEF patched
<1>4. new \in [DOMAIN table -> Row] /\ DOMAIN table = 1..Len(table) /\ Len(table) \in Nat
  BY <1>3
<1> HIDE DEF new
<1>5. new \in Seq(Row)
  BY <1>4
<1>6. Append(table, row) \in Seq(Row)
  OBVIOUS
<1>7. record(table, row) = new \/ record(table, row) = Append(table, row)
  BY DEF record, new, patched
<1>. QED BY <1>5, <1>6, <1>7

LEMMA PersistIndex ==
  ASSUME IndexInv, NEW w \in Writers, NEW ok \in BOOLEAN, Persist(w, ok)
  PROVE  IndexInv'
<1> DEFINE me  == writer[w]
           row == [cycle |-> me.cycle, lesson |-> me.lesson, pnl |-> me.report.pnl,
                   quality |-> me.quality, stale |-> FALSE]
           rec == IF w = Loop THEN Idle ELSE [me EXCEPT !.pc = "mark"]
<1>1. TypesOfMemory /\ me \in Thread
  BY DEF IndexInv, TypesOfMemory
<1>2. rec \in Thread /\ Go(w, rec)
  BY <1>1, IdleIsThread DEF Thread, Idle, Persist, Free, Next_
<1>3. me.report.pnl \in Int
  BY <1>1 DEF Thread, Report
<1>4. row \in Row
  BY <1>1, <1>3 DEF Row, Thread, TypesOfMemory
<1> HIDE DEF row
<1>5. mishaps' \in Nat /\ mishaps <= mishaps'
  BY <1>1, Counted DEF TypesOfMemory, Persist
<1>6. rows' = rows \/ rows' = record(rows, row)
  BY DEF Persist, row
<1>7. rows' \in Seq(Row)
  BY <1>1, <1>4, <1>6, RecordIsTable DEF TypesOfMemory
<1>8. UNCHANGED <<closes, vec, dream, filed>>
  BY DEF Persist
<1> HIDE DEF rec, me
<1>. QED BY <1>2, <1>5, <1>7, <1>8, ThreadIndex

LEMMA MarkIndex ==
  ASSUME IndexInv, NEW w \in Writers, Mark(w)
  PROVE  IndexInv'
<1>1. TypesOfMemory /\ Go(w, Idle)
  BY DEF IndexInv, Mark, Free
<1>2. /\ UNCHANGED <<closes, vec, dream, filed>> /\ rows' \in Seq(Row)
      /\ mishaps' \in Nat /\ mishaps <= mishaps'
  BY <1>1 DEF Mark, TypesOfMemory
<1>. QED BY <1>1, <1>2, IdleIsThread, ThreadIndex

\* A write that goes through replaces the record of its cycle, or is its first.
LEMMA StoreIndex ==
  ASSUME IndexInv, NEW w \in Writers, NEW ok \in BOOLEAN, Store(w, ok)
  PROVE  IndexInv'
<1> DEFINE c0  == writer[w].cycle
           rep == writer[w].report
           rec == [writer[w] EXCEPT !.pc = "persist"]
           new == ReflectionOf(c0, rep)
<1>1. TypesOfMemory /\ IndexIsRecord /\ writer[w] \in Thread
  BY DEF IndexInv, TypesOfMemory
<1>2. rec \in Thread /\ Go(w, rec)
  BY <1>1 DEF Thread, Store, Next_
<1>3. mishaps' \in Nat /\ mishaps <= mishaps' /\ UNCHANGED <<closes, rows, dream>>
  BY <1>1, Counted DEF TypesOfMemory, Store
<1>4. CASE ~ok
  <2>1. UNCHANGED <<vec, filed>> /\ rows' \in Seq(Row)
    BY <1>1, <1>3, <1>4 DEF Store, TypesOfMemory
  <2> HIDE DEF rec
  <2>. QED BY <1>2, <1>3, <2>1, ThreadIndex
<1>5. CASE ok
  <2>1. /\ vec' = upsert(vec, new)
        /\ filed' = [c \in Received \cup {c0} |-> IF c = c0 THEN rep ELSE filed[c]]
    BY <1>5 DEF Store, Received
  <2>2. writer' \in [Writers -> Thread]
    <3> HIDE DEF rec
    <3>. QED BY <1>1, <1>2 DEF TypesOfMemory, Go
  <2>3. rep \in Report /\ c0 \in Nat
    BY <1>1 DEF Thread
  <2>4. new \in Record
    BY <2>3 DEF ReflectionOf, Record, Report
  <2>0. new.id = <<"refl", c0>>
    BY DEF ReflectionOf
  <2>5. vec \in Seq(Record) /\ Unique(vec)
    BY <1>1 DEF TypesOfMemory, IndexIsRecord
  <2> HIDE DEF new
  <2>6. /\ vec' \in Seq(Record) /\ Unique(vec')
        /\ \A i \in DOMAIN vec' :
              \/ vec'[i] = new
              \/ \E j \in DOMAIN vec : vec'[i] = vec[j] /\ vec[j].id # new.id
        /\ \A j \in DOMAIN vec : vec[j].id # new.id => \E i \in DOMAIN vec' : vec'[i] = vec[j]
        /\ \E i \in DOMAIN vec' : vec'[i] = new
    <3> HIDE DEF c0, rec
    <3> DEFINE up == upsert(vec, new)
    <3>1. up = upsert(vec, new) /\ vec' = up
      BY <2>1
    <3> HIDE DEF up
    <3>2. up \in Seq(Record) /\ Unique(up)
      BY <2>4, <2>5, <3>1, UpsertIs
    <3>3. \A i \in DOMAIN up :
              \/ up[i] = new
              \/ \E j \in DOMAIN vec : up[i] = vec[j] /\ vec[j].id # new.id
      BY <2>4, <2>5, <3>1, UpsertIs
    <3>4. \A j \in DOMAIN vec : vec[j].id # new.id => \E i \in DOMAIN up : up[i] = vec[j]
      BY <2>4, <2>5, <3>1, UpsertIs
    <3>5. \E i \in DOMAIN up : up[i] = new
      BY <2>4, <2>5, <3>1, UpsertIs
    <3>. QED BY <3>1, <3>2, <3>3, <3>4, <3>5
  <2>8. /\ Received' = Received \cup {c0}
        /\ \A c \in Received' : FiledOf(c)' = IF c = c0 THEN new ELSE FiledOf(c)
    <3>1. /\ Received' = Received \cup {c0}
          /\ \A c \in Received' : filed'[c] = IF c = c0 THEN rep ELSE filed[c]
      <4>1. filed' = [c \in Received \cup {c0} |-> IF c = c0 THEN rep ELSE filed[c]]
        BY <2>1
      <4> HIDE DEF c0, rep, rec
      <4>. QED BY <4>1 DEF Received
    <3>2. new = ReflectionOf(c0, rep)
      BY DEF new
    <3> HIDE DEF c0, rep, rec
    <3>3. \A c \in Received' : FiledOf(c)' = ReflectionOf(c, filed'[c])
      BY DEF FiledOf, ReflectionOf
    <3>4. \A c \in Received' : c # c0 => FiledOf(c)' = FiledOf(c)
      BY <3>1, <3>3 DEF FiledOf, ReflectionOf
    <3>. QED BY <3>1, <3>2, <3>3, <3>4
  <2>7. TypesOfMemory'
    <3>1. \A c \in Received' : c \in Nat /\ filed'[c] \in Report
      <4>1. filed' = [c \in Received \cup {c0} |-> IF c = c0 THEN rep ELSE filed[c]]
        BY <2>1
      <4>2. Received' = Received \cup {c0}
        BY <2>8
      <4> HIDE DEF c0, rep, rec
      <4>. QED BY <1>1, <2>3, <4>1, <4>2 DEF TypesOfMemory, Received
    <3>. QED BY <1>1, <1>3, <2>2, <2>6, <3>1 DEF TypesOfMemory
  <2>9. ASSUME NEW i \in DOMAIN vec'
        PROVE  \/ Preloaded(vec'[i]) \/ Night(vec[i])'
               \/ \E c \in Received' : vec'[i] = FiledOf(c)'
    <3>1. CASE vec'[i] = new
      BY <2>8, <3>1
    <3>2. CASE \E j \in DOMAIN vec : vec'[i] = vec[j] /\ vec[j].id # new.id
      <4>1. PICK j \in DOMAIN vec : vec'[i] = vec[j] /\ vec[j].id # new.id
        BY <3>2
      <4>2. Preloaded(vec[j]) \/ Night(vec[j]) \/ \E c \in Received : vec[j] = FiledOf(c)
        BY <1>1 DEF IndexIsRecord
      <4>3. vec[j].id[2] \in Nat /\ mishaps \in Nat
        <5>1. vec[j] \in Record /\ mishaps \in Nat
          BY <1>1, PlaceIs DEF TypesOfMemory
        <5>2. vec[j].id \in {"inst", "night", "refl"} \X Nat
          BY <5>1 DEF Record
        <5>. QED BY <5>1, <5>2, PairIs
      <4>4. Night(vec[j]) => Night(vec[i])'
        BY <1>3, <4>1, <4>3 DEF Night
      <4>5. ASSUME NEW c \in Received, vec[j] = FiledOf(c)
            PROVE  c # c0
        BY <2>0, <4>1, <4>5 DEF FiledOf, ReflectionOf
      <4>. QED BY <2>8, <4>1, <4>2, <4>4, <4>5
    <3>. QED BY <2>6, <3>1, <3>2
  <2>10. ASSUME NEW c \in Received' PROVE \E i \in DOMAIN vec' : vec'[i] = FiledOf(c)'
    <3>1. CASE c = c0
      BY <2>6, <2>8, <3>1
    <3>2. CASE c # c0
      <4>1. PICK j \in DOMAIN vec : vec[j] = FiledOf(c)
        BY <1>1, <2>8, <3>2 DEF IndexIsRecord
      <4>2. vec[j].id # new.id
        BY <2>0, <3>2, <4>1 DEF FiledOf, ReflectionOf
      <4>. QED BY <2>6, <2>8, <3>2, <4>1, <4>2
    <3>. QED BY <3>1, <3>2
  <2>11. IndexIsRecord'
    BY <2>6, <2>8, <2>9, <2>10 DEF IndexIsRecord, Unique, Preloaded
  <2>. QED BY <2>7, <2>11 DEF IndexInv
<1>. QED BY <1>4, <1>5

\* No lesson is the text of a record, so no two rows are found alike.
LEMMA NoDuplicate ==
  ASSUME TypesOfMemory
  PROVE  \A i, j \in DOMAIN dream.seen : ~Duplicate(dream.seen[i], dream.seen[j])
<1>. SUFFICES ASSUME NEW j \in DOMAIN dream.seen, NEW k \in DOMAIN vec,
                     vec[k].text = dream.seen[j].lesson
              PROVE  FALSE
  BY DEF Duplicate
<1>1. vec[k] \in Record /\ dream.seen[j] \in Row
  <2>1. dream.seen \in Seq(Row) /\ vec \in Seq(Record)
    BY DEF TypesOfMemory
  <2>. QED BY <2>1, PlaceIs
<1>2. vec[k].text \in Texts \cup {Brief} /\ dream.seen[j].lesson \in Lessons
  BY <1>1 DEF Record, Row
<1>. QED BY <1>2, LessonAssumption

\* A fold over nothing returns what it began with.
LEMMA FoldOfNothing ==
  ASSUME NEW seen
  PROVE  Cleaned(seen, {}) = upsert(vec, Digest)
<1> DEFINE Op(i, index) == upsert(index, Forgotten(seen[i]))
           Folds(it) == it = [s \in SUBSET {} |-> IF s = {} THEN vec
                              ELSE Op(CHOOSE x \in s : TRUE, it[s \ {CHOOSE x \in s : TRUE}])]
<1>1. FoldSet(Op, vec, {}) = (CHOOSE it : Folds(it))[{}]
  BY DEF FoldSet, MapThenFoldSet
<1>2. \E it : Folds(it)
  <2>1. Folds([s \in SUBSET {} |-> vec])
    <3>1. \A s \in SUBSET {} : s = {}
      OBVIOUS
    <3>. QED BY <3>1
  <2> HIDE DEF Folds
  <2>. QED BY <2>1
<1> DEFINE it == CHOOSE f : Folds(f)
<1>3. Folds(it)
  <2> HIDE DEF Folds
  <2>. QED BY <1>2
<1> HIDE DEF it
<1>4. it[{}] = vec
  BY <1>3
<1>5. FoldSet(Op, vec, {}) = vec
  BY <1>1, <1>4 DEF it
<1>. QED BY <1>5 DEF Cleaned

\* A pass at night adds its digest, under a fresh id, and changes nothing else.
LEMMA PassAddsDigest ==
  ASSUME IndexInv, DreamPass
  PROVE  /\ vec' = Append(vec, Digest) /\ rows' \in Seq(Row)
         /\ Digest \in Record /\ \A i \in DOMAIN vec : vec[i].id # Digest.id
<1>1. TypesOfMemory /\ IndexIsRecord /\ dream.pc = "pass"
  BY DEF IndexInv, DreamPass
<1>2. dream.seen \in Seq(Row)
  BY <1>1 DEF TypesOfMemory
<1>3. Dropped(dream.seen) = {}
  BY <1>1, <1>2, NoDuplicate, NothingDropped
<1>4. vec' = upsert(vec, Digest)
  <2>1. vec' = Cleaned(dream.seen, Dropped(dream.seen))
    BY DEF DreamPass
  <2>. QED BY <1>3, <2>1, FoldOfNothing
<1>5. Digest \in Record /\ Digest.id[1] = "night" /\ Digest.id[2] = mishaps
  BY <1>1 DEF Digest, Record, TypesOfMemory
<1>6. ASSUME NEW i \in DOMAIN vec PROVE vec[i].id # Digest.id
  <2>1. CASE Preloaded(vec[i])
    BY <1>5, <2>1 DEF Preloaded
  <2>2. CASE Night(vec[i])
    BY <1>1, <1>5, <2>2 DEF Night
  <2>3. CASE \E c \in Received : vec[i] = FiledOf(c)
    BY <1>5, <2>3 DEF FiledOf, ReflectionOf
  <2>. QED BY <1>1, <2>1, <2>2, <2>3 DEF IndexIsRecord
<1>7. vec' = Append(vec, Digest)
  BY <1>4, <1>6 DEF upsert
<1>8. rows' \in Seq(Row)
  <2> DEFINE cycles == {dream.seen[i].cycle : i \in {}}
             new(i) == [rows[i] EXCEPT !.stale = rows[i].stale \/ rows[i].cycle \in cycles]
  <2>1. rows' = [i \in DOMAIN rows |-> new(i)]
    BY <1>3 DEF DreamPass
  <2>2. rows \in Seq(Row)
    BY <1>1 DEF TypesOfMemory
  <2>3. ASSUME NEW i \in DOMAIN rows PROVE new(i) \in Row
    <3>1. rows[i] \in Row
      BY <2>2, PlaceIs
    <3>2. (rows[i].stale \/ rows[i].cycle \in cycles) \in BOOLEAN
      OBVIOUS
    <3> HIDE DEF cycles
    <3>. QED BY <3>1, <3>2 DEF Row
  <2> HIDE DEF new
  <2>4. DOMAIN rows = 1..Len(rows) /\ Len(rows) \in Nat
    BY <2>2
  <2>. QED BY <2>1, <2>3, <2>4
<1>. QED BY <1>5, <1>6, <1>7, <1>8

LEMMA DreamIndex ==
  ASSUME IndexInv, DreamPass
  PROVE  IndexInv'
<1>1. /\ TypesOfMemory /\ IndexIsRecord
      /\ vec' = Append(vec, Digest) /\ rows' \in Seq(Row) /\ Digest \in Record
  BY PassAddsDigest DEF IndexInv
<1>2. dream' = [pc |-> "idle", seen |-> <<>>] /\ UNCHANGED <<closes, writer, filed, mishaps>>
  BY DEF DreamPass
<1>3. /\ vec \in Seq(Record) /\ vec' \in Seq(Record) /\ Len(vec) \in Nat /\ DOMAIN vec = 1..Len(vec)
      /\ DOMAIN vec' = 1..Len(vec) + 1
      /\ vec'[Len(vec) + 1] = Digest /\ \A i \in DOMAIN vec : vec'[i] = vec[i]
  BY <1>1 DEF TypesOfMemory
<1>4. TypesOfMemory'
  BY <1>1, <1>2, <1>3 DEF TypesOfMemory, Received
<1>6. ASSUME NEW i \in DOMAIN vec PROVE vec[i].id # Digest.id
  BY PassAddsDigest
<1>7. Unique(vec')
  <2>1. \A i \in DOMAIN vec' : i \in DOMAIN vec \/ i = Len(vec) + 1
    BY <1>3
  <2>. QED BY <1>1, <1>3, <1>6, <2>1 DEF Unique, IndexIsRecord
<1>8. Received' = Received /\ \A c : FiledOf(c)' = FiledOf(c)
  BY <1>2 DEF Received, FiledOf, ReflectionOf
<1>9. /\ Digest.id[1] = "night" /\ Digest.kind = "research"
      /\ Digest.text = Brief /\ Digest.id[2] <= mishaps'
  BY <1>1, <1>2 DEF Digest, TypesOfMemory
<1>10. ASSUME NEW i \in DOMAIN vec, Night(vec[i]) PROVE Night(vec[i])'
  BY <1>2, <1>3, <1>10 DEF Night
<1>11. ASSUME NEW i \in DOMAIN vec'
       PROVE  \/ Preloaded(vec'[i]) \/ Night(vec[i])'
              \/ \E c \in Received' : vec'[i] = FiledOf(c)'
  <2>1. CASE i = Len(vec) + 1
    BY <1>2, <1>3, <1>9, <2>1 DEF Night
  <2>2. CASE i \in DOMAIN vec
    <3>1. Preloaded(vec[i]) \/ Night(vec[i]) \/ \E c \in Received : vec[i] = FiledOf(c)
      BY <1>1, <2>2 DEF IndexIsRecord
    <3>. QED BY <1>3, <1>8, <1>10, <2>2, <3>1
  <2>. QED BY <1>3, <2>1, <2>2
<1>12. ASSUME NEW c \in Received' PROVE \E i \in DOMAIN vec' : vec'[i] = FiledOf(c)'
  <2>1. PICK i \in DOMAIN vec : vec[i] = FiledOf(c)
    BY <1>1, <1>8 DEF IndexIsRecord
  <2>. QED BY <1>3, <1>8, <2>1
<1>13. IndexIsRecord'
  BY <1>7, <1>8, <1>11, <1>12 DEF IndexIsRecord, Unique, Preloaded
<1>. QED BY <1>4, <1>13 DEF IndexInv

\* The dreamer reads the table, and the number of its night is new.
LEMMA ReadIndex ==
  ASSUME IndexInv, NEW ok \in BOOLEAN, ReadRows(ok)
  PROVE  IndexInv'
<1>1. TypesOfMemory /\ IndexIsRecord
  BY DEF IndexInv
<1>2. /\ UNCHANGED <<closes, vec, rows, writer, filed>> /\ mishaps' = mishaps + 1
      /\ dream' \in [pc : {"idle", "pass"}, seen : Seq(Row)]
  BY <1>1 DEF ReadRows, Mishap, TypesOfMemory
<1>3. TypesOfMemory' /\ mishaps' \in Nat /\ mishaps <= mishaps'
  BY <1>1, <1>2 DEF TypesOfMemory, Received
<1>4. IndexIsRecord'
  BY <1>1, <1>2, <1>3, IndexStays
<1>. QED BY <1>3, <1>4 DEF IndexInv

\* A pause leaves all this alone, and a restart forgets what the threads were at.
LEMMA RestIndex ==
  ASSUME IndexInv, Pause \/ Reboot \/ UNCHANGED memoryVars
  PROVE  IndexInv'
<1>1. TypesOfMemory /\ IndexIsRecord
  BY DEF IndexInv
<1>2. UNCHANGED <<closes, vec, rows, filed>>
  BY DEF Pause, Reboot, memoryVars
<1>3. writer' = writer \/ writer' = [w \in Writers |-> Idle]
  BY DEF Pause, Reboot, memoryVars
<1>4. dream' = dream \/ dream' = [pc |-> "idle", seen |-> <<>>]
  BY DEF Pause, Reboot, memoryVars
<1>5. mishaps' \in Nat /\ mishaps <= mishaps'
  BY <1>1 DEF Pause, Reboot, memoryVars, Mishap, TypesOfMemory
<1>6. dream' \in [pc : {"idle", "pass"}, seen : Seq(Row)] /\ (dream'.pc = "pass" => dream.pc = "pass")
  <2>1. dream \in [pc : {"idle", "pass"}, seen : Seq(Row)]
    BY <1>1 DEF TypesOfMemory
  <2>2. [pc |-> "idle", seen |-> <<>>] \in [pc : {"idle", "pass"}, seen : Seq(Row)]
    OBVIOUS
  <2>. QED BY <1>4, <2>1, <2>2
<1>7. writer' \in [Writers -> Thread]
  BY <1>1, <1>3, IdleIsThread DEF TypesOfMemory
<1>8. TypesOfMemory'
  BY <1>1, <1>2, <1>5, <1>6, <1>7 DEF TypesOfMemory, Received
<1>9. IndexIsRecord'
  BY <1>1, <1>2, <1>5, <1>6, IndexStays
<1>. QED BY <1>8, <1>9 DEF IndexInv

LEMMA StepIndex == IndexInv /\ [MemoryNext]_memoryVars => IndexInv'
<1>. SUFFICES ASSUME IndexInv, [MemoryNext]_memoryVars PROVE IndexInv'
  OBVIOUS
<1>1. CASE \E t \in Trades, ok \in BOOLEAN : Close(t, ok)
  BY <1>1, CloseIndex
<1>2. CASE \E w \in Workers, c \in 0..Len(closes), heard \in BOOLEAN :
             \E report \in Reports(c) : Post(w, c, report, heard)
  BY <1>2, PostIndex
<1>3. CASE \E w \in Writers : Lesson(w) \/ Mark(w)
  BY <1>3, LessonIndex, MarkIndex
<1>4. CASE \E w \in Writers, ok \in BOOLEAN : Store(w, ok) \/ Persist(w, ok)
  BY <1>4, StoreIndex, PersistIndex
<1>5. CASE (\E ok \in BOOLEAN : ReadRows(ok)) \/ DreamPass
  BY <1>5, ReadIndex, DreamIndex
<1>6. CASE Pause \/ Reboot \/ UNCHANGED memoryVars
  BY <1>6, RestIndex
<1>. QED BY <1>1, <1>2, <1>3, <1>4, <1>5, <1>6 DEF MemoryNext

\* The index holds of every cycle the report that was filed last, once, and preloaded history
\* and digests besides (reflection.py:92, supervisor.py:249, dreamer.py:59).
THEOREM IndexHoldsTheRecord == MemorySpec => []IndexInv
BY InitIndex, StepIndex, PTL DEF MemorySpec

Reflections == {i \in DOMAIN vec : vec[i].kind = "reflection"}

\* A reflection in the index is that of its cycle, and the only one.
LEMMA ReflectionIs ==
  ASSUME IndexInv
  PROVE  /\ \A i \in Reflections : vec[i].id[2] \in Received /\ vec[i] = FiledOf(vec[i].id[2])
         /\ \A i, j \in Reflections : vec[i].id[2] = vec[j].id[2] => i = j
         /\ \A c \in Received : \E i \in Reflections : vec[i].id[2] = c
<1>1. IndexIsRecord
  BY DEF IndexInv
<1>2. \A c : /\ FiledOf(c).id = <<"refl", c>> /\ FiledOf(c).id[2] = c
            /\ FiledOf(c).kind = "reflection"
  BY DEF FiledOf, ReflectionOf
<1>3. \A i \in Reflections : vec[i].id[2] \in Received /\ vec[i] = FiledOf(vec[i].id[2])
  <2>. TAKE i \in Reflections
  <2>1. i \in DOMAIN vec /\ vec[i].kind = "reflection"
    BY DEF Reflections
  <2>2. ~Preloaded(vec[i]) /\ ~Night(vec[i])
    BY <2>1 DEF Preloaded, Night
  <2>3. PICK c \in Received : vec[i] = FiledOf(c)
    BY <1>1, <2>1, <2>2 DEF IndexIsRecord
  <2>. QED BY <1>2, <2>3
<1>4. \A i, j \in Reflections : vec[i].id[2] = vec[j].id[2] => i = j
  <2>1. \A i, j \in Reflections : vec[i].id[2] = vec[j].id[2] => vec[i] = vec[j]
    BY <1>3
  <2>. QED BY <1>1, <2>1 DEF IndexIsRecord, Unique, Reflections
<1>5. \A c \in Received : \E i \in Reflections : vec[i].id[2] = c
  <2>. TAKE c \in Received
  <2>1. PICK i \in DOMAIN vec : vec[i] = FiledOf(c)
    BY <1>1 DEF IndexIsRecord
  <2>. QED BY <1>2, <2>1 DEF Reflections
<1>. QED BY <1>3, <1>4, <1>5

\* So some reflections and their cycles are equally many.
LEMMA MatchesOf ==
  ASSUME IndexInv, NEW Z, Z \subseteq Reflections, NEW Y, Y \subseteq Received,
         \A i \in Reflections : i \in Z <=> vec[i].id[2] \in Y
  PROVE  [i \in Z |-> vec[i].id[2]] \in Bijection(Z, Y)
<1> DEFINE h == [i \in Z |-> vec[i].id[2]]
<1>1. h \in [Z -> Y]
  OBVIOUS
<1>2. \A i, j \in Z : h[i] = h[j] => i = j
  BY ReflectionIs
<1>3. \A c \in Y : \E i \in Z : h[i] = c
  BY ReflectionIs
<1> HIDE DEF h
<1>4. h \in Bijection(Z, Y)
  BY <1>1, <1>2, <1>3 DEF Bijection, Injection, Surjection, IsInjective
<1>. QED BY <1>4 DEF h

\* And they are finitely many.
LEMMA ManyOf ==
  ASSUME IndexInv, NEW Z, Z \subseteq Reflections, NEW Y, Y \subseteq Received,
         \A i \in Reflections : i \in Z <=> vec[i].id[2] \in Y
  PROVE  /\ IsFiniteSet(Z) /\ IsFiniteSet(Y)
         /\ Cardinality(Z) = Cardinality(Y) /\ Cardinality(Z) \in Nat
<1>1. DOMAIN vec = 1..Len(vec) /\ Len(vec) \in Nat
  BY DEF IndexInv, TypesOfMemory
<1>2. IsFiniteSet(Z)
  <2>1. IsFiniteSet(DOMAIN vec) /\ Z \subseteq DOMAIN vec
    BY <1>1, Places DEF Reflections
  <2>. QED BY <2>1, FS_Subset
<1>3. [i \in Z |-> vec[i].id[2]] \in Bijection(Z, Y)
  BY MatchesOf
<1>4. IsFiniteSet(Y) /\ Cardinality(Y) = Cardinality(Z)
  BY <1>2, <1>3, FS_Bijection DEF ExistsBijection
<1>. QED BY <1>2, <1>4, FS_CardinalityType

\* Within the over-fetch the index is searched as a whole.
LEMMA QueryIs ==
  ASSUME IndexInv, Len(vec) <= 4 * TOP_K, NEW setup
  PROVE  query(vec, setup) = Best([i \in DOMAIN vec |-> Score(vec[i], setup)], Reflections, TOP_K)
<1>1. DOMAIN vec = 1..Len(vec) /\ Len(vec) \in Nat
  BY DEF IndexInv, TypesOfMemory
<1>2. Cardinality(DOMAIN vec) = Len(vec)
  <2>1. Cardinality(1..Len(vec)) = Len(vec)
    BY <1>1, Places
  <2>. QED BY <1>1, <2>1
<1> DEFINE score == [i \in DOMAIN vec |-> Score(vec[i], setup)]
<1> HIDE DEF score
<1>3. Best(score, DOMAIN vec, 4 * TOP_K) = DOMAIN vec
  BY <1>2 DEF Best
<1>. QED BY <1>3 DEF query, Reflections, score

\* What was filed last of a cycle is the evidence, and all of it (avoidance.py:42,
\* reflection.py:92).
THEOREM AdviceIsTheRecords == MemorySpec => []VerdictMatchesRecord
<1>1. IndexInv => VerdictMatchesRecord
  <2>. SUFFICES ASSUME IndexInv, Len(vec) <= 4 * TOP_K, Cardinality(DOMAIN filed) <= TOP_K,
                       NEW setup \in Setups
                PROVE  check(vec, setup) = RecordOf(setup)
    BY DEF VerdictMatchesRecord
  <2>2. Cardinality(Received) <= TOP_K
    BY DEF Received
  <2>3. Cardinality(Reflections) = Cardinality(Received)
    BY ReflectionIs, ManyOf
  <2>4. query(vec, setup) = Reflections
    BY <2>2, <2>3, QueryIs DEF Best
  <2> DEFINE similar == {i \in Reflections : SimilarTo(vec[i].text, setup)}
             known   == {c \in Received : SimilarTo(filed[c].setup, setup)}
             f == [i \in similar |-> vec[i].pnl]
             g == [c \in known |-> filed[c].pnl]
             lost    == {i \in similar : vec[i].pnl < 0}
             lostly  == {c \in known : filed[c].pnl < 0}
             h == [i \in similar |-> vec[i].id[2]]
  <2>5. \A i \in Reflections : /\ vec[i].id[2] \in Received
                               /\ vec[i].text = filed[vec[i].id[2]].setup
                               /\ vec[i].pnl = filed[vec[i].id[2]].pnl
    <3>1. \A c : FiledOf(c).text = filed[c].setup /\ FiledOf(c).pnl = filed[c].pnl
      BY DEF FiledOf, ReflectionOf
    <3>. QED BY <3>1, ReflectionIs
  <2>6. \A i \in Reflections : i \in similar <=> vec[i].id[2] \in known
    BY <2>5
  <2>7. \A i \in Reflections : i \in lost <=> vec[i].id[2] \in lostly
    BY <2>5, <2>6
  <2>8. /\ IsFiniteSet(similar) /\ IsFiniteSet(known) /\ Cardinality(similar) = Cardinality(known)
        /\ h \in Bijection(similar, known)
    <3> HIDE DEF similar, known, h
    <3>1. similar \subseteq Reflections /\ known \subseteq Received
      BY DEF similar, known
    <3>. QED BY <2>6, <3>1, ManyOf, MatchesOf DEF h
  <2>9. Cardinality(lost) = Cardinality(lostly)
    <3>1. lost \subseteq Reflections /\ lostly \subseteq Received
      OBVIOUS
    <3> HIDE DEF lost, lostly
    <3>. QED BY <2>7, <3>1, ManyOf
  <2>10. f \in [similar -> Int] /\ g \in [known -> Int] /\ \A i \in similar : f[i] = g[h[i]]
    <3>1. \A c \in Received : filed[c].pnl \in Int
      BY DEF IndexInv, TypesOfMemory, Report
    <3>2. \A i \in similar : i \in Reflections /\ vec[i].id[2] \in known
      BY <2>6
    <3> HIDE DEF similar
    <3>. QED BY <2>5, <3>1, <3>2
  <2>11. SumFunction(f) = SumFunction(g)
    <3> HIDE DEF similar, known, f, g, h
    <3>. QED BY <2>8, <2>10, SumsMatch
  <2>12. check(vec, setup) = Verdict(Cardinality(similar), Cardinality(lost), SumFunction(f))
    BY <2>4 DEF check
  <2>13. RecordOf(setup) = Verdict(Cardinality(known), Cardinality(lostly), SumFunction(g))
    BY DEF RecordOf, Received
  <2> HIDE DEF similar, known, lost, lostly, f, g
  <2>. QED BY <2>8, <2>9, <2>11, <2>12, <2>13
<1>. QED BY <1>1, IndexHoldsTheRecord, PTL

=============================================================================
