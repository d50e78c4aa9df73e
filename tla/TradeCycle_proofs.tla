-------------------------- MODULE TradeCycle_proofs --------------------------
(***************************************************************************)
(* What holds of a decision cycle for every number of callers, bars, days  *)
(* and environment events, with proofs.                                    *)
(***************************************************************************)
EXTENDS TradeCycle, TLAPS

\* The key of a call in progress is a key.
LEMMA KeyType == ASSUME TypeOK, NEW c \in Callers PROVE Key(c) \in Keys
  BY DEF TypeOK, Call, Key, Keys

\* Every stage a step names is a stage.
LEMMA StageType ==
  /\ {"idle", "sync", "switching", "gates", "autopilot", "kol", "strategy", "submit", "sending",
      "confirming", "booking", "recording", "activity", "finalise", "snapshot", "closing"} = Stages
  /\ \A kind \in Kinds : After(kind) \in Stages
  BY DEF Stages, After

\* The four idempotency suffixes and the four kinds are the same thing.
LEMMA KindType == {"main", "autopilot", "kol", "activity"} = Kinds
  BY DEF Kinds

\* The state of a caller that runs nothing.
LEMMA IdleType == Idle \in Call
<1>1. 1 \in Bars
  BY ClockAssumption DEF Bars
<1>2. 1 \in 1..Rungs
  BY DEF Rungs
<1>. QED BY <1>1, <1>2, StageType, KindType, FlagAssumption DEF Idle, Call

\* How the steps of a call change its record.
LEMMA GotoType ==
  ASSUME TypeOK, NEW c \in Callers, NEW s \in Stages, Goto(c, s)
  PROVE  call' \in [Callers -> Call]
  BY DEF TypeOK, Goto, Call

LEMMA UpdateType ==
  ASSUME TypeOK, NEW c \in Callers, NEW r \in Call, call' = [call EXCEPT ![c] = r]
  PROVE  call' \in [Callers -> Call]
  BY DEF TypeOK

LEMMA OrderType ==
  ASSUME TypeOK, NEW c \in Callers, NEW kind \in Kinds, NEW side \in {"buy", "sell"},
         NEW lots \in Nat, Order(c, kind, side, lots)
  PROVE  call' \in [Callers -> Call]
<1> DEFINE r == [call[c] EXCEPT !.pc = "submit", !.kind = kind, !.side = side, !.lots = lots,
                                !.rung = 1]
<1>1. call[c] \in Call
  BY DEF TypeOK
<1>2. 1 \in 1..Rungs
  BY DEF Rungs
<1>3. r \in Call
  BY <1>1, <1>2, StageType DEF Call
<1>. QED BY <1>3, UpdateType DEF Order

LEMMA EventType == {"call", "crash", "lost", "unbooked", "convert", "mode"} = Events
  BY DEF Events, Faults

LEMMA SpendType ==
  ASSUME TypeOK, NEW e \in Events, Spend(e)
  PROVE  used' \in [Events -> Nat]
  BY DEF TypeOK, HistoryOK, Spend

\* An order moves its caller to "submit" and touches neither its bar nor what it
\* was told of earlier rows and fills.
LEMMA OrderEffect ==
  ASSUME TypeOK, NEW c \in Callers, NEW kind, NEW side, NEW lots, Order(c, kind, side, lots)
  PROVE  /\ \A d \in Callers \ {c} : call'[d] = call[d]
         /\ call'[c].pc = "submit" /\ call'[c].bar = call[c].bar /\ call'[c].tid = call[c].tid
         /\ call'[c].kind = kind /\ call'[c].side = side /\ call'[c].lots = lots
<1> DEFINE r == [call[c] EXCEPT !.pc = "submit", !.kind = kind, !.side = side, !.lots = lots,
                                !.rung = 1]
<1>1. call' = [call EXCEPT ![c] = r] /\ call \in [Callers -> Call]
  BY DEF Order, TypeOK
<1>2. call[c] \in Call
  BY <1>1
<1>3. /\ r.pc = "submit" /\ r.bar = call[c].bar /\ r.tid = call[c].tid
      /\ r.kind = kind /\ r.side = side /\ r.lots = lots
  BY <1>2 DEF Call
<1> HIDE DEF r
<1>4. call'[c] = r /\ \A d \in Callers \ {c} : call'[d] = call[d]
  BY <1>1
<1>. QED BY <1>3, <1>4

LEMMA GotoEffect ==
  ASSUME TypeOK, NEW c \in Callers, NEW s, Goto(c, s)
  PROVE  /\ \A d \in Callers \ {c} : call'[d] = call[d]
         /\ call'[c].pc = s /\ call'[c].bar = call[c].bar /\ call'[c].kind = call[c].kind
         /\ call'[c].side = call[c].side /\ call'[c].lots = call[c].lots
         /\ call'[c].tid = call[c].tid /\ call'[c].mode = call[c].mode
<1>1. call[c] \in Call /\ call \in [Callers -> Call]
  BY DEF TypeOK
<1>2. /\ [call[c] EXCEPT !.pc = s].pc = s
      /\ \A f \in {"bar", "kind", "side", "lots", "tid", "mode"} : [call[c] EXCEPT !.pc = s][f] = call[c][f]
  BY <1>1 DEF Call
<1>3. call'[c] = [call[c] EXCEPT !.pc = s] /\ \A d \in Callers \ {c} : call'[d] = call[d]
  BY <1>1 DEF Goto
<1>. QED BY <1>2, <1>3

\* The records some steps write, and what they keep of the old one.
LEMMA RecordEffect ==
  ASSUME TypeOK, NEW c \in Callers, NEW r, call' = [call EXCEPT ![c] = r]
  PROVE  call'[c] = r /\ \A d \in Callers \ {c} : call'[d] = call[d]
  BY DEF TypeOK

LEMMA SyncModeEffect ==
  ASSUME TypeOK, NEW c \in Callers, SyncMode(c)
  PROVE  /\ call' \in [Callers -> Call]
         /\ \A d \in Callers \ {c} : call'[d] = call[d]
         /\ call'[c].pc \in {"gates", "switching"}
         /\ call'[c].bar = call[c].bar /\ call'[c].kind = call[c].kind
         /\ call'[c].tid = call[c].tid
<1>1. call[c] \in Call
  BY DEF TypeOK
<1>2. CASE Goto(c, "gates")
  BY <1>2, GotoType, GotoEffect, StageType
<1>3. ASSUME NEW desired \in Modes,
             call' = [call EXCEPT ![c] = [@ EXCEPT !.pc = "switching", !.mode = desired]]
      PROVE  /\ call' \in [Callers -> Call]
             /\ \A d \in Callers \ {c} : call'[d] = call[d]
             /\ call'[c].pc \in {"gates", "switching"}
             /\ call'[c].bar = call[c].bar /\ call'[c].kind = call[c].kind
             /\ call'[c].tid = call[c].tid
  <2> DEFINE r == [call[c] EXCEPT !.pc = "switching", !.mode = desired]
  <2>1. r \in Call
    BY <1>1, StageType DEF Call
  <2>2. /\ r.pc = "switching" /\ r.bar = call[c].bar /\ r.kind = call[c].kind
        /\ r.tid = call[c].tid
    BY <1>1 DEF Call
  <2>3. call' = [call EXCEPT ![c] = r]
    BY <1>3
  <2> HIDE DEF r
  <2>. QED BY <2>1, <2>2, <2>3, UpdateType, RecordEffect
<1>. QED BY <1>2, <1>3 DEF SyncMode

LEMMA SubmitEffect ==
  ASSUME TypeOK, NEW c \in Callers, Submit(c)
  PROVE  /\ call' \in [Callers -> Call]
         /\ \A d \in Callers \ {c} : call'[d] = call[d]
         /\ call'[c].pc = IF Key(c) \in seen THEN After(call[c].kind) ELSE "sending"
         /\ call'[c].bar = call[c].bar /\ call'[c].kind = call[c].kind
         /\ call'[c].tid = call[c].tid /\ call'[c].mode = mode
         /\ call'[c].side = call[c].side /\ call'[c].lots = call[c].lots
<1> DEFINE stage == IF Key(c) \in seen THEN After(call[c].kind) ELSE "sending"
           r == [call[c] EXCEPT !.pc = stage, !.mode = mode, !.own = TRUE]
<1>1. call[c] \in Call /\ mode \in Modes
  BY DEF TypeOK, MemoryOK
<1>2. stage \in Stages
  BY <1>1, StageType DEF Call
<1>3. call' = [call EXCEPT ![c] = r]
  BY DEF Submit
<1>. HIDE DEF stage
<1>4. r \in Call
  BY <1>1, <1>2 DEF Call
<1>5. /\ r.pc = stage /\ r.bar = call[c].bar /\ r.kind = call[c].kind
      /\ r.tid = call[c].tid /\ r.mode = mode /\ r.side = call[c].side /\ r.lots = call[c].lots
  BY <1>1 DEF Call
<1>. HIDE DEF r
<1>6. call'[c] = r /\ \A d \in Callers \ {c} : call'[d] = call[d]
  BY <1>3, RecordEffect
<1>7. call' \in [Callers -> Call]
  BY <1>3, <1>4, UpdateType
<1>. QED BY <1>5, <1>6, <1>7 DEF stage

LEMMA SnapshotEffect ==
  ASSUME TypeOK, NEW c \in Callers, Snapshot(c)
  PROVE  /\ call' \in [Callers -> Call]
         /\ \A d \in Callers \ {c} : call'[d] = call[d]
         /\ \/ call'[c] = Idle
            \/ /\ call'[c].pc = "closing" /\ call'[c].bar = call[c].bar
               /\ call'[c].kind = call[c].kind /\ call'[c].tid = call[c].tid
<1>1. call[c] \in Call /\ ledger \in Nat
  BY DEF TypeOK, MemoryOK
<1>2. CASE Return(c)
  BY <1>2, IdleType, UpdateType, RecordEffect DEF Return
<1>3. CASE call' = [call EXCEPT ![c] = [@ EXCEPT !.pc = "closing", !.side = "sell",
                                                 !.lots = ledger]]
  <2> DEFINE r == [call[c] EXCEPT !.pc = "closing", !.side = "sell", !.lots = ledger]
  <2>1. r \in Call
    BY <1>1, StageType DEF Call
  <2>2. /\ r.pc = "closing" /\ r.bar = call[c].bar /\ r.kind = call[c].kind
        /\ r.tid = call[c].tid
    BY <1>1 DEF Call
  <2>3. call' = [call EXCEPT ![c] = r]
    BY <1>3
  <2> HIDE DEF r
  <2>. QED BY <2>1, <2>2, <2>3, UpdateType, RecordEffect
<1>. QED BY <1>2, <1>3 DEF Snapshot

LEMMA NoHashEffect ==
  ASSUME TypeOK, NEW c \in Callers, NoHash(c)
  PROVE  /\ \A d \in Callers \ {c} : call'[d] = call[d]
         /\ call'[c].pc \in {"sending", After(call[c].kind)}
         /\ call'[c].bar = call[c].bar /\ call'[c].kind = call[c].kind
         /\ call'[c].mode = call[c].mode
<1>1. call[c] \in Call
  BY DEF TypeOK
<1>2. CASE call' = [call EXCEPT ![c] = [call[c] EXCEPT !.pc = "sending",
                                                       !.rung = call[c].rung + 1]]
  <2> DEFINE r == [call[c] EXCEPT !.pc = "sending", !.rung = call[c].rung + 1]
  <2>1. /\ r.pc = "sending" /\ r.bar = call[c].bar /\ r.kind = call[c].kind
        /\ r.mode = call[c].mode
    BY <1>1 DEF Call
  <2>2. call'[c] = r /\ \A d \in Callers \ {c} : call'[d] = call[d]
    BY <1>2, RecordEffect
  <2> HIDE DEF r
  <2>. QED BY <2>1, <2>2
<1>3. CASE call' = [call EXCEPT ![c] = [call[c] EXCEPT !.pc = After(call[c].kind)]]
  <2>1. Goto(c, After(call[c].kind))
    BY <1>3 DEF Goto
  <2>. QED BY <2>1, GotoEffect
<1>. QED BY <1>2, <1>3 DEF NoHash

\* Every variable keeps its type: in particular the position, its replay from
\* the trade rows and the wallet balance never go below zero, whatever is sold
\* (ApplyFill clamps, the chain refuses).
THEOREM Typing == Spec => []TypeOK
<1>1. Init => TypeOK
  <2> SUFFICES ASSUME Init PROVE TypeOK
    OBVIOUS
  <2>1. MemoryOK
    <3>1. up \in BOOLEAN /\ reconciled \in BOOLEAN
      BY DEF Init
    <3>2. mode \in Modes
      BY FlagAssumption DEF Init
    <3>3. seen \subseteq Keys /\ ledger \in Nat /\ tradesToday \in Nat /\ activityDay \in Int
      BY DEF Init
    <3>. QED BY <3>1, <3>2, <3>3 DEF MemoryOK
  <2>2. DurableOK
    BY DEF Init, DurableOK, NoCount
  <2>3. OutsideOK
    BY ClockAssumption DEF Init, OutsideOK, NoCount, Bars
  <2>4. HistoryOK
    BY FlagAssumption DEF Init, HistoryOK, NoCount
  <2>5. call \in [Callers -> Call]
    BY IdleType DEF Init
  <2>. QED BY <2>1, <2>2, <2>3, <2>4, <2>5 DEF TypeOK
<1>2. TypeOK /\ [Next]_vars => TypeOK'
  <2> SUFFICES ASSUME TypeOK, [Next]_vars PROVE TypeOK'
    OBVIOUS
  <2> USE DEF memory, durable, outside, history
  <2>1. ASSUME NEW c \in Callers, Begin(c) PROVE TypeOK'
    <3>1. call' \in [Callers -> Call]
      BY <2>1, IdleType, StageType DEF Begin, Call, OutsideOK, TypeOK
    <3>. QED
      <4>1. Day(bar) \in Int
        BY ClockAssumption DEF Day, Bars, TypeOK, OutsideOK
      <4>2. tradesToday' \in Nat /\ activityDay' \in Int
        BY <2>1, <4>1 DEF Begin, TypeOK, MemoryOK
      <4>3. used' \in [Events -> Nat]
        BY <2>1, SpendType, EventType DEF Begin
      <4>. QED
        BY <2>1, <3>1, <4>2, <4>3
         DEF Begin, TypeOK, MemoryOK, DurableOK, OutsideOK, HistoryOK
  <2>2. ASSUME NEW c \in Callers, SyncMode(c) PROVE TypeOK'
    <3>1. call' \in [Callers -> Call]
      BY <2>2, SyncModeEffect
    <3>. QED
      BY <2>2, <3>1, SpendType, EventType
      DEF SyncMode, TypeOK, MemoryOK, DurableOK, OutsideOK, HistoryOK
  <2>24. ASSUME NEW c \in Callers, Switch(c) PROVE TypeOK'
    <3>1. call' \in [Callers -> Call]
      <4>1. [call[c] EXCEPT !.pc = "gates"] \in Call
        BY StageType DEF TypeOK, Call
      <4>2. ASSUME NEW d \in Callers PROVE [call[d] EXCEPT !.own = FALSE] \in Call
        BY DEF TypeOK, Call
      <4>. QED BY <2>24, <4>1, <4>2 DEF Switch
    <3>2. mode' \in Modes
      BY <2>24 DEF Switch, TypeOK, Call
    <3>. QED
      BY <2>24, <3>1, <3>2
      DEF Switch, NoCount, TypeOK, MemoryOK, DurableOK, OutsideOK, HistoryOK
  <2>3. ASSUME NEW c \in Callers, Gates(c) PROVE TypeOK'
    <3>1. call' \in [Callers -> Call]
      BY <2>3, GotoType, StageType DEF Gates
    <3>. QED
      BY <2>3, <3>1
      DEF Gates, TypeOK, MemoryOK, DurableOK, OutsideOK, HistoryOK
  <2>4. ASSUME NEW c \in Callers, Autopilot(c) PROVE TypeOK'
    <3>1. call' \in [Callers -> Call]
      BY <2>4, GotoType, OrderType, StageType, KindType DEF Autopilot, TypeOK, MemoryOK
    <3>. QED
      BY <2>4, <3>1
      DEF Autopilot, TypeOK, MemoryOK, DurableOK, OutsideOK, HistoryOK
  <2>5. ASSUME NEW c \in Callers, Kol(c) PROVE TypeOK'
    <3>1. call' \in [Callers -> Call]
      BY <2>5, GotoType, OrderType, StageType, KindType DEF Kol, TypeOK, MemoryOK
    <3>. QED
      BY <2>5, <3>1
      DEF Kol, TypeOK, MemoryOK, DurableOK, OutsideOK, HistoryOK
  <2>6. ASSUME NEW c \in Callers, Strategy(c) PROVE TypeOK'
    <3>1. call' \in [Callers -> Call]
      BY <2>6, GotoType, OrderType, StageType, KindType DEF Strategy
    <3>. QED
      BY <2>6, <3>1
      DEF Strategy, TypeOK, MemoryOK, DurableOK, OutsideOK, HistoryOK
  <2>7. ASSUME NEW c \in Callers, Activity(c) PROVE TypeOK'
    <3>1. call' \in [Callers -> Call]
      BY <2>7, GotoType, OrderType, StageType, KindType DEF Activity, TypeOK, MemoryOK
    <3>. QED
      BY <2>7, <3>1
      DEF Activity, TypeOK, MemoryOK, DurableOK, OutsideOK, HistoryOK
  <2>8. ASSUME NEW c \in Callers, Submit(c) PROVE TypeOK'
    <3>1. call' \in [Callers -> Call]
      BY <2>8, SubmitEffect
    <3>. QED
      BY <2>8, <3>1
      DEF Submit, TypeOK, MemoryOK, DurableOK, OutsideOK, HistoryOK
  <2>9. ASSUME NEW c \in Callers, Refuse(c) PROVE TypeOK'
    <3>1. call' \in [Callers -> Call]
      BY <2>9, GotoType, StageType DEF Refuse, TypeOK, Call
    <3>. QED
      BY <2>9, <3>1
      DEF Refuse, TypeOK, MemoryOK, DurableOK, OutsideOK, HistoryOK
  <2>10. ASSUME NEW c \in Callers, RugRaise(c) PROVE TypeOK'
    <3>1. call' \in [Callers -> Call]
      BY <2>10, IdleType, StageType DEF RugRaise, TypeOK, Call
    <3>. QED
      BY <2>10, <3>1
      DEF RugRaise, TypeOK, MemoryOK, DurableOK, OutsideOK, HistoryOK
  <2>11. ASSUME NEW c \in Callers, Swap(c) PROVE TypeOK'
    <3>1. call' \in [Callers -> Call]
      BY <2>11, GotoType, StageType DEF Swap
    <3>2. floorSwaps' \in [Days -> Nat]
      <4>1. Day(call[c].bar) \in Days
        BY DEF Days, TypeOK, Call
      <4>. QED BY <2>11, <4>1 DEF Swap, TypeOK, HistoryOK
    <3>. QED
      BY <2>11, <3>1, <3>2, KeyType
      DEF Swap, Call, TypeOK, MemoryOK, DurableOK, OutsideOK, HistoryOK
  <2>12. ASSUME NEW c \in Callers, Confirm(c) PROVE TypeOK'
    <3>1. call' \in [Callers -> Call]
      BY <2>12, GotoType, StageType DEF Confirm
    <3>. QED
      BY <2>12, <3>1
      DEF Confirm, TypeOK, MemoryOK, DurableOK, OutsideOK, HistoryOK
  <2>13. ASSUME NEW c \in Callers, Unconfirmed(c) PROVE TypeOK'
    <3>1. call' \in [Callers -> Call]
      BY <2>13, GotoType, StageType DEF Unconfirmed, TypeOK, Call
    <3>. QED
      BY <2>13, <3>1, SpendType, EventType
      DEF Unconfirmed, TypeOK, MemoryOK, DurableOK, OutsideOK, HistoryOK
  <2>14. ASSUME NEW c \in Callers, NoHash(c) PROVE TypeOK'
    <3>1. call' \in [Callers -> Call]
      <4>1. call[c] \in Call /\ After(call[c].kind) \in Stages
        BY StageType DEF TypeOK, Call
      <4>2. CASE call[c].rung < Rungs
        <5>1. call[c].rung + 1 \in 1..Rungs
          BY <4>1, <4>2 DEF Call, Rungs
        <5>2. [call[c] EXCEPT !.pc = "sending", !.rung = call[c].rung + 1] \in Call
          BY <4>1, <5>1, StageType DEF Call
        <5>3. call' = [call EXCEPT ![c] =
                         [call[c] EXCEPT !.pc = "sending", !.rung = call[c].rung + 1]]
          BY <2>14, <4>2 DEF NoHash
        <5>. QED BY <5>2, <5>3, UpdateType
      <4>3. CASE ~(call[c].rung < Rungs)
        <5>1. [call[c] EXCEPT !.pc = After(call[c].kind)] \in Call
          BY <4>1 DEF Call
        <5>. QED BY <2>14, <4>3, <5>1 DEF NoHash, TypeOK
      <4>. QED BY <4>2, <4>3
    <3>. QED
      BY <2>14, <3>1, SpendType, EventType
      DEF NoHash, TypeOK, MemoryOK, DurableOK, OutsideOK, HistoryOK
  <2>15. ASSUME NEW c \in Callers, Book(c) PROVE TypeOK'
    <3>1. call' \in [Callers -> Call]
      BY <2>15, GotoType, StageType DEF Book
    <3>. QED
      BY <2>15, <3>1, KeyType
      DEF Book, ApplyFill, Call, TypeOK, MemoryOK, DurableOK, OutsideOK, HistoryOK
  <2>16. ASSUME NEW c \in Callers, Record(c) PROVE TypeOK'
    <3>1. call' \in [Callers -> Call]
      <4>1. call[c] \in Call /\ After(call[c].kind) \in Stages
        BY StageType DEF TypeOK, Call
      <4>2. PICK replied \in BOOLEAN :
              call' = [call EXCEPT ![c] =
                        [call[c] EXCEPT
                           !.pc = After(call[c].kind),
                           !.tid = IF call[c].kind = "activity" THEN call[c].tid ELSE replied]]
        BY <2>16 DEF Record
      <4> DEFINE tid == IF call[c].kind = "activity" THEN call[c].tid ELSE replied
      <4>3. tid \in BOOLEAN
        BY <4>1 DEF Call
      <4>4. [call[c] EXCEPT !.pc = After(call[c].kind), !.tid = tid] \in Call
        BY <4>1, <4>3 DEF Call
      <4>5. call' = [call EXCEPT ![c] =
                       [call[c] EXCEPT !.pc = After(call[c].kind), !.tid = tid]]
        BY <4>2
      <4>. QED BY <4>4, <4>5, UpdateType
    <3>. QED
      BY <2>16, <3>1, KeyType, SpendType, EventType
      DEF Record, ApplyFill, Call, TypeOK, MemoryOK, DurableOK, OutsideOK, HistoryOK
  <2>17. ASSUME NEW c \in Callers, Decide(c) PROVE TypeOK'
    <3>1. call' \in [Callers -> Call]
      BY <2>17, GotoType, StageType DEF Decide
    <3>. QED
      BY <2>17, <3>1, SpendType, EventType
      DEF Decide, Call, TypeOK, MemoryOK, DurableOK, OutsideOK, HistoryOK
  <2>18. ASSUME NEW c \in Callers, Snapshot(c) PROVE TypeOK'
    <3>1. call' \in [Callers -> Call]
      BY <2>18, SnapshotEffect
    <3>2. ledger' \in Nat
      BY <2>18 DEF Snapshot, TypeOK, MemoryOK
    <3>. QED
      BY <2>18, <3>1, <3>2
      DEF Snapshot, TypeOK, MemoryOK, DurableOK, OutsideOK, HistoryOK
  <2>25. ASSUME NEW c \in Callers, CloseRow(c) PROVE TypeOK'
    <3>1. call' \in [Callers -> Call]
      BY <2>25, IdleType DEF CloseRow, Return, TypeOK
    <3>2. dbUnits' \in Nat
      BY <2>25 DEF CloseRow, ApplyFill, TypeOK, DurableOK, Call
    <3>3. used' \in [Events -> Nat]
      BY <2>25, SpendType, EventType DEF CloseRow, TypeOK, HistoryOK
    <3>. QED
      BY <2>25, <3>1, <3>2, <3>3
      DEF CloseRow, TypeOK, MemoryOK, DurableOK, OutsideOK, HistoryOK
  <2>19. ASSUME Crash PROVE TypeOK'
    BY <2>19, IdleType, SpendType, EventType
    DEF Crash, TypeOK, MemoryOK, DurableOK, OutsideOK, HistoryOK
  <2>20. ASSUME Boot PROVE TypeOK'
    <3>1. up' \in BOOLEAN /\ reconciled' \in BOOLEAN
      BY <2>20 DEF Boot
    <3>2. mode' \in Modes /\ tradesToday' \in Nat /\ activityDay' \in Int
      BY <2>20, FlagAssumption DEF Boot
    <3>3. guarded' \subseteq Bars /\ seen' \subseteq Keys
      BY <2>20, KindType DEF Boot, MarkSeen, Keys, TypeOK, DurableOK
    <3>4. ledger' \in Nat
      BY <2>20 DEF Boot, Replay, TypeOK, DurableOK
    <3>5. used' \in [Events -> Nat]
      BY <2>20, SpendType, EventType DEF Boot, TypeOK, HistoryOK
    <3>6. fills' \in [Keys -> Nat]
      BY <2>20 DEF Boot, NoCount
    <3>. QED
      BY <2>20, <3>1, <3>2, <3>3, <3>4, <3>5, <3>6
      DEF Boot, TypeOK, MemoryOK, DurableOK, OutsideOK, HistoryOK
  <2>21. ASSUME NextBar PROVE TypeOK'
    BY <2>21, ClockAssumption
    DEF NextBar, Bars, TypeOK, MemoryOK, DurableOK, OutsideOK, HistoryOK
  <2>22. ASSUME Convert PROVE TypeOK'
    BY <2>22, SpendType, EventType
    DEF Convert, TypeOK, MemoryOK, DurableOK, OutsideOK, HistoryOK
  <2>23. ASSUME UNCHANGED vars PROVE TypeOK'
    BY <2>23
    DEF vars, TypeOK, MemoryOK, DurableOK, OutsideOK, HistoryOK
  <2>. QED
    BY <2>1, <2>2, <2>3, <2>4, <2>5, <2>6, <2>7, <2>8, <2>9, <2>10, <2>11, <2>12, <2>13, <2>14,
       <2>15, <2>16, <2>17, <2>18, <2>19, <2>20, <2>21, <2>22, <2>23, <2>24, <2>25
    DEF Next, CallerStep, Rest
<1>. QED BY <1>1, <1>2, PTL DEF Spec

-----------------------------------------------------------------------------
(* The tables never claim a trade the chain has not seen.                  *)

\* A call that waits for a receipt, books or records has swapped under its key,
\* and one that was given a trade_id has a row of its own cycle.
Sent(c)   == call[c].pc \in {"confirming", "booking", "recording"} => swaps[Key(c)] > 0
Backed(c) == call[c].tid => \E kind \in Kinds : rows[<<call[c].bar, kind>>] > 0

ChainInv == /\ \A c \in Callers : Sent(c) /\ Backed(c)
            /\ RowsBackedBySwaps
            /\ LinkedCycleHasRow

\* A caller a step brings no further towards the tables: it enters none of the
\* three stages, changes no key in them and is given no trade_id.
InFlight == {"confirming", "booking", "recording"}
Keeps(d) == /\ call'[d].pc \in InFlight => /\ call[d].pc \in InFlight
                                          /\ call'[d].bar = call[d].bar
                                          /\ call'[d].kind = call[d].kind
            /\ call'[d].tid => call[d].tid /\ call'[d].bar = call[d].bar

LEMMA ChainQuiet ==
  ASSUME ChainInv, UNCHANGED <<rows, swaps, linked>>, \A d \in Callers : Keeps(d)
  PROVE  ChainInv'
  BY DEF ChainInv, Sent, Backed, Keeps, InFlight, RowsBackedBySwaps, LinkedCycleHasRow, Key

LEMMA ChainStep ==
  ASSUME TypeOK, TypeOK', ChainInv, [Next]_vars
  PROVE  ChainInv'
<1> USE DEF memory, durable, outside, history, At, Goto
<1>0. /\ call \in [Callers -> [pc : Stages, bar : Bars, kind : Kinds, side : {"buy", "sell"},
                                lots : Nat, rung : 1..Rungs, tid : BOOLEAN, mode : Modes,
                                own : BOOLEAN]]
      /\ rows \in [Keys -> Nat] /\ swaps \in [Keys -> Nat]
  BY DEF TypeOK, Call, DurableOK, OutsideOK
<1>1. ASSUME NEW c \in Callers, Begin(c) PROVE ChainInv'
  <2>1. \A d \in Callers : Keeps(d)
    BY <1>0, <1>1 DEF Keeps, InFlight, Begin, Idle
  <2>. QED BY <1>1, <2>1, ChainQuiet DEF Begin
<1>2. ASSUME NEW c \in Callers, SyncMode(c) PROVE ChainInv'
  <2>1. \A d \in Callers : Keeps(d)
    BY <1>2, SyncModeEffect DEF Keeps, InFlight
  <2>. QED BY <1>2, <2>1, ChainQuiet DEF SyncMode
<1>24. ASSUME NEW c \in Callers, Switch(c) PROVE ChainInv'
  <2>1. \A d \in Callers : Keeps(d)
    BY <1>0, <1>24 DEF Keeps, InFlight, Switch
  <2>. QED BY <1>24, <2>1, ChainQuiet DEF Switch
<1>25. ASSUME NEW c \in Callers, CloseRow(c) PROVE ChainInv'
  <2>1. \A d \in Callers : Keeps(d)
    BY <1>0, <1>25 DEF Keeps, InFlight, CloseRow, Return, Idle
  <2>. QED BY <1>25, <2>1, ChainQuiet DEF CloseRow
<1>3. ASSUME NEW c \in Callers, Gates(c) PROVE ChainInv'
  <2>1. \A d \in Callers : Keeps(d)
    BY <1>0, <1>3 DEF Keeps, InFlight, Gates
  <2>. QED BY <1>3, <2>1, ChainQuiet DEF Gates
<1>4. ASSUME NEW c \in Callers, Autopilot(c) PROVE ChainInv'
  <2>1. \A d \in Callers : Keeps(d)
    <3>1. ASSUME NEW stage \in Stages \ InFlight, Goto(c, stage) PROVE \A d \in Callers : Keeps(d)
      BY <1>0, <3>1 DEF Keeps
    <3>2. ASSUME NEW kind, NEW side, NEW lots, Order(c, kind, side, lots)
          PROVE  \A d \in Callers : Keeps(d)
      BY <3>2, OrderEffect DEF Keeps, InFlight
    <3>. QED BY <1>4, <3>1, <3>2, StageType DEF Autopilot, InFlight
  <2>. QED BY <1>4, <2>1, ChainQuiet DEF Autopilot
<1>5. ASSUME NEW c \in Callers, Kol(c) PROVE ChainInv'
  <2>1. \A d \in Callers : Keeps(d)
    <3>1. ASSUME NEW stage \in Stages \ InFlight, Goto(c, stage) PROVE \A d \in Callers : Keeps(d)
      BY <1>0, <3>1 DEF Keeps
    <3>2. ASSUME NEW kind, NEW side, NEW lots, Order(c, kind, side, lots)
          PROVE  \A d \in Callers : Keeps(d)
      BY <3>2, OrderEffect DEF Keeps, InFlight
    <3>. QED BY <1>5, <3>1, <3>2, StageType DEF Kol, InFlight
  <2>. QED BY <1>5, <2>1, ChainQuiet DEF Kol
<1>6. ASSUME NEW c \in Callers, Strategy(c) PROVE ChainInv'
  <2>1. \A d \in Callers : Keeps(d)
    <3>1. ASSUME NEW stage \in Stages \ InFlight, Goto(c, stage) PROVE \A d \in Callers : Keeps(d)
      BY <1>0, <3>1 DEF Keeps
    <3>2. ASSUME NEW kind, NEW side, NEW lots, Order(c, kind, side, lots)
          PROVE  \A d \in Callers : Keeps(d)
      BY <3>2, OrderEffect DEF Keeps, InFlight
    <3>. QED BY <1>6, <3>1, <3>2, StageType DEF Strategy, InFlight
  <2>. QED BY <1>6, <2>1, ChainQuiet DEF Strategy
<1>7. ASSUME NEW c \in Callers, Activity(c) PROVE ChainInv'
  <2>1. \A d \in Callers : Keeps(d)
    <3>1. ASSUME NEW stage \in Stages \ InFlight, Goto(c, stage) PROVE \A d \in Callers : Keeps(d)
      BY <1>0, <3>1 DEF Keeps
    <3>2. ASSUME NEW kind, NEW side, NEW lots, Order(c, kind, side, lots)
          PROVE  \A d \in Callers : Keeps(d)
      BY <3>2, OrderEffect DEF Keeps, InFlight
    <3>. QED BY <1>7, <3>1, <3>2, StageType DEF Activity, InFlight
  <2>. QED BY <1>7, <2>1, ChainQuiet DEF Activity
<1>8. ASSUME NEW c \in Callers, Submit(c) PROVE ChainInv'
  <2>1. \A d \in Callers : Keeps(d)
    BY <1>0, <1>8 DEF Keeps, InFlight, Submit, After
  <2>. QED BY <1>8, <2>1, ChainQuiet DEF Submit
<1>9. ASSUME NEW c \in Callers, Refuse(c) PROVE ChainInv'
  <2>1. \A d \in Callers : Keeps(d)
    BY <1>0, <1>9 DEF Keeps, InFlight, Refuse, After
  <2>. QED BY <1>9, <2>1, ChainQuiet DEF Refuse
<1>10. ASSUME NEW c \in Callers, RugRaise(c) PROVE ChainInv'
  <2>1. \A d \in Callers : Keeps(d)
    BY <1>0, <1>10 DEF Keeps, InFlight, RugRaise, Idle
  <2>. QED BY <1>10, <2>1, ChainQuiet DEF RugRaise
<1>11. ASSUME NEW c \in Callers, Confirm(c) PROVE ChainInv'
  <2>1. \A d \in Callers : Keeps(d)
    BY <1>0, <1>11 DEF Keeps, InFlight, Confirm
  <2>. QED BY <1>11, <2>1, ChainQuiet DEF Confirm
<1>12. ASSUME NEW c \in Callers, Unconfirmed(c) PROVE ChainInv'
  <2>1. \A d \in Callers : Keeps(d)
    BY <1>0, <1>12 DEF Keeps, InFlight, Unconfirmed, After
  <2>. QED BY <1>12, <2>1, ChainQuiet DEF Unconfirmed
<1>13. ASSUME NEW c \in Callers, NoHash(c) PROVE ChainInv'
  <2>1. \A d \in Callers : Keeps(d)
    BY <1>0, <1>13 DEF Keeps, InFlight, NoHash, After
  <2>. QED BY <1>13, <2>1, ChainQuiet DEF NoHash
<1>14. ASSUME NEW c \in Callers, Book(c) PROVE ChainInv'
  <2>1. \A d \in Callers : Keeps(d)
    BY <1>0, <1>14 DEF Keeps, InFlight, Book
  <2>. QED BY <1>14, <2>1, ChainQuiet DEF Book
<1>15. ASSUME NEW c \in Callers, Snapshot(c) PROVE ChainInv'
  <2>1. \A d \in Callers : Keeps(d)
    BY <1>15, SnapshotEffect DEF Keeps, InFlight, Idle
  <2>. QED BY <1>15, <2>1, ChainQuiet DEF Snapshot
<1>16. ASSUME NEW c \in Callers, Swap(c) PROVE ChainInv'
  <2>1. /\ UNCHANGED <<rows, linked>>
        /\ swaps' = [swaps EXCEPT ![Key(c)] = @ + 1]
        /\ call' = [call EXCEPT ![c].pc = call'[c].pc]
    BY <1>0, <1>16 DEF Swap
  <2>2. \A k \in Keys : swaps[k] > 0 => swaps'[k] > 0
    BY <1>0, <2>1
  <2>3. swaps'[Key(c)] > 0
    BY <1>0, <2>1, KeyType
  <2>4. \A d \in Callers : Key(d) \in Keys /\ Key(d)' = Key(d) /\ call'[d].tid = call[d].tid
                           /\ call'[d].bar = call[d].bar
                           /\ (d # c => call'[d].pc = call[d].pc)
    BY <1>0, <2>1, KeyType DEF Key
  <2>5. \A d \in Callers : Sent(d)'
    BY <2>2, <2>3, <2>4 DEF ChainInv, Sent
  <2>6. \A d \in Callers : Backed(d)'
    BY <2>1, <2>4 DEF ChainInv, Backed
  <2>7. RowsBackedBySwaps' /\ LinkedCycleHasRow'
    BY <2>1, <2>2 DEF ChainInv, RowsBackedBySwaps, LinkedCycleHasRow
  <2>. QED BY <2>5, <2>6, <2>7 DEF ChainInv
<1>17. ASSUME NEW c \in Callers, Record(c) PROVE ChainInv'
  <2>1. PICK stored \in BOOLEAN, replied \in BOOLEAN :
          /\ replied => stored
          /\ rows' = IF stored THEN [rows EXCEPT ![Key(c)] = @ + 1] ELSE rows
          /\ call' = [call EXCEPT ![c] =
                [call[c] EXCEPT
                   !.pc = After(call[c].kind),
                   !.tid = IF call[c].kind = "activity" THEN call[c].tid ELSE replied]]
          /\ UNCHANGED <<swaps, linked>>
    BY <1>17 DEF Record
  <2>2. \A k \in Keys : rows[k] > 0 => rows'[k] > 0
    BY <1>0, <2>1
  <2>3. \A k \in Keys : rows'[k] > 0 => rows[k] > 0 \/ k = Key(c)
    BY <1>0, <2>1
  <2>4. stored => rows'[Key(c)] > 0
    BY <1>0, <2>1, KeyType
  <2>5. swaps[Key(c)] > 0
    BY <1>17 DEF Record, ChainInv, Sent
  <2>6. /\ \A d \in Callers : call'[d].bar = call[d].bar /\ call'[d].kind = call[d].kind
        /\ \A d \in Callers \ {c} : call'[d] = call[d]
        /\ call'[c].pc = After(call[c].kind)
        /\ call'[c].tid => call[c].tid \/ replied
    BY <1>0, <2>1
  <2>7. \A d \in Callers : Sent(d)'
    BY <2>1, <2>6 DEF ChainInv, Sent, Key, After
  <2>8. \A b \in Bars : (\E kind \in Kinds : rows[<<b, kind>>] > 0)
                       => (\E kind \in Kinds : rows'[<<b, kind>>] > 0)
    BY <2>2 DEF Keys
  <2>9. \A d \in Callers : Backed(d)'
    <3>1. ASSUME NEW d \in Callers, call'[d].tid PROVE \E kind \in Kinds : rows'[<<call'[d].bar, kind>>] > 0
      <4>1. CASE call[d].tid
        BY <1>0, <2>6, <2>8, <4>1 DEF ChainInv, Backed
      <4>2. CASE ~call[d].tid
        <5>1. d = c /\ replied
          BY <2>6, <3>1, <4>2
        <5>2. rows'[<<call'[c].bar, call[c].kind>>] > 0 /\ call[c].kind \in Kinds
          BY <1>0, <2>1, <2>4, <2>6, <5>1 DEF Key
        <5>. QED BY <5>1, <5>2
      <4>. QED BY <4>1, <4>2
    <3>. QED BY <3>1 DEF Backed
  <2>10. RowsBackedBySwaps'
    BY <2>1, <2>3, <2>5 DEF ChainInv, RowsBackedBySwaps
  <2>11. LinkedCycleHasRow'
    BY <2>1, <2>8 DEF ChainInv, LinkedCycleHasRow, TypeOK, DurableOK
  <2>. QED BY <2>7, <2>9, <2>10, <2>11 DEF ChainInv
<1>18. ASSUME NEW c \in Callers, Decide(c) PROVE ChainInv'
  <2>1. \A d \in Callers : Keeps(d)
    BY <1>0, <1>18 DEF Keeps, InFlight, Decide
  <2>2. UNCHANGED <<rows, swaps>>
    BY <1>18 DEF Decide
  <2>3. \A d \in Callers : Sent(d)' /\ Backed(d)'
    BY <2>1, <2>2 DEF ChainInv, Sent, Backed, Keeps, InFlight, Key
  <2>4. RowsBackedBySwaps'
    BY <2>2 DEF ChainInv, RowsBackedBySwaps
  <2>5. \A b \in linked' : b \in linked \/ (b = call[c].bar /\ call[c].tid)
    BY <1>18 DEF Decide
  <2>6. LinkedCycleHasRow'
    BY <2>2, <2>5 DEF ChainInv, Backed, LinkedCycleHasRow
  <2>. QED BY <2>3, <2>4, <2>6 DEF ChainInv
<1>19. ASSUME Crash PROVE ChainInv'
  <2>1. \A d \in Callers : Keeps(d)
    BY <1>0, <1>19 DEF Keeps, InFlight, Crash, Idle
  <2>. QED BY <1>19, <2>1, ChainQuiet DEF Crash, Idle
<1>20. ASSUME Boot PROVE ChainInv'
  <2>1. \A d \in Callers : Keeps(d)
    BY <1>0, <1>20 DEF Keeps, InFlight, Boot
  <2>. QED BY <1>20, <2>1, ChainQuiet DEF Boot
<1>21. ASSUME NextBar PROVE ChainInv'
  <2>1. \A d \in Callers : Keeps(d)
    BY <1>0, <1>21 DEF Keeps, InFlight, NextBar
  <2>. QED BY <1>21, <2>1, ChainQuiet DEF NextBar
<1>22. ASSUME Convert PROVE ChainInv'
  <2>1. \A d \in Callers : Keeps(d)
    BY <1>0, <1>22 DEF Keeps, InFlight, Convert
  <2>. QED BY <1>22, <2>1, ChainQuiet DEF Convert
<1>23. ASSUME UNCHANGED vars PROVE ChainInv'
  <2>1. \A d \in Callers : Keeps(d)
    BY <1>0, <1>23 DEF Keeps, InFlight, vars
  <2>. QED BY <1>23, <2>1, ChainQuiet DEF vars
<1>. QED
  BY <1>1, <1>2, <1>3, <1>4, <1>5, <1>6, <1>7, <1>8, <1>9, <1>10, <1>11, <1>12, <1>13, <1>14,
     <1>15, <1>16, <1>17, <1>18, <1>19, <1>20, <1>21, <1>22, <1>23, <1>24, <1>25
  DEF Next, CallerStep, Rest

LEMMA ChainSafe == Spec => []ChainInv
<1>1. Init => ChainInv
  BY DEF Init, ChainInv, Sent, Backed, RowsBackedBySwaps, LinkedCycleHasRow, Idle, NoCount
<1>2. TypeOK /\ TypeOK' /\ ChainInv /\ [Next]_vars => ChainInv'
  BY ChainStep
<1>. QED BY <1>1, <1>2, Typing, PTL DEF Spec

\* Whatever crashes, refusals, retries and lost replies do, the row of an order is
\* written behind a swap under the order's own key.  The rows of a forced close and of
\* a convert belong to no order; of them this says nothing.
THEOREM OrderRowsAreReal == Spec => []RowsBackedBySwaps
<1>1. ChainInv => RowsBackedBySwaps
  BY DEF ChainInv
<1>. QED BY <1>1, ChainSafe, PTL

\* A decision row that carries a trade_id has a trade row of its own cycle, so
\* recovery never guards a cycle that did not trade.
THEOREM LinksAreReal == Spec => []LinkedCycleHasRow
<1>1. ChainInv => LinkedCycleHasRow
  BY DEF ChainInv
<1>. QED BY <1>1, ChainSafe, PTL

-----------------------------------------------------------------------------
(* One caller at a time, an executor never fills a key twice.              *)

\* run_cycle is called by one thread only: --loop, or a server nobody calls twice.
SerialCallers == \A a, b \in Callers : a = b

\* The key of an order between the dupe check and _remember is not remembered;
\* what is filled or guarded is.
Pending == {"sending", "confirming", "booking"}
SeenInv == /\ ~up => \A c \in Callers : call[c].pc = "idle"
           /\ \A c \in Callers : call[c].pc \in Pending => Key(c) \notin seen
           /\ \A k \in Keys : fills[k] \in {0, 1} /\ (fills[k] = 1 => k \in seen)
           /\ \A b \in guarded : <<b, "main">> \in seen /\ fills[<<b, "main">>] = 0

\* A caller a step does not bring to the executor.
Waits(d) == call'[d].pc \in Pending => /\ call[d].pc \in Pending
                                       /\ call'[d].bar = call[d].bar
                                       /\ call'[d].kind = call[d].kind

LEMMA SeenQuiet ==
  ASSUME SeenInv, UNCHANGED <<up, seen, fills, guarded>>, up \/ UNCHANGED call,
         \A d \in Callers : Waits(d)
  PROVE  SeenInv'
  BY DEF SeenInv, Waits, Pending, Key

LEMMA SeenStep ==
  ASSUME SerialCallers, TypeOK, TypeOK', SeenInv, [Next]_vars
  PROVE  SeenInv'
<1> USE DEF memory, durable, outside, history, At, Goto
<1>0. call \in [Callers -> [pc : Stages, bar : Bars, kind : Kinds, side : {"buy", "sell"},
                             lots : Nat, rung : 1..Rungs, tid : BOOLEAN, mode : Modes,
                                own : BOOLEAN]]
  BY DEF TypeOK, Call
<1>1. ASSUME NEW c \in Callers, Begin(c) PROVE SeenInv'
  <2>1. \A d \in Callers : Waits(d)
    BY <1>0, <1>1 DEF Waits, Pending, Begin, Idle
  <2>. QED BY <1>1, <2>1, SeenQuiet DEF Begin
<1>2. ASSUME NEW c \in Callers, SyncMode(c) PROVE SeenInv'
  <2>1. \A d \in Callers : Waits(d)
    BY <1>0, <1>2 DEF Waits, Pending, SyncMode
  <2>. QED BY <1>2, <2>1, SeenQuiet DEF SyncMode
<1>24. ASSUME NEW c \in Callers, Switch(c) PROVE SeenInv'
  <2>1. \A d \in Callers : d = c /\ call'[d].pc = "gates"
    BY <1>0, <1>24 DEF Switch, SerialCallers
  <2>. QED BY <1>24, <2>1 DEF Switch, SeenInv, NoCount, Pending
<1>25. ASSUME NEW c \in Callers, CloseRow(c) PROVE SeenInv'
  <2>1. \A d \in Callers : Waits(d)
    BY <1>0, <1>25 DEF Waits, Pending, CloseRow, Return, Idle
  <2>. QED BY <1>25, <2>1, SeenQuiet DEF CloseRow
<1>3. ASSUME NEW c \in Callers, Gates(c) PROVE SeenInv'
  <2>1. \A d \in Callers : Waits(d)
    BY <1>0, <1>3 DEF Waits, Pending, Gates
  <2>. QED BY <1>3, <2>1, SeenQuiet DEF Gates
<1>4. ASSUME NEW c \in Callers, Autopilot(c) PROVE SeenInv'
  <2>1. ASSUME NEW stage \in Stages \ Pending, Goto(c, stage) PROVE \A d \in Callers : Waits(d)
    BY <1>0, <2>1 DEF Waits
  <2>2. ASSUME NEW kind, NEW side, NEW lots, Order(c, kind, side, lots)
        PROVE  \A d \in Callers : Waits(d)
    BY <2>2, OrderEffect DEF Waits, Pending
  <2>3. \A d \in Callers : Waits(d)
    BY <1>4, <2>1, <2>2, StageType DEF Autopilot, Pending
  <2>. QED BY <1>4, <2>3, SeenQuiet DEF Autopilot
<1>5. ASSUME NEW c \in Callers, Kol(c) PROVE SeenInv'
  <2>1. ASSUME NEW stage \in Stages \ Pending, Goto(c, stage) PROVE \A d \in Callers : Waits(d)
    BY <1>0, <2>1 DEF Waits
  <2>2. ASSUME NEW kind, NEW side, NEW lots, Order(c, kind, side, lots)
        PROVE  \A d \in Callers : Waits(d)
    BY <2>2, OrderEffect DEF Waits, Pending
  <2>3. \A d \in Callers : Waits(d)
    BY <1>5, <2>1, <2>2, StageType DEF Kol, Pending
  <2>. QED BY <1>5, <2>3, SeenQuiet DEF Kol
<1>6. ASSUME NEW c \in Callers, Strategy(c) PROVE SeenInv'
  <2>1. ASSUME NEW stage \in Stages \ Pending, Goto(c, stage) PROVE \A d \in Callers : Waits(d)
    BY <1>0, <2>1 DEF Waits
  <2>2. ASSUME NEW kind, NEW side, NEW lots, Order(c, kind, side, lots)
        PROVE  \A d \in Callers : Waits(d)
    BY <2>2, OrderEffect DEF Waits, Pending
  <2>3. \A d \in Callers : Waits(d)
    BY <1>6, <2>1, <2>2, StageType DEF Strategy, Pending
  <2>. QED BY <1>6, <2>3, SeenQuiet DEF Strategy
<1>7. ASSUME NEW c \in Callers, Activity(c) PROVE SeenInv'
  <2>1. ASSUME NEW stage \in Stages \ Pending, Goto(c, stage) PROVE \A d \in Callers : Waits(d)
    BY <1>0, <2>1 DEF Waits
  <2>2. ASSUME NEW kind, NEW side, NEW lots, Order(c, kind, side, lots)
        PROVE  \A d \in Callers : Waits(d)
    BY <2>2, OrderEffect DEF Waits, Pending
  <2>3. \A d \in Callers : Waits(d)
    BY <1>7, <2>1, <2>2, StageType DEF Activity, Pending
  <2>. QED BY <1>7, <2>3, SeenQuiet DEF Activity
<1>8. ASSUME NEW c \in Callers, Submit(c) PROVE SeenInv'
  <2>1. \A d \in Callers : /\ call'[d].bar = call[d].bar /\ call'[d].kind = call[d].kind
                           /\ d # c => call'[d].pc = call[d].pc
    BY <1>0, <1>8 DEF Submit
  <2>2. call'[c].pc \in Pending => Key(c) \notin seen
    BY <1>0, <1>8 DEF Submit, After, Pending
  <2>. QED BY <1>8, <2>1, <2>2 DEF Submit, SeenInv, Key
<1>9. ASSUME NEW c \in Callers, Refuse(c) PROVE SeenInv'
  <2>1. \A d \in Callers : Waits(d)
    BY <1>0, <1>9 DEF Waits, Pending, Refuse, After
  <2>. QED BY <1>9, <2>1, SeenQuiet DEF Refuse
<1>10. ASSUME NEW c \in Callers, RugRaise(c) PROVE SeenInv'
  <2>1. \A d \in Callers : Waits(d)
    BY <1>0, <1>10 DEF Waits, Pending, RugRaise, Idle
  <2>. QED BY <1>10, <2>1, SeenQuiet DEF RugRaise
<1>11. ASSUME NEW c \in Callers, Swap(c) PROVE SeenInv'
  <2>1. \A d \in Callers : Waits(d)
    BY <1>0, <1>11 DEF Waits, Pending, Swap
  <2>. QED BY <1>11, <2>1, SeenQuiet DEF Swap
<1>12. ASSUME NEW c \in Callers, Confirm(c) PROVE SeenInv'
  <2>1. \A d \in Callers : Waits(d)
    BY <1>0, <1>12 DEF Waits, Pending, Confirm
  <2>. QED BY <1>12, <2>1, SeenQuiet DEF Confirm
<1>13. ASSUME NEW c \in Callers, Unconfirmed(c) PROVE SeenInv'
  <2>1. \A d \in Callers : Waits(d)
    BY <1>0, <1>13 DEF Waits, Pending, Unconfirmed, After
  <2>. QED BY <1>13, <2>1, SeenQuiet DEF Unconfirmed
<1>14. ASSUME NEW c \in Callers, NoHash(c) PROVE SeenInv'
  <2>1. \A d \in Callers : Waits(d)
    BY <1>0, <1>14 DEF Waits, Pending, NoHash, After
  <2>. QED BY <1>14, <2>1, SeenQuiet DEF NoHash
<1>15. ASSUME NEW c \in Callers, Book(c) PROVE SeenInv'
  <2>0. CASE ~call[c].own
    <3>1. \A d \in Callers : d = c /\ call'[d].pc = "recording"
      BY <1>0, <1>15 DEF Book, SerialCallers
    <3>2. UNCHANGED <<up, seen, fills, guarded>> /\ up
      BY <1>15, <2>0 DEF Book
    <3>. QED BY <3>1, <3>2 DEF SeenInv, Pending
  <2> SUFFICES ASSUME call[c].own PROVE SeenInv'
    BY <2>0
  <2>1. /\ seen' = seen \union {Key(c)}
        /\ fills' = [fills EXCEPT ![Key(c)] = @ + 1]
        /\ UNCHANGED <<up, guarded>>
        /\ up
    BY <1>15 DEF Book
  <2>2. \A d \in Callers : d = c /\ call'[d].pc = "recording"
    BY <1>0, <1>15 DEF Book, SerialCallers
  <2>3. Key(c) \in Keys /\ Key(c) \notin seen
    BY <1>15, KeyType DEF Book, SeenInv, Pending
  <2>4. fills[Key(c)] = 0
    BY <2>3 DEF SeenInv
  <2>5. \A k \in Keys : fills'[k] = IF k = Key(c) THEN 1 ELSE fills[k]
    BY <2>1, <2>4 DEF TypeOK, HistoryOK
  <2>6. \A k \in Keys : fills'[k] \in {0, 1} /\ (fills'[k] = 1 => k \in seen')
    BY <2>1, <2>5 DEF SeenInv
  <2>7. \A b \in guarded' : <<b, "main">> \in seen' /\ fills'[<<b, "main">>] = 0
    <3>1. \A b \in guarded : <<b, "main">> \in Keys
      BY KindType DEF Keys, TypeOK, HistoryOK
    <3>. QED BY <2>1, <2>3, <2>5, <3>1 DEF SeenInv
  <2>. QED BY <2>1, <2>2, <2>6, <2>7 DEF SeenInv, Pending
<1>16. ASSUME NEW c \in Callers, Record(c) PROVE SeenInv'
  <2>1. \A d \in Callers : Waits(d)
    BY <1>0, <1>16 DEF Waits, Pending, Record, After
  <2>. QED BY <1>16, <2>1, SeenQuiet DEF Record
<1>17. ASSUME NEW c \in Callers, Decide(c) PROVE SeenInv'
  <2>1. \A d \in Callers : Waits(d)
    BY <1>0, <1>17 DEF Waits, Pending, Decide
  <2>. QED BY <1>17, <2>1, SeenQuiet DEF Decide
<1>18. ASSUME NEW c \in Callers, Snapshot(c) PROVE SeenInv'
  <2>1. \A d \in Callers : Waits(d)
    BY <1>18, SnapshotEffect DEF Waits, Pending, Idle
  <2>. QED BY <1>18, <2>1, SeenQuiet DEF Snapshot
<1>19. ASSUME Crash PROVE SeenInv'
  BY <1>19 DEF Crash, SeenInv, Idle, Pending
<1>20. ASSUME Boot PROVE SeenInv'
  <2>1. \A c \in Callers : call'[c].pc = "idle"
    BY <1>20 DEF Boot, SeenInv
  <2>2. \A k \in Keys : fills'[k] = 0
    BY <1>20 DEF Boot, NoCount
  <2>3. \A b \in guarded' : <<b, "main">> \in seen' /\ <<b, "main">> \in Keys
    BY <1>20, KindType DEF Boot, MarkSeen, Keys, TypeOK, DurableOK
  <2>. QED BY <2>1, <2>2, <2>3 DEF SeenInv, Pending
<1>21. ASSUME NextBar PROVE SeenInv'
  <2>1. \A d \in Callers : Waits(d)
    BY <1>21 DEF Waits, NextBar
  <2>. QED BY <1>21, <2>1, SeenQuiet DEF NextBar
<1>22. ASSUME Convert PROVE SeenInv'
  <2>1. \A d \in Callers : Waits(d)
    BY <1>22 DEF Waits, Convert
  <2>. QED BY <1>22, <2>1, SeenQuiet DEF Convert
<1>23. ASSUME UNCHANGED vars PROVE SeenInv'
  <2>1. \A d \in Callers : Waits(d)
    BY <1>23 DEF Waits, vars
  <2>. QED BY <1>23, <2>1, SeenQuiet DEF vars
<1>. QED
  BY <1>1, <1>2, <1>3, <1>4, <1>5, <1>6, <1>7, <1>8, <1>9, <1>10, <1>11, <1>12, <1>13, <1>14,
     <1>15, <1>16, <1>17, <1>18, <1>19, <1>20, <1>21, <1>22, <1>23, <1>24, <1>25
  DEF Next, CallerStep, Rest

LEMMA SeenSafe == ASSUME SerialCallers PROVE Spec => []SeenInv
<1>1. Init => SeenInv
  BY DEF Init, SeenInv, Idle, NoCount, Pending
<1>2. TypeOK /\ TypeOK' /\ SeenInv /\ [Next]_vars => SeenInv'
  BY SeenStep
<1>. QED BY <1>1, <1>2, Typing, PTL DEF Spec

\* With one caller an executor reports FILLED at most once per idempotency key,
\* through every restart, refusal, retry and mode switch.
THEOREM KeysFillOnce == ASSUME SerialCallers PROVE Spec => []FillOncePerExecutor
<1>1. SeenInv => FillOncePerExecutor
  BY DEF SeenInv, FillOncePerExecutor
<1>. QED BY <1>1, SeenSafe, PTL

\* With one caller the cycles recovery marked are never filled again under their
\* bare cycle_id.
THEOREM RecoveryGuards == ASSUME SerialCallers PROVE Spec => []RecoveredCyclesStayExecuted
<1>1. SeenInv => RecoveredCyclesStayExecuted
  BY DEF SeenInv, RecoveredCyclesStayExecuted
<1>. QED BY <1>1, SeenSafe, PTL

-----------------------------------------------------------------------------
(* With one caller the ledger is what a replay of the trade rows gives.    *)

\* No write or read was lost, no convert recorded, and restarts recover.
Clean == used["lost"] = 0 /\ used["convert"] = 0 /\ (RecoverFlag \/ used["crash"] = 0)

\* The ledger is the replay of the rows, and one fill ahead of it while that fill
\* or a forced close is being recorded.
InStep(c) == ledger = IF call[c].pc \in {"recording", "closing"}
                      THEN ApplyFill(dbUnits, call[c].side, call[c].lots) ELSE dbUnits
LogInv == /\ ~up => used["crash"] > 0 /\ \A c \in Callers : call[c].pc = "idle"
          /\ Clean /\ up => \A c \in Callers : InStep(c)
          /\ \A c \in Callers : call[c].pc = "closing" => call[c].side = "sell"

\* A caller a step neither brings to the writing of a row nor takes from there.
Writing == {"recording", "closing"}
Stays(d) == /\ \A stage \in Writing : call'[d].pc = stage <=> call[d].pc = stage
            /\ call[d].pc \in Writing => /\ call'[d].side = call[d].side
                                         /\ call'[d].lots = call[d].lots
\* Nothing that broke the correspondence is ever undone.
Worse == /\ Clean' => Clean
         /\ used["crash"] > 0 => used'["crash"] > 0

LEMMA SpendWorse ==
  ASSUME TypeOK, NEW e \in Events, Spend(e)
  PROVE  Worse /\ used'[e] > 0
  BY EventType DEF TypeOK, HistoryOK, Spend, Worse, Clean

LEMMA LogQuiet ==
  ASSUME LogInv, UNCHANGED <<up, ledger, dbUnits>>, up \/ UNCHANGED call, Worse,
         \A d \in Callers : Stays(d)
  PROVE  LogInv'
  BY DEF LogInv, Stays, Writing, Worse, InStep, ApplyFill

LEMMA LogStep ==
  ASSUME SerialCallers, TypeOK, TypeOK', LogInv, [Next]_vars
  PROVE  LogInv'
<1> USE DEF memory, durable, outside, history, At, Goto
<1>0. /\ call \in [Callers -> [pc : Stages, bar : Bars, kind : Kinds, side : {"buy", "sell"},
                                lots : Nat, rung : 1..Rungs, tid : BOOLEAN, mode : Modes,
                                own : BOOLEAN]]
      /\ used \in [Events -> Nat]
  BY DEF TypeOK, Call, HistoryOK
<1>a. UNCHANGED used => Worse
  BY DEF Worse, Clean
<1>1. ASSUME NEW c \in Callers, Begin(c) PROVE LogInv'
  <2>1. \A d \in Callers : Stays(d)
    BY <1>0, <1>1 DEF Stays, Writing, Begin, Idle
  <2>2. Worse
    BY <1>1, SpendWorse, EventType, <1>a DEF Begin
  <2>. QED BY <1>1, <2>1, <2>2, LogQuiet DEF Begin
<1>2. ASSUME NEW c \in Callers, SyncMode(c) PROVE LogInv'
  <2>1. \A d \in Callers : Stays(d)
    BY <1>0, <1>2 DEF Stays, Writing, SyncMode
  <2>2. Worse
    BY <1>2, SpendWorse, EventType, <1>a DEF SyncMode
  <2>. QED BY <1>2, <2>1, <2>2, LogQuiet DEF SyncMode
<1>24. ASSUME NEW c \in Callers, Switch(c) PROVE LogInv'
  <2>1. \A d \in Callers : Stays(d)
    BY <1>0, <1>24 DEF Stays, Writing, Switch
  <2>. QED BY <1>24, <1>a, <2>1, LogQuiet DEF Switch
<1>3. ASSUME NEW c \in Callers, Gates(c) PROVE LogInv'
  <2>1. \A d \in Callers : Stays(d)
    BY <1>0, <1>3 DEF Stays, Writing, Gates
  <2>2. Worse
    BY <1>3, SpendWorse, EventType, <1>a DEF Gates
  <2>. QED BY <1>3, <2>1, <2>2, LogQuiet DEF Gates
<1>4. ASSUME NEW c \in Callers, Autopilot(c) PROVE LogInv'
  <2>0. call[c].pc \notin Writing
    BY <1>4 DEF Autopilot, Writing
  <2>1. ASSUME NEW stage \in Stages \ Writing, Goto(c, stage)
        PROVE  \A d \in Callers : Stays(d)
    BY <1>0, <2>0, <2>1 DEF Stays, Writing
  <2>2. ASSUME NEW kind, NEW side, NEW lots, Order(c, kind, side, lots)
        PROVE  \A d \in Callers : Stays(d)
    BY <2>0, <2>2, OrderEffect DEF Stays, Writing
  <2>3. \A d \in Callers : Stays(d)
    BY <1>4, <2>1, <2>2, StageType DEF Autopilot, Writing
  <2>. QED BY <1>4, <1>a, <2>3, LogQuiet DEF Autopilot
<1>5. ASSUME NEW c \in Callers, Kol(c) PROVE LogInv'
  <2>0. call[c].pc \notin Writing
    BY <1>5 DEF Kol, Writing
  <2>1. ASSUME NEW stage \in Stages \ Writing, Goto(c, stage)
        PROVE  \A d \in Callers : Stays(d)
    BY <1>0, <2>0, <2>1 DEF Stays, Writing
  <2>2. ASSUME NEW kind, NEW side, NEW lots, Order(c, kind, side, lots)
        PROVE  \A d \in Callers : Stays(d)
    BY <2>0, <2>2, OrderEffect DEF Stays, Writing
  <2>3. \A d \in Callers : Stays(d)
    BY <1>5, <2>1, <2>2, StageType DEF Kol, Writing
  <2>. QED BY <1>5, <1>a, <2>3, LogQuiet DEF Kol
<1>6. ASSUME NEW c \in Callers, Strategy(c) PROVE LogInv'
  <2>0. call[c].pc \notin Writing
    BY <1>6 DEF Strategy, Writing
  <2>1. ASSUME NEW stage \in Stages \ Writing, Goto(c, stage)
        PROVE  \A d \in Callers : Stays(d)
    BY <1>0, <2>0, <2>1 DEF Stays, Writing
  <2>2. ASSUME NEW kind, NEW side, NEW lots, Order(c, kind, side, lots)
        PROVE  \A d \in Callers : Stays(d)
    BY <2>0, <2>2, OrderEffect DEF Stays, Writing
  <2>3. \A d \in Callers : Stays(d)
    BY <1>6, <2>1, <2>2, StageType DEF Strategy, Writing
  <2>. QED BY <1>6, <1>a, <2>3, LogQuiet DEF Strategy
<1>7. ASSUME NEW c \in Callers, Activity(c) PROVE LogInv'
  <2>0. call[c].pc \notin Writing
    BY <1>7 DEF Activity, Writing
  <2>1. ASSUME NEW stage \in Stages \ Writing, Goto(c, stage)
        PROVE  \A d \in Callers : Stays(d)
    BY <1>0, <2>0, <2>1 DEF Stays, Writing
  <2>2. ASSUME NEW kind, NEW side, NEW lots, Order(c, kind, side, lots)
        PROVE  \A d \in Callers : Stays(d)
    BY <2>0, <2>2, OrderEffect DEF Stays, Writing
  <2>3. \A d \in Callers : Stays(d)
    BY <1>7, <2>1, <2>2, StageType DEF Activity, Writing
  <2>. QED BY <1>7, <1>a, <2>3, LogQuiet DEF Activity
<1>8. ASSUME NEW c \in Callers, Submit(c) PROVE LogInv'
  <2>1. \A d \in Callers : Stays(d)
    BY <1>0, <1>8 DEF Stays, Writing, Submit, After
  <2>2. Worse
    BY <1>8, SpendWorse, EventType, <1>a DEF Submit
  <2>. QED BY <1>8, <2>1, <2>2, LogQuiet DEF Submit
<1>9. ASSUME NEW c \in Callers, Refuse(c) PROVE LogInv'
  <2>1. \A d \in Callers : Stays(d)
    BY <1>0, <1>9 DEF Stays, Writing, Refuse, After
  <2>2. Worse
    BY <1>9, SpendWorse, EventType, <1>a DEF Refuse
  <2>. QED BY <1>9, <2>1, <2>2, LogQuiet DEF Refuse
<1>10. ASSUME NEW c \in Callers, RugRaise(c) PROVE LogInv'
  <2>1. \A d \in Callers : Stays(d)
    BY <1>0, <1>10 DEF Stays, Writing, RugRaise, Idle
  <2>2. Worse
    BY <1>10, SpendWorse, EventType, <1>a DEF RugRaise
  <2>. QED BY <1>10, <2>1, <2>2, LogQuiet DEF RugRaise
<1>11. ASSUME NEW c \in Callers, Swap(c) PROVE LogInv'
  <2>1. \A d \in Callers : Stays(d)
    BY <1>0, <1>11 DEF Stays, Writing, Swap
  <2>2. Worse
    BY <1>11, SpendWorse, EventType, <1>a DEF Swap
  <2>. QED BY <1>11, <2>1, <2>2, LogQuiet DEF Swap
<1>12. ASSUME NEW c \in Callers, Confirm(c) PROVE LogInv'
  <2>1. \A d \in Callers : Stays(d)
    BY <1>0, <1>12 DEF Stays, Writing, Confirm
  <2>2. Worse
    BY <1>12, SpendWorse, EventType, <1>a DEF Confirm
  <2>. QED BY <1>12, <2>1, <2>2, LogQuiet DEF Confirm
<1>13. ASSUME NEW c \in Callers, Unconfirmed(c) PROVE LogInv'
  <2>1. \A d \in Callers : Stays(d)
    BY <1>0, <1>13 DEF Stays, Writing, Unconfirmed, After
  <2>2. Worse
    BY <1>13, SpendWorse, EventType, <1>a DEF Unconfirmed
  <2>. QED BY <1>13, <2>1, <2>2, LogQuiet DEF Unconfirmed
<1>14. ASSUME NEW c \in Callers, NoHash(c) PROVE LogInv'
  <2>1. \A d \in Callers : Stays(d)
    BY <1>0, <1>14 DEF Stays, Writing, NoHash, After
  <2>2. Worse
    BY <1>14, SpendWorse, EventType, <1>a DEF NoHash
  <2>. QED BY <1>14, <2>1, <2>2, LogQuiet DEF NoHash
<1>15. ASSUME NEW c \in Callers, Book(c) PROVE LogInv'
  <2>1. Clean' => ledger = dbUnits
    BY <1>15 DEF Book, LogInv, InStep, Clean
  <2>2. \A d \in Callers : /\ d = c /\ call'[d].pc = "recording"
                           /\ call'[d].side = call[d].side /\ call'[d].lots = call[d].lots
    BY <1>0, <1>15 DEF Book, SerialCallers
  <2>. QED BY <1>15, <2>1, <2>2 DEF Book, LogInv, InStep
<1>16. ASSUME NEW c \in Callers, Record(c) PROVE LogInv'
  <2>1. \A d \in Callers : d = c /\ call'[d].pc \notin Writing
    BY <1>0, <1>16 DEF Record, After, SerialCallers, Writing
  <2>2. \/ UNCHANGED used /\ dbUnits' = ApplyFill(dbUnits, call[c].side, call[c].lots)
        \/ Spend("lost")
    BY <1>16 DEF Record
  <2>3. Clean' => Clean /\ dbUnits' = ApplyFill(dbUnits, call[c].side, call[c].lots)
    BY <2>2, SpendWorse, EventType, <1>a DEF Worse, Clean
  <2>. QED BY <1>16, <2>1, <2>3 DEF Record, LogInv, InStep, Writing
<1>17. ASSUME NEW c \in Callers, Decide(c) PROVE LogInv'
  <2>1. \A d \in Callers : Stays(d)
    BY <1>0, <1>17 DEF Stays, Writing, Decide
  <2>2. Worse
    BY <1>17, SpendWorse, EventType, <1>a DEF Decide
  <2>. QED BY <1>17, <2>1, <2>2, LogQuiet DEF Decide
<1>18. ASSUME NEW c \in Callers, Snapshot(c) PROVE LogInv'
  <2>1. CASE Return(c) /\ UNCHANGED ledger
    <3>1. \A d \in Callers : Stays(d)
      BY <1>0, <1>18, <2>1 DEF Stays, Writing, Snapshot, Return, Idle
    <3>. QED BY <1>18, <1>a, <2>1, <3>1, LogQuiet DEF Snapshot
  <2>2. CASE /\ ledger' = 0
             /\ call' = [call EXCEPT ![c] = [@ EXCEPT !.pc = "closing", !.side = "sell",
                                                      !.lots = ledger]]
    <3>1. /\ \A d \in Callers : d = c
          /\ call'[c].pc = "closing" /\ call'[c].side = "sell" /\ call'[c].lots = ledger
          /\ call[c].pc = "snapshot"
      BY <1>0, <1>18, <2>2 DEF Snapshot, SerialCallers
    <3>2. UNCHANGED <<up, dbUnits, used>> /\ up
      BY <1>18 DEF Snapshot
    <3>3. Clean' => ledger = dbUnits
      BY <3>1, <3>2 DEF LogInv, InStep, Clean
    <3>4. ledger \in Nat
      BY DEF TypeOK, MemoryOK
    <3>5. Clean' => ledger' = ApplyFill(dbUnits, "sell", ledger)
      BY <2>2, <3>3, <3>4 DEF ApplyFill
    <3>. QED BY <3>1, <3>2, <3>5 DEF LogInv, InStep
  <2>. QED BY <1>18, <2>1, <2>2 DEF Snapshot
<1>25. ASSUME NEW c \in Callers, CloseRow(c) PROVE LogInv'
  <2>1. \A d \in Callers : d = c /\ call'[d].pc = "idle"
    BY <1>0, <1>25 DEF CloseRow, Return, Idle, SerialCallers
  <2>2. \/ UNCHANGED used /\ dbUnits' = ApplyFill(dbUnits, "sell", call[c].lots)
        \/ Spend("lost")
    BY <1>25 DEF CloseRow
  <2>3. Clean' => Clean /\ dbUnits' = ApplyFill(dbUnits, "sell", call[c].lots)
    BY <2>2, SpendWorse, EventType, <1>a DEF Worse, Clean
  <2>4. up /\ UNCHANGED <<up, ledger>> /\ call[c].pc = "closing"
    BY <1>25 DEF CloseRow
  <2>. QED BY <2>1, <2>3, <2>4 DEF LogInv, InStep
<1>19. ASSUME Crash PROVE LogInv'
  <2>1. used'["crash"] > 0
    BY <1>19, SpendWorse, EventType DEF Crash
  <2>. QED BY <1>19, <2>1 DEF Crash, LogInv, Idle
<1>20. ASSUME Boot PROVE LogInv'
  <2>1. \A c \in Callers : call'[c].pc = "idle"
    BY <1>20 DEF Boot, LogInv
  <2>2. Worse /\ used["crash"] > 0
    BY <1>20, SpendWorse, EventType, <1>a DEF Boot, LogInv
  <2>3. Clean' => RecoverFlag
    BY <2>2 DEF Worse, Clean
  <2>4. Spend("lost") => ~Clean'
    BY SpendWorse, EventType DEF Clean
  <2>5. Clean' => ledger' = dbUnits'
    BY <1>20, <2>3, <2>4 DEF Boot, Replay
  <2>. QED BY <1>20, <2>1, <2>5 DEF Boot, LogInv, InStep
<1>21. ASSUME NextBar PROVE LogInv'
  <2>1. \A d \in Callers : Stays(d)
    BY <1>21 DEF Stays, Writing, NextBar
  <2>. QED BY <1>21, <1>a, <2>1, LogQuiet DEF NextBar
<1>22. ASSUME Convert PROVE LogInv'
  <2>1. ~Clean'
    BY <1>22, SpendWorse, EventType DEF Convert, Clean
  <2>. QED BY <1>22, <2>1 DEF Convert, LogInv
<1>23. ASSUME UNCHANGED vars PROVE LogInv'
  <2>1. \A d \in Callers : Stays(d)
    BY <1>23 DEF Stays, Writing, vars
  <2>. QED BY <1>23, <1>a, <2>1, LogQuiet DEF vars
<1>. QED
  BY <1>1, <1>2, <1>3, <1>4, <1>5, <1>6, <1>7, <1>8, <1>9, <1>10, <1>11, <1>12, <1>13, <1>14,
     <1>15, <1>16, <1>17, <1>18, <1>19, <1>20, <1>21, <1>22, <1>23, <1>24, <1>25
  DEF Next, CallerStep, Rest

LEMMA LogSafe == ASSUME SerialCallers PROVE Spec => []LogInv
<1>1. Init => LogInv
  BY DEF Init, LogInv, InStep, Idle
<1>2. TypeOK /\ TypeOK' /\ LogInv /\ [Next]_vars => LogInv'
  BY LogStep
<1>. QED BY <1>1, <1>2, Typing, PTL DEF Spec

\* With one caller the position a restart would replay from the trade rows is the
\* position held, between any two calls, unless a call to the tables was lost, a
\* convert was recorded, or a restart did not recover.
THEOREM LedgerIsReplay == ASSUME SerialCallers PROVE Spec => []BooksMatchLog
<1>1. LogInv => BooksMatchLog
  BY CallersAssumption DEF LogInv, BooksMatchLog, InStep, Clean, AtRest
<1>. QED BY <1>1, LogSafe, PTL
-----------------------------------------------------------------------------
(* Faults are never undone.                                                *)

LEMMA SpendCounts ==
  ASSUME TypeOK, NEW e \in Events, Spend(e)
  PROVE  /\ used'[e] > 0 /\ \A f \in Events : used[f] <= used'[f]
         /\ \A f \in Events \ {e} : used'[f] = used[f]
  BY DEF TypeOK, HistoryOK, Spend

\* Whatever a step does, it spends an event at most.
LEMMA StepSpends ==
  ASSUME [Next]_vars
  PROVE  UNCHANGED used \/ \E e \in Events : Spend(e)
<1> USE EventType DEF vars, memory, durable, outside, history
<1>1. ASSUME NEW c \in Callers, CallerStep(c)
      PROVE  UNCHANGED used \/ \E e \in Events : Spend(e)
  <2>1. CASE Begin(c) \/ SyncMode(c) \/ Switch(c) \/ Gates(c) \/ Autopilot(c) \/ Kol(c) \/ Strategy(c)
    BY <2>1 DEF Begin, SyncMode, Switch, Gates, Autopilot, Kol, Strategy
  <2>2. CASE Activity(c) \/ Submit(c) \/ Refuse(c) \/ RugRaise(c) \/ Swap(c) \/ Confirm(c)
    BY <2>2 DEF Activity, Submit, Refuse, RugRaise, Swap, Confirm
  <2>3. CASE Unconfirmed(c) \/ NoHash(c) \/ Book(c) \/ Record(c) \/ Decide(c) \/ Snapshot(c)
             \/ CloseRow(c)
    BY <2>3 DEF Unconfirmed, NoHash, Book, Record, Decide, Snapshot, CloseRow
  <2>. QED BY <1>1, <2>1, <2>2, <2>3 DEF CallerStep
<1>2. CASE Crash \/ Boot \/ NextBar \/ Convert \/ Rest \/ UNCHANGED vars
  BY <1>2 DEF Crash, Boot, NextBar, Convert, Rest
<1>. QED BY <1>1, <1>2 DEF Next

LEMMA FaultsGrow ==
  ASSUME TypeOK, [Next]_vars
  PROVE  \A e \in Events : used[e] <= used'[e]
<1>1. CASE UNCHANGED used
  BY <1>1 DEF TypeOK, HistoryOK
<1>. QED BY <1>1, StepSpends, SpendCounts

-----------------------------------------------------------------------------
(* The position keeps the mode it was opened in.                           *)

\* The steps that touch the position, its mode or the process.
LEMMA PositionSteps ==
  ASSUME [Next]_vars
  PROVE  \/ UNCHANGED <<up, mode, ledger, posMode>>
         \/ \E c \in Callers : Switch(c) \/ Book(c) \/ Snapshot(c)
         \/ Crash \/ Boot
<1> USE DEF vars, memory, durable, outside, history
<1>1. ASSUME NEW c \in Callers, CallerStep(c), ~(Switch(c) \/ Book(c) \/ Snapshot(c))
      PROVE  UNCHANGED <<up, mode, ledger, posMode>>
  <2>1. CASE Begin(c) \/ SyncMode(c) \/ Gates(c) \/ Autopilot(c) \/ Kol(c) \/ Strategy(c)
    BY <2>1 DEF Begin, SyncMode, Gates, Autopilot, Kol, Strategy
  <2>2. CASE Activity(c) \/ Submit(c) \/ Refuse(c) \/ RugRaise(c) \/ Swap(c) \/ Confirm(c)
    BY <2>2 DEF Activity, Submit, Refuse, RugRaise, Swap, Confirm
  <2>3. CASE Unconfirmed(c) \/ NoHash(c) \/ Record(c) \/ Decide(c) \/ CloseRow(c)
    BY <2>3 DEF Unconfirmed, NoHash, Record, Decide, CloseRow
  <2>. QED BY <1>1, <2>1, <2>2, <2>3 DEF CallerStep
<1>2. CASE NextBar \/ Convert \/ Rest \/ UNCHANGED vars
  BY <1>2 DEF NextBar, Convert, Rest
<1>. QED BY <1>1, <1>2 DEF Next

\* With one caller the executor a call holds is the present one, and the position is
\* still flat, and the toggle counted, when the switch is made.
HeldInv == \A c \in Callers :
              /\ call[c].pc \in Pending => call[c].mode = mode
              /\ call[c].pc = "switching" => ledger = 0 /\ used["mode"] > 0

LEMMA HeldStep ==
  ASSUME SerialCallers, TypeOK, TypeOK', LogInv, HeldInv, [Next]_vars
  PROVE  HeldInv'
<1> USE DEF memory, durable, outside, history, At, Goto, Pending
<1>0. /\ call \in [Callers -> [pc : Stages, bar : Bars, kind : Kinds, side : {"buy", "sell"},
                                lots : Nat, rung : 1..Rungs, tid : BOOLEAN, mode : Modes,
                                own : BOOLEAN]]
      /\ used["mode"] \in Nat /\ used["mode"] <= used'["mode"]
  BY FaultsGrow, EventType DEF TypeOK, Call, HistoryOK
<1>a. ASSUME NEW c \in Callers, call'[c].pc \notin Pending \cup {"switching"}
      PROVE  HeldInv'
  BY <1>a DEF HeldInv, SerialCallers
<1>b. ASSUME NEW c \in Callers,
             \/ \E stage \in Stages \ (Pending \cup {"switching"}) : Goto(c, stage)
             \/ \E kind, side, lots : Order(c, kind, side, lots)
      PROVE  HeldInv'
  <2>1. call'[c].pc \notin Pending \cup {"switching"}
    <3>1. ASSUME NEW stage \in Stages \ (Pending \cup {"switching"}), Goto(c, stage)
          PROVE  call'[c].pc \notin Pending \cup {"switching"}
      BY <1>0, <3>1
    <3>2. ASSUME NEW kind, NEW side, NEW lots, Order(c, kind, side, lots)
          PROVE  call'[c].pc \notin Pending \cup {"switching"}
      BY <3>2, OrderEffect
    <3>. QED BY <1>b, <3>1, <3>2
  <2>. QED BY <1>a, <2>1
<1>1. ASSUME NEW c \in Callers, Gates(c) \/ Autopilot(c) \/ Kol(c) \/ Strategy(c) \/ Activity(c)
      PROVE  HeldInv'
  BY <1>1, <1>b, StageType DEF Gates, Autopilot, Kol, Strategy, Activity
<1>2. ASSUME NEW c \in Callers, Refuse(c) \/ Unconfirmed(c) \/ Book(c) \/ Decide(c)
      PROVE  HeldInv'
  BY <1>2, <1>b, StageType DEF Refuse, Unconfirmed, Book, Decide, After
<1>3. ASSUME NEW c \in Callers, Begin(c) \/ Switch(c) \/ RugRaise(c) \/ Record(c)
      PROVE  HeldInv'
  <2>1. call'[c].pc \notin Pending \cup {"switching"}
    <3>1. CASE Begin(c)
      BY <1>0, <3>1 DEF Begin, Idle
    <3>2. CASE Switch(c)
      BY <1>0, <3>2 DEF Switch
    <3>3. CASE RugRaise(c)
      BY <1>0, <3>3 DEF RugRaise, Idle
    <3>4. CASE Record(c)
      BY <1>0, <3>4 DEF Record, After
    <3>. QED BY <1>3, <3>1, <3>2, <3>3, <3>4
  <2>. QED BY <1>a, <2>1
<1>4. ASSUME NEW c \in Callers, Snapshot(c) \/ CloseRow(c) PROVE HeldInv'
  <2>1. call'[c].pc \notin Pending \cup {"switching"}
    <3>1. CASE Snapshot(c)
      BY <3>1, SnapshotEffect DEF Idle
    <3>2. CASE CloseRow(c)
      BY <1>0, <3>2 DEF CloseRow, Return, Idle
    <3>. QED BY <1>4, <3>1, <3>2
  <2>. QED BY <1>a, <2>1
<1>5. ASSUME NEW c \in Callers, SyncMode(c) PROVE HeldInv'
  <2>1. CASE Goto(c, "gates")
    BY <1>b, <2>1, StageType
  <2>2. CASE ledger = 0 /\ Spend("mode")
    <3>1. used'["mode"] > 0 /\ UNCHANGED <<ledger, mode>>
      BY <1>5, <2>2, SpendCounts, EventType DEF SyncMode
    <3>2. call'[c].pc \in {"gates", "switching"} /\ \A d \in Callers : d = c
      BY <1>0, <1>5 DEF SyncMode, SerialCallers
    <3>. QED BY <2>2, <3>1, <3>2 DEF HeldInv
  <2>. QED BY <1>5, <2>1, <2>2 DEF SyncMode
<1>6. ASSUME NEW c \in Callers, Submit(c) PROVE HeldInv'
  <2>1. call'[c].mode = mode /\ mode' = mode /\ call'[c].pc # "switching"
    BY <1>0, <1>6 DEF Submit, After
  <2>. QED BY <2>1 DEF HeldInv, SerialCallers
<1>7. ASSUME NEW c \in Callers, Swap(c) \/ Confirm(c) \/ NoHash(c) PROVE HeldInv'
  <2>1. /\ call'[c].mode = call[c].mode /\ mode' = mode /\ call'[c].pc # "switching"
        /\ call[c].pc \in Pending
    <3>1. CASE Swap(c)
      BY <3>1, GotoEffect DEF Swap
    <3>2. CASE Confirm(c)
      BY <3>2, GotoEffect DEF Confirm
    <3>3. CASE NoHash(c)
      <4>1. call[c].pc = "confirming" /\ mode' = mode
        BY <3>3 DEF NoHash
      <4>. QED BY <3>3, <4>1, NoHashEffect DEF After
    <3>. QED BY <1>7, <3>1, <3>2, <3>3
  <2>. QED BY <2>1 DEF HeldInv, SerialCallers
<1>8. CASE Crash
  BY <1>8 DEF Crash, HeldInv, Idle
<1>9. CASE Boot
  <2>1. \A c \in Callers : call'[c].pc = "idle"
    BY <1>9 DEF Boot, LogInv
  <2>. QED BY <2>1 DEF HeldInv
<1>10. CASE NextBar \/ Convert \/ Rest \/ UNCHANGED vars
  <2>1. UNCHANGED <<call, mode, ledger>>
    BY <1>10 DEF NextBar, Convert, Rest, vars
  <2>2. used["mode"] > 0 => used'["mode"] > 0
    BY <1>0, FaultsGrow, EventType DEF TypeOK, HistoryOK
  <2>. QED BY <2>1, <2>2 DEF HeldInv
<1>. QED BY <1>1, <1>2, <1>3, <1>4, <1>5, <1>6, <1>7, <1>8, <1>9, <1>10 DEF Next, CallerStep

LEMMA HeldSafe == ASSUME SerialCallers PROVE Spec => []HeldInv
<1>1. Init => HeldInv
  BY DEF Init, HeldInv, Idle, Pending
<1>2. TypeOK /\ TypeOK' /\ LogInv /\ HeldInv /\ [Next]_vars => HeldInv'
  BY HeldStep
<1>. QED BY <1>1, <1>2, Typing, LogSafe, PTL DEF Spec

\* A process that is down has crashed.
ModeInv == (~up => used["crash"] > 0) /\ ModeConsistent

LEMMA ModeStep ==
  ASSUME TypeOK, TypeOK', HeldInv, ModeInv, [Next]_vars
  PROVE  ModeInv'
<1> USE DEF ModeInv, ModeConsistent
<1>0. /\ used["crash"] \in Nat /\ used'["crash"] \in Nat /\ used["crash"] <= used'["crash"]
      /\ ledger \in Nat
  BY FaultsGrow, EventType DEF TypeOK, HistoryOK, MemoryOK
<1>1. CASE UNCHANGED <<up, mode, ledger, posMode>>
  BY <1>0, <1>1
<1>2. ASSUME NEW c \in Callers, Switch(c) PROVE ModeInv'
  BY <1>0, <1>2 DEF Switch, At, HeldInv
<1>3. ASSUME NEW c \in Callers, Book(c) PROVE ModeInv'
  <2>0. call[c].lots \in Nat
    BY DEF TypeOK, Call
  <2>1. up /\ up' /\ mode' = mode /\ call[c].mode = mode
    BY <1>3 DEF Book, At, HeldInv, Pending
  <2>2. CASE ledger = 0
    BY <1>0, <1>3, <2>0, <2>1, <2>2 DEF Book, ApplyFill
  <2>3. CASE ledger > 0
    BY <1>0, <1>3, <2>1, <2>3 DEF Book
  <2>. QED BY <1>0, <2>2, <2>3
<1>4. ASSUME NEW c \in Callers, Snapshot(c) PROVE ModeInv'
  BY <1>0, <1>4 DEF Snapshot, At, history
<1>5. ASSUME Crash \/ Boot PROVE ModeInv'
  BY <1>0, <1>5, SpendCounts, EventType DEF Crash, Boot
<1>. QED BY <1>1, <1>2, <1>3, <1>4, <1>5, PositionSteps

\* With one caller an open position is managed in the mode of the executor that bought
\* it until the process restarts, whatever the toggle does: the switch happens only
\* while flat, and the first fill after it takes the new mode (_sync_trading_mode,
\* loop.py:452).
THEOREM PositionKeepsMode == ASSUME SerialCallers PROVE Spec => []ModeConsistent
<1>1. Init => ModeInv
  BY DEF Init, ModeInv, ModeConsistent
<1>2. TypeOK /\ TypeOK' /\ HeldInv /\ ModeInv /\ [Next]_vars => ModeInv'
  BY ModeStep
<1>3. ModeInv => ModeConsistent
  BY DEF ModeInv
<1>. QED BY <1>1, <1>2, <1>3, Typing, HeldSafe, PTL DEF Spec

-----------------------------------------------------------------------------
(* What a restart finds.                                                   *)

\* A process that went down between two trades, its calls to the tables answered,
\* left rows that give back its position.
KeptInv == ~up /\ ~torn /\ Clean => ledger = dbUnits

LEMMA CleanBefore == ASSUME TypeOK, [Next]_vars, Clean' PROVE Clean
  BY FaultsGrow, EventType DEF Clean, TypeOK, HistoryOK

\* The steps of the process, of which a dead one takes none.
LEMMA DownSteps ==
  ASSUME [Next]_vars, ~up
  PROVE  Boot \/ UNCHANGED <<up, torn, ledger, dbUnits>>
<1> USE DEF vars, memory, durable, outside, history
<1>1. ASSUME NEW c \in Callers, CallerStep(c) PROVE FALSE
  BY <1>1 DEF CallerStep, At, Begin, SyncMode, Gates, Autopilot, Kol, Strategy, Activity, Submit,
              Refuse, RugRaise, Swap, Confirm, Unconfirmed, NoHash, Book, Record, Decide, Snapshot,
              Switch, CloseRow
<1>2. CASE Crash \/ Boot \/ NextBar \/ Convert \/ Rest \/ UNCHANGED vars
  BY <1>2 DEF Crash, Boot, NextBar, Convert, Rest
<1>. QED BY <1>1, <1>2 DEF Next

LEMMA CrashStep ==
  ASSUME SerialCallers, LogInv, up, Clean, Crash, ~torn'
  PROVE  ledger' = dbUnits' /\ \A c \in Callers : call[c].pc \notin InFlight \cup {"closing"}
<1>1. \A c \in Callers : call[c].pc \notin InFlight \cup {"closing"}
  BY DEF Crash, InFlight
<1>2. \A c \in Callers : ledger = dbUnits
  BY <1>1 DEF LogInv, InStep, InFlight
<1>. QED BY <1>1, <1>2, CallersAssumption DEF Crash, durable

\* Only a crash takes the process down.
LEMMA UpSteps ==
  ASSUME [Next]_vars, up, ~up'
  PROVE  Crash
<1> USE DEF vars, memory, durable, outside, history
<1>1. ASSUME NEW c \in Callers, CallerStep(c) PROVE up' = up
  <2>1. CASE Begin(c) \/ Gates(c) \/ Autopilot(c) \/ Kol(c) \/ Strategy(c) \/ SyncMode(c)
         \/ Switch(c)
    BY <2>1 DEF Begin, Gates, Autopilot, Kol, Strategy, SyncMode, Switch
  <2>2. CASE Activity(c) \/ Submit(c) \/ Refuse(c) \/ RugRaise(c) \/ Swap(c) \/ Confirm(c)
    BY <2>2 DEF Activity, Submit, Refuse, RugRaise, Swap, Confirm
  <2>3. CASE Unconfirmed(c) \/ NoHash(c) \/ Record(c) \/ Decide(c) \/ Book(c) \/ Snapshot(c)
         \/ CloseRow(c)
    BY <2>3 DEF Unconfirmed, NoHash, Record, Decide, Book, Snapshot, CloseRow
  <2>. QED BY <1>1, <2>1, <2>2, <2>3 DEF CallerStep
<1>2. CASE Boot \/ NextBar \/ Convert \/ Rest \/ UNCHANGED vars
  BY <1>2 DEF Boot, NextBar, Convert, Rest
<1>. QED BY <1>1, <1>2 DEF Next

LEMMA KeptStep ==
  ASSUME SerialCallers, TypeOK, LogInv, KeptInv, [Next]_vars
  PROVE  KeptInv'
<1> SUFFICES ASSUME ~up', ~torn', Clean' PROVE ledger' = dbUnits'
  BY DEF KeptInv
<1>0. Clean
  BY CleanBefore
<1>1. CASE up
  BY <1>0, <1>1, UpSteps, CrashStep
<1>2. CASE ~up
  <2>1. ~Boot
    BY DEF Boot
  <2>. QED BY <1>0, <1>2, <2>1, DownSteps DEF KeptInv
<1>. QED BY <1>1, <1>2

LEMMA KeptSafe == ASSUME SerialCallers PROVE Spec => []KeptInv
<1>1. Init => KeptInv
  BY DEF Init, KeptInv
<1>2. TypeOK /\ LogInv /\ KeptInv /\ [Next]_vars => KeptInv'
  BY KeptStep
<1>. QED BY <1>1, <1>2, Typing, LogSafe, PTL DEF Spec

LEMMA BootReplays ==
  ASSUME TypeOK, Boot, RecoverFlag, used'["lost"] = 0
  PROVE  ledger' = dbUnits /\ UNCHANGED used
<1>1. Spend("lost") => used'["lost"] > 0
  BY SpendCounts, EventType
<1>. QED BY <1>1 DEF Boot, Replay

\* A restart that recovers resumes with the position the process died with: with one
\* caller, unless the crash fell between a swap or a forced close and its row, a call to
\* the tables was lost or a convert recorded (recovery.py:37).
THEOREM RestartsResume == ASSUME SerialCallers PROVE Spec => RestartKeepsPosition
<1> DEFINE Resumes == (/\ ~up /\ up' /\ RecoverFlag /\ ~torn
                       /\ used'["lost"] = 0 /\ used["convert"] = 0) => ledger' = ledger
<1>1. TypeOK /\ KeptInv /\ [Next]_vars => [Resumes]_vars
  <2> SUFFICES ASSUME TypeOK, KeptInv, [Next]_vars, ~up, up', RecoverFlag, ~torn,
                      used'["lost"] = 0, used["convert"] = 0
               PROVE  ledger' = ledger
    OBVIOUS
  <2>1. Boot
    BY DownSteps
  <2>2. ledger' = dbUnits /\ UNCHANGED used
    BY <2>1, BootReplays
  <2>3. Clean
    BY <2>2 DEF Clean
  <2>. QED BY <2>2, <2>3 DEF KeptInv
<1>. QED BY <1>1, Typing, KeptSafe, PTL DEF Spec, RestartKeepsPosition
-----------------------------------------------------------------------------
(* How a call moves.                                                       *)

\* Where a call that is not being begun, refused or abandoned has come to.
Walked(c, stages) == /\ \A d \in Callers \ {c} : call'[d] = call[d]
                     /\ call'[c].pc \in stages
                     /\ call'[c].pc # "idle" => call'[c].bar = call[c].bar
Ahead == {"switching", "gates", "autopilot", "kol", "strategy", "activity", "finalise", "snapshot",
          "closing", "idle"}

\* What is sent, awaited or booked is the order that was placed.
SameOrder(c) == /\ call'[c].kind = call[c].kind /\ call'[c].side = call[c].side
                /\ call'[c].lots = call[c].lots

LEMMA DecidingWalk ==
  ASSUME TypeOK, NEW c \in Callers,
         SyncMode(c) \/ Gates(c) \/ Autopilot(c) \/ Kol(c) \/ Strategy(c) \/ Activity(c) \/ Decide(c)
  PROVE  /\ Walked(c, Ahead \cup {"submit"})
         /\ call[c].pc \in Ahead \cup {"sync"}
         /\ call'[c].pc = "submit" /\ call'[c].kind = "activity" => Activity(c)
<1> USE DEF Walked, Ahead, At
<1>1. CASE Gates(c) \/ Decide(c)
  BY <1>1, GotoEffect DEF Gates, Decide
<1>6. CASE SyncMode(c)
  BY <1>6, SyncModeEffect DEF SyncMode
<1>2. CASE Autopilot(c)
  BY <1>2, GotoEffect, OrderEffect DEF Autopilot
<1>3. CASE Kol(c)
  BY <1>3, GotoEffect, OrderEffect DEF Kol
<1>4. CASE Strategy(c)
  BY <1>4, GotoEffect, OrderEffect DEF Strategy
<1>5. CASE Activity(c)
  BY <1>5, GotoEffect, OrderEffect DEF Activity
<1>. QED BY <1>1, <1>2, <1>3, <1>4, <1>5, <1>6

LEMMA SubmitWalk ==
  ASSUME TypeOK, NEW c \in Callers, Submit(c)
  PROVE  Walked(c, Ahead \cup {"sending"}) /\ SameOrder(c) /\ call[c].pc = "submit"
  BY DEF Submit, TypeOK, Call, Walked, Ahead, SameOrder, After, At

LEMMA RefuseWalk ==
  ASSUME TypeOK, NEW c \in Callers, Refuse(c)
  PROVE  Walked(c, Ahead) /\ call[c].pc = "sending"
  BY GotoEffect DEF Refuse, Walked, Ahead, After, At

LEMMA RugWalk ==
  ASSUME TypeOK, NEW c \in Callers, RugRaise(c)
  PROVE  /\ \A d \in Callers \ {c} : call'[d] = call[d]
         /\ call'[c].pc = "idle" \/ (call'[c].pc = "strategy" /\ call'[c].bar = call[c].bar)
         /\ call[c].pc = "sending"
<1>1. call[c] \in Call /\ call \in [Callers -> Call]
  BY DEF TypeOK
<1>2. \/ call'[c] = [call[c] EXCEPT !.pc = "strategy"]
      \/ call'[c] = Idle
  BY <1>1 DEF RugRaise
<1>3. \A d \in Callers \ {c} : call'[d] = call[d]
  BY <1>1 DEF RugRaise
<1>4. [call[c] EXCEPT !.pc = "strategy"].pc = "strategy"
      /\ [call[c] EXCEPT !.pc = "strategy"].bar = call[c].bar
  BY <1>1 DEF Call
<1>5. Idle.pc = "idle" /\ call[c].pc = "sending"
  BY DEF Idle, RugRaise, At
<1>. QED BY <1>2, <1>3, <1>4, <1>5

LEMMA SwapWalk ==
  ASSUME TypeOK, NEW c \in Callers, Swap(c)
  PROVE  /\ Walked(c, {"confirming", "booking"}) /\ SameOrder(c) /\ call[c].pc = "sending"
  BY GotoEffect DEF Swap, Walked, SameOrder, At

LEMMA ConfirmWalk ==
  ASSUME TypeOK, NEW c \in Callers, Confirm(c)
  PROVE  Walked(c, {"booking"}) /\ SameOrder(c) /\ call[c].pc = "confirming"
  BY GotoEffect DEF Confirm, Walked, SameOrder, At

LEMMA BookWalk ==
  ASSUME TypeOK, NEW c \in Callers, Book(c)
  PROVE  Walked(c, {"recording"}) /\ SameOrder(c) /\ call[c].pc = "booking"
  BY GotoEffect DEF Book, Walked, SameOrder, At

LEMMA RecordWalk ==
  ASSUME TypeOK, NEW c \in Callers, Record(c)
  PROVE  Walked(c, Ahead) /\ call[c].pc = "recording"
<1>1. call[c] \in Call /\ call \in [Callers -> Call]
  BY DEF TypeOK
<1>2. PICK tid : call' = [call EXCEPT ![c] = [call[c] EXCEPT !.pc = After(call[c].kind), !.tid = tid]]
  BY DEF Record
<1> DEFINE r == [call[c] EXCEPT !.pc = After(call[c].kind), !.tid = tid]
<1>3. r.pc \in Ahead /\ r.bar = call[c].bar
  BY <1>1 DEF Call, After, Ahead
<1>4. call' = [call EXCEPT ![c] = r]
  BY <1>2
<1> HIDE DEF r
<1>5. call'[c] = r /\ \A d \in Callers \ {c} : call'[d] = call[d]
  BY <1>1, <1>4
<1>. QED BY <1>3, <1>5 DEF Walked, Record, At

LEMMA SnapshotWalk ==
  ASSUME TypeOK, NEW c \in Callers, Snapshot(c)
  PROVE  Walked(c, Ahead) /\ call[c].pc = "snapshot"
<1>1. call[c].pc = "snapshot"
  BY DEF Snapshot, At
<1>. QED BY <1>1, SnapshotEffect DEF Idle, Walked, Ahead

LEMMA CloseWalk ==
  ASSUME TypeOK, NEW c \in Callers, CloseRow(c)
  PROVE  Walked(c, Ahead) /\ call[c].pc = "closing"
  BY IdleType DEF CloseRow, Return, Idle, TypeOK, Call, Walked, Ahead, At

LEMMA SwitchWalk ==
  ASSUME SerialCallers, TypeOK, NEW c \in Callers, Switch(c)
  PROVE  Walked(c, Ahead) /\ call[c].pc = "switching"
<1>1. call'[c] = [call[c] EXCEPT !.pc = "gates"] /\ \A d \in Callers : d = c
  BY DEF Switch, SerialCallers
<1>2. [call[c] EXCEPT !.pc = "gates"].pc = "gates"
      /\ [call[c] EXCEPT !.pc = "gates"].bar = call[c].bar
  BY DEF TypeOK, Call
<1>. QED BY <1>1, <1>2 DEF Switch, At, Walked, Ahead

LEMMA BeginWalk ==
  ASSUME TypeOK, NEW c \in Callers, Begin(c)
  PROVE  /\ \A d \in Callers \ {c} : call'[d] = call[d]
         /\ call'[c].pc = "sync" /\ call'[c].bar = bar /\ call[c].pc = "idle"
<1>1. call[c] \in Call /\ call \in [Callers -> Call]
  BY DEF TypeOK
<1> DEFINE r == [Idle EXCEPT !.pc = "sync", !.bar = bar]
<1>2. r.pc = "sync" /\ r.bar = bar
  BY DEF Idle
<1>3. call' = [call EXCEPT ![c] = r]
  BY DEF Begin
<1> HIDE DEF r
<1>4. call'[c] = r /\ \A d \in Callers \ {c} : call'[d] = call[d]
  BY <1>1, <1>3
<1>. QED BY <1>2, <1>4 DEF Begin, At
-----------------------------------------------------------------------------
(* The wallet holds what the ledger says.                                  *)

\* Nothing happened that is known to part the two.
Sound == /\ BootMode = "mainnet" /\ ~torn /\ (RecoverFlag \/ used["crash"] = 0)
         /\ \A e \in {"unbooked", "lost", "convert", "mode"} : used[e] = 0

\* Between the swap and its booking the wallet is one fill ahead of the ledger.
Holds(c) == wallet = IF call[c].pc \in {"confirming", "booking"}
                     THEN ApplyFill(ledger, call[c].side, call[c].lots) ELSE ledger
WalletInv == Sound => /\ mode = "mainnet"
                      /\ up => \A c \in Callers : Holds(c)
                      /\ ~up => wallet = ledger

\* A fault is not undone, nor is a torn cycle mended.
LEMMA SoundBefore == ASSUME TypeOK, [Next]_vars, Sound' PROVE Sound
<1>1. torn => torn'
  <2> USE DEF vars, memory, durable, outside, history
  <2>1. ASSUME NEW c \in Callers, CallerStep(c) PROVE torn' = torn
    <3>1. CASE Begin(c) \/ Gates(c) \/ Autopilot(c) \/ Kol(c) \/ Strategy(c) \/ SyncMode(c)
         \/ Switch(c)
      BY <3>1 DEF Begin, Gates, Autopilot, Kol, Strategy, SyncMode, Switch
    <3>2. CASE Activity(c) \/ Submit(c) \/ Refuse(c) \/ RugRaise(c) \/ Swap(c) \/ Confirm(c)
      BY <3>2 DEF Activity, Submit, Refuse, RugRaise, Swap, Confirm
    <3>3. CASE Unconfirmed(c) \/ NoHash(c) \/ Record(c) \/ Decide(c) \/ Book(c) \/ Snapshot(c)
         \/ CloseRow(c)
      BY <3>3 DEF Unconfirmed, NoHash, Record, Decide, Book, Snapshot, CloseRow
    <3>. QED BY <2>1, <3>1, <3>2, <3>3 DEF CallerStep
  <2>2. CASE Crash \/ Boot \/ NextBar \/ Convert \/ Rest \/ UNCHANGED vars
    BY <2>2 DEF Crash, Boot, NextBar, Convert, Rest
  <2>. QED BY <2>1, <2>2 DEF Next
<1>. QED BY <1>1, FaultsGrow, EventType DEF Sound, TypeOK, HistoryOK

\* Of a fault that has not happened yet a sound step is none.
LEMMA SoundSpends ==
  ASSUME TypeOK, Sound', NEW e \in {"unbooked", "lost", "convert", "mode"}
  PROVE  ~Spend(e)
  BY SpendCounts, EventType DEF Sound

\* A step that leaves wallet and ledger alone and takes its caller neither to the
\* executor's wait nor from there.
LEMMA WalletQuiet ==
  ASSUME WalletInv, Sound, UNCHANGED <<up, mode, wallet, ledger>>,
         up \/ UNCHANGED call,
         \A d \in Callers : \/ call'[d] = call[d]
                            \/ {call[d].pc, call'[d].pc} \cap {"confirming", "booking"} = {}
                            \/ /\ {call[d].pc, call'[d].pc} \subseteq {"confirming", "booking"}
                               /\ SameOrder(d)
  PROVE  WalletInv'
  BY DEF WalletInv, Holds, SameOrder, ApplyFill

LEMMA WalletStep ==
  ASSUME SerialCallers, TypeOK, TypeOK', LogInv, KeptInv, HeldInv, WalletInv, [Next]_vars
  PROVE  WalletInv'
<1> SUFFICES ASSUME Sound' PROVE WalletInv'
  BY DEF WalletInv
<1> USE DEF memory, durable, outside, history
<1>0. Sound /\ Clean
  BY SoundBefore, EventType DEF Sound, Clean
<1>1. ASSUME NEW c \in Callers,
             SyncMode(c) \/ Gates(c) \/ Autopilot(c) \/ Kol(c) \/ Strategy(c) \/ Activity(c) \/ Decide(c)
      PROVE  WalletInv'
  <2>1. UNCHANGED <<up, mode, wallet, ledger>> /\ up
    BY <1>1 DEF SyncMode, Gates, Autopilot, Kol, Strategy, Activity, Decide, At
  <2>. QED BY <1>0, <1>1, <2>1, DecidingWalk, WalletQuiet DEF Walked, Ahead
<1>2. ASSUME NEW c \in Callers, Submit(c) \/ Refuse(c) \/ RugRaise(c) \/ Record(c) \/ Begin(c)
                                  \/ CloseRow(c)
      PROVE  WalletInv'
  <2>1. UNCHANGED <<up, mode, wallet, ledger>> /\ up
    BY <1>2 DEF Submit, Refuse, RugRaise, Record, Begin, CloseRow, At
  <2>2. /\ {call[c].pc, call'[c].pc} \cap {"confirming", "booking"} = {}
        /\ \A d \in Callers \ {c} : call'[d] = call[d]
    BY <1>2, SubmitWalk, RefuseWalk, RugWalk, RecordWalk, BeginWalk, CloseWalk DEF Walked, Ahead
  <2>. QED BY <1>0, <2>1, <2>2, WalletQuiet
<1>3. ASSUME NEW c \in Callers, Confirm(c) PROVE WalletInv'
  <2>1. UNCHANGED <<up, mode, wallet, ledger>> /\ up
    BY <1>3 DEF Confirm, At
  <2>. QED BY <1>0, <1>3, <2>1, ConfirmWalk, WalletQuiet DEF Walked
<1>4. ASSUME NEW c \in Callers, Swap(c) PROVE WalletInv'
  <2>1. mode = "mainnet" /\ up /\ wallet = ledger /\ wallet \in Nat /\ call[c].lots \in Nat
    BY <1>0, <1>4, SwapWalk DEF WalletInv, Holds, Swap, At, TypeOK, OutsideOK, Call
  <2>0. call[c].mode = "mainnet"
    BY <1>4, <2>1 DEF Swap, At, HeldInv, Pending
  <2>2. /\ UNCHANGED <<up, mode, ledger>>
        /\ wallet' = ApplyFill(ledger, call[c].side, call[c].lots)
    BY <1>4, <2>0, <2>1 DEF Swap, ApplyFill
  <2>. QED BY <1>4, <2>1, <2>2, SwapWalk DEF Walked, SameOrder, WalletInv, Holds, SerialCallers
<1>5. ASSUME NEW c \in Callers, Book(c) PROVE WalletInv'
  <2>1. mode = "mainnet" /\ up /\ wallet = ApplyFill(ledger, call[c].side, call[c].lots)
    BY <1>0, <1>5, BookWalk DEF WalletInv, Holds, Book, At
  <2>2. UNCHANGED <<up, mode, wallet>> /\ ledger' = ApplyFill(ledger, call[c].side, call[c].lots)
    BY <1>5 DEF Book
  <2>. QED BY <1>5, <2>1, <2>2, BookWalk DEF Walked, WalletInv, Holds, SerialCallers
<1>6. ASSUME NEW c \in Callers, Snapshot(c) PROVE WalletInv'
  <2>1. up /\ wallet = ledger /\ ledger \in Nat
    BY <1>0, <1>6, SnapshotWalk DEF WalletInv, Holds, Snapshot, At, TypeOK, MemoryOK
  <2>2. UNCHANGED <<up, mode, wallet, ledger>>
    BY <1>6, <2>1 DEF Snapshot
  <2>. QED BY <1>0, <1>6, <2>1, <2>2, SnapshotWalk, WalletQuiet DEF Walked, Ahead
<1>7. ASSUME NEW c \in Callers, Unconfirmed(c) \/ NoHash(c) PROVE WalletInv'
  BY <1>7, SoundSpends DEF Unconfirmed, NoHash
<1>12. ASSUME NEW c \in Callers, Switch(c) PROVE WalletInv'
  BY <1>0, <1>12 DEF Switch, At, HeldInv, Sound
<1>8. CASE Crash
  <2>1. up /\ ~up' /\ UNCHANGED <<mode, wallet, ledger>> /\ mode = "mainnet"
    BY <1>0, <1>8 DEF Crash, WalletInv
  <2>2. PICK c \in Callers : TRUE
    BY CallersAssumption
  <2>3. call[c].pc \notin {"confirming", "booking"}
    BY <1>0, <1>8, <2>1, CrashStep DEF InFlight, Sound
  <2>4. wallet = ledger
    BY <1>0, <2>1, <2>3 DEF WalletInv, Holds
  <2>. QED BY <2>1, <2>4 DEF WalletInv
<1>9. CASE Boot
  <2>1. ~up /\ up' /\ mode' = "mainnet" /\ UNCHANGED <<wallet, call>>
    BY <1>9 DEF Boot, Sound
  <2>2. RecoverFlag /\ \A c \in Callers : call[c].pc = "idle"
    BY <1>0, <2>1 DEF LogInv, Clean
  <2>3. ledger' = dbUnits
    BY <1>9, <2>2, BootReplays DEF Sound
  <2>4. wallet = ledger /\ ledger = dbUnits
    BY <1>0, <2>1 DEF WalletInv, KeptInv, Sound
  <2>. QED BY <2>1, <2>2, <2>3, <2>4 DEF WalletInv, Holds
<1>10. CASE Convert
  BY <1>10, SoundSpends DEF Convert
<1>11. CASE NextBar \/ Rest \/ UNCHANGED vars
  BY <1>0, <1>11, WalletQuiet DEF NextBar, Rest, vars
<1>. QED BY <1>1, <1>2, <1>3, <1>4, <1>5, <1>6, <1>7, <1>8, <1>9, <1>10, <1>11, <1>12
         DEF Next, CallerStep

\* On mainnet, with one caller, the wallet holds what the ledger says between any two
\* calls, however they were refused, retried or interrupted - unless a swap went
\* unconfirmed, a crash tore a trade from its row, a write was lost, or the operator
\* converted or toggled. In particular the reconciliation of _finalise then never fires.
THEOREM WalletIsLedger == ASSUME SerialCallers PROVE Spec => []WalletMatchesLedger
<1>1. Init => WalletInv
  BY DEF Init, WalletInv, Holds, Sound, Idle
<1>2. TypeOK /\ TypeOK' /\ LogInv /\ KeptInv /\ HeldInv /\ WalletInv /\ [Next]_vars => WalletInv'
  BY WalletStep
<1>3. WalletInv => WalletMatchesLedger
  BY CallersAssumption DEF WalletInv, WalletMatchesLedger, Holds, Sound, AtRest
<1>. QED BY <1>1, <1>2, <1>3, Typing, LogSafe, KeptSafe, HeldSafe, PTL DEF Spec
-----------------------------------------------------------------------------
(* The activity floor trades once a day and life of the process.           *)

\* What may add a trade to a day: a restart, which forgets the trades made, and a swap
\* whose confirmation was missed, which is not counted as one.
Extra == used["crash"] + used["unbooked"]

Waiting(c) == call[c].pc \in {"confirming", "booking"}
Ordered(c) == call[c].pc \in {"submit", "sending", "confirming"} /\ call[c].kind = "activity"

\* A day on which the floor may still trade.
Fresh(d) == \/ ~up
            \/ d > activityDay
            \/ d = activityDay /\ tradesToday = 0 /\ \A c \in Callers : ~Waiting(c)

\* Days only go forward; an order of the floor on its way is the first trade of the day;
\* a day that is still fresh has used up no trade but the extra ones.
FloorInv ==
    /\ activityDay <= Day(bar)
    /\ \A c \in Callers : call[c].pc # "idle" => Day(call[c].bar) = activityDay
    /\ \A c \in Callers : Ordered(c) => tradesToday = 0
    /\ \A d \in Days : /\ floorSwaps[d] <= 1 + Extra
                       /\ Fresh(d) => floorSwaps[d] <= Extra

LEMMA DayType ==
  ASSUME NEW b \in Nat
  PROVE  Day(b) \in Nat /\ Day(b) <= Day(b + 1)
<1> DEFINE q == b \div BarsPerDay
           r == (b + 1) \div BarsPerDay
<1>1. BarsPerDay \in Nat /\ BarsPerDay > 0
  BY ClockAssumption
<1>2. q \in Nat /\ q * BarsPerDay <= b /\ b < q * BarsPerDay + BarsPerDay
  BY <1>1
<1>3. r \in Nat /\ r * BarsPerDay <= b + 1 /\ b + 1 < r * BarsPerDay + BarsPerDay
  BY <1>1
<1> HIDE DEF q, r
<1>4. q <= r
  <2> SUFFICES ASSUME r + 1 <= q PROVE FALSE
    BY <1>2, <1>3
  <2>1. (r + 1) * BarsPerDay <= q * BarsPerDay
    BY <1>1, <1>2, <1>3
  <2>2. (r + 1) * BarsPerDay = r * BarsPerDay + BarsPerDay
    BY <1>1, <1>3
  <2>. QED BY <1>1, <1>2, <1>3, <2>1, <2>2
<1>. QED BY <1>2, <1>4 DEF q, r, Day

\* Types and what every step does to the bound.
LEMMA FloorTypes ==
  ASSUME TypeOK, TypeOK', [Next]_vars
  PROVE  /\ Extra \in Nat /\ Extra' \in Nat /\ Extra <= Extra'
         /\ activityDay \in Int /\ tradesToday \in Nat /\ bar \in Bars
         /\ \A b \in Bars : Day(b) \in Nat /\ Day(b) \in Days
         /\ Days \subseteq Nat /\ floorSwaps \in [Days -> Nat]
         /\ Days' = Days /\ \A b : Day(b)' = Day(b)
<1>1. /\ used["crash"] \in Nat /\ used'["crash"] \in Nat /\ used["crash"] <= used'["crash"]
      /\ used["unbooked"] \in Nat /\ used'["unbooked"] \in Nat
      /\ used["unbooked"] <= used'["unbooked"]
  BY FaultsGrow, EventType DEF TypeOK, HistoryOK
<1>2. Extra \in Nat /\ Extra' \in Nat /\ Extra <= Extra'
  BY <1>1 DEF Extra
<1>3. activityDay \in Int /\ tradesToday \in Nat /\ bar \in Bars
  BY DEF TypeOK, MemoryOK, OutsideOK
<1>4. \A b \in Bars : Day(b) \in Nat /\ Day(b) \in Days
  BY DayType DEF Bars, Days
<1>5. Days \subseteq Nat
  BY <1>4 DEF Days
<1>6. floorSwaps \in [Days -> Nat]
  BY DEF TypeOK, HistoryOK
<1>7. Days' = Days /\ \A b : Day(b)' = Day(b)
  BY DEF Days, Day
<1>. QED BY <1>2, <1>3, <1>4, <1>5, <1>6, <1>7

LEMMA MoreExtra ==
  ASSUME TypeOK, NEW e \in {"crash", "unbooked"}, Spend(e)
  PROVE  Extra' = Extra + 1
  BY EventType DEF Extra, Spend, TypeOK, HistoryOK

\* A step that counts no trade and makes none, orders for the floor only in a day
\* without a trade, and ends no wait for a trade.
LEMMA FloorQuiet ==
  ASSUME TypeOK, TypeOK', [Next]_vars, FloorInv,
         UNCHANGED <<up, floorSwaps, tradesToday, activityDay, bar>>,
         \A c \in Callers :
            \/ call'[c] = call[c]
            \/ /\ call'[c].pc # "idle" => call'[c].bar = call[c].bar /\ call[c].pc # "idle"
               /\ Waiting(c) => Waiting(c)'
               /\ Ordered(c)' => Ordered(c) \/ tradesToday = 0
  PROVE  FloorInv'
<1>1. \A c \in Callers : Waiting(c) => Waiting(c)'
  BY DEF Waiting
<1>2. \A c \in Callers : Ordered(c)' => tradesToday' = 0
  BY DEF FloorInv, Ordered
<1>3. \A c \in Callers : call'[c].pc # "idle" => Day(call[c].bar)' = activityDay'
  BY FloorTypes DEF FloorInv
<1>4. \A d \in Days : Fresh(d)' => Fresh(d)
  BY <1>1 DEF Fresh
<1>5. \A d \in Days : /\ (floorSwaps[d] <= 1 + Extra)'
                      /\ Fresh(d)' => (floorSwaps[d] <= Extra)'
  BY <1>4, FloorTypes DEF FloorInv
<1>6. (activityDay <= Day(bar))'
  BY FloorTypes DEF FloorInv
<1>. QED BY <1>2, <1>3, <1>5, <1>6, FloorTypes DEF FloorInv

LEMMA FloorStep ==
  ASSUME SerialCallers, TypeOK, TypeOK', LogInv, FloorInv, [Next]_vars
  PROVE  FloorInv'
<1> USE DEF memory, durable, outside, history
<1>1. ASSUME NEW c \in Callers,
             SyncMode(c) \/ Gates(c) \/ Autopilot(c) \/ Kol(c) \/ Strategy(c) \/ Activity(c) \/ Decide(c)
      PROVE  FloorInv'
  <2>1. UNCHANGED <<up, floorSwaps, tradesToday, activityDay, bar>>
    BY <1>1 DEF SyncMode, Gates, Autopilot, Kol, Strategy, Activity, Decide
  <2>2. /\ Walked(c, Ahead \cup {"submit"}) /\ call[c].pc \in Ahead \cup {"sync"}
        /\ call'[c].pc = "submit" /\ call'[c].kind = "activity" => Activity(c)
    BY <1>1, DecidingWalk
  <2>3. ASSUME Activity(c), call'[c].pc = "submit" PROVE tradesToday = 0
    BY <2>3, GotoEffect DEF Activity, Due
  <2>4. call[c].pc # "idle"
    BY <1>1 DEF SyncMode, Gates, Autopilot, Kol, Strategy, Activity, Decide, At
  <2>. QED BY <2>1, <2>2, <2>3, <2>4, FloorQuiet DEF Walked, Ahead, Waiting, Ordered
<1>2. ASSUME NEW c \in Callers, Submit(c) PROVE FloorInv'
  <2>1. UNCHANGED <<up, floorSwaps, tradesToday, activityDay, bar>>
    BY <1>2 DEF Submit
  <2>. QED BY <1>2, <2>1, SubmitWalk, FloorQuiet DEF Walked, SameOrder, Ahead, Waiting, Ordered
<1>3. ASSUME NEW c \in Callers,
             Refuse(c) \/ RugRaise(c) \/ Record(c) \/ Snapshot(c) \/ CloseRow(c) \/ Switch(c)
      PROVE  FloorInv'
  <2>1. UNCHANGED <<up, floorSwaps, tradesToday, activityDay, bar>>
    BY <1>3 DEF Refuse, RugRaise, Record, Snapshot, CloseRow, Switch
  <2>2. /\ \A d \in Callers \ {c} : call'[d] = call[d]
        /\ call'[c].pc \in Ahead
        /\ call'[c].pc # "idle" => call'[c].bar = call[c].bar
        /\ call[c].pc \in {"sending", "recording", "snapshot", "closing", "switching"}
    BY <1>3, RefuseWalk, RugWalk, RecordWalk, SnapshotWalk, CloseWalk, SwitchWalk DEF Walked, Ahead
  <2>. QED BY <2>1, <2>2, FloorQuiet DEF Ahead, Waiting, Ordered
<1>4. ASSUME NEW c \in Callers, Confirm(c) PROVE FloorInv'
  <2>1. UNCHANGED <<up, floorSwaps, tradesToday, activityDay, bar>>
    BY <1>4 DEF Confirm
  <2>. QED BY <1>4, <2>1, ConfirmWalk, FloorQuiet DEF Walked, Waiting, Ordered
<1>5. ASSUME NEW c \in Callers, Begin(c) PROVE FloorInv'
  <2>1. /\ UNCHANGED <<up, floorSwaps, bar>> /\ activityDay' = Day(bar) /\ up
        /\ tradesToday' = IF Day(bar) = activityDay THEN tradesToday ELSE 0
    BY <1>5 DEF Begin, At
  <2>2. call[c].pc = "idle" /\ call'[c].pc = "sync" /\ call'[c].bar = bar
    BY <1>5, BeginWalk
  <2>3. \A d \in Callers : ~Waiting(d) /\ ~Ordered(d)' /\ call'[d].bar = bar
    BY <2>2 DEF SerialCallers, Waiting, Ordered
  <2>4. activityDay <= Day(bar)
    BY DEF FloorInv
  <2>5. \A d \in Days : Fresh(d)' => Fresh(d)
    BY <2>1, <2>3, <2>4, FloorTypes DEF Fresh
  <2>6. \A d \in Days : /\ (floorSwaps[d] <= 1 + Extra)'
                        /\ Fresh(d)' => (floorSwaps[d] <= Extra)'
    BY <2>1, <2>5, FloorTypes DEF FloorInv
  <2>7. (activityDay <= Day(bar))' /\ \A d \in Callers : Day(call[d].bar)' = activityDay'
    BY <2>1, <2>3, FloorTypes DEF Day
  <2>. QED BY <2>3, <2>6, <2>7, FloorTypes DEF FloorInv
<1>6. ASSUME NEW c \in Callers, Swap(c) PROVE FloorInv'
  <2> DEFINE today == Day(call[c].bar)
  <2>1. /\ UNCHANGED <<up, tradesToday, activityDay, bar>> /\ up
        /\ floorSwaps' = IF call[c].kind = "activity"
                         THEN [floorSwaps EXCEPT ![today] = @ + 1] ELSE floorSwaps
    BY <1>6 DEF Swap, At
  <2>2. /\ call[c].pc = "sending" /\ Waiting(c)' /\ call'[c].bar = call[c].bar
        /\ call'[c].kind = call[c].kind
        /\ \A d \in Callers : d = c
    BY <1>6, SwapWalk DEF Walked, Waiting, SameOrder, SerialCallers
  <2>3. today = activityDay /\ today \in Days
    BY <2>2, FloorTypes DEF FloorInv, TypeOK, Call
  <2>4. \A d \in Days : Fresh(d)' => d > activityDay
    BY <2>1, <2>2 DEF Fresh
  <2>5. \A d \in Days : d > activityDay => Fresh(d) /\ d # today
    BY <2>3, FloorTypes DEF Fresh
  <2>6. call[c].kind = "activity" => Fresh(today)
    BY <2>2, <2>3 DEF FloorInv, Fresh, Ordered, Waiting
  <2>7. \A d \in Days : floorSwaps'[d] = IF d = today /\ call[c].kind = "activity"
                                         THEN floorSwaps[d] + 1 ELSE floorSwaps[d]
    BY <2>1, FloorTypes
  <2> HIDE DEF today
  <2>8. \A d \in Days : /\ (floorSwaps[d] <= 1 + Extra)'
                        /\ Fresh(d)' => (floorSwaps[d] <= Extra)'
    BY <2>4, <2>5, <2>6, <2>7, FloorTypes DEF FloorInv
  <2>9. /\ (activityDay <= Day(bar))' /\ (Ordered(c)' => tradesToday' = 0)
        /\ \A d \in Callers : Day(call[d].bar)' = activityDay'
    BY <2>1, <2>2, <2>3, FloorTypes DEF FloorInv, Ordered, Waiting, today
  <2>. QED BY <2>2, <2>8, <2>9, FloorTypes DEF FloorInv
<1>7. ASSUME NEW c \in Callers, Book(c) PROVE FloorInv'
  <2>1. UNCHANGED <<up, floorSwaps, activityDay, bar>> /\ tradesToday' = tradesToday + 1 /\ up
    BY <1>7 DEF Book, At
  <2>2. tradesToday' # 0
    BY <2>1, FloorTypes
  <2>3. /\ call[c].pc = "booking" /\ call'[c].bar = call[c].bar /\ ~Ordered(c)'
        /\ \A d \in Callers : d = c
    BY <1>7, BookWalk DEF Walked, Ordered, SerialCallers
  <2>4. \A d \in Days : Fresh(d)' => Fresh(d)
    BY <2>1, <2>2 DEF Fresh
  <2>5. \A d \in Days : /\ (floorSwaps[d] <= 1 + Extra)'
                        /\ Fresh(d)' => (floorSwaps[d] <= Extra)'
    BY <2>1, <2>4, FloorTypes DEF FloorInv
  <2>6. (activityDay <= Day(bar))' /\ \A d \in Callers : Day(call[d].bar)' = activityDay'
    BY <2>1, <2>3, FloorTypes DEF FloorInv
  <2>. QED BY <2>3, <2>5, <2>6, FloorTypes DEF FloorInv
<1>8. ASSUME NEW c \in Callers, Unconfirmed(c) \/ NoHash(c) PROVE FloorInv'
  <2>1. UNCHANGED <<up, floorSwaps, tradesToday, activityDay, bar>> /\ Extra' = Extra + 1
    BY <1>8, MoreExtra DEF Unconfirmed, NoHash
  <2>2. /\ call[c].pc = "confirming" /\ call'[c].bar = call[c].bar
        /\ call'[c].kind = call[c].kind /\ call'[c].pc \in {"sending", "activity", "finalise"}
        /\ \A d \in Callers : d = c
    <3>1. CASE Unconfirmed(c)
      BY <3>1, GotoEffect DEF Unconfirmed, At, After, SerialCallers
    <3>2. CASE NoHash(c)
      BY <3>2, NoHashEffect DEF NoHash, At, After, SerialCallers
    <3>. QED BY <1>8, <3>1, <3>2
  <2>3. \A d \in Days : /\ (floorSwaps[d] <= 1 + Extra)' /\ (floorSwaps[d] <= Extra)'
    BY <2>1, FloorTypes DEF FloorInv
  <2>4. (activityDay <= Day(bar))' /\ \A d \in Callers : Day(call[d].bar)' = activityDay'
    BY <2>1, <2>2, FloorTypes DEF FloorInv
  <2>5. Ordered(c)' => tradesToday' = 0
    BY <2>1, <2>2 DEF FloorInv, Ordered
  <2>. QED BY <2>2, <2>3, <2>4, <2>5, FloorTypes DEF FloorInv
<1>9. CASE Crash
  <2>1. UNCHANGED <<floorSwaps, tradesToday, activityDay, bar>> /\ Extra' = Extra + 1
    BY <1>9, MoreExtra DEF Crash
  <2>2. \A c \in Callers : call'[c].pc = "idle"
    BY <1>9 DEF Crash, Idle
  <2>3. \A d \in Days : (floorSwaps[d] <= 1 + Extra)' /\ (floorSwaps[d] <= Extra)'
    BY <2>1, FloorTypes DEF FloorInv
  <2>4. (activityDay <= Day(bar))'
    BY <2>1, FloorTypes DEF FloorInv
  <2>. QED BY <2>2, <2>3, <2>4, FloorTypes DEF FloorInv, Ordered
<1>10. CASE Boot
  <2>1. UNCHANGED <<floorSwaps, bar, call>> /\ activityDay' = -1 /\ ~up
    BY <1>10 DEF Boot
  <2>2. \A c \in Callers : call'[c].pc = "idle"
    BY <2>1 DEF LogInv
  <2>3. \A d \in Days : (floorSwaps[d] <= 1 + Extra)' /\ (floorSwaps[d] <= Extra)'
    BY <2>1, FloorTypes DEF FloorInv, Fresh
  <2>4. (activityDay <= Day(bar))'
    BY <2>1, FloorTypes
  <2>. QED BY <2>2, <2>3, <2>4, FloorTypes DEF FloorInv, Ordered
<1>11. CASE NextBar
  <2>1. UNCHANGED <<up, floorSwaps, tradesToday, activityDay, call, used>> /\ bar' = bar + 1
    BY <1>11 DEF NextBar
  <2>2. bar \in Nat
    BY FloorTypes DEF Bars
  <2>3. Day(bar) <= Day(bar + 1) /\ Day(bar + 1) \in Nat /\ Day(bar) \in Nat
    BY <2>2, DayType
  <2>4. (activityDay <= Day(bar))'
    BY <2>1, <2>3, FloorTypes DEF FloorInv
  <2>5. /\ \A c \in Callers : Ordered(c)' <=> Ordered(c)
        /\ \A d \in Days : Fresh(d)' <=> Fresh(d)
        /\ Extra' = Extra
    BY <2>1 DEF Ordered, Fresh, Waiting, Extra
  <2>. QED BY <2>1, <2>4, <2>5, FloorTypes DEF FloorInv
<1>12. CASE Convert \/ Rest \/ UNCHANGED vars
  <2>1. UNCHANGED <<up, floorSwaps, tradesToday, activityDay, bar, call>>
    BY <1>12 DEF Convert, Rest, vars
  <2>. QED BY <2>1, FloorQuiet
<1>. QED BY <1>1, <1>2, <1>3, <1>4, <1>5, <1>6, <1>7, <1>8, <1>9, <1>10, <1>11, <1>12
         DEF Next, CallerStep

\* With one caller the activity floor makes at most one trade in a calendar day, and one
\* more for every restart and every unconfirmed swap, whatever bars the feed repeats,
\* however often a bar is run, and whichever other orders, refusals and mode switches
\* come between (_maybe_compliance_trade, loop.py:626).
THEOREM FloorTradesOnce == ASSUME SerialCallers PROVE Spec => []FloorOncePerLife
<1>1. Init => FloorInv
  <2> SUFFICES ASSUME Init PROVE FloorInv
    OBVIOUS
  <2>1. activityDay <= Day(bar)
    BY DayType DEF Init
  <2>2. Extra = 0
    BY EventType DEF Init, Extra
  <2>3. \A c \in Callers : call[c].pc = "idle"
    BY DEF Init, Idle
  <2>4. \A d \in Days : floorSwaps[d] = 0
    BY DEF Init
  <2>. QED BY <2>1, <2>2, <2>3, <2>4 DEF FloorInv, Ordered
<1>2. TypeOK /\ TypeOK' /\ LogInv /\ FloorInv /\ [Next]_vars => FloorInv'
  BY FloorStep
<1>3. TypeOK /\ FloorInv => FloorOncePerLife
  BY EventType DEF FloorInv, FloorOncePerLife, Extra, TypeOK, HistoryOK
<1>. QED BY <1>1, <1>2, <1>3, Typing, LogSafe, PTL DEF Spec
=============================================================================
