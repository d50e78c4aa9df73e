---------------------------- MODULE Wallet_proofs ----------------------------
(***************************************************************************)
(* Proofs about module Wallet, for every number of operators, rungs, calls *)
(* and transactions.  A step of a call is first put in one of two forms:   *)
(* it sends nothing, or it sends one transaction of the call's.            *)
(***************************************************************************)
EXTENDS Wallet, TLAPS

Under == {"clamp", "approve", "quote", "swap", "simulate", "sign"}

\* The call returns, or it goes on under the same number, short of a receipt.
Returns(u) == call' = [call EXCEPT ![u] = Idle]
GoesOn(u)  == \E pc \in Under, size \in 0 .. MaxSize, rung \in 1 .. Rungs, tx \in Nat :
                 Set(u, pc, size, rung, tx)
Awaits(u)  == \E size \in 0 .. MaxSize, rung \in 1 .. Rungs : Set(u, "confirm", size, rung, Len(chain) + 1)

\* What it reports: a fill only with the transaction that was mined.
Tells == \/ UNCHANGED reports
         \/ \E r : /\ reports' = reports \cup {r}
                   /\ r.status = "FILLED" => r.tx \in DOMAIN chain /\ chain[r.tx].status = "mined"

Answers == {"hash", "silent", "cut off", "error", "revert"}

\* Nothing is known of the transaction, or it moved nothing and never will.
Moot(tx) == tx.answer = "silent" \/ tx.status = "reverted"

Quiet(u) == UNCHANGED chain /\ Tells /\ (Returns(u) \/ (GoesOn(u) /\ call[u].pc # "confirm"))
Sends(u) ==
    /\ call[u].pc \in Under /\ Tells
    /\ \E answer \in Answers :
          /\ Send(u, answer)
          /\ Returns(u) \/ Awaits(u) \/ (answer \in {"silent", "revert"} /\ GoesOn(u))

\* The rest of what a call's step changes.
Around ==
    /\ units' \in Nat /\ allowed' \subseteq Operators /\ approved' \subseteq Operators
    /\ UNCHANGED <<wallet, calls, reconciled, faults>>

LEMMA Facts ==
  /\ Idle \in Call /\ Idle.id = 0 /\ Idle.pc = "idle"
  /\ Rungs \in Nat \ {0} /\ MaxSize \in Nat \ {0} /\ MaxCalls \in Nat /\ MaxFaults \in Nat
  /\ "loop" \in Callers
  BY NumberAssumption DEF Idle, Call, Callers

LEMMA CallTyped ==
  ASSUME TypeOK, NEW u \in Callers
  PROVE  /\ call[u].id \in 0 .. MaxCalls /\ call[u].dir \in {"buy", "sell", "out"}
         /\ call[u].size \in 0 .. MaxSize /\ call[u].rung \in 1 .. Rungs /\ call[u].tx \in Nat
         /\ call[u].pc \in Under \cup {"idle", "confirm"}
         /\ call[u].size \in Nat /\ call[u].id \in Nat /\ calls \in Nat /\ units \in Nat
         /\ call \in [Callers -> Call]
  <1>1. call \in [Callers -> Call] /\ call[u] \in Call /\ units \in Nat
    BY DEF TypeOK
  <1>2. call[u].size \in 0 .. MaxSize /\ call[u].id \in 0 .. MaxCalls /\ MaxSize \in Nat /\ MaxCalls \in Nat
    BY <1>1, NumberAssumption DEF Call
  <1>3. calls \in Nat
    <2>1. calls \in 0 .. MaxCalls
      BY DEF TypeOK
    <2>. QED BY <1>2, <2>1
  <1>4. call[u].size \in Nat /\ call[u].id \in Nat
    BY <1>2
  <1>. QED BY <1>1, <1>3, <1>4 DEF Call, Under

\* A report is a return; only a fill of the loop's needs a mined transaction.
LEMMA Reported ==
  ASSUME TypeOK, NEW u \in Callers, NEW status, NEW tx, Report(u, status, tx),
         status = "FILLED" => tx \in DOMAIN chain /\ chain[tx].status = "mined"
  PROVE  Returns(u) /\ Tells /\ units' \in Nat
  <1>1. Returns(u)
    BY DEF Report, Returns
  <1>2. Tells
    <2>. DEFINE r == [call |-> call[u].id, status |-> status, tx |-> tx]
    <2>1. reports' = reports \cup {r} /\ r.status = status /\ r.tx = tx
      BY DEF Report
    <2>. QED BY <2>1 DEF Tells
  <1>3. units' \in Nat
    BY CallTyped DEF Report, Least
  <1>. QED BY <1>1, <1>2, <1>3

LEMMA Climbed ==
  ASSUME TypeOK, NEW u \in Callers, NextRung(u)
  PROVE  (Returns(u) \/ GoesOn(u)) /\ Tells /\ units' \in Nat
  <1>1. CASE call[u].rung = Rungs
    <2>1. Report(u, "FAILED", 0)
      BY <1>1 DEF NextRung
    <2>. QED BY <2>1, Reported
  <1>2. CASE call[u].rung # Rungs
    <2>1. Set(u, "quote", call[u].size, call[u].rung + 1, call[u].tx) /\ UNCHANGED <<reports, units>>
      BY <1>2 DEF NextRung
    <2>2. call[u].rung + 1 \in 1 .. Rungs
      BY <1>2, CallTyped, Facts
    <2>. QED BY <2>1, <2>2, CallTyped DEF GoesOn, Tells, Under
  <1>. QED BY <1>1, <1>2

LEMMA Failed ==
  ASSUME TypeOK, NEW u \in Callers, Fails(u)
  PROVE  Returns(u) /\ Tells /\ units' \in Nat
  BY Reported DEF Fails

LEMMA Went ==
  ASSUME TypeOK, NEW u \in Callers, NEW pc \in Under, Goto(u, pc), UNCHANGED <<reports, units>>
  PROVE  GoesOn(u) /\ Tells /\ units' \in Nat
  BY CallTyped DEF Goto, GoesOn, Tells

\* Every step of a call has one of the two forms.
LEMMA StepForm ==
  ASSUME TypeOK, NEW u \in Callers, Step(u),
         call[u].pc = "confirm" => call[u].tx \in DOMAIN chain
  PROVE  (Quiet(u) \/ Sends(u)) /\ Around /\ call[u].pc # "idle"
  <1>. USE DEF Around
  <1>t. /\ units \in Nat /\ allowed \subseteq Operators /\ approved \subseteq Operators
        /\ call[u].size \in 0 .. MaxSize /\ call[u].rung \in 1 .. Rungs
    BY CallTyped DEF TypeOK
  <1>1. ASSUME u = "loop", NEW read \in BOOLEAN, Clamp(read)
        PROVE  Quiet(u) /\ Around /\ call[u].pc # "idle"
    <2>1. CASE read /\ wallet.usdt = 0
      BY <1>1, <1>t, <2>1, Reported DEF Clamp, Quiet, money
    <2>2. CASE ~(read /\ wallet.usdt = 0)
      <3>. DEFINE size == IF read THEN Least(call["loop"].size, wallet.usdt) ELSE call["loop"].size
      <3>1. size \in 0 .. MaxSize
        <4>1. wallet.usdt \in Nat
          BY DEF TypeOK
        <4>. QED BY <1>1, <1>t, <4>1, Facts DEF Least
      <3>2. Set("loop", "approve", size, 1, 0) /\ UNCHANGED <<reports, units>>
        BY <1>1, <2>2 DEF Clamp
      <3>3. GoesOn(u)
        <4>. HIDE DEF size
        <4>. QED BY <1>1, <3>1, <3>2, Facts DEF GoesOn, Under
      <3>. QED BY <1>1, <1>t, <3>2, <3>3 DEF Clamp, Quiet, Tells, money
    <2>. QED BY <2>1, <2>2
  <1>2. ASSUME u = "loop", NEW good \in SUBSET Operators, NEW landed \in SUBSET Operators,
               Approve(good, landed)
        PROVE  Quiet(u) /\ Around /\ call[u].pc # "idle"
    <2>1. Goto(u, "quote") /\ UNCHANGED <<reports, units>>
      BY <1>2 DEF Approve, books
    <2>. QED BY <1>2, <1>t, <2>1, Went DEF Approve, Quiet, Under, books
  <1>3. ASSUME u = "loop", NEW answer \in {"ok", "error", "refused"}, Simulate(answer)
        PROVE  Quiet(u) /\ Around /\ call[u].pc # "idle"
    <2>1. (Returns(u) \/ GoesOn(u)) /\ Tells /\ units' \in Nat
      <3>1. CASE answer # "ok"
        BY <1>3, <3>1, Reported DEF Simulate
      <3>2. CASE answer = "ok"
        BY <1>3, <3>2, Went DEF Simulate, Under
      <3>. QED BY <3>1, <3>2
    <2>. QED BY <1>3, <1>t, <2>1 DEF Simulate, Quiet, money
  <1>4. ASSUME u = "loop", Unsigned
        PROVE  Quiet(u) /\ Around /\ call[u].pc # "idle"
    BY <1>4, <1>t, Reported DEF Unsigned, Quiet, money
  <1>5. ASSUME u = "loop", NEW answered \in BOOLEAN, Broadcast(answered)
        PROVE  Sends(u) /\ Around /\ call[u].pc # "idle"
    <2>1. CASE answered
      <3>1. Send(u, "hash") /\ Awaits(u) /\ UNCHANGED <<reports, units>>
        BY <1>5, <1>t, <2>1 DEF Broadcast, Awaits
      <3>. QED BY <1>5, <1>t, <3>1 DEF Broadcast, Sends, Answers, Tells, Under, money
    <2>2. CASE ~answered
      <3>1. Send(u, "cut off") /\ Report(u, "FAILED", 0)
        BY <1>5, <2>2 DEF Broadcast
      <3>. QED BY <1>5, <1>t, <3>1, Reported DEF Broadcast, Sends, Answers, Under, money
    <2>. QED BY <2>1, <2>2
  <1>6. ASSUME NEW answer \in {"ok", "error", "impact", "raised"}, Quote(u, answer)
        PROVE  Quiet(u) /\ Around /\ call[u].pc # "idle"
    <2>1. (Returns(u) \/ GoesOn(u)) /\ Tells /\ units' \in Nat
      <3>1. CASE answer = "error"
        BY <1>6, <3>1, Climbed, Failed DEF Quote
      <3>2. CASE answer \in {"impact", "raised"}
        <4>1. \E status \in {"REJECTED", "FAILED", "raised"} : Report(u, status, 0)
          BY <1>6, <3>2 DEF Quote
        <4>. QED BY <4>1, Reported
      <3>3. CASE answer = "ok"
        BY <1>6, <3>3, Went DEF Quote, Under
      <3>. QED BY <3>1, <3>2, <3>3
    <2>2. allowed' \subseteq Operators
      BY <1>6, <1>t DEF Quote
    <2>. QED BY <1>6, <1>t, <2>1, <2>2 DEF Quote, Quiet
  <1>7. CASE SwapHash(u)
    <2>1. CASE u = "manager" \/ call[u].dir = "out"
      <3>1. Report(u, "done", Len(chain) + 1)
        BY <1>7, <2>1 DEF SwapHash
      <3>. QED BY <1>7, <1>t, <3>1, Reported DEF SwapHash, Sends, Answers, Under, money
    <2>2. CASE ~(u = "manager" \/ call[u].dir = "out")
      <3>1. Awaits(u) /\ UNCHANGED <<reports, units>>
        BY <1>7, <1>t, <2>2 DEF SwapHash, Awaits
      <3>. QED BY <1>7, <1>t, <3>1 DEF SwapHash, Sends, Answers, Tells, Under, money
    <2>. QED BY <2>1, <2>2
  <1>8. ASSUME NEW sent \in BOOLEAN, SwapSilent(u, sent)
        PROVE  (Quiet(u) \/ Sends(u)) /\ Around /\ call[u].pc # "idle"
    <2>1. (Returns(u) \/ GoesOn(u)) /\ Tells /\ units' \in Nat
      <3>1. CASE u = "loop"
        BY <1>8, <3>1, Climbed DEF SwapSilent
      <3>2. CASE u # "loop"
        <4>1. \E status \in {"done", "error"} : Report(u, status, 0)
          BY <1>8, <3>2 DEF SwapSilent, Callers
        <4>. QED BY <4>1, Reported
      <3>. QED BY <3>1, <3>2
    <2>2. call[u].pc = "swap" /\ (Send(u, "silent") \/ UNCHANGED chain)
      BY <1>8 DEF SwapSilent
    <2>. QED BY <1>8, <1>t, <2>1, <2>2 DEF SwapSilent, Quiet, Sends, Answers, Under, money
  <1>9. ASSUME NEW sent \in BOOLEAN, SwapCutOff(u, sent)
        PROVE  (Quiet(u) \/ Sends(u)) /\ Around /\ call[u].pc # "idle"
    <2>1. Returns(u) /\ Tells /\ units' \in Nat
      BY <1>9, Reported, Failed DEF SwapCutOff
    <2>2. call[u].pc = "swap" /\ (Send(u, "cut off") \/ UNCHANGED chain)
      BY <1>9 DEF SwapCutOff
    <2>. QED BY <1>9, <1>t, <2>1, <2>2 DEF SwapCutOff, Quiet, Sends, Answers, Under, money
  <1>10. ASSUME NEW revert \in BOOLEAN, NEW sent \in BOOLEAN, SwapError(u, revert, sent)
         PROVE  (Quiet(u) \/ Sends(u)) /\ Around /\ call[u].pc # "idle"
    <2>1. (Returns(u) \/ (revert /\ GoesOn(u))) /\ Tells /\ units' \in Nat
      BY <1>10, Climbed, Failed DEF SwapError
    <2>2. call[u].pc = "swap"
      BY <1>10 DEF SwapError
    <2>3. CASE ~sent
      BY <1>10, <1>t, <2>1, <2>2, <2>3 DEF SwapError, Quiet, money
    <2>4. CASE sent
      <3>1. PICK answer \in {"revert", "error"} : Send(u, answer) /\ (revert => answer = "revert")
        BY <1>10, <2>4 DEF SwapError
      <3>2. Sends(u)
        BY <2>1, <2>2, <3>1 DEF Sends, Answers, Under
      <3>. QED BY <1>10, <1>t, <2>1, <2>2, <3>2 DEF SwapError, money
    <2>. QED BY <2>3, <2>4
  <1>11. ASSUME NEW seen \in BOOLEAN, Confirm(u, seen)
         PROVE  Quiet(u) /\ Around /\ call[u].pc # "idle"
    <2>1. Returns(u) /\ Tells /\ units' \in Nat
      <3>1. CASE u = "loop"
        BY <1>11, <3>1, Reported, call[u].tx \in DOMAIN chain DEF Confirm, Conclude, Outcome
      <3>2. CASE u # "loop"
        BY <1>11, <3>2, Reported DEF Confirm
      <3>. QED BY <3>1, <3>2
    <2>. QED BY <1>11, <1>t, <2>1 DEF Confirm, Quiet, money
  <1>. QED BY <1>1, <1>2, <1>3, <1>4, <1>5, <1>6, <1>7, <1>8, <1>9, <1>10, <1>11 DEF Step

-----------------------------------------------------------------------------
(* Types, and whose transaction is whose.                                  *)

\* Calls are numbered apart; a call that is not waiting for a receipt has sent
\* nothing but what went unanswered or reverted.
Owned ==
    /\ \A u \in Callers : call[u].id <= calls /\ (call[u].pc = "idle" <=> call[u].id = 0)
    /\ \A u, v \in Callers : u # v /\ call[u].id = call[v].id => call[u].id = 0
    /\ \A i \in DOMAIN chain : chain[i].call \in 1 .. calls
    /\ \A u \in Callers : call[u].pc = "confirm" => call[u].tx \in DOMAIN chain
    /\ \A u \in Callers, i \in DOMAIN chain :
          call[u].pc # "confirm" /\ chain[i].call = call[u].id => Moot(chain[i])

WalletInv == TypeOK /\ Owned /\ OneSwapPerCall /\ FillIsMined /\ \A r \in reports : r.status = "FILLED" => r.tx \in DOMAIN chain

LEMMA WalletInit == Init => WalletInv
  <1>. SUFFICES ASSUME Init PROVE WalletInv
    OBVIOUS
  <1>1. TypeOK
    <2>1. chain \in Seq(Tx)
      BY DEF Init
    <2>2. call \in [Callers -> Call]
      BY Facts DEF Init
    <2>3. wallet \in [usdt : Nat, token : Nat] /\ units \in Nat
      BY NumberAssumption DEF Init
    <2>4. calls \in 0 .. MaxCalls /\ faults \in 0 .. MaxFaults
      BY Facts DEF Init
    <2>. QED BY <2>1, <2>2, <2>3, <2>4 DEF Init, TypeOK
  <1>2. DOMAIN chain = {} /\ reports = {} /\ calls = 0
        /\ \A u \in Callers : call[u].id = 0 /\ call[u].pc = "idle"
    BY Facts DEF Init
  <1>. QED BY <1>1, <1>2 DEF WalletInv, Owned, OneSwapPerCall, FillIsMined

\* What a caller's record is once set.
LEMMA SetRecord ==
  ASSUME TypeOK, NEW u \in Callers, NEW pc \in Under \cup {"confirm"}, NEW size \in 0 .. MaxSize,
         NEW rung \in 1 .. Rungs, NEW tx \in Nat, Set(u, pc, size, rung, tx)
  PROVE  /\ call' \in [Callers -> Call] /\ \A v \in Callers \ {u} : call'[v] = call[v]
         /\ call'[u].id = call[u].id /\ call'[u].pc = pc /\ call'[u].tx = tx
  <1>. DEFINE new == [pc |-> pc, id |-> call[u].id, dir |-> call[u].dir,
                      size |-> size, rung |-> rung, tx |-> tx]
  <1>1. new \in Call /\ new.id = call[u].id /\ new.pc = pc /\ new.tx = tx
    BY CallTyped DEF Call, Under
  <1>2. call' = [call EXCEPT ![u] = new]
    BY DEF Set
  <1>. HIDE DEF new
  <1>. QED BY <1>1, <1>2, CallTyped

LEMMA ChainFacts ==
  ASSUME TypeOK
  PROVE  /\ Len(chain) \in Nat /\ DOMAIN chain = 1 .. Len(chain)
         /\ \A i \in DOMAIN chain : chain[i] \in Tx /\ i \in Nat
  BY DEF TypeOK

LEMMA Appended ==
  ASSUME NEW S, NEW s \in Seq(S), NEW e \in S
  PROVE  /\ Append(s, e) \in Seq(S) /\ Len(Append(s, e)) = Len(s) + 1 /\ Len(s) + 1 \in Nat
         /\ DOMAIN Append(s, e) = DOMAIN s \cup {Len(s) + 1}
         /\ Append(s, e)[Len(s) + 1] = e
         /\ \A i \in DOMAIN s : Append(s, e)[i] = s[i] /\ i < Len(s) + 1 /\ i \in Nat
         /\ \A i, j \in DOMAIN Append(s, e) : i < j => i \in DOMAIN s
  <1>1. Append(s, e) \in Seq(S) /\ Len(Append(s, e)) = Len(s) + 1 /\ Len(s) \in Nat
    OBVIOUS
  <1>2. DOMAIN s = 1 .. Len(s) /\ DOMAIN Append(s, e) = 1 .. (Len(s) + 1)
    BY <1>1
  <1>3. Append(s, e)[Len(s) + 1] = e /\ \A i \in 1 .. Len(s) : Append(s, e)[i] = s[i]
    OBVIOUS
  <1>. QED BY <1>1, <1>2, <1>3

\* A step that sends nothing keeps everything.
LEMMA QuietKeeps ==
  ASSUME WalletInv, NEW u \in Callers, Quiet(u), Around, call[u].pc # "idle", backend' = backend
  PROVE  WalletInv'
  <1>. TypeOK /\ Owned
    BY DEF WalletInv
  <1>1. /\ call' \in [Callers -> Call] /\ \A v \in Callers \ {u} : call'[v] = call[v]
        /\ \/ call'[u].id = 0 /\ call'[u].pc = "idle"
           \/ /\ call'[u].id = call[u].id /\ call'[u].pc \in Under
              /\ call[u].pc # "confirm"
    <2>1. Len(chain) \in Nat
      BY ChainFacts
    <2>2. CASE Returns(u)
      BY <2>1, <2>2, CallTyped, Facts DEF Returns
    <2>3. CASE GoesOn(u) /\ call[u].pc # "confirm"
      <3>1. PICK pc \in Under, size \in 0 .. MaxSize, rung \in 1 .. Rungs, tx \in Nat :
               Set(u, pc, size, rung, tx)
        BY <2>3 DEF GoesOn
      <3>. QED BY <2>3, <3>1, SetRecord, Facts DEF Under
    <2>. QED BY <2>2, <2>3 DEF Quiet
  <1>2. TypeOK'
    BY <1>1 DEF Quiet, Around, TypeOK
  <1>3. chain' = chain /\ calls' = calls /\ calls \in Nat /\ call[u].id # 0
    BY NumberAssumption DEF Quiet, Around, TypeOK, Owned
  <1>4. \A i \in DOMAIN chain : chain[i].call # 0
    BY <1>3 DEF Owned
  <1>5. Owned'
    BY <1>1, <1>3, <1>4 DEF Owned, Under
  <1>6. OneSwapPerCall'
    BY <1>3 DEF WalletInv, OneSwapPerCall
  <1>7. FillIsMined' /\ \A r \in reports' : r.status = "FILLED" => r.tx \in DOMAIN chain'
    BY <1>3 DEF WalletInv, FillIsMined, Quiet, Tells
  <1>. QED BY <1>2, <1>5, <1>6, <1>7 DEF WalletInv

\* A call's record after a step: it returned, goes on, or waits for transaction n.
Becomes(u, n, goes) ==
    /\ call' \in [Callers -> Call] /\ \A v \in Callers \ {u} : call'[v] = call[v]
    /\ \/ call'[u].id = 0 /\ call'[u].pc = "idle"
       \/ goes /\ call'[u].id = call[u].id /\ call'[u].pc \in Under
       \/ call'[u].id = call[u].id /\ call'[u].pc = "confirm" /\ call'[u].tx = n

\* One transaction more, at the end.
Longer(n, new) ==
    /\ chain' \in Seq(Tx) /\ DOMAIN chain' = DOMAIN chain \cup {n} /\ chain'[n] = new
    /\ \A i \in DOMAIN chain : chain'[i] = chain[i] /\ i < n
    /\ \A i, j \in DOMAIN chain' : i < j => i \in DOMAIN chain

LEMMA Below ==
  ASSUME NEW x \in Nat, NEW y \in Nat, x # 0, x <= y
  PROVE  x \in 1 .. y
  OBVIOUS

LEMMA Extended ==
  ASSUME TypeOK, NEW new \in Tx, chain' = Append(chain, new)
  PROVE  \E n \in Nat : n = Len(chain) + 1 /\ Longer(n, new)
  <1>1. chain \in Seq(Tx)
    BY DEF TypeOK
  <1>2. /\ Append(chain, new) \in Seq(Tx) /\ Len(chain) + 1 \in Nat
        /\ DOMAIN Append(chain, new) = DOMAIN chain \cup {Len(chain) + 1}
        /\ Append(chain, new)[Len(chain) + 1] = new
        /\ \A i \in DOMAIN chain : Append(chain, new)[i] = chain[i] /\ i < Len(chain) + 1
        /\ \A i, j \in DOMAIN Append(chain, new) : i < j => i \in DOMAIN chain
    BY <1>1, Appended
  <1>. QED BY <1>2, Zenon DEF Longer

LEMMA OneLonger ==
  ASSUME Owned, OneSwapPerCall, NEW u \in Callers, NEW n \in Nat, NEW new \in Tx, Longer(n, new),
         new.call = call[u].id, call[u].pc \in Under
  PROVE  OneSwapPerCall'
  <1>. SUFFICES ASSUME NEW i \in DOMAIN chain', NEW j \in DOMAIN chain', i < j,
                       chain'[i].call = chain'[j].call
                PROVE  Moot(chain'[i])
    BY DEF OneSwapPerCall, Moot
  <1>1. i \in DOMAIN chain
    BY DEF Longer
  <1>2. CASE j \in DOMAIN chain
    BY <1>1, <1>2 DEF OneSwapPerCall, Longer, Moot
  <1>3. CASE j = n
    BY <1>1, <1>3 DEF Owned, Longer, Under
  <1>. QED BY <1>2, <1>3 DEF Longer

\* The transaction of a call under way, the first of the call that is not moot.
LEMMA OwnedLonger ==
  ASSUME TypeOK, Owned, NEW u \in Callers, NEW n \in Nat, NEW new \in Tx, Longer(n, new),
         Becomes(u, n, Moot(new)), new.call = call[u].id, call[u].pc \in Under,
         calls' = calls
  PROVE  Owned'
  <1>1. call[u].pc # "confirm" /\ call[u].pc # "idle"
    BY DEF Under
  <1>2. call[u].id \in 1 .. calls
    BY <1>1, CallTyped, Below DEF Owned
  <1>3. call[u].id # 0 /\ call[u].id <= calls
    BY <1>1 DEF Owned
  <1>4. \A v \in Callers : call'[v].id <= calls' /\ (call'[v].pc = "idle" <=> call'[v].id = 0)
    <2>1. 0 <= calls
      BY CallTyped
    <2>. QED BY <1>3, <2>1 DEF Owned, Under, Becomes
  <1>5. \A v, w \in Callers : v # w /\ call'[v].id = call'[w].id => call'[v].id = 0
    BY DEF Owned, Becomes
  <1>6. \A i \in DOMAIN chain' : chain'[i].call \in 1 .. calls'
    BY <1>2 DEF Owned, Longer
  <1>7. \A v \in Callers : call'[v].pc = "confirm" => call'[v].tx \in DOMAIN chain'
    BY DEF Owned, Under, Becomes, Longer
  <1>8. ASSUME NEW v \in Callers, NEW i \in DOMAIN chain',
               call'[v].pc # "confirm", chain'[i].call = call'[v].id
        PROVE  Moot(chain'[i])
    <2>0. call'[v].id # 0
      BY <1>6, <1>8, CallTyped
    <2>1. CASE i \in DOMAIN chain
      BY <1>1, <1>8, <2>0, <2>1 DEF Owned, Becomes, Longer
    <2>2. CASE i = n
      <3>1. v = u
        BY <1>3, <1>8, <2>2 DEF Owned, Becomes, Longer
      <3>. QED BY <1>8, <2>0, <2>2, <3>1 DEF Becomes, Longer
    <2>. QED BY <2>1, <2>2 DEF Longer
  <1>. QED BY <1>4, <1>5, <1>6, <1>7, <1>8 DEF Owned

\* A step that sends one transaction.
LEMMA SendKeeps ==
  ASSUME WalletInv, NEW u \in Callers, Sends(u), Around, backend' = backend
  PROVE  WalletInv'
  <1>. TypeOK /\ Owned
    BY DEF WalletInv
  <1>1. PICK answer \in Answers :
           /\ Send(u, answer)
           /\ Returns(u) \/ Awaits(u) \/ (answer \in {"silent", "revert"} /\ GoesOn(u))
    BY DEF Sends
  <1>2. PICK new \in Tx : /\ new.call = call[u].id /\ chain' = Append(chain, new)
                          /\ answer \in {"silent", "revert"} => Moot(new)
    <2>. DEFINE tx == [call |-> call[u].id, dir |-> call[u].dir, amt |-> call[u].size,
                       answer |-> answer,
                       status |-> IF answer = "revert" THEN "reverted" ELSE "pending"]
    <2>1. tx \in Tx /\ tx.call = call[u].id /\ chain' = Append(chain, tx)
      BY <1>1, CallTyped DEF Tx, Send, Answers
    <2>2. answer \in {"silent", "revert"} => Moot(tx)
      BY DEF Moot
    <2>. HIDE DEF tx
    <2>. QED BY <2>1, <2>2
  <1>3. PICK n \in Nat : n = Len(chain) + 1 /\ Longer(n, new)
    BY <1>2, Extended, Zenon
  <1>4. Becomes(u, n, Moot(new))
    <2>1. CASE Returns(u)
      BY <2>1, CallTyped, Facts DEF Returns, Becomes
    <2>2. CASE Awaits(u)
      <3>1. PICK size \in 0 .. MaxSize, rung \in 1 .. Rungs : Set(u, "confirm", size, rung, n)
        BY <1>3, <2>2 DEF Awaits
      <3>2. "confirm" \in Under \cup {"confirm"}
        OBVIOUS
      <3>3. /\ call' \in [Callers -> Call] /\ \A v \in Callers \ {u} : call'[v] = call[v]
            /\ call'[u].id = call[u].id /\ call'[u].pc = "confirm" /\ call'[u].tx = n
        BY <3>1, <3>2, SetRecord
      <3>. QED BY <3>3, Zenon DEF Becomes
    <2>3. CASE answer \in {"silent", "revert"} /\ GoesOn(u)
      <3>1. PICK pc \in Under, size \in 0 .. MaxSize, rung \in 1 .. Rungs, tx \in Nat :
               Set(u, pc, size, rung, tx)
        BY <2>3 DEF GoesOn
      <3>. QED BY <1>2, <2>3, <3>1, SetRecord DEF Becomes
    <2>. QED BY <1>1, <2>1, <2>2, <2>3
  <1>5. call[u].pc \in Under /\ Tells /\ calls' = calls
    BY DEF Sends, Around
  <1>6. TypeOK'
    BY <1>3, <1>4 DEF Around, TypeOK, Becomes, Longer
  <1>7. Owned'
    BY <1>2, <1>3, <1>4, <1>5, OwnedLonger
  <1>8. OneSwapPerCall'
    BY <1>2, <1>3, <1>5, OneLonger DEF WalletInv
  <1>9. FillIsMined' /\ \A r \in reports' : r.status = "FILLED" => r.tx \in DOMAIN chain'
    BY <1>3, <1>5 DEF WalletInv, FillIsMined, Tells, Longer
  <1>. QED BY <1>6, <1>7, <1>8, <1>9 DEF WalletInv

-----------------------------------------------------------------------------
(* The other steps.                                                        *)

\* A transaction changes its status only.
LEMMA Settled ==
  ASSUME TypeOK, NEW i \in DOMAIN chain, NEW status \in {"mined", "reverted"}, Settle(i, status),
         chain[i].status = "pending"
  PROVE  /\ chain' \in Seq(Tx) /\ DOMAIN chain' = DOMAIN chain
         /\ \A j \in DOMAIN chain :
               /\ chain'[j].call = chain[j].call /\ chain'[j].answer = chain[j].answer
               /\ j # i => chain'[j] = chain[j]
               /\ Moot(chain[j]) => Moot(chain'[j])
  <1>1. chain \in Seq(Tx) /\ DOMAIN chain = 1 .. Len(chain) /\ Len(chain) \in Nat /\ chain[i] \in Tx
    BY ChainFacts DEF TypeOK
  <1>. DEFINE new == [chain[i] EXCEPT !.status = status]
  <1>2. new \in Tx /\ new.call = chain[i].call /\ new.answer = chain[i].answer
    BY <1>1 DEF Tx
  <1>3. chain' = [chain EXCEPT ![i] = new]
    BY DEF Settle
  <1>. HIDE DEF new
  <1>4. chain' \in Seq(Tx) /\ DOMAIN chain' = DOMAIN chain
    BY <1>1, <1>2, <1>3
  <1>5. \A j \in DOMAIN chain : j # i => chain'[j] = chain[j]
    BY <1>1, <1>3
  <1>6. chain'[i] = new
    BY <1>1, <1>3
  <1>7. Moot(chain[i]) => Moot(chain'[i])
    BY <1>2, <1>6 DEF Moot
  <1>. QED BY <1>2, <1>4, <1>5, <1>6, <1>7

LEMMA ChainKeeps ==
  ASSUME WalletInv, NEW i \in DOMAIN chain, Mine(i) \/ Revert(i), backend' = backend
  PROVE  WalletInv'
  <1>. TypeOK /\ Owned
    BY DEF WalletInv
  <1>1. PICK status \in {"mined", "reverted"} : Settle(i, status) /\ chain[i].status = "pending"
    BY DEF Mine, Revert
  <1>2. /\ chain' \in Seq(Tx) /\ DOMAIN chain' = DOMAIN chain
        /\ \A j \in DOMAIN chain :
              /\ chain'[j].call = chain[j].call /\ chain'[j].answer = chain[j].answer
              /\ j # i => chain'[j] = chain[j]
              /\ Moot(chain[j]) => Moot(chain'[j])
    BY <1>1, Settled
  <1>3. UNCHANGED <<call, calls, reports, units, reconciled, allowed, approved, faults>>
    BY DEF Mine, Revert, money, books
  <1>4. wallet' \in [usdt : Nat, token : Nat]
    <2>1. wallet \in [usdt : Nat, token : Nat] /\ chain[i] \in Tx
      BY ChainFacts DEF TypeOK
    <2>2. chain[i].dir \in {"buy", "sell", "out"} /\ chain[i].amt \in Nat
      <3>1. chain[i].amt \in 0 .. MaxSize /\ MaxSize \in Nat /\ chain[i].dir \in {"buy", "sell", "out"}
        BY <2>1, Facts DEF Tx
      <3>. QED BY <3>1
    <2>3. CASE Mine(i)
      <3>1. chain[i].amt <= IF chain[i].dir = "sell" THEN wallet.token ELSE wallet.usdt
        BY <2>3 DEF Mine, Covered, Funded
      <3>2. CASE chain[i].dir = "buy"
        <4>1. wallet' = [usdt |-> wallet.usdt - chain[i].amt, token |-> wallet.token + chain[i].amt]
          BY <2>3, <3>2 DEF Mine
        <4>. QED BY <2>1, <2>2, <3>1, <3>2, <4>1
      <3>3. CASE chain[i].dir = "sell"
        <4>1. wallet' = [usdt |-> wallet.usdt + chain[i].amt, token |-> wallet.token - chain[i].amt]
          BY <2>3, <3>3 DEF Mine
        <4>. QED BY <2>1, <2>2, <3>1, <3>3, <4>1
      <3>4. CASE chain[i].dir = "out"
        <4>1. wallet' = [wallet EXCEPT !.usdt = @ - chain[i].amt]
          BY <2>3, <3>4 DEF Mine
        <4>. QED BY <2>1, <2>2, <3>1, <3>4, <4>1
      <3>. QED BY <2>2, <3>2, <3>3, <3>4
    <2>4. CASE Revert(i)
      BY <2>1, <2>4 DEF Revert, money
    <2>. QED BY <2>3, <2>4
  <1>5. TypeOK'
    BY <1>2, <1>3, <1>4 DEF TypeOK
  <1>6. Owned'
    BY <1>2, <1>3 DEF Owned
  <1>7. OneSwapPerCall'
    BY <1>2 DEF WalletInv, OneSwapPerCall, Moot
  <1>8. FillIsMined' /\ \A r \in reports' : r.status = "FILLED" => r.tx \in DOMAIN chain'
    BY <1>1, <1>2, <1>3 DEF WalletInv, FillIsMined
  <1>. QED BY <1>5, <1>6, <1>7, <1>8 DEF WalletInv

\* A new call has a number no transaction bears.
LEMMA BeginKeeps ==
  ASSUME WalletInv, NEW u \in Callers, NEW dir \in {"buy", "sell", "out"}, NEW size \in 1 .. MaxSize,
         Begin(u, dir, size), backend' = backend
  PROVE  WalletInv'
  <1>. TypeOK /\ Owned
    BY DEF WalletInv
  <1>1. PICK id \in Nat : id = calls + 1 /\ id \in 1 .. MaxCalls /\ calls < id
    <2>1. calls \in Nat /\ MaxCalls \in Nat /\ calls < MaxCalls
      BY CallTyped, Facts DEF Begin
    <2>2. calls + 1 \in Nat /\ calls + 1 \in 1 .. MaxCalls /\ calls < calls + 1
      BY <2>1
    <2>. QED BY <2>2
  <1>. DEFINE new == [pc |-> Start(u, dir), id |-> id, dir |-> dir, size |-> size, rung |-> 1, tx |-> 0]
  <1>2. Start(u, dir) \in Under /\ size \in 0 .. MaxSize /\ id \in 0 .. MaxCalls /\ 1 \in 1 .. Rungs
    BY <1>1, Facts DEF Start, Under
  <1>3. new \in Call /\ new.id = id /\ new.pc \in Under
    BY <1>2 DEF Call, Under
  <1>4. call' = [call EXCEPT ![u] = new]
    BY <1>1 DEF Begin
  <1>5. /\ calls' = id /\ UNCHANGED <<chain, reports>>
        /\ UNCHANGED <<wallet, allowed, approved, units, reconciled, faults>>
    BY <1>1 DEF Begin, money, books
  <1>. HIDE DEF new
  <1>6. /\ call' \in [Callers -> Call] /\ call'[u] = new /\ \A v \in Callers \ {u} : call'[v] = call[v]
    BY <1>3, <1>4, CallTyped
  <1>7. TypeOK'
    <2>1. calls' \in 0 .. MaxCalls
      BY <1>1, <1>5
    <2>. QED BY <1>5, <1>6, <2>1 DEF TypeOK
  <1>8. Owned'
    <2>0. calls \in Nat /\ id # 0
      BY <1>1, CallTyped
    <2>1. \A v \in Callers : call[v].id <= calls /\ call[v].id \in Nat
      BY CallTyped DEF Owned
    <2>2. \A v \in Callers : call'[v].id <= calls' /\ (call'[v].pc = "idle" <=> call'[v].id = 0)
      <3>1. \A v \in Callers : call[v].id <= id /\ call[v].id # id
        BY <1>1, <2>0, <2>1
      <3>. QED BY <1>3, <1>5, <1>6, <2>0, <3>1 DEF Owned, Under
    <2>3. \A v, w \in Callers : v # w /\ call'[v].id = call'[w].id => call'[v].id = 0
      <3>1. \A v \in Callers : call[v].id # id
        BY <1>1, <2>0, <2>1
      <3>. QED BY <1>3, <1>6, <3>1 DEF Owned
    <2>4. \A i \in DOMAIN chain' : chain'[i].call \in 1 .. calls' /\ chain'[i].call # id
      <3>1. \A k \in 1 .. calls : k \in 1 .. id /\ k # id
        BY <1>1, <2>0
      <3>. QED BY <1>5, <3>1 DEF Owned
    <2>5. \A v \in Callers : call'[v].pc = "confirm" => call'[v].tx \in DOMAIN chain'
      BY <1>3, <1>5, <1>6 DEF Owned, Under
    <2>6. \A v \in Callers, i \in DOMAIN chain' :
             call'[v].pc # "confirm" /\ chain'[i].call = call'[v].id => Moot(chain'[i])
      BY <1>3, <1>5, <1>6, <2>4 DEF Owned
    <2>. QED BY <2>2, <2>3, <2>4, <2>5, <2>6 DEF Owned
  <1>. QED BY <1>5, <1>7, <1>8 DEF WalletInv, OneSwapPerCall, FillIsMined

\* The sync, a restart and a revocation leave the chain and the reports alone.
LEMMA RestKeeps ==
  ASSUME WalletInv, Sync \/ Restart \/ (\E op \in Operators : Revoke(op)) \/ UNCHANGED vars,
         backend' = backend
  PROVE  WalletInv'
  <1>. TypeOK /\ Owned
    BY DEF WalletInv
  <1>1. chain' = chain /\ reports' = reports /\ calls' = calls /\ wallet' = wallet
    BY DEF Sync, Restart, Revoke, vars, money
  <1>2. call' = call \/ call' = [call EXCEPT !["loop"] = Idle]
    BY DEF Sync, Restart, Revoke, vars
  <1>3. /\ call' \in [Callers -> Call]
        /\ \A v \in Callers : call'[v] = call[v] \/ (call'[v].id = 0 /\ call'[v].pc = "idle")
    BY <1>2, CallTyped, Facts
  <1>4. faults' \in 0 .. MaxFaults
    <2>1. faults \in 0 .. MaxFaults /\ MaxFaults \in Nat
      BY Facts DEF TypeOK
    <2>2. faults' = faults \/ (faults < MaxFaults /\ faults' = faults + 1)
      BY DEF Sync, Restart, Revoke, vars, Spend
    <2>. QED BY <2>1, <2>2
  <1>5. units' \in Nat /\ reconciled' \in BOOLEAN /\ allowed' \subseteq Operators /\ approved' \subseteq Operators
    <2>1. units \in Nat /\ reconciled \in BOOLEAN /\ allowed \subseteq Operators /\ approved \subseteq Operators
      BY DEF TypeOK
    <2>2. CASE Sync
      BY <2>1, <2>2 DEF Sync, money
    <2>3. CASE Restart
      BY <2>1, <2>3 DEF Restart, money
    <2>4. CASE \E op \in Operators : Revoke(op)
      BY <2>1, <2>4 DEF Revoke, books
    <2>5. CASE UNCHANGED vars
      BY <2>1, <2>5 DEF vars, money, books
    <2>. QED BY <2>2, <2>3, <2>4, <2>5
  <1>6. TypeOK'
    BY <1>1, <1>3, <1>4, <1>5 DEF TypeOK
  <1>7. Owned'
    <2>1. calls \in Nat /\ 0 <= calls /\ \A i \in DOMAIN chain : chain[i].call # 0
      BY CallTyped, Facts DEF Owned
    <2>. QED BY <1>1, <1>3, <2>1 DEF Owned
  <1>. QED BY <1>1, <1>6, <1>7 DEF WalletInv, OneSwapPerCall, FillIsMined

-----------------------------------------------------------------------------

LEMMA WalletStep == WalletInv /\ [Next]_vars => WalletInv'
  <1>. SUFFICES ASSUME WalletInv, [Next]_vars PROVE WalletInv'
    OBVIOUS
  <1>1. backend' = backend
    BY DEF Next, vars
  <1>2. ASSUME NEW i \in DOMAIN chain, Mine(i) \/ Revert(i) PROVE WalletInv'
    BY <1>1, <1>2, ChainKeeps
  <1>3. ASSUME NEW u \in Callers, NEW dir \in {"buy", "sell", "out"}, NEW size \in 1 .. MaxSize,
               Begin(u, dir, size)
        PROVE  WalletInv'
    BY <1>1, <1>3, BeginKeeps
  <1>4. ASSUME NEW u \in Callers, Step(u) PROVE WalletInv'
    <2>1. TypeOK /\ (call[u].pc = "confirm" => call[u].tx \in DOMAIN chain)
      BY DEF WalletInv, Owned
    <2>2. (Quiet(u) \/ Sends(u)) /\ Around /\ call[u].pc # "idle"
      BY <1>4, <2>1, StepForm
    <2>. QED BY <1>1, <2>2, QuietKeeps, SendKeeps
  <1>5. CASE Sync \/ Restart \/ (\E op \in Operators : Revoke(op)) \/ UNCHANGED vars
    BY <1>1, <1>5, RestKeeps
  <1>. QED BY <1>2, <1>3, <1>4, <1>5 DEF Next, Move

\* The types of every variable, for every number of callers' calls.
THEOREM Typing == Spec => []TypeOK
  <1>1. WalletInv => TypeOK
    BY DEF WalletInv
  <1>. QED BY <1>1, WalletInit, WalletStep, PTL DEF Spec

\* A fill in the ledger stands for a mined transaction (confirm_swap and the
\* status the executor makes of it), whatever the other callers, restarts and
\* silent or lost answers did in between.
THEOREM FillsAreMined == Spec => []FillIsMined
  <1>1. WalletInv => FillIsMined
    BY DEF WalletInv
  <1>. QED BY <1>1, WalletInit, WalletStep, PTL DEF Spec

\* Within one call of any caller a second swap follows only silent answers and
\* swaps that reverted (the ladder of TwakSwapExecutor.execute), for any length
\* of the ladder.
THEOREM OneSwap == Spec => []OneSwapPerCall
  <1>1. WalletInv => OneSwapPerCall
    BY DEF WalletInv
  <1>. QED BY <1>1, WalletInit, WalletStep, PTL DEF Spec

=============================================================================
