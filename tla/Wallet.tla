------------------------------- MODULE Wallet -------------------------------
(***************************************************************************)
(* One wallet and the three callers that spend from it: the executor of    *)
(* the trading loop, the operator's commands (convert, withdraw, revoke)   *)
(* and the wallet manager, an agent that may sell.  None of them knows of  *)
(* the others.  All go through the twak command line, except that the loop *)
(* may be configured for the BNB SDK instead (OnchainExecutor).            *)
(*                                                                         *)
(* A swap is a transaction: it waits, then it is mined or it reverts.  The *)
(* command that sends it answers with a hash, with an error, with neither  *)
(* (the silent answer), or is cut off by its timeout, and none but the     *)
(* first says whether it was sent.  At the end of every cycle the loop     *)
(* compares its ledger with the wallet and closes a position the wallet no *)
(* longer holds.  Amounts are in trades of the least size, fees included.  *)
(***************************************************************************)
EXTENDS Integers, Sequences, FiniteSets

CONSTANTS
    Operators,   \* _BSC_USDT_OPERATORS: the spenders a purchase is routed through
    Rungs,       \* length of the slippage ladder
    USDT, Token, \* what the wallet holds at first
    MaxSize,     \* bound: size of an order
    MaxCalls,    \* bound: calls
    MaxSent,     \* bound: transactions
    MaxFaults    \* bound: restarts and revocations

ASSUME OperatorAssumption == IsFiniteSet(Operators) /\ Operators # {}
ASSUME NumberAssumption ==
    /\ {Rungs, USDT, Token, MaxSize, MaxCalls, MaxSent, MaxFaults} \subseteq Nat
    /\ Rungs > 0 /\ MaxSize > 0

Callers == {"loop", "worker", "manager"}

VARIABLES
    backend,    \* execution_backend of the loop: "twak" or "sdk"
    chain,      \* the transactions sent: [call, dir, amt, answer, status]
    wallet,     \* balances on chain: [usdt, token]
    allowed,    \* operators with an allowance on chain
    call,       \* the call of each caller: [pc, id, dir, size, rung, tx]
    calls,      \* calls begun
    reports,    \* what the calls returned: [call, status, tx], tx 0 for none
    approved,   \* _approved_routers: operators the executor takes for approved
    units,      \* position of the loop's ledger
    reconciled, \* _position_reconciled: once a session
    faults

money == <<wallet, allowed>>
books == <<units, reconciled>>
vars  == <<backend, chain, money, call, calls, reports, approved, books, faults>>

Least(a, b) == IF a < b THEN a ELSE b
Spend == faults < MaxFaults /\ faults' = faults + 1

Idle == [pc |-> "idle", id |-> 0, dir |-> "buy", size |-> 0, rung |-> 1, tx |-> 0]

-----------------------------------------------------------------------------
(* The chain.                                                              *)

Funded(dir, amt) == amt <= IF dir = "sell" THEN wallet.token ELSE wallet.usdt

\* Whether the wallet and, for a purchase, some operator's allowance cover it.
Covered(tx) == Funded(tx.dir, tx.amt) /\ (tx.dir = "buy" => allowed # {})

Settle(i, status) == chain' = [chain EXCEPT ![i].status = status]

\* A pending transaction is mined and moves its amount.
Mine(i) ==
    /\ chain[i].status = "pending" /\ Covered(chain[i])
    /\ Settle(i, "mined")
    /\ LET tx == chain[i] IN
       wallet' = CASE tx.dir = "buy"  -> [usdt |-> wallet.usdt - tx.amt, token |-> wallet.token + tx.amt]
                   [] tx.dir = "sell" -> [usdt |-> wallet.usdt + tx.amt, token |-> wallet.token - tx.amt]
                   [] tx.dir = "out"  -> [wallet EXCEPT !.usdt = @ - tx.amt]
    /\ UNCHANGED <<allowed, call, calls, reports, approved, books, faults>>

\* Or it reverts, for want of money or for any other reason.
Revert(i) ==
    /\ chain[i].status = "pending"
    /\ Settle(i, "reverted")
    /\ UNCHANGED <<money, call, calls, reports, approved, books, faults>>

-----------------------------------------------------------------------------
(* What a caller does next.                                                *)

Set(u, pc, size, rung, tx) ==
    call' = [call EXCEPT ![u] = [pc |-> pc, id |-> call[u].id, dir |-> call[u].dir,
                                 size |-> size, rung |-> rung, tx |-> tx]]
Goto(u, pc) == Set(u, pc, call[u].size, call[u].rung, call[u].tx)

\* The call returns.  A fill of the loop's goes into its ledger.
Report(u, status, tx) ==
    /\ reports' = reports \cup {[call |-> call[u].id, status |-> status, tx |-> tx]}
    /\ call' = [call EXCEPT ![u] = Idle]
    /\ units' = IF u # "loop" \/ status # "FILLED" THEN units
                ELSE IF call[u].dir = "buy" THEN units + call[u].size
                ELSE units - Least(units, call[u].size)

\* The next rung of the ladder, with a quote of its own, or the end of it.
NextRung(u) ==
    IF call[u].rung = Rungs THEN Report(u, "FAILED", 0)
    ELSE /\ Set(u, "quote", call[u].size, call[u].rung + 1, call[u].tx)
         /\ UNCHANGED <<reports, units>>

\* What an error of the command line means to each caller.
Fails(u) == Report(u, IF u = "manager" THEN "error" ELSE "FAILED", 0)

Dirs(u) ==
    CASE u = "loop"    -> {"buy"} \cup IF units > 0 THEN {"sell"} ELSE {}
      [] u = "worker"  -> {"buy", "sell", "out"}
      [] u = "manager" -> {"sell"}

\* build_executor and the handlers: where a call begins.  A withdrawal goes out
\* without a quote; the SDK's executor neither clamps nor approves.
Start(u, dir) ==
    CASE dir = "out" -> "swap"
      [] u = "loop" /\ backend = "sdk" -> "simulate"
      [] u = "loop" /\ backend = "twak" /\ dir = "buy" -> "clamp"
      [] OTHER -> "quote"

\* An order, a command, or a tool call of the manager's.  The loop sells all it
\* thinks it holds.
Begin(u, dir, size) ==
    /\ call[u].pc = "idle" /\ calls < MaxCalls
    /\ dir \in Dirs(u) /\ (u = "loop" /\ dir = "sell" => size = units)
    /\ calls' = calls + 1
    /\ call' = [call EXCEPT ![u] = [pc |-> Start(u, dir), id |-> calls + 1, dir |-> dir,
                                    size |-> size, rung |-> 1, tx |-> 0]]
    /\ UNCHANGED <<chain, money, reports, approved, books, faults>>

\* _clamp_buy_to_balance: a balance that cannot be read clamps nothing.
Clamp(read) ==
    /\ call["loop"].pc = "clamp"
    /\ IF read /\ wallet.usdt = 0 THEN Report("loop", "REJECTED", 0)
       ELSE /\ Set("loop", "approve",
                   IF read THEN Least(call["loop"].size, wallet.usdt) ELSE call["loop"].size, 1, 0)
            /\ UNCHANGED <<reports, units>>
    /\ UNCHANGED <<chain, money, calls, approved, reconciled, faults>>

\* _ensure_usdt_approval: each operator not yet taken for approved is asked
\* about, and approved where the answer is too little; "good" are those whose
\* commands returned, "landed" those whose approval was mined.
Approve(good, landed) ==
    /\ call["loop"].pc = "approve"
    /\ good \subseteq Operators \ approved /\ landed \subseteq good \ allowed
    /\ approved' = approved \cup good /\ allowed' = allowed \cup landed
    /\ Goto("loop", "quote")
    /\ UNCHANGED <<chain, wallet, calls, reports, books, faults>>

\* The quote: an error sends the executor up the ladder and ends the others; an
\* impact over the cap ends the call (the manager has no cap); "raised" is a
\* timeout or the rug check of the first rung, which leaves the cycle too.  A
\* convert then looks at the balance, and a purchase approves a router that
\* has no allowance at all.
Quote(u, answer) ==
    /\ call[u].pc = "quote"
    /\ CASE answer = "error"  -> IF u = "loop" THEN NextRung(u) ELSE Fails(u)
         [] answer = "impact" -> /\ u # "manager"
                                 /\ Report(u, IF u = "loop" THEN "REJECTED" ELSE "FAILED", 0)
         [] answer = "raised" -> u = "loop" /\ Report(u, "raised", 0)
         [] answer = "ok"     -> /\ u = "worker" => Funded(call[u].dir, call[u].size)
                                 /\ Goto(u, "swap") /\ UNCHANGED <<reports, units>>
    /\ \E op \in Operators :
         allowed' \in {allowed} \cup
             IF answer = "ok" /\ u = "worker" /\ call[u].dir = "buy" THEN {allowed \cup {op}} ELSE {}
    /\ UNCHANGED <<chain, wallet, calls, approved, reconciled, faults>>

Send(u, answer) ==
    chain' = Append(chain, [call |-> call[u].id, dir |-> call[u].dir, amt |-> call[u].size,
                            answer |-> answer,
                            status |-> IF answer = "revert" THEN "reverted" ELSE "pending"])

\* The command answers with the hash of what it sent.
SwapHash(u) ==
    /\ call[u].pc = "swap" /\ Len(chain) < MaxSent
    /\ Send(u, "hash")
    /\ IF u = "manager" \/ call[u].dir = "out" THEN Report(u, "done", Len(chain) + 1)
       ELSE /\ Set(u, "confirm", call[u].size, call[u].rung, Len(chain) + 1)
            /\ UNCHANGED <<reports, units>>
    /\ UNCHANGED <<money, calls, approved, reconciled, faults>>

\* It ends well and names no hash, and may or may not have sent the swap: the
\* executor goes up the ladder, a command counts as done, the manager reads
\* "ok": false.
SwapSilent(u, sent) ==
    /\ call[u].pc = "swap" /\ Len(chain) < MaxSent
    /\ IF sent THEN Send(u, "silent") ELSE UNCHANGED chain
    /\ CASE u = "loop"    -> NextRung(u)
         [] u = "worker"  -> Report(u, "done", 0)
         [] u = "manager" -> Report(u, "error", 0)
    /\ UNCHANGED <<money, calls, approved, reconciled, faults>>

\* It is cut off, and may or may not have sent the swap.  The executor catches
\* TwakError alone, so the timeout leaves it and the cycle; the others catch it.
SwapCutOff(u, sent) ==
    /\ call[u].pc = "swap" /\ Len(chain) < MaxSent
    /\ IF sent THEN Send(u, "cut off") ELSE UNCHANGED chain
    /\ IF u = "loop" THEN Report(u, "raised", 0) ELSE Fails(u)
    /\ UNCHANGED <<money, calls, approved, reconciled, faults>>

\* It answers with an error, before it sent the swap or after.  One that names a
\* revert (TX_FAILED, execution reverted) sends the executor up the ladder, and
\* is taken to be true of what was sent.
SwapError(u, revert, sent) ==
    /\ call[u].pc = "swap" /\ (sent => Len(chain) < MaxSent)
    /\ IF sent THEN Send(u, IF revert THEN "revert" ELSE "error") ELSE UNCHANGED chain
    /\ IF revert /\ u = "loop" THEN NextRung(u) ELSE Fails(u)
    /\ UNCHANGED <<money, calls, approved, reconciled, faults>>

-----------------------------------------------------------------------------
(* The BNB SDK.                                                            *)

\* What the loop's order spends: a purchase the stable coin, a sale the token.
OrderToSwap == [dir |-> call["loop"].dir, amt |-> call["loop"].size]

\* simulate_swap asks the node to run the order, which refuses what the wallet
\* does not cover; the slippage cap refuses for reasons of its own.
Simulate(answer) ==
    /\ call["loop"].pc = "simulate"
    /\ CASE answer = "error"   -> Report("loop", "FAILED", 0)
         [] answer = "refused" -> Report("loop", "REJECTED", 0)
         [] answer = "ok"      -> /\ Covered(OrderToSwap)
                                  /\ Goto("loop", "sign") /\ UNCHANGED <<reports, units>>
    /\ UNCHANGED <<chain, money, calls, approved, reconciled, faults>>

\* Whether the signer can sign is its own matter (the TWAKClient of the runtime
\* cannot, the one of the tests can); an unsigned order is sent nowhere.
Unsigned ==
    /\ call["loop"].pc = "sign"
    /\ Report("loop", "FAILED", 0)
    /\ UNCHANGED <<chain, money, calls, approved, reconciled, faults>>

\* The node takes the transaction.  When its answer is lost, the order counts as
\* failed, and is not sent again.
Broadcast(answered) ==
    /\ call["loop"].pc = "sign" /\ Len(chain) < MaxSent
    /\ Send("loop", IF answered THEN "hash" ELSE "cut off")
    /\ IF answered
       THEN /\ Set("loop", "confirm", call["loop"].size, call["loop"].rung, Len(chain) + 1)
            /\ UNCHANGED <<reports, units>>
       ELSE Report("loop", "FAILED", 0)
    /\ UNCHANGED <<money, calls, approved, reconciled, faults>>

-----------------------------------------------------------------------------
(* The receipt.                                                            *)

\* Mutant of Outcome: any receipt is a fill.
MutOutcome(u, seen) == IF seen THEN "FILLED" ELSE "FAILED"

\* What the receipt of the swap, if one came in time, makes of the order.
Outcome(u, seen) ==
    IF seen /\ chain[call[u].tx].status = "mined" THEN "FILLED" ELSE "FAILED"

\* A broken copy of Conclude: an order not confirmed in time goes up the ladder.
MutConclude(u, seen) ==
    IF seen THEN Report(u, Outcome(u, seen), call[u].tx) ELSE NextRung(u)

\* The order is over either way, and a failure names the transaction too, except
\* that the SDK's wait ends in an exception that names none.
Conclude(u, seen) ==
    Report(u, Outcome(u, seen), IF seen \/ backend = "twak" THEN call[u].tx ELSE 0)

\* The receipt, or no receipt within the time.  A convert wants it only for the
\* gas: it is done, and a trade is recorded, whatever comes.
Confirm(u, seen) ==
    /\ call[u].pc = "confirm"
    /\ seen => chain[call[u].tx].status # "pending"
    /\ IF u = "loop" THEN Conclude(u, seen) ELSE Report(u, "done", call[u].tx)
    /\ UNCHANGED <<chain, money, calls, approved, reconciled, faults>>

-----------------------------------------------------------------------------
(* The loop around the executor.                                           *)

\* Mutant of Gone: the balance of the wrong token.
MutGone == units > 0 /\ wallet.usdt * 20 < units

\* Less than a twentieth of the ledger's position is in the wallet.
Gone == units > 0 /\ wallet.token * 20 < units

\* The wallet sync at the end of a cycle.
Sync ==
    /\ call["loop"].pc = "idle"
    /\ Gone /\ ~reconciled
    /\ units' = 0 /\ reconciled' = TRUE
    /\ UNCHANGED <<chain, money, call, calls, reports, approved, faults>>

\* The loop's process starts again: a call under way is lost, the position is
\* read back, and the caches of the session are empty.
Restart ==
    /\ Spend
    /\ call' = [call EXCEPT !["loop"] = Idle]
    /\ approved' = {} /\ reconciled' = FALSE
    /\ UNCHANGED <<chain, money, calls, reports, units>>

\* The operator revokes an allowance (erc20_revoke); no one tells the executor.
Revoke(op) ==
    /\ call["worker"].pc = "idle" /\ op \in allowed
    /\ Spend
    /\ allowed' = allowed \ {op}
    /\ UNCHANGED <<chain, wallet, call, calls, reports, approved, books>>

Init ==
    /\ backend \in {"twak", "sdk"}
    /\ chain = <<>> /\ wallet = [usdt |-> USDT, token |-> Token]
    /\ allowed = {} /\ approved = {}
    /\ call = [u \in Callers |-> Idle] /\ calls = 0 /\ reports = {}
    /\ units = Token /\ reconciled = FALSE /\ faults = 0

\* What a caller does once called, up to its return.
Step(u) ==
    \/ u = "loop" /\ \E read \in BOOLEAN : Clamp(read)
    \/ u = "loop" /\ \E good, landed \in SUBSET Operators : Approve(good, landed)
    \/ u = "loop" /\ \E answer \in {"ok", "error", "refused"} : Simulate(answer)
    \/ u = "loop" /\ (Unsigned \/ \E answered \in BOOLEAN : Broadcast(answered))
    \/ \E answer \in {"ok", "error", "impact", "raised"} : Quote(u, answer)
    \/ SwapHash(u)
    \/ \E sent \in BOOLEAN : SwapSilent(u, sent) \/ SwapCutOff(u, sent)
    \/ \E revert, sent \in BOOLEAN : SwapError(u, revert, sent)
    \/ \E seen \in BOOLEAN : Confirm(u, seen)

Move ==
    \/ \E i \in DOMAIN chain : Mine(i) \/ Revert(i)
    \/ \E u \in Callers, dir \in {"buy", "sell", "out"}, size \in 1 .. MaxSize : Begin(u, dir, size)
    \/ \E u \in Callers : Step(u)
    \/ Sync \/ Restart
    \/ \E op \in Operators : Revoke(op)

Next == Move /\ UNCHANGED backend

\* Every command has a timeout and so has the wait for a receipt: a call goes
\* on.  The scheduler runs a cycle, and with it the sync, every hour.
Fairness ==
    /\ WF_vars(Sync /\ UNCHANGED backend)
    /\ \A u \in Callers : WF_vars(Step(u) /\ UNCHANGED backend)

Spec == Init /\ [][Next]_vars /\ Fairness

-----------------------------------------------------------------------------
Tx   == [call : 0 .. MaxCalls, dir : {"buy", "sell", "out"}, amt : 0 .. MaxSize,
         answer : {"hash", "silent", "cut off", "error", "revert"}, status : {"pending", "mined", "reverted"}]
Call == [pc : {"idle", "clamp", "approve", "quote", "swap", "simulate", "sign", "confirm"},
         id : 0 .. MaxCalls, dir : {"buy", "sell", "out"}, size : 0 .. MaxSize,
         rung : 1 .. Rungs, tx : Nat]

TypeOK ==
    /\ backend \in {"twak", "sdk"}
    /\ chain \in Seq(Tx) /\ call \in [Callers -> Call]
    /\ wallet \in [usdt : Nat, token : Nat]
    /\ allowed \subseteq Operators /\ approved \subseteq Operators
    /\ calls \in 0 .. MaxCalls /\ units \in Nat /\ reconciled \in BOOLEAN /\ faults \in 0 .. MaxFaults

\* An order reported as filled was mined, in full: nothing else that looks like
\* an answer (a hash, a receipt of a revert, a receipt that is late) may reach
\* the ledger as a fill, whatever the other callers did to the wallet meanwhile.
FillIsMined ==
    \A r \in reports : r.status = "FILLED" => chain[r.tx].status = "mined"

\* One call, one swap that can move money.  A second one goes out within a call
\* only behind a swap that reverted or an answer without a hash: neither a
\* receipt that is late, nor a lost answer, nor an error after the swap was sent
\* may buy twice.
OneSwapPerCall ==
    \A i, j \in DOMAIN chain :
        i < j /\ chain[i].call = chain[j].call
            => chain[i].answer = "silent" \/ chain[i].status = "reverted"

\* A position that left the wallet by another hand (a convert, the manager, an
\* order whose fill was never reported) does not stay in the ledger: unless it
\* comes back or the session has closed one before, the sync closes it.
PhantomsClose ==
    (units > 0 /\ wallet.token = 0 /\ ~reconciled)
        ~> (units = 0 \/ wallet.token > 0 \/ reconciled)

=============================================================================
