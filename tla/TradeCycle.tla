----------------------------- MODULE TradeCycle -----------------------------
(***************************************************************************)
(* One decision cycle of the trading agent, from the feed's bar to the     *)
(* durable rows, with the crashes and retries it must survive              *)
(* (agent/loop.py, agent/executor.py, agent/ledger.py, agent/recovery.py,  *)
(* convex/trades.ts, convex/decisions.ts).                                 *)
(*                                                                         *)
(* A call of DecisionLoop.run_cycle is a walk of one caller through the    *)
(* stages below.  Everything the call may decide from market data (does    *)
(* the autopilot exit, does a KOL reading fire, what does the strategy     *)
(* want) is a nondeterministic choice; everything that is control (which   *)
(* stage runs next, which early return is taken, which key an order        *)
(* carries, what is remembered, what is written and in which order) is     *)
(* kept.  Position sizes are counted in lots: every entry is one lot.      *)
(***************************************************************************)
EXTENDS Integers, FiniteSets

CONSTANTS
    Callers,         \* threads that run run_cycle in one process
    MaxBar,          \* bound: last bar the feed delivers
    BarsPerDay,      \* bars in a calendar day (24 in production)
    DeadlineHour,    \* activity_deadline_hour
    KolEnabled,      \* KOL_AUTOTRADE
    EnforceActivity, \* ACTIVITY_FLOOR / --activity-floor
    RecoverFlag,     \* --recover / AGENT_RECOVER
    BootMode,        \* TRADING_MODE the process is launched with
    Max,             \* bound: how often each environment event may happen
    MaxFaults        \* bound: how many of them, calls aside

Faults == {"crash", "lost", "unbooked", "convert", "mode"}
Events == Faults \cup {"call"}
Modes  == {"paper", "mainnet"}
Kinds  == {"main", "autopilot", "kol", "activity"}
Bars   == 1..MaxBar

ASSUME CallersAssumption == Callers # {}
ASSUME ClockAssumption   == /\ MaxBar \in Nat \ {0}
                            /\ BarsPerDay \in Nat \ {0}
                            /\ DeadlineHour \in Nat
ASSUME FlagAssumption    == /\ {KolEnabled, EnforceActivity, RecoverFlag} \subseteq BOOLEAN
                            /\ BootMode \in Modes
ASSUME BoundAssumption   == Max \in [Events -> Nat] /\ MaxFaults \in Nat

\* An idempotency key: cycle_id alone, or with -autopilot / -kol / -activity.
Keys == Bars \X Kinds

\* The calendar day of a bar, and the days of the feed.
Day(b) == b \div BarsPerDay
Days   == {Day(b) : b \in Bars}

VARIABLES
    \* memory of the process
    up, mode, seen, ledger, tradesToday, activityDay, reconciled, call,
    \* Convex tables: trade rows per key, what replaying all rows yields,
    \* cycles with a decision row, and those whose row carries a trade_id
    rows, dbUnits, decided, linked,
    \* the market and the chain
    bar, wallet, swaps,
    \* history: fills by the present executor object, cycles it was told of by
    \* recovery, mode the open position was bought in, a crash between a swap or a
    \* forced close and its trade row, swaps of the activity floor per day,
    \* environment events so far
    fills, guarded, posMode, torn, floorSwaps, used

memory  == <<up, mode, seen, ledger, tradesToday, activityDay, reconciled>>
durable == <<rows, dbUnits, decided, linked>>
outside == <<bar, wallet, swaps>>
history == <<fills, guarded, posMode, torn, floorSwaps>>
vars    == <<memory, call, durable, outside, history, used>>

Stages == {"idle", "sync", "switching", "gates", "autopilot", "kol", "strategy", "submit",
           "sending", "confirming", "booking", "recording", "activity", "finalise",
           "snapshot", "closing"}

\* mode: of the executor the call holds, or the one it is about to switch to;
\* own: that executor is still self.executor.
Idle == [pc |-> "idle", bar |-> 1, kind |-> "main", side |-> "buy", lots |-> 0,
         rung |-> 1, tid |-> FALSE, mode |-> BootMode, own |-> TRUE]

Rungs == 3   \* slip_ladder = sorted({base, 5, 8})

Key(c)     == <<call[c].bar, call[c].kind>>
Late(b)    == b % BarsPerDay >= DeadlineHour
NoCount    == [k \in Keys |-> 0]
At(c, s)   == up /\ call[c].pc = s
Goto(c, s) == call' = [call EXCEPT ![c].pc = s]
Return(c)  == call' = [call EXCEPT ![c] = Idle]
Struck     == used["crash"] + used["lost"] + used["unbooked"] + used["convert"] + used["mode"]
Spend(e)   == /\ used[e] < Max[e] /\ (e \in Faults => Struck < MaxFaults)
              /\ used' = [used EXCEPT ![e] = @ + 1]
AtRest     == up /\ \A c \in Callers : call[c].pc = "idle"

MutApplyFillCloses(units, side, lots)    == IF side = "buy" THEN units + lots ELSE 0

\* LedgerState.apply and the replay in recover() on the position, in lots: a
\* sell realises at most what is held.
ApplyFill(units, side, lots) ==
    IF side = "buy" THEN units + lots
    ELSE IF units > lots THEN units - lots ELSE 0

\* Where run_cycle continues once an order of this kind has been dealt with.
After(kind) == IF kind = "main" THEN "activity" ELSE "finalise"

Call == [pc : Stages, bar : Bars, kind : Kinds, side : {"buy", "sell"}, lots : Nat,
         rung : 1..Rungs, tid : BOOLEAN, mode : Modes, own : BOOLEAN]

MemoryOK  == /\ up \in BOOLEAN /\ mode \in Modes /\ reconciled \in BOOLEAN
             /\ seen \subseteq Keys /\ ledger \in Nat
             /\ tradesToday \in Nat /\ activityDay \in Int
DurableOK == /\ rows \in [Keys -> Nat] /\ dbUnits \in Nat
             /\ decided \subseteq Bars /\ linked \subseteq Bars
OutsideOK == /\ bar \in Bars /\ wallet \in Nat /\ swaps \in [Keys -> Nat]
HistoryOK == /\ fills \in [Keys -> Nat] /\ guarded \subseteq Bars
             /\ posMode \in Modes /\ torn \in BOOLEAN
             /\ floorSwaps \in [Days -> Nat]
             /\ used \in [Events -> Nat]
TypeOK    == MemoryOK /\ DurableOK /\ OutsideOK /\ HistoryOK /\ call \in [Callers -> Call]

Init ==
    /\ up = TRUE /\ mode = BootMode /\ seen = {} /\ ledger = 0
    /\ tradesToday = 0 /\ activityDay = -1 /\ reconciled = FALSE
    /\ call = [c \in Callers |-> Idle]
    /\ rows = NoCount /\ dbUnits = 0 /\ decided = {} /\ linked = {}
    /\ bar = 1 /\ wallet = 0 /\ swaps = NoCount
    /\ fills = NoCount /\ guarded = {} /\ posMode = BootMode /\ torn = FALSE
    /\ floorSwaps = [d \in Days |-> 0]
    /\ used = [e \in Events |-> 0]

-----------------------------------------------------------------------------
(* The stages of run_cycle.                                                *)

\* Head of run_cycle: the cycle is named after the feed's last bar, and the
\* per-day trade counter is reset on a calendar-day rollover.
Begin(c) ==
    /\ At(c, "idle")
    /\ Spend("call")
    /\ call' = [call EXCEPT ![c] = [Idle EXCEPT !.pc = "sync", !.bar = bar]]
    /\ activityDay' = Day(bar)
    /\ tradesToday' = IF Day(bar) = activityDay THEN tradesToday ELSE 0
    /\ UNCHANGED <<up, mode, seen, ledger, reconciled, durable, outside, history>>

\* Mutant of SyncMode: the toggle is applied whatever the position.
MutSyncModeAnytime(c) ==
    /\ At(c, "sync")
    /\ \/ Goto(c, "gates") /\ UNCHANGED used
       \/ /\ Spend("mode")
          /\ \E desired \in Modes \ {mode} :
                call' = [call EXCEPT ![c] = [@ EXCEPT !.pc = "switching", !.mode = desired]]
    /\ UNCHANGED <<memory, durable, outside, history>>

\* _sync_trading_mode, up to the rebuild: a toggle is taken up only while flat;
\* otherwise it is deferred.
SyncMode(c) ==
    /\ At(c, "sync")
    /\ \/ Goto(c, "gates") /\ UNCHANGED used
       \/ /\ ledger = 0
          /\ Spend("mode")
          /\ \E desired \in Modes \ {mode} :
                call' = [call EXCEPT ![c] = [@ EXCEPT !.pc = "switching", !.mode = desired]]
    /\ UNCHANGED <<memory, durable, outside, history>>

\* The rest of it: the executor is rebuilt and replaced, and the mode with it (two
\* assignments in a row, one step here).  The new executor has an empty seen-set;
\* a call already inside the old one goes on in the old one.
Switch(c) ==
    /\ At(c, "switching")
    /\ mode' = call[c].mode
    /\ seen' = {} /\ fills' = NoCount /\ guarded' = {}
    /\ call' = [d \in Callers |-> IF d = c THEN [call[c] EXCEPT !.pc = "gates"]
                                           ELSE [call[d] EXCEPT !.own = FALSE]]
    /\ UNCHANGED <<up, ledger, tradesToday, activityDay, reconciled, durable, outside,
                   posMode, torn, floorSwaps, used>>

\* Equity floor and kill switch: a halted cycle is finalised without a trade.
Gates(c) ==
    /\ At(c, "gates")
    /\ \E next \in {"finalise", "autopilot"} : Goto(c, next)
    /\ UNCHANGED <<memory, durable, outside, history, used>>

Order(c, kind, side, lots) ==
    call' = [call EXCEPT ![c] = [@ EXCEPT !.pc = "submit", !.kind = kind, !.side = side,
                                          !.lots = lots, !.rung = 1]]

\* _apply_autopilot: BANK and TRAIL_EXIT sell the whole exposure, HALT_DAY ends
\* the cycle, every other action lets it go on.
Autopilot(c) ==
    /\ At(c, "autopilot")
    /\ \/ Goto(c, "kol")
       \/ Goto(c, "finalise")
       \/ ledger > 0 /\ Order(c, "autopilot", "sell", ledger)
    /\ UNCHANGED <<memory, durable, outside, history, used>>

\* _apply_kol_signal: open_long while flat, reduce (all of it) while held.
Kol(c) ==
    /\ At(c, "kol")
    /\ \/ Goto(c, "strategy")
       \/ KolEnabled /\ ledger = 0 /\ Order(c, "kol", "buy", 1)
       \/ KolEnabled /\ ledger > 0 /\ Order(c, "kol", "sell", ledger)
    /\ UNCHANGED <<memory, durable, outside, history, used>>

\* The strategy and the vetoes behind it: no order, or one order under the bare
\* cycle_id.  The sell side is bounded by the risk engine's own tracker, which
\* need not agree with the ledger, so a sell may meet a flat ledger.
Strategy(c) ==
    /\ At(c, "strategy")
    /\ \/ Goto(c, "activity")
       \/ \E side \in {"buy", "sell"} : Order(c, "main", side, 1)
    /\ UNCHANGED <<memory, durable, outside, history, used>>

\* The activity floor is due: enabled, nothing traded today, past the deadline.
\* Mutant of Due: a trade already made today does not matter.
MutDueAnyway(c) == EnforceActivity /\ Late(call[c].bar)
Due(c)          == EnforceActivity /\ tradesToday = 0 /\ Late(call[c].bar)

\* _maybe_compliance_trade: late in a day without a trade, trim what is held or
\* open a small position.  It stands back when it is not due, off the allowlist,
\* and when the guardrails veto the opening side.
Activity(c) ==
    /\ At(c, "activity")
    /\ \/ Goto(c, "finalise")
       \/ Due(c) /\ ledger > 0 /\ Order(c, "activity", "sell", 1)
       \/ Due(c) /\ ledger = 0 /\ Order(c, "activity", "buy", 1)
    /\ UNCHANGED <<memory, durable, outside, history, used>>

-----------------------------------------------------------------------------
(* The executor, and what the loop does with its report.                   *)

\* self.executor.execute: the call holds the present executor until it returns.
\* _check_dupe: a remembered key is reported DUPLICATE and nothing is sent.
Submit(c) ==
    /\ At(c, "submit")
    /\ call' = [call EXCEPT ![c] =
            [call[c] EXCEPT !.pc = IF Key(c) \in seen THEN After(call[c].kind) ELSE "sending",
                            !.mode = mode, !.own = TRUE]]
    /\ UNCHANGED <<memory, durable, outside, history, used>>

\* REJECTED, or FAILED with nothing executed: nothing sent, or all of it reverted.
Refuse(c) ==
    /\ At(c, "sending") /\ call[c].mode = "mainnet"
    /\ Goto(c, After(call[c].kind))
    /\ UNCHANGED <<memory, durable, outside, history, used>>

\* _rug_check raises out of execute: the KOL overlay swallows it and the cycle
\* goes on, on every other path the whole call is lost without a decision row.
RugRaise(c) ==
    /\ At(c, "sending") /\ call[c].mode = "mainnet" /\ call[c].rung = 1
    /\ call' = [call EXCEPT ![c] = IF @.kind = "kol" THEN [@ EXCEPT !.pc = "strategy"] ELSE Idle]
    /\ UNCHANGED <<memory, durable, outside, history, used>>

\* The swap executes: at once on paper, on chain under mainnet (a sell needs
\* the tokens to be in the wallet).
Swap(c) ==
    /\ At(c, "sending")
    /\ swaps' = [swaps EXCEPT ![Key(c)] = @ + 1]
    /\ floorSwaps' = IF call[c].kind = "activity"
                     THEN [floorSwaps EXCEPT ![Day(call[c].bar)] = @ + 1] ELSE floorSwaps
    /\ \/ /\ call[c].mode = "paper"
          /\ Goto(c, "booking")
          /\ UNCHANGED wallet
       \/ /\ call[c].mode = "mainnet"
          /\ Goto(c, "confirming")
          /\ \/ call[c].side = "buy" /\ wallet' = wallet + call[c].lots
             \/ /\ call[c].side = "sell" /\ wallet >= call[c].lots
                /\ wallet' = wallet - call[c].lots
    /\ UNCHANGED <<memory, durable, bar, fills, guarded, posMode, torn, used>>

\* The receipt arrives ...
Confirm(c) ==
    /\ At(c, "confirming")
    /\ Goto(c, "booking")
    /\ UNCHANGED <<memory, durable, outside, history, used>>

\* ... or it does not: FAILED with a tx_hash, which is not remembered ...
Unconfirmed(c) ==
    /\ At(c, "confirming")
    /\ Spend("unbooked")
    /\ Goto(c, After(call[c].kind))
    /\ UNCHANGED <<memory, durable, outside, history>>

\* ... or twak returned no hash at all: step up the slippage ladder and swap
\* again; FAILED when the ladder is exhausted.
NoHash(c) ==
    /\ At(c, "confirming")
    /\ Spend("unbooked")
    /\ call' = [call EXCEPT ![c] =
            IF call[c].rung < Rungs
            THEN [call[c] EXCEPT !.pc = "sending", !.rung = call[c].rung + 1]
            ELSE [call[c] EXCEPT !.pc = After(call[c].kind)]]
    /\ UNCHANGED <<memory, durable, outside, history>>

\* _remember in the executor the call holds, then the head of _handle_execution.
Book(c) ==
    /\ At(c, "booking")
    /\ IF call[c].own
       THEN /\ seen' = seen \union {Key(c)}
            /\ fills' = [fills EXCEPT ![Key(c)] = @ + 1]
       ELSE UNCHANGED <<seen, fills>>
    /\ ledger' = ApplyFill(ledger, call[c].side, call[c].lots)
    /\ posMode' = IF call[c].side = "buy" /\ ledger = 0 THEN call[c].mode ELSE posMode
    /\ tradesToday' = tradesToday + 1
    /\ Goto(c, "recording")
    /\ UNCHANGED <<up, mode, activityDay, reconciled, durable, outside, guarded, torn,
                   floorSwaps, used>>

\* bridge.record_trade: the row is written, or the call fails and is swallowed,
\* or the row is written and the reply is lost.  Only a reply gives a trade_id,
\* and the activity floor drops it.
Record(c) ==
    /\ At(c, "recording")
    /\ \E stored, replied \in BOOLEAN :
        /\ replied => stored
        /\ IF replied THEN UNCHANGED used ELSE Spend("lost")
        /\ rows' = IF stored THEN [rows EXCEPT ![Key(c)] = @ + 1] ELSE rows
        /\ dbUnits' = IF stored THEN ApplyFill(dbUnits, call[c].side, call[c].lots) ELSE dbUnits
        /\ call' = [call EXCEPT ![c] =
               [call[c] EXCEPT !.pc = After(call[c].kind),
                               !.tid = IF call[c].kind = "activity" THEN call[c].tid ELSE replied]]
    /\ UNCHANGED <<memory, decided, linked, outside, history>>

\* _finalise, first part: decisions:record, idempotent on cycle_id, which links
\* the trade if it is newly known.
Decide(c) ==
    /\ At(c, "finalise")
    /\ Goto(c, "snapshot")
    /\ \/ /\ decided' = decided \union {call[c].bar}
          /\ linked' = IF call[c].tid THEN linked \union {call[c].bar} ELSE linked
          /\ UNCHANGED used
       \/ Spend("lost") /\ UNCHANGED <<decided, linked>>
    /\ UNCHANGED <<memory, rows, dbUnits, outside, history>>

\* _finalise, second part: the wallet snapshot.  A ledger position of which the wallet
\* holds less than 5% is force-closed, once per session and whatever the mode: the
\* ledger is zeroed at once.  The snapshot may also fail and is then skipped.
Snapshot(c) ==
    /\ At(c, "snapshot")
    /\ \/ Return(c) /\ UNCHANGED ledger
       \/ /\ ledger > 20 * wallet /\ ~reconciled
          /\ ledger' = 0
          /\ call' = [call EXCEPT ![c] = [@ EXCEPT !.pc = "closing", !.side = "sell",
                                                !.lots = ledger]]
    /\ UNCHANGED <<up, mode, seen, tradesToday, activityDay, reconciled, durable, outside,
                   history, used>>

\* Mutant of CloseRow: the forced close is not written to the trade rows.
MutCloseRowSilent(c) ==
    /\ At(c, "closing")
    /\ Return(c)
    /\ reconciled' = TRUE
    /\ UNCHANGED <<up, mode, seen, ledger, tradesToday, activityDay, durable, outside, history,
                   used>>

\* The trade row of the forced close, which may be lost; only then is the session
\* marked as reconciled.
CloseRow(c) ==
    /\ At(c, "closing")
    /\ Return(c)
    /\ reconciled' = TRUE
    /\ \/ dbUnits' = ApplyFill(dbUnits, "sell", call[c].lots) /\ UNCHANGED used
       \/ Spend("lost") /\ UNCHANGED dbUnits
    /\ UNCHANGED <<up, mode, seen, ledger, tradesToday, activityDay, rows, decided, linked,
                   outside, history>>

-----------------------------------------------------------------------------
(* Crash, restart and the environment.                                     *)

\* The process dies; everything in memory is gone.
Crash ==
    /\ up /\ Spend("crash")
    /\ up' = FALSE
    /\ torn' = (torn \/ \E c \in Callers : call[c].pc \in {"confirming", "booking", "recording",
                                                           "closing"})
    /\ call' = [c \in Callers |-> Idle]
    /\ UNCHANGED <<mode, seen, ledger, tradesToday, activityDay, reconciled, durable, outside,
                   fills, guarded, posMode, floorSwaps>>

\* Mutants of MarkSeen and Replay: recovery forgets the cycles, or the position.
MutMarkNothing(cycles) == {}
MutReplayNothing(got)  == 0

\* recover(), step 1: bare cycle_ids of the decisions that carry a trade_id.
MarkSeen(cycles) == cycles \X {"main"}

\* recover(), step 2: the trade rows applied to a fresh ledger.
Replay(got) == IF got THEN dbUnits ELSE 0

\* build_loop, with recover() if asked for: the executor is told of the linked
\* cycles and the ledger replays the trade rows.  Either read may fail.
Boot ==
    /\ ~up
    /\ up' = TRUE /\ mode' = BootMode
    /\ tradesToday' = 0 /\ activityDay' = -1 /\ reconciled' = FALSE
    /\ fills' = NoCount
    /\ \/ /\ ~RecoverFlag
          /\ guarded' = {} /\ seen' = {} /\ ledger' = 0
          /\ UNCHANGED used
       \/ /\ RecoverFlag
          /\ \E gotTrades, gotDecisions \in BOOLEAN :
                /\ IF gotTrades /\ gotDecisions THEN UNCHANGED used ELSE Spend("lost")
                /\ guarded' = IF gotDecisions THEN linked ELSE {}
                /\ seen' = IF gotDecisions THEN MarkSeen(linked) ELSE {}
                /\ ledger' = Replay(gotTrades)
    /\ UNCHANGED <<call, durable, outside, posMode, torn, floorSwaps>>

\* The feed moves on to the next bar.
NextBar ==
    /\ bar < MaxBar
    /\ bar' = bar + 1
    /\ UNCHANGED <<memory, call, durable, wallet, swaps, history, used>>

\* An operator convert: the command worker swaps one token for another (the
\* traded one bought, sold, or not involved) and records the swap, if the write
\* succeeds, as a trade row with side buy.
Convert ==
    /\ up /\ Spend("convert")
    /\ dbUnits' \in {dbUnits, dbUnits + 1}
    /\ wallet' \in {wallet, wallet + 1} \union (IF wallet > 0 THEN {wallet - 1} ELSE {})
    /\ UNCHANGED <<memory, call, rows, decided, linked, bar, swaps, history>>

\* Every call the environment is allowed to make has been answered.
Rest == AtRest /\ used["call"] = Max["call"] /\ UNCHANGED vars

CallerStep(c) ==
    \/ Begin(c) \/ SyncMode(c) \/ Switch(c) \/ Gates(c) \/ Autopilot(c) \/ Kol(c)
    \/ Strategy(c) \/ Activity(c) \/ Submit(c) \/ Refuse(c) \/ RugRaise(c) \/ Swap(c)
    \/ Confirm(c) \/ Unconfirmed(c) \/ NoHash(c) \/ Book(c) \/ Record(c) \/ Decide(c)
    \/ Snapshot(c) \/ CloseRow(c)

Next == (\E c \in Callers : CallerStep(c)) \/ Crash \/ Boot \/ NextBar \/ Convert \/ Rest

Spec == Init /\ [][Next]_vars

-----------------------------------------------------------------------------
(* Properties.                                                             *)

\* An executor object reports FILLED at most once per idempotency key, however
\* often the same bar is run (executor._check_dupe / _remember).  True of calls that
\* do not overlap; two that do may both pass the check before either remembers.
FillOncePerExecutor == \A k \in Keys : fills[k] <= 1

\* A cycle whose decision row carried a trade_id when the process restarted is
\* never filled again under its bare key by the recovered executor.
RecoveredCyclesStayExecuted == \A b \in guarded : fills[<<b, "main">>] = 0

\* Between calls the ledger is exactly what a replay of the trade rows gives, so
\* a restart resumes with the same position - provided no write or read of the
\* tables was lost, no operator convert was recorded, and restarts recover.
BooksMatchLog ==
    AtRest /\ used["lost"] = 0 /\ used["convert"] = 0 /\ (RecoverFlag \/ used["crash"] = 0)
        => ledger = dbUnits

\* No trade row of an order without a swap under that order's key (the rows of a
\* forced close and of a convert belong to no order and are not counted in rows).
RowsBackedBySwaps == \A k \in Keys : rows[k] > 0 => swaps[k] > 0

\* A decision that claims a trade has a trade row of its own cycle.
LinkedCycleHasRow == \A b \in linked : \E kind \in Kinds : rows[<<b, kind>>] > 0

\* A restart with --recover resumes with the position the process died with -
\* provided the crash did not fall between a swap or a forced close and its row
\* and no convert or lost call distorted the rows it replays.
RestartKeepsPosition ==
    [][(/\ ~up /\ up' /\ RecoverFlag /\ ~torn
        /\ used'["lost"] = 0 /\ used["convert"] = 0) => ledger' = ledger]_vars

\* An open position is managed in the mode of the executor that opened it, as long
\* as the process has not been restarted (_sync_trading_mode switches only while
\* flat).  True of calls that do not overlap (the run TradeCycle_mode has two
\* that do).
ModeConsistent == up /\ ledger > 0 /\ used["crash"] = 0 => posMode = mode

\* On mainnet the wallet holds what the ledger says between calls, unless one of
\* the things that are known to break it happened: an unconfirmed swap, a crash
\* between a swap and its row, a lost write, a convert, a mode switch.
WalletMatchesLedger ==
    AtRest /\ BootMode = "mainnet" /\ ~torn /\ (RecoverFlag \/ used["crash"] = 0)
        /\ (\A e \in {"unbooked", "lost", "convert", "mode"} : used[e] = 0)
        => wallet = ledger

\* The activity floor trades in a day at most once, and once more for every restart,
\* which forgets the trades of the day (_trades_today is memory only), and for every
\* swap whose confirmation was missed - however often the bars of that day are run.
FloorOncePerLife ==
    \A d \in Days : floorSwaps[d] <= 1 + used["crash"] + used["unbooked"]
=============================================================================
