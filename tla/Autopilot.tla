----------------------------- MODULE Autopilot -----------------------------
(***************************************************************************)
(* The capital manager (core/risk/autopilot.py) inside the decision cycle  *)
(* that drives it (agent/loop.py): when a gain is banked, what the banked  *)
(* floor protects, when entries are held back, and what of all this        *)
(* survives a restart.                                                     *)
(*                                                                         *)
(* Money is counted in whole units of account and the position in lots.    *)
(* Prices, the regime, the forecast and the wishes of the strategy are     *)
(* nondeterministic.  The ledger is taken to survive a restart (TradeCycle *)
(* says when it does).                                                     *)
(***************************************************************************)
EXTENDS Integers, FiniteSets

CONSTANTS
    None,            \* an optional target that is not set
    Prices,          \* closing prices
    Capital,         \* initial_capital
    Fee,             \* cost of a fill
    MaxLots,         \* check_max_exposure: lots that may be held
    MaxHour,         \* bound: the last hour
    HoursPerDay,
    KolEnabled,      \* KOL_AUTOTRADE
    EnforceActivity, \* ACTIVITY_FLOOR
    BootConfig,      \* the configuration of the environment
    Cockpit,         \* the configurations an operator may set
    Max              \* bound: how often each environment event may happen

Events  == {"call", "crash", "write", "read", "set", "refuse"}
Option  == Nat \union {None}
Config  == [enabled : BOOLEAN, profit_target_pct : Option, profit_target_abs : Option,
            protect_principal : BOOLEAN, trailing_giveback_pct : Option,
            daily_profit_target_pct : Option, loss_cooldown_hours : Nat]
Configs == {BootConfig} \union Cockpit

ASSUME MarketAssumption == /\ Prices \subseteq Nat \ {0} /\ Prices # {}
                           /\ Capital \in Nat /\ Fee \in Nat /\ MaxLots \in Nat
ASSUME TimeAssumption   == MaxHour \in Nat /\ HoursPerDay \in Nat \ {0}
ASSUME ConfigAssumption == /\ None \notin Int
                           /\ Configs \subseteq Config /\ None \notin Config
                           /\ {KolEnabled, EnforceActivity} \subseteq BOOLEAN
ASSUME BoundAssumption  == Max \in [Events -> Nat]

VARIABLES
    pc, act,                     \* where run_cycle is, and the decision it carries
    config, ap, block, entry,    \* _autopilot_config, _autopilot_state, _block_entry,
                                 \* whether _entry_fill is set
    cash, units, fees, highest,  \* the ledger; highest is its peak_equity
    lossStreak,                  \* ledger.consecutive_losses > 0
    chosen, saved,               \* Convex config: autopilot, autopilot_state
    hour, price,                 \* the last bar
    haltDay,                     \* history: the last day halted
    loose,                       \* history: an uncapped buy, a bank not carried out or
                                 \* a floor forgotten by a restart
    used                         \* environment events so far

memory  == <<config, ap, block, entry>>
ledger  == <<cash, units, fees, highest, lossStreak>>
convex  == <<chosen, saved>>
market  == <<hour, price>>
history == <<haltDay, loose>>
vars    == <<pc, act, memory, ledger, convex, market, history, used>>

Actions == {"hold", "bank", "trail_exit", "halt_day", "block_entry"}
State   == [floor : Nat, cycleStart : Int, peak : Int, dayStart : Int, day : Int,
            halted : BOOLEAN, cooldown : Nat]
Fresh   == [floor |-> 0, cycleStart |-> 0, peak |-> 0, dayStart |-> 0, day |-> -1,
            halted |-> FALSE, cooldown |-> 0]

Spend(e)  == used[e] < Max[e] /\ used' = [used EXCEPT ![e] = @ + 1]
Equity    == cash + units * price
Today     == hour \div HoursPerDay
Higher(a, b) == IF a >= b THEN a ELSE b

TypeOK ==
    /\ pc \in {"down", "idle", "evaluate", "persist", "exit", "kol", "strategy", "activity"}
    /\ act \in Actions
    /\ config \in Configs /\ ap \in State /\ block \in BOOLEAN /\ entry \in BOOLEAN
    /\ cash \in Int /\ units \in Nat /\ fees \in Nat /\ highest \in Int
    /\ lossStreak \in BOOLEAN
    /\ chosen \in Configs \union {None} /\ saved \in State
    /\ hour \in 0..MaxHour /\ price \in Prices
    /\ haltDay \in Int /\ loose \in BOOLEAN
    /\ used \in [Events -> Nat]

Init ==
    /\ pc = "idle" /\ act = "hold"
    /\ config = BootConfig /\ ap = Fresh /\ block = FALSE /\ entry = FALSE
    /\ cash = Capital /\ units = 0 /\ fees = 0 /\ highest = Capital /\ lossStreak = FALSE
    /\ chosen = None /\ saved = Fresh
    /\ hour = 0 /\ price \in Prices
    /\ haltDay = -1 /\ loose = FALSE
    /\ used = [e \in Events |-> 0]

-----------------------------------------------------------------------------
(* evaluate(): the state it works on, its conditions, its decision.        *)

\* deployable_capital.  Mutant: the floor is not subtracted.
MutDeployableAll == Higher(0, Equity)
Deployable       == Higher(0, Equity - ap.floor)

\* start_cycle: the anchor of a fresh deployment.
Started(s, equity) == [s EXCEPT !.cycleStart = equity, !.peak = equity]

\* The daily roll-over and the running peak.
Marked(s, equity) ==
    LET rolled == IF s.day = Today THEN s
                  ELSE [s EXCEPT !.day = Today, !.dayStart = equity, !.halted = FALSE]
    IN [rolled EXCEPT !.peak = Higher(s.peak, equity)]

\* A gain of so many percent of a reference that is positive.
Gained(gain, pct, base) == pct # None /\ base > 0 /\ 100 * gain >= pct * base

DailyTarget(s, equity) == Gained(equity - s.dayStart, config.daily_profit_target_pct, s.dayStart)

ProfitTarget(s, equity) ==
    \/ config.profit_target_pct # None
       /\ IF s.cycleStart > 0
          THEN Gained(equity - s.cycleStart, config.profit_target_pct, s.cycleStart)
          ELSE config.profit_target_pct = 0
    \/ config.profit_target_abs # None /\ equity - s.cycleStart >= config.profit_target_abs

GiveBack(s, equity) ==
    /\ s.peak > s.cycleStart /\ s.cycleStart > 0
    /\ Gained(s.peak - equity, config.trailing_giveback_pct, s.peak)

\* The ratchet.  Mutants: the new floor is not compared with the old one; the
\* principal is added to it.
MutBankedFalls(s, equity) == Higher(0, equity)
MutBankedTwice(s, equity) == s.floor + Higher(0, equity)
Banked(s, equity) ==
    Higher(s.floor, IF config.protect_principal THEN equity
                    ELSE s.floor + Higher(0, equity - s.cycleStart))

\* The cooldown: while flat with the last close a loss, it is set anew.
Cooled(s) == IF lossStreak /\ config.loss_cooldown_hours > 0
             THEN [s EXCEPT !.cooldown = hour + config.loss_cooldown_hours] ELSE s

\* The decision and the next state, in order of precedence: daily target; in
\* position take-profit, then give-back; flat cooldown, then recycle gate.
Decided(a, next) == act' = a /\ ap' = next

Decision(s, equity) ==
    LET stopped == DailyTarget(s, equity) \/ s.halted
        profit  == ProfitTarget(s, equity)
        back    == GiveBack(s, equity)
    IN \/ stopped /\ Decided("halt_day", [s EXCEPT !.halted = TRUE])
       \/ /\ ~stopped /\ units > 0
          /\ \/ profit /\ Decided("bank", [s EXCEPT !.floor = Banked(s, equity)])
             \/ ~profit /\ back /\ Decided("trail_exit", s)
             \/ ~profit /\ ~back /\ Decided("hold", s)
       \/ /\ ~stopped /\ units = 0
          /\ \/ Decided("block_entry", Cooled(s))
             \/ hour >= Cooled(s).cooldown /\ Decided("hold", Cooled(s))

-----------------------------------------------------------------------------
(* The decision cycle.                                                     *)

\* Head of run_cycle with _sync_autopilot_config: the cockpit's choice, if there
\* is one and it can be read.
Begin ==
    /\ pc = "idle" /\ pc' = "evaluate"
    /\ used["call"] < Max["call"]
    /\ \/ /\ config' = (IF chosen = None THEN config ELSE chosen)
          /\ used' = [used EXCEPT !["call"] = @ + 1]
       \/ /\ used["read"] < Max["read"] /\ UNCHANGED config
          /\ used' = [used EXCEPT !["call"] = @ + 1, !["read"] = @ + 1]
    /\ UNCHANGED <<act, ap, block, entry, ledger, convex, market, history>>

\* Mutant of Evaluate: the decision to halt is not remembered.
MutEvaluateForgetsHalt ==
    /\ pc = "evaluate"
    /\ highest' = Higher(highest, Equity)
    /\ \/ ~config.enabled /\ pc' = "kol" /\ block' = FALSE /\ act' = "hold" /\ UNCHANGED ap
       \/ /\ config.enabled /\ pc' = "persist"
          /\ LET s == Marked(ap, Equity)
             IN IF DailyTarget(s, Equity) THEN Decided("halt_day", s) ELSE Decision(s, Equity)
          /\ block' = (act' = "block_entry")
    /\ UNCHANGED <<config, entry, cash, units, fees, lossStreak, convex, market, history, used>>

\* _apply_autopilot up to the new state.
Evaluate ==
    /\ pc = "evaluate"
    /\ highest' = Higher(highest, Equity)
    /\ \/ ~config.enabled /\ pc' = "kol" /\ block' = FALSE /\ act' = "hold" /\ UNCHANGED ap
       \/ /\ config.enabled /\ pc' = "persist"
          /\ Decision(Marked(ap, Equity), Equity)
          /\ block' = (act' = "block_entry")
    /\ UNCHANGED <<config, entry, cash, units, fees, lossStreak, convex, market, history, used>>

\* _persist_autopilot_state, which may be lost; then the decision is acted on.
Persist ==
    /\ pc = "persist"
    /\ \/ saved' = ap /\ UNCHANGED used
       \/ UNCHANGED saved /\ Spend("write")
    /\ pc' = CASE act \in {"bank", "trail_exit"} -> "exit"
               [] act = "halt_day"               -> "idle"
               [] OTHER                          -> "kol"
    /\ haltDay' = IF act = "halt_day" THEN Today ELSE haltDay
    /\ UNCHANGED <<act, memory, ledger, chosen, market, loose>>

\* ledger.apply of a buy, and the anchor that _handle_execution sets on the first
\* buy since the last sell.
Buy(n) ==
    /\ cash >= n * price + Fee
    /\ cash' = cash - n * price - Fee /\ units' = units + n /\ fees' = fees + Fee
    /\ entry' = TRUE
    /\ ap' = IF ~entry /\ config.enabled THEN Started(ap, Equity - Fee) ELSE ap
    /\ UNCHANGED lossStreak

\* ledger.apply of a sell, at a loss or not.
Sell(n) ==
    /\ cash' = cash + n * price - Fee /\ units' = units - n /\ fees' = fees + Fee
    /\ entry' = FALSE
    /\ lossStreak' \in BOOLEAN
    /\ UNCHANGED ap

NoFill == UNCHANGED <<ap, entry, cash, units, fees, lossStreak>>

\* BANK and TRAIL_EXIT sell the whole exposure, or the executor does not fill.
Exit ==
    /\ pc = "exit" /\ pc' = "idle"
    /\ \/ Sell(units) /\ UNCHANGED <<loose, used>>
       \/ NoFill /\ Spend("refuse") /\ loose' = (loose \/ act = "bank")
    /\ UNCHANGED <<act, config, block, highest, convex, market, haltDay>>

\* _apply_kol_signal asks neither the gate nor the floor.
Kol ==
    /\ pc = "kol"
    /\ \/ NoFill /\ UNCHANGED loose /\ pc' \in {"strategy"} \union (IF KolEnabled THEN {"idle"} ELSE {})
       \/ /\ KolEnabled /\ pc' = "idle"
          /\ \/ units = 0 /\ loose' = TRUE /\ \E n \in 1..MaxLots : Buy(n)
             \/ units > 0 /\ Sell(units) /\ UNCHANGED loose
    /\ UNCHANGED <<act, config, block, highest, convex, market, haltDay, used>>

\* The strategy's order: a buy is dropped by the gate and shrunk to the deployable
\* capital (_cap_to_deployable), a sell passes.
Strategy ==
    /\ pc = "strategy" /\ pc' = "activity"
    /\ \/ NoFill /\ UNCHANGED loose
       \/ /\ ~block
          /\ \E n \in 1..MaxLots : /\ units + n <= MaxLots
                                   /\ config.enabled => n * price <= Deployable
                                   /\ Buy(n)
          /\ loose' = (loose \/ units > 0 \/ ~config.enabled)
       \/ (\E n \in 1..units : Sell(n)) /\ UNCHANGED loose
    /\ UNCHANGED <<act, config, block, highest, convex, market, haltDay, used>>

\* _maybe_compliance_trade trims what is held or opens a lot, whatever the gate and
\* the floor say.
Activity ==
    /\ pc = "activity" /\ pc' = "idle"
    /\ \/ NoFill /\ UNCHANGED loose
       \/ /\ EnforceActivity
          /\ \/ units = 0 /\ loose' = TRUE /\ Buy(1)
             \/ units > 0 /\ Sell(1) /\ UNCHANGED loose
    /\ UNCHANGED <<act, config, block, highest, convex, market, haltDay, used>>

-----------------------------------------------------------------------------

\* The process dies.  A bank in progress is left undone.
Crash ==
    /\ pc # "down" /\ Spend("crash") /\ pc' = "down"
    /\ loose' = (loose \/ (pc = "exit" /\ act = "bank"))
    /\ UNCHANGED <<act, memory, ledger, convex, market, haltDay>>

\* build_loop: the saved state is read back only if the environment enables the
\* autopilot, and a failed read leaves a fresh state.
Boot ==
    /\ pc = "down" /\ pc' = "idle" /\ act' = "hold"
    /\ config' = BootConfig /\ block' = FALSE /\ entry' = FALSE
    /\ \/ ap' = (IF BootConfig.enabled THEN saved ELSE Fresh) /\ UNCHANGED used
       \/ ap' = Fresh /\ Spend("read")
    /\ loose' = (loose \/ ap' # saved)
    /\ UNCHANGED <<ledger, convex, market, haltDay>>

\* config:setAutopilot from the cockpit.
SetAutopilot ==
    /\ Spend("set")
    /\ chosen' \in Cockpit
    /\ UNCHANGED <<pc, act, memory, ledger, saved, market, history>>

\* The next hourly bar.
NextBar ==
    /\ pc \in {"idle", "down"} /\ hour < MaxHour
    /\ hour' = hour + 1 /\ price' \in Prices
    /\ UNCHANGED <<pc, act, memory, ledger, convex, history, used>>

\* Every cycle the environment is allowed to ask for has been run.
Rest == pc = "idle" /\ used["call"] = Max["call"] /\ UNCHANGED vars

Next == \/ Begin \/ Evaluate \/ Persist \/ Exit \/ Kol \/ Strategy \/ Activity
        \/ Crash \/ Boot \/ SetAutopilot \/ NextBar \/ Rest

Spec == Init /\ [][Next]_vars

-----------------------------------------------------------------------------
(* Properties.                                                             *)

Protecting == \A c \in Configs : c.protect_principal

\* With the principal protected, what is banked was once owned: the floor is never
\* above the highest equity the ledger has marked, restarts and failed exits included.
FloorWasOwned == Protecting => ap.floor <= highest /\ saved.floor <= highest

\* With the principal protected, banked capital stays in cash, fees aside, as long
\* as only capped entries from flat were made, every bank was carried out and no
\* restart forgot the floor: what _cap_to_deployable and the ratchet are for.
BankedStaysInCash ==
    Protecting /\ ~loose /\ pc \notin {"persist", "exit", "down"} => cash + fees >= ap.floor

\* The persisted floor never falls, over crashes and lost writes - provided the
\* environment enables the autopilot and no read failed at a restart.
SavedFloorNeverFalls ==
    [][BootConfig.enabled /\ used["read"] = 0 => saved'.floor >= saved.floor]_vars

\* Nothing trades on a day once its daily target has halted it, over restarts too -
\* provided the state could be written and read and the operator set nothing.
NoTradeAfterHalt ==
    [][/\ cash' # cash /\ BootConfig.enabled
       /\ \A e \in {"write", "read", "set"} : used[e] = 0
       => Today # haltDay]_vars
=============================================================================
