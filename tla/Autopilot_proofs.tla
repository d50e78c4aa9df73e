-------------------------- MODULE Autopilot_proofs --------------------------
(***************************************************************************)
(* Proofs about the capital manager, for every market, every configuration *)
(* and every pattern of crashes and losses.  The argument has three parts: *)
(* what one evaluation does to the state (DecisionFacts), what a fill does *)
(* to the ledger (BuyFacts, SellFacts), and these invariants on top:       *)
(*   TypeOK        typing;                                                 *)
(*   OwnedInv      the floors in memory and in Convex are below the peak;  *)
(*   CashInv       cash plus fees covers the floor unless something loose  *)
(*                 happened or a bank is under way;                        *)
(*   HaltInv       a halted day is halted in memory and in Convex, and no  *)
(*                 order stage is reached in it.                           *)
(***************************************************************************)
EXTENDS Autopilot, TLAPS

\* Two numbers and the larger one of them.
LEMMA HigherFacts ==
    ASSUME NEW a \in Int, NEW b \in Int
    PROVE  /\ Higher(a, b) \in Int
           /\ Higher(a, b) >= a /\ Higher(a, b) >= b
           /\ (Higher(a, b) = a \/ Higher(a, b) = b)
  BY DEF Higher

\* Everything that is computed from a well typed state is a number.
LEMMA NumberFacts ==
    ASSUME TypeOK
    PROVE  /\ Today \in Int /\ Equity \in Int /\ price \in Nat \ {0}
           /\ \A n \in Nat : n * price \in Nat
           /\ \A n \in Nat \ {0} : n * price > 0
           /\ \A n \in 0..units : n * price <= units * price
  <1>1. /\ price \in Nat \ {0} /\ hour \in Nat /\ cash \in Int /\ units \in Nat
        /\ HoursPerDay \in Nat \ {0}
    BY MarketAssumption, TimeAssumption DEF TypeOK
  <1>2. Today \in Int
    BY <1>1 DEF Today
  <1>3. \A n \in Nat : n * price \in Nat
    BY <1>1
  <1>4. \A n \in Nat \ {0} : n * price > 0
    BY <1>1
  <1>5. ASSUME NEW n \in 0..units PROVE n * price <= units * price
    <2>1. (units - n) * price >= 0
      BY <1>1
    <2>. QED BY <2>1, <1>1
  <1>. QED BY <1>1, <1>2, <1>3, <1>4, <1>5 DEF Equity

\* The roll-over and the peak leave the floor and the type alone.
LEMMA MarkedFacts ==
    ASSUME TypeOK
    PROVE  Marked(ap, Equity) \in State /\ Marked(ap, Equity).floor = ap.floor
  <1>. DEFINE rolled == IF ap.day = Today THEN ap
                        ELSE [ap EXCEPT !.day = Today, !.dayStart = Equity, !.halted = FALSE]
              top    == Higher(ap.peak, Equity)
  <1>1. ap \in State /\ Equity \in Int /\ Today \in Int
    BY NumberFacts DEF TypeOK
  <1>2. rolled \in State /\ rolled.floor = ap.floor
    BY <1>1 DEF State
  <1>3. top \in Int
    BY <1>1, HigherFacts DEF State
  <1>4. Marked(ap, Equity) = [rolled EXCEPT !.peak = top]
    BY DEF Marked
  <1>. HIDE DEF rolled, top
  <1>. QED BY <1>2, <1>3, <1>4 DEF State

\* The ratchet: never below the old floor, and with the principal protected never
\* above both the old floor and the equity.
LEMMA BankedFacts ==
    ASSUME config \in Config, NEW s \in State, NEW equity \in Int
    PROVE  /\ Banked(s, equity) \in Nat
           /\ Banked(s, equity) >= s.floor
           /\ (config.protect_principal => Banked(s, equity) \in {s.floor, equity})
  <1>. DEFINE gain  == Higher(0, equity - s.cycleStart)
              total == IF config.protect_principal THEN equity ELSE s.floor + gain
  <1>1. s.floor \in Nat /\ s.cycleStart \in Int /\ config.protect_principal \in BOOLEAN
    BY DEF State, Config
  <1>2. gain \in Int
    BY <1>1, HigherFacts
  <1>3. total \in Int /\ (config.protect_principal => total = equity)
    BY <1>1, <1>2
  <1>4. Banked(s, equity) = Higher(s.floor, total)
    BY DEF Banked
  <1>. HIDE DEF total
  <1>5. /\ Banked(s, equity) \in Int /\ Banked(s, equity) >= s.floor
        /\ (Banked(s, equity) = s.floor \/ Banked(s, equity) = total)
    BY <1>1, <1>3, <1>4 DEF Higher
  <1>. QED BY <1>1, <1>3, <1>5

\* One decision: the floor stays, or is banked while in position.
LEMMA DecisionFacts ==
    ASSUME TypeOK, NEW s \in State, NEW equity \in Int, Decision(s, equity)
    PROVE  /\ act' \in Actions /\ ap' \in State
           /\ ap'.floor >= s.floor
           /\ (act' # "bank" => ap'.floor = s.floor)
           /\ (config.protect_principal => ap'.floor \in {s.floor, equity})
           /\ (act' \in {"bank", "trail_exit"} => units > 0)
  <1>1. config \in Config /\ hour \in Nat
    BY ConfigAssumption, TimeAssumption DEF TypeOK
  <1>2. Cooled(s) \in State /\ Cooled(s).floor = s.floor
    BY <1>1 DEF Cooled, State, Config
  <1>3. CASE Decided("halt_day", [s EXCEPT !.halted = TRUE])
    <2>1. act' = "halt_day" /\ ap' = [s EXCEPT !.halted = TRUE]
      BY <1>3 DEF Decided
    <2>2. ap' \in State /\ ap'.floor = s.floor /\ s.floor \in Nat
      BY <2>1 DEF State
    <2>. QED BY <2>1, <2>2 DEF Actions
  <1>4. CASE Decided("bank", [s EXCEPT !.floor = Banked(s, equity)]) /\ units > 0
    <2>1. act' = "bank" /\ ap' = [s EXCEPT !.floor = Banked(s, equity)]
      BY <1>4 DEF Decided
    <2>2. ap' \in State /\ ap'.floor = Banked(s, equity)
      BY <2>1, <1>1, BankedFacts DEF State
    <2>. QED BY <2>1, <2>2, <1>1, <1>4, BankedFacts DEF Actions
  <1>5. CASE (Decided("trail_exit", s) \/ Decided("hold", s)) /\ units > 0
    BY <1>5 DEF Decided, Actions, State
  <1>6. CASE Decided("block_entry", Cooled(s)) \/ Decided("hold", Cooled(s))
    BY <1>6, <1>2 DEF Decided, Actions, State
  <1>. QED BY <1>3, <1>4, <1>5, <1>6 DEF Decision

\* A fresh anchor leaves the floor alone.
LEMMA StartedFacts ==
    ASSUME NEW s \in State, NEW e \in Int
    PROVE  Started(s, e) \in State /\ Started(s, e).floor = s.floor
  <1>1. Started(s, e) = [[s EXCEPT !.cycleStart = e] EXCEPT !.peak = e]
    BY DEF Started, State
  <1>2. [s EXCEPT !.cycleStart = e] \in State /\ [s EXCEPT !.cycleStart = e].floor = s.floor
    BY DEF State
  <1>. QED BY <1>1, <1>2 DEF State

\* A buy: the state is re-anchored at most, cash plus fees falls by the size.
LEMMA BuyFacts ==
    ASSUME TypeOK, NEW n \in Nat \ {0}, Buy(n)
    PROVE  /\ ap' \in State /\ ap'.floor = ap.floor /\ entry' \in BOOLEAN
           /\ cash' \in Int /\ units' \in Nat /\ fees' \in Nat /\ lossStreak' \in BOOLEAN
           /\ cash' + fees' = cash + fees - n * price
  <1>1. /\ n * price \in Nat /\ Equity \in Int /\ Fee \in Nat /\ ap \in State
        /\ cash \in Int /\ units \in Nat /\ fees \in Nat
    BY NumberFacts, MarketAssumption DEF TypeOK
  <1>2. Started(ap, Equity - Fee) \in State /\ Started(ap, Equity - Fee).floor = ap.floor
    <2>1. Equity - Fee \in Int
      BY <1>1
    <2>. QED BY <1>1, <2>1, StartedFacts
  <1>3. ap' \in State /\ ap'.floor = ap.floor
    BY <1>1, <1>2 DEF Buy
  <1>5. cash' = cash - n * price - Fee /\ units' = units + n /\ fees' = fees + Fee
    BY DEF Buy
  <1>4. entry' \in BOOLEAN /\ lossStreak' \in BOOLEAN
    BY DEF Buy, TypeOK
  <1>. QED BY <1>1, <1>3, <1>4, <1>5

\* A sell: cash plus fees rises by what was sold.
LEMMA SellFacts ==
    ASSUME TypeOK, NEW n \in 0..units, Sell(n)
    PROVE  /\ ap' = ap /\ entry' \in BOOLEAN
           /\ cash' \in Int /\ units' \in Nat /\ fees' \in Nat /\ lossStreak' \in BOOLEAN
           /\ cash' + fees' = cash + fees + n * price /\ n * price >= 0
  <1>1. /\ n * price \in Nat /\ Fee \in Nat /\ units - n \in Nat
        /\ cash \in Int /\ units \in Nat /\ fees \in Nat /\ hour \in Nat
    BY NumberFacts, MarketAssumption, TimeAssumption DEF TypeOK
  <1>2. cash' = cash + n * price - Fee /\ units' = units - n /\ fees' = fees + Fee
    BY DEF Sell
  <1>3. ap' = ap /\ entry' \in BOOLEAN /\ lossStreak' \in BOOLEAN
    BY DEF Sell
  <1>. QED BY <1>1, <1>2, <1>3 DEF TypeOK

-----------------------------------------------------------------------------
(* Typing.                                                                 *)

LEMMA FreshType == Fresh \in State
  BY DEF Fresh, State

LEMMA InitTyped == Init => TypeOK
  <1>. SUFFICES ASSUME Init PROVE TypeOK
    OBVIOUS
  <1>1. BootConfig \in Configs /\ Capital \in Int /\ 0 \in 0..MaxHour
    BY MarketAssumption, TimeAssumption DEF Configs
  <1>2. /\ pc = "idle" /\ act \in Actions
        /\ config \in Configs /\ ap \in State /\ block \in BOOLEAN /\ entry \in BOOLEAN
        /\ chosen = None /\ saved \in State
    BY <1>1, FreshType DEF Init, Actions
  <1>3. /\ cash \in Int /\ units \in Nat /\ fees \in Nat /\ highest \in Int
        /\ lossStreak \in BOOLEAN /\ hour \in 0..MaxHour /\ price \in Prices
    BY <1>1 DEF Init
  <1>5. used \in [Events -> Nat]
    BY DEF Init
  <1>4. haltDay \in Int
    BY DEF Init
  <1>6. loose \in BOOLEAN
    BY DEF Init
  <1>. QED BY <1>2, <1>3, <1>4, <1>5, <1>6 DEF TypeOK

\* A budget that is spent stays a natural number.
LEMMA SpendTyped ==
    ASSUME NEW e \in Events, used \in [Events -> Nat], Spend(e)
    PROVE  used' \in [Events -> Nat]
  BY DEF Spend

\* The parts of the state an order stage leaves alone, and those a fill sets.
Kept   == UNCHANGED <<act, config, block, highest, convex, market, haltDay>>
Filled == \/ NoFill
          \/ \E n \in Nat \ {0} : Buy(n)
          \/ \E n \in 0..units : Sell(n)

LEMMA FillTyped ==
    ASSUME TypeOK, Filled
    PROVE  /\ ap' \in State /\ ap'.floor = ap.floor /\ entry' \in BOOLEAN
           /\ cash' \in Int /\ units' \in Nat /\ fees' \in Nat /\ lossStreak' \in BOOLEAN
  <1>1. CASE NoFill
    BY <1>1 DEF NoFill, TypeOK
  <1>2. ASSUME NEW n \in Nat \ {0}, Buy(n)
        PROVE  /\ ap' \in State /\ ap'.floor = ap.floor /\ entry' \in BOOLEAN
               /\ cash' \in Int /\ units' \in Nat /\ fees' \in Nat /\ lossStreak' \in BOOLEAN
        BY <1>2, BuyFacts
  <1>3. ASSUME NEW n \in 0..units, Sell(n)
        PROVE  /\ ap' \in State /\ ap'.floor = ap.floor /\ entry' \in BOOLEAN
               /\ cash' \in Int /\ units' \in Nat /\ fees' \in Nat /\ lossStreak' \in BOOLEAN
        BY <1>3, SellFacts DEF TypeOK
  <1>. QED BY <1>1, <1>2, <1>3 DEF Filled

LEMMA StageTyped ==
    ASSUME TypeOK, Kept, Filled, loose' \in BOOLEAN, used' \in [Events -> Nat],
           pc' \in {"idle", "strategy", "activity"}
    PROVE  TypeOK'
  BY FillTyped DEF TypeOK, Kept, convex, market

\* Each order stage makes one fill at most.
LEMMA Stages ==
    ASSUME TypeOK
    PROVE  /\ Exit     => Kept /\ Filled /\ loose' \in BOOLEAN /\ used' \in [Events -> Nat]
           /\ Kol      => Kept /\ Filled /\ loose' \in BOOLEAN /\ used' = used
           /\ Strategy => Kept /\ Filled /\ loose' \in BOOLEAN /\ used' = used
           /\ Activity => Kept /\ Filled /\ loose' \in BOOLEAN /\ used' = used
  <1>. /\ loose \in BOOLEAN /\ used \in [Events -> Nat] /\ units \in Nat /\ "refuse" \in Events
       /\ MaxLots \in Nat
    BY MarketAssumption DEF TypeOK, Events
  <1>0. /\ units \in 0..units /\ 1..units \subseteq 0..units
        /\ 1..MaxLots \subseteq Nat \ {0} /\ 1 \in Nat \ {0}
        /\ (units > 0 => 1 \in 0..units)
    OBVIOUS
  <1>1. ASSUME Exit PROVE Kept /\ Filled /\ loose' \in BOOLEAN /\ used' \in [Events -> Nat]
    <2>1. Kept
      BY <1>1 DEF Exit, Kept
    <2>2. CASE Sell(units) /\ UNCHANGED <<loose, used>>
      BY <2>1, <2>2, <1>0 DEF Filled
    <2>3. CASE NoFill /\ Spend("refuse") /\ loose' = (loose \/ act = "bank")
      BY <2>1, <2>3, SpendTyped DEF Filled
    <2>. QED BY <1>1, <2>2, <2>3 DEF Exit
  <1>2. ASSUME Kol PROVE Kept /\ Filled /\ loose' \in BOOLEAN /\ used' = used
    <2>1. Kept /\ used' = used
      BY <1>2 DEF Kol, Kept
    <2>2. loose' \in BOOLEAN
      BY <1>2 DEF Kol
    <2>3. Filled
      BY <1>2, <1>0 DEF Kol, Filled
    <2>. QED BY <2>1, <2>2, <2>3
  <1>3. ASSUME Strategy PROVE Kept /\ Filled /\ loose' \in BOOLEAN /\ used' = used
    <2>1. Kept /\ used' = used
      BY <1>3 DEF Strategy, Kept
    <2>2. loose' \in BOOLEAN
      BY <1>3 DEF Strategy
    <2>3. Filled
      BY <1>3, <1>0 DEF Strategy, Filled
    <2>. QED BY <2>1, <2>2, <2>3
  <1>4. ASSUME Activity PROVE Kept /\ Filled /\ loose' \in BOOLEAN /\ used' = used
    <2>1. Kept /\ used' = used
      BY <1>4 DEF Activity, Kept
    <2>2. loose' \in BOOLEAN
      BY <1>4 DEF Activity
    <2>3. Filled
      BY <1>4, <1>0 DEF Activity, Filled
    <2>. QED BY <2>1, <2>2, <2>3
  <1>. QED BY <1>1, <1>2, <1>3, <1>4

\* Every step preserves the types.
LEMMA StepTyped == TypeOK /\ [Next]_vars => TypeOK'
<1>. SUFFICES ASSUME TypeOK, [Next]_vars PROVE TypeOK'
  OBVIOUS
<1>. /\ config \in Configs /\ used \in [Events -> Nat] /\ ap \in State /\ saved \in State
     /\ chosen \in Configs \union {None} /\ loose \in BOOLEAN /\ act \in Actions
     /\ {"call", "crash", "write", "read", "set", "refuse"} \subseteq Events
  BY DEF TypeOK, Events
<1>1. CASE Begin
  <2>1. config' \in Configs
    BY <1>1 DEF Begin
  <2>2. used' \in [Events -> Nat]
    BY <1>1 DEF Begin
  <2>. QED BY <1>1, <2>1, <2>2 DEF Begin, TypeOK, ledger, convex, market, history
<1>2. CASE Evaluate
  <2>1. highest' \in Int
    <3>1. highest \in Int /\ Equity \in Int /\ highest' = Higher(highest, Equity)
      BY <1>2, NumberFacts DEF Evaluate, TypeOK
    <3>. QED BY <3>1, HigherFacts
  <2>2. act' \in Actions /\ ap' \in State
    <3>1. CASE Decision(Marked(ap, Equity), Equity)
      BY <3>1, NumberFacts, MarkedFacts, DecisionFacts
    <3>2. CASE act' = "hold" /\ UNCHANGED ap
      BY <3>2 DEF Actions
    <3>. QED BY <1>2, <3>1, <3>2 DEF Evaluate
  <2>3. pc' \in {"kol", "persist"} /\ block' \in BOOLEAN
    BY <1>2 DEF Evaluate
  <2>. QED BY <1>2, <2>1, <2>2, <2>3 DEF Evaluate, TypeOK, convex, market, history
<1>3. CASE Persist
  <2>1. saved' \in State /\ used' \in [Events -> Nat]
    BY <1>3, SpendTyped DEF Persist
  <2>2. pc' \in {"exit", "idle", "kol"} /\ haltDay' \in Int
    BY <1>3, NumberFacts DEF Persist, TypeOK
  <2>. QED BY <1>3, <2>1, <2>2 DEF Persist, TypeOK, memory, ledger, market
<1>4. CASE Exit
  BY <1>4, Stages, StageTyped DEF Exit
<1>5. CASE Kol
  <2>1. pc' \in {"idle", "strategy"}
    BY <1>5 DEF Kol
  <2>. QED BY <1>5, <2>1, Stages, StageTyped
<1>6. CASE Strategy
  BY <1>6, Stages, StageTyped DEF Strategy
<1>7. CASE Activity
  BY <1>7, Stages, StageTyped DEF Activity
<1>8. CASE Crash
  <2>1. used' \in [Events -> Nat] /\ loose' \in BOOLEAN
    BY <1>8, SpendTyped DEF Crash
  <2>. QED BY <1>8, <2>1 DEF Crash, TypeOK, memory, ledger, convex, market
<1>9. CASE Boot
  <2>1. used' \in [Events -> Nat] /\ ap' \in State /\ loose' \in BOOLEAN
    BY <1>9, SpendTyped, FreshType DEF Boot
  <2>2. config' \in Configs /\ act' \in Actions
    BY <1>9 DEF Boot, Configs, Actions
  <2>. QED BY <1>9, <2>1, <2>2 DEF Boot, TypeOK, ledger, convex, market
<1>10. CASE SetAutopilot
  <2>1. used' \in [Events -> Nat] /\ chosen' \in Configs \union {None}
    BY <1>10, SpendTyped DEF SetAutopilot, Configs
  <2>. QED BY <1>10, <2>1 DEF SetAutopilot, TypeOK, memory, ledger, market, history
<1>11. CASE NextBar
  <2>1. hour' \in 0..MaxHour /\ price' \in Prices
    BY <1>11, TimeAssumption DEF NextBar, TypeOK
  <2>. QED BY <1>11, <2>1 DEF NextBar, TypeOK, memory, ledger, convex, history
<1>12. CASE UNCHANGED vars
  BY <1>12 DEF vars, TypeOK, memory, ledger, convex, market, history
<1>. QED BY <1>1, <1>2, <1>3, <1>4, <1>5, <1>6, <1>7, <1>8, <1>9, <1>10, <1>11, <1>12
     DEF Next, Rest

\* Every reachable state is well typed: the floor, the position and the fees never
\* go negative (LedgerState, AutopilotState).
THEOREM Typing == Spec => []TypeOK
  BY InitTyped, StepTyped, PTL DEF Spec

-----------------------------------------------------------------------------
(* The floor was owned.                                                    *)

\* FloorWasOwned is inductive on top of the types.
OwnedInv == TypeOK /\ FloorWasOwned

LEMMA OwnedStep == OwnedInv /\ [Next]_vars => OwnedInv'
<1>. SUFFICES ASSUME OwnedInv, [Next]_vars PROVE OwnedInv'
  OBVIOUS
<1>1. TypeOK /\ TypeOK'
  BY StepTyped DEF OwnedInv
<1>2. Protecting' = Protecting
  BY DEF Protecting
<1>. SUFFICES ASSUME Protecting PROVE ap'.floor <= highest' /\ saved'.floor <= highest'
  BY <1>1, <1>2 DEF OwnedInv, FloorWasOwned
<1>3. /\ ap.floor <= highest /\ saved.floor <= highest /\ highest \in Int
      /\ ap.floor \in Nat /\ saved.floor \in Nat /\ config.protect_principal
  BY <1>1 DEF OwnedInv, FloorWasOwned, TypeOK, State, Protecting
<1>4. Fresh.floor = 0
  BY DEF Fresh
<1>5. CASE Evaluate
  <2>1. Equity \in Int /\ highest' = Higher(highest, Equity) /\ saved' = saved
    BY <1>1, <1>5, NumberFacts DEF Evaluate, convex
  <2>2. highest' \in Int /\ highest' >= highest /\ highest' >= Equity
    BY <1>3, <2>1, HigherFacts
  <2>3. ap'.floor \in {ap.floor, Equity}
    <3>1. CASE Decision(Marked(ap, Equity), Equity)
      BY <1>1, <1>3, <2>1, <3>1, MarkedFacts, DecisionFacts
    <3>2. CASE UNCHANGED ap
      BY <3>2
    <3>. QED BY <1>5, <3>1, <3>2 DEF Evaluate
  <2>. QED BY <1>3, <2>1, <2>2, <2>3
<1>6. CASE Exit \/ Kol \/ Strategy \/ Activity
  <2>1. Kept /\ Filled
    BY <1>1, <1>6, Stages
  <2>2. ap'.floor = ap.floor
    BY <1>1, <2>1, FillTyped
  <2>. QED BY <1>3, <2>1, <2>2 DEF Kept, convex
<1>7. CASE Boot
  BY <1>3, <1>4, <1>7 DEF Boot, ledger, convex
<1>8. CASE Begin \/ Persist \/ Crash \/ SetAutopilot \/ NextBar \/ UNCHANGED vars
  <2>1. ap' = ap /\ highest' = highest /\ saved' \in {saved, ap}
    BY <1>8 DEF Begin, Persist, Crash, SetAutopilot, NextBar, vars, memory, ledger, convex
  <2>. QED BY <1>3, <2>1
<1>. QED BY <1>5, <1>6, <1>7, <1>8 DEF Next, Rest

\* With the principal protected, no floor is ever above the highest equity the ledger
\* has marked, whatever crashes, is lost or fails to sell (evaluate, BANK).
THEOREM FloorIsOwned == Spec => []FloorWasOwned
<1>1. Init => OwnedInv
  <2>. SUFFICES ASSUME Init PROVE FloorWasOwned
    BY InitTyped DEF OwnedInv
  <2>1. ap.floor = 0 /\ saved.floor = 0 /\ highest = Capital /\ Capital \in Nat
    BY MarketAssumption DEF Init, Fresh
  <2>. QED BY <2>1 DEF FloorWasOwned
<1>2. OwnedInv => FloorWasOwned
  BY DEF OwnedInv
<1>. QED BY <1>1, <1>2, OwnedStep, PTL DEF Spec

-----------------------------------------------------------------------------
(* The persisted floor never falls.                                        *)

\* As long as every read at a restart succeeded and the environment enables the
\* autopilot, the state in memory is at least as protective as the one in Convex.
AheadInv == TypeOK /\ (BootConfig.enabled /\ used["read"] = 0 => saved.floor <= ap.floor)

LEMMA AheadStep ==
    AheadInv /\ [Next]_vars =>
        /\ AheadInv'
        /\ (BootConfig.enabled /\ used["read"] = 0 => saved'.floor >= saved.floor)
<1>. SUFFICES ASSUME AheadInv, [Next]_vars
     PROVE  /\ AheadInv'
            /\ (BootConfig.enabled /\ used["read"] = 0 => saved'.floor >= saved.floor)
  OBVIOUS
<1>1. TypeOK /\ TypeOK'
  BY StepTyped DEF AheadInv
<1>2. /\ ap.floor \in Nat /\ saved.floor \in Nat /\ ap'.floor \in Nat /\ saved'.floor \in Nat
      /\ used \in [Events -> Nat]
      /\ {"call", "crash", "write", "read", "set", "refuse"} \subseteq Events
  BY <1>1 DEF TypeOK, State, Events
<1>3. used'["read"] = 0 => used["read"] = 0
  <2>1. used' = used \/ used'["read"] \in {used["read"], used["read"] + 1}
    BY <1>2 DEF Next, vars, Rest, Begin, Evaluate, Persist, Exit, Kol, Strategy, Activity, Crash,
                Boot, SetAutopilot, NextBar, Spend
  <2>. QED BY <1>2, <2>1
<1>4. SUFFICES ASSUME BootConfig.enabled, used["read"] = 0
      PROVE  /\ (used'["read"] = 0 => saved'.floor <= ap'.floor)
             /\ saved'.floor >= saved.floor
  BY <1>1, <1>3 DEF AheadInv
<1>5. saved.floor <= ap.floor
  BY <1>4 DEF AheadInv
<1>6. CASE Evaluate
  <2>1. saved' = saved
    BY <1>6 DEF Evaluate, convex
  <2>2. ap'.floor >= ap.floor
    <3>1. CASE Decision(Marked(ap, Equity), Equity)
      BY <1>1, <3>1, NumberFacts, MarkedFacts, DecisionFacts
    <3>2. CASE UNCHANGED ap
      BY <1>2, <3>2
    <3>. QED BY <1>6, <3>1, <3>2 DEF Evaluate
  <2>. QED BY <1>2, <1>5, <2>1, <2>2
<1>7. CASE Exit \/ Kol \/ Strategy \/ Activity
  <2>1. Kept /\ Filled
    BY <1>1, <1>7, Stages
  <2>2. ap'.floor = ap.floor
    BY <1>1, <2>1, FillTyped
  <2>. QED BY <1>2, <1>5, <2>1, <2>2 DEF Kept, convex
<1>8. CASE Boot
  <2>1. CASE ap' = saved /\ saved' = saved
    BY <1>2, <2>1
  <2>2. CASE Spend("read") /\ saved' = saved
    <3>1. used'["read"] = used["read"] + 1
      BY <1>2, <2>2 DEF Spend
    <3>. QED BY <1>2, <1>4, <2>2, <3>1
  <2>. QED BY <1>4, <1>8, <2>1, <2>2 DEF Boot, convex
<1>9. CASE Begin \/ Persist \/ Crash \/ SetAutopilot \/ NextBar \/ UNCHANGED vars
  <2>1. ap' = ap /\ saved' \in {saved, ap}
    BY <1>9 DEF Begin, Persist, Crash, SetAutopilot, NextBar, vars, memory, ledger, convex
  <2>. QED BY <1>2, <1>5, <2>1
<1>. QED BY <1>6, <1>7, <1>8, <1>9 DEF Next, Rest

\* The floor an operator sees in the cockpit never falls, over crashes and lost writes,
\* while restarts can read it and the environment enables the autopilot
\* (config:setAutopilotState).
THEOREM FloorOnlyRises == Spec => SavedFloorNeverFalls
<1>1. Init => AheadInv
  <2>. SUFFICES ASSUME Init PROVE saved.floor <= ap.floor
    BY InitTyped DEF AheadInv
  <2>. QED BY DEF Init, Fresh
<1>2. AheadInv /\ [Next]_vars
        => [BootConfig.enabled /\ used["read"] = 0 => saved'.floor >= saved.floor]_vars
  BY AheadStep
<1>3. AheadInv /\ [Next]_vars => AheadInv'
  BY AheadStep
<1>. QED BY <1>1, <1>2, <1>3, PTL DEF Spec, SavedFloorNeverFalls
---------------------------------------------------------------
-----------------------------------------------------------------------------
(* Banked capital stays in cash.                                           *)

\* What a bank under way will still bring in.
Due == IF pc \in {"persist", "exit"} /\ act = "bank" THEN units * price ELSE 0

\* BankedStaysInCash, with what has to hold while a bank is under way and while the
\* process is down: a restart resumes with the floor in Convex.
CashInv ==
    /\ TypeOK
    /\ Protecting /\ ~loose =>
        /\ saved.floor <= ap.floor
        /\ saved.floor <= cash + fees + (IF pc = "exit" THEN Due ELSE 0)
        /\ pc # "down" => ap.floor <= cash + fees + Due

\* One order stage after the decision: the floors stay and the ledger covers them.
LEMMA StageCovered ==
    ASSUME CashInv, Protecting, TypeOK', Kept, Filled, pc' \in {"idle", "strategy", "activity"},
           pc \in {"exit", "kol", "strategy", "activity"}, ~loose,
           ap.floor <= cash' + fees'
    PROVE  CashInv'
  <1>1. ap'.floor = ap.floor /\ saved' = saved /\ saved.floor <= ap.floor
    BY FillTyped DEF CashInv, Kept, convex
  <1>2. /\ ap.floor \in Nat /\ saved.floor \in Nat /\ cash' \in Int /\ fees' \in Nat
    BY DEF CashInv, TypeOK, State
  <1>3. Due' = 0
    BY DEF Due
  <1>. QED BY <1>1, <1>2, <1>3 DEF CashInv

LEMMA CashStep == CashInv /\ [Next]_vars => CashInv'
<1>. SUFFICES ASSUME CashInv, [Next]_vars PROVE CashInv'
  OBVIOUS
<1>1. TypeOK /\ TypeOK'
  BY StepTyped DEF CashInv
<1>2. Protecting' = Protecting
  BY DEF Protecting
<1>3. loose => loose'
  BY <1>1 DEF Next, Rest, vars, Begin, Evaluate, Persist, Exit, Kol, Strategy, Activity, Crash, Boot,
              SetAutopilot, NextBar, history, TypeOK
<1>. SUFFICES ASSUME Protecting, ~loose' PROVE CashInv'
  BY <1>1, <1>2 DEF CashInv
<1>4. /\ ~loose
      /\ saved.floor <= ap.floor
      /\ saved.floor <= cash + fees + (IF pc = "exit" THEN Due ELSE 0)
      /\ pc # "down" => ap.floor <= cash + fees + Due
  BY <1>3 DEF CashInv
<1>5. /\ ap.floor \in Nat /\ saved.floor \in Nat /\ cash \in Int /\ fees \in Nat
      /\ units \in Nat /\ units * price \in Nat /\ Equity = cash + units * price
      /\ ap'.floor \in Nat /\ saved'.floor \in Nat /\ Due \in Nat /\ 0 \in Nat
  BY <1>1, NumberFacts DEF TypeOK, State, Due, Equity
<1>6. CASE Begin
  <2>1. pc = "idle" /\ pc' = "evaluate" /\ UNCHANGED <<ap, saved, cash, fees>>
    BY <1>6 DEF Begin, ledger, convex
  <2>. QED BY <1>1, <1>4, <1>5, <2>1 DEF CashInv, Due
<1>7. CASE Evaluate
  <2>1. /\ pc = "evaluate" /\ pc' \in {"kol", "persist"}
        /\ UNCHANGED <<saved, cash, fees, units, price>>
    BY <1>7 DEF Evaluate, convex, market
  <2>2. ap.floor <= cash + fees /\ saved.floor <= cash + fees
    BY <1>4, <1>5, <2>1 DEF Due
  <2>3. CASE act' = "hold" /\ UNCHANGED ap
    BY <1>1, <1>4, <1>5, <2>1, <2>2, <2>3 DEF CashInv, Due
  <2>4. CASE pc' = "persist" /\ Decision(Marked(ap, Equity), Equity)
    <3>1. config.protect_principal
      BY <1>1 DEF TypeOK, Protecting
    <3>2. /\ ap'.floor >= ap.floor /\ (act' # "bank" => ap'.floor = ap.floor)
          /\ ap'.floor \in {ap.floor, Equity}
      BY <1>1, <2>4, <3>1, NumberFacts, MarkedFacts, DecisionFacts
    <3>3. Due' = IF act' = "bank" THEN units * price ELSE 0
      BY <2>1, <2>4 DEF Due
    <3>. QED BY <1>1, <1>4, <1>5, <2>1, <2>2, <2>4, <3>2, <3>3 DEF CashInv
  <2>. QED BY <1>7, <2>3, <2>4 DEF Evaluate
<1>8. CASE Persist
  <2>1. /\ pc = "persist" /\ UNCHANGED <<act, ap, cash, fees, units, price>>
        /\ saved' \in {saved, ap}
        /\ (act = "bank" => pc' = "exit") /\ pc' # "down"
    BY <1>8 DEF Persist, memory, ledger, market
  <2>2. Due' = Due
    BY <1>8, <2>1 DEF Due
  <2>3. saved.floor <= cash + fees
    BY <1>4, <1>5, <2>1
  <2>4. CASE act = "bank"
    BY <1>1, <1>4, <1>5, <2>1, <2>2, <2>3, <2>4 DEF CashInv
  <2>5. CASE act # "bank"
    <3>1. Due = 0
      BY <2>5 DEF Due
    <3>. QED BY <1>1, <1>4, <1>5, <2>1, <2>2, <2>3, <3>1 DEF CashInv
  <2>. QED BY <2>4, <2>5
<1>9. CASE Exit
  <2>1. Kept /\ Filled /\ pc = "exit" /\ pc' = "idle"
    BY <1>1, <1>9, Stages DEF Exit
  <2>2. ap.floor <= cash' + fees'
    <3>1. CASE Sell(units)
      <4>1. cash' + fees' = cash + fees + units * price /\ cash' \in Int /\ fees' \in Nat
        BY <1>1, <1>5, <3>1, SellFacts
      <4>2. Due <= units * price
        BY <1>5 DEF Due
      <4>3. ap.floor <= cash + fees + Due
        BY <1>4, <2>1
      <4>. QED BY <1>5, <4>1, <4>2, <4>3
    <3>2. CASE NoFill /\ loose' = (loose \/ act = "bank")
      <4>1. act # "bank"
        BY <3>2
      <4>2. Due = 0
        BY <4>1 DEF Due
      <4>. QED BY <1>4, <1>5, <2>1, <3>2, <4>2 DEF NoFill
    <3>. QED BY <1>9, <3>1, <3>2 DEF Exit
  <2>. QED BY <1>1, <1>4, <2>1, <2>2, StageCovered
<1>10. ASSUME NEW n \in 0..units, Sell(n), Due = 0, pc # "down" PROVE ap.floor <= cash' + fees'
  <2>1. cash' + fees' = cash + fees + n * price /\ n * price >= 0 /\ n * price \in Nat
    BY <1>1, <1>10, NumberFacts, SellFacts DEF TypeOK
  <2>. QED BY <1>4, <1>5, <1>10, <2>1
<1>11. CASE Kol
  <2>1. Kept /\ Filled /\ pc = "kol" /\ pc' \in {"idle", "strategy"} /\ Due = 0
    BY <1>1, <1>11, Stages DEF Kol, Due
  <2>2. ap.floor <= cash' + fees'
    <3>1. CASE NoFill
      BY <1>4, <1>5, <2>1, <3>1 DEF NoFill
    <3>2. CASE Sell(units)
      BY <1>5, <1>10, <2>1, <3>2
    <3>. QED BY <1>11, <3>1, <3>2 DEF Kol
  <2>. QED BY <1>1, <1>4, <2>1, <2>2, StageCovered
<1>12. CASE Strategy
  <2>1. Kept /\ Filled /\ pc = "strategy" /\ pc' = "activity" /\ Due = 0
    BY <1>1, <1>12, Stages DEF Strategy, Due
  <2>2. ap.floor <= cash' + fees'
    <3>1. CASE NoFill
      BY <1>4, <1>5, <2>1, <3>1 DEF NoFill
    <3>2. CASE \E n \in 1..units : Sell(n)
      BY <1>5, <1>10, <2>1, <3>2
    <3>3. ASSUME NEW n \in 1..MaxLots, config.enabled => n * price <= Deployable, Buy(n),
                 ~(units > 0), config.enabled
          PROVE  ap.floor <= cash' + fees'
      <4>1. n \in Nat \ {0} /\ n * price \in Nat /\ n * price > 0
        BY <1>1, NumberFacts, MarketAssumption
      <4>2. cash' + fees' = cash + fees - n * price
        BY <1>1, <3>3, <4>1, BuyFacts
      <4>3. Equity = cash
        <5>1. units = 0 /\ price \in Nat
          BY <1>1, <1>5, <3>3, NumberFacts
        <5>2. 0 * price = 0
          BY <5>1
        <5>. QED BY <1>5, <5>1, <5>2
      <4>4. n * price <= Higher(0, cash - ap.floor)
        BY <3>3, <4>3 DEF Deployable
      <4>5. n * price <= cash - ap.floor
        BY <1>5, <4>1, <4>4 DEF Higher
      <4>. QED BY <1>5, <4>1, <4>2, <4>5
    <3>. QED BY <1>12, <3>1, <3>2, <3>3 DEF Strategy
  <2>. QED BY <1>1, <1>4, <2>1, <2>2, StageCovered
<1>13. CASE Activity
  <2>1. Kept /\ Filled /\ pc = "activity" /\ pc' = "idle" /\ Due = 0
    BY <1>1, <1>13, Stages DEF Activity, Due
  <2>2. ap.floor <= cash' + fees'
    <3>1. CASE NoFill
      BY <1>4, <1>5, <2>1, <3>1 DEF NoFill
    <3>2. CASE units > 0 /\ Sell(1)
      BY <1>5, <1>10, <2>1, <3>2
    <3>. QED BY <1>13, <3>1, <3>2 DEF Activity
  <2>. QED BY <1>1, <1>4, <2>1, <2>2, StageCovered
<1>14. CASE Crash
  <2>1. /\ pc' = "down" /\ UNCHANGED <<act, ap, saved, cash, fees>>
        /\ ~(pc = "exit" /\ act = "bank")
    BY <1>14 DEF Crash, memory, ledger, convex
  <2>2. saved.floor <= cash + fees
    BY <1>4, <1>5, <2>1 DEF Due
  <2>. QED BY <1>1, <1>4, <1>5, <2>1, <2>2 DEF CashInv
<1>15. CASE Boot
  <2>1. pc = "down" /\ pc' = "idle" /\ ap' = saved /\ UNCHANGED <<saved, cash, fees>>
    BY <1>15 DEF Boot, ledger, convex
  <2>2. saved.floor <= cash + fees /\ Due' = 0
    BY <1>4, <1>5, <2>1 DEF Due
  <2>. QED BY <1>1, <1>5, <2>1, <2>2 DEF CashInv
<1>16. CASE SetAutopilot
  <2>1. UNCHANGED <<pc, act, ap, saved, cash, fees, units, price>>
    BY <1>16 DEF SetAutopilot, memory, ledger, market
  <2>. QED BY <1>1, <1>4, <1>5, <2>1 DEF CashInv, Due
<1>17. CASE NextBar
  <2>1. UNCHANGED <<pc, act, ap, saved, cash, fees>> /\ pc \in {"idle", "down"}
    BY <1>17 DEF NextBar, memory, ledger, convex
  <2>2. Due = 0 /\ Due' = 0
    BY <2>1 DEF Due
  <2>. QED BY <1>1, <1>4, <1>5, <2>1, <2>2 DEF CashInv
<1>18. CASE UNCHANGED vars
  <2>1. UNCHANGED <<pc, act, ap, saved, cash, fees, units, price>>
    BY <1>18 DEF vars, memory, ledger, convex, market
  <2>. QED BY <1>1, <1>4, <1>5, <2>1 DEF CashInv, Due
<1>. QED BY <1>6, <1>7, <1>8, <1>9, <1>11, <1>12, <1>13, <1>14, <1>15, <1>16, <1>17, <1>18
     DEF Next, Rest

\* With the principal protected, cash and the fees paid cover the banked floor between
\* decisions, unless an uncapped buy, a bank that did not sell or a restart that forgot
\* the floor came in between (_cap_to_deployable, evaluate).
THEOREM BankIsCovered == Spec => []BankedStaysInCash
<1>1. Init => CashInv
  <2>. SUFFICES ASSUME Init PROVE CashInv
    OBVIOUS
  <2>1. /\ ap.floor = 0 /\ saved.floor = 0 /\ cash = Capital /\ Capital \in Nat /\ fees = 0
        /\ pc = "idle"
    BY MarketAssumption DEF Init, Fresh
  <2>. QED BY <2>1, InitTyped DEF CashInv, Due
<1>2. CashInv => BankedStaysInCash
  <2>. SUFFICES ASSUME CashInv, Protecting, ~loose, pc \notin {"persist", "exit", "down"}
       PROVE  cash + fees >= ap.floor
    BY DEF BankedStaysInCash
  <2>1. Due = 0 /\ cash \in Int /\ fees \in Nat /\ ap.floor \in Nat
    BY DEF Due, CashInv, TypeOK, State
  <2>. QED BY <2>1 DEF CashInv
<1>. QED BY <1>1, <1>2, CashStep, PTL DEF Spec
-----------------------------------------------------------------------------
(* Nothing trades on a day that was halted.                                *)

\* The environment enables the autopilot, the state is written and read, and the
\* operator sets nothing.
Undisturbed == BootConfig.enabled /\ \A e \in {"write", "read", "set"} : used[e] = 0

Halted(s) == s.day = Today /\ s.halted

\* A day that was halted is halted in Convex, and in memory while there is a process;
\* no order stage is reached in it.
HaltInv ==
    /\ TypeOK
    /\ Undisturbed =>
        /\ chosen = None /\ config = BootConfig
        /\ haltDay <= Today
        /\ pc = "persist" /\ act = "halt_day" => Halted(ap)
        /\ haltDay = Today =>
            /\ Halted(saved)
            /\ pc # "down" => Halted(ap)
            /\ pc \in {"down", "idle", "evaluate", "persist"}
            /\ pc = "persist" => act = "halt_day"

LEMMA DaysPass ==
    ASSUME NEW h \in Nat
    PROVE  h \div HoursPerDay <= (h + 1) \div HoursPerDay
  <1>. DEFINE q == h \div HoursPerDay
              r == (h + 1) \div HoursPerDay
  <1>1. HoursPerDay \in Nat /\ HoursPerDay > 0
    BY TimeAssumption
  <1>2. q \in Nat /\ q * HoursPerDay <= h /\ h < q * HoursPerDay + HoursPerDay
    BY <1>1
  <1>3. r \in Nat /\ r * HoursPerDay <= h + 1 /\ h + 1 < r * HoursPerDay + HoursPerDay
    BY <1>1
  <1>. HIDE DEF q, r
  <1>4. q <= r
    <2>. SUFFICES ASSUME r + 1 <= q PROVE FALSE
      BY <1>2, <1>3
    <2>1. (r + 1) * HoursPerDay <= q * HoursPerDay
      BY <1>1, <1>2, <1>3
    <2>2. (r + 1) * HoursPerDay = r * HoursPerDay + HoursPerDay
      BY <1>1, <1>3
    <2>. QED BY <1>1, <1>2, <1>3, <2>1, <2>2
  <1>. QED BY <1>4 DEF q, r

\* What was disturbed stays so, and what happens now disturbs.
LEMMA StaysDisturbed ==
    ASSUME TypeOK, [Next]_vars, Undisturbed'
    PROVE  Undisturbed /\ ~Spend("write") /\ ~Spend("read") /\ ~Spend("set")
  <1>1. used \in [Events -> Nat] /\ {"call", "crash", "write", "read", "set", "refuse"} = Events
    BY DEF TypeOK, Events
  <1>2. \/ used' = used
        \/ \E e \in Events : used' = [used EXCEPT ![e] = @ + 1]
        \/ used' = [used EXCEPT !["call"] = @ + 1, !["read"] = @ + 1]
    BY <1>1 DEF Next, vars, Rest, Begin, Evaluate, Persist, Exit, Kol, Strategy, Activity, Crash,
                Boot, SetAutopilot, NextBar, Spend
  <1>3. \A e \in Events : used'[e] = 0 => used[e] = 0
    BY <1>1, <1>2
  <1>4. ASSUME NEW e \in {"write", "read", "set"}, Spend(e) PROVE used'[e] # 0
    BY <1>1, <1>4 DEF Spend
  <1>. QED BY <1>1, <1>3, <1>4 DEF Undisturbed

\* An evaluation halts a day that was halted, and marks what it halts.
LEMMA HaltFacts ==
    ASSUME TypeOK, NEW s, s = Marked(ap, Equity), Decision(s, Equity)
    PROVE  /\ act' = "halt_day" => ap'.day = Today /\ ap'.halted
           /\ Halted(ap) => act' = "halt_day"
  <1>1. ap \in State /\ Today \in Int /\ Equity \in Int
    BY NumberFacts DEF TypeOK
  <1>2. s \in State
    BY MarkedFacts
  <1>3. s.day = Today /\ (Halted(ap) => s.halted)
    <2>. DEFINE rolled == IF ap.day = Today THEN ap
                          ELSE [ap EXCEPT !.day = Today, !.dayStart = Equity, !.halted = FALSE]
    <2>1. rolled \in State /\ rolled.day = Today /\ (Halted(ap) => rolled.halted)
      BY <1>1 DEF State, Halted
    <2>2. s = [rolled EXCEPT !.peak = Higher(ap.peak, Equity)]
      BY DEF Marked
    <2>. HIDE DEF rolled
    <2>. QED BY <2>1, <2>2 DEF State
  <1>4. /\ [s EXCEPT !.halted = TRUE].day = s.day
        /\ [s EXCEPT !.halted = TRUE].halted
    BY <1>2 DEF State
  <1>. QED BY <1>3, <1>4 DEF Decision, Decided

LEMMA HaltStep == HaltInv /\ [Next]_vars => HaltInv'
<1>. SUFFICES ASSUME HaltInv, [Next]_vars PROVE HaltInv'
  OBVIOUS
<1>1. TypeOK /\ TypeOK'
  BY StepTyped DEF HaltInv
<1>. SUFFICES ASSUME Undisturbed' PROVE HaltInv'
  BY <1>1 DEF HaltInv
<1>2. Undisturbed /\ ~Spend("write") /\ ~Spend("read") /\ ~Spend("set") /\ config.enabled
  BY <1>1, StaysDisturbed DEF HaltInv, Undisturbed
<1>3. chosen = None /\ config = BootConfig /\ haltDay <= Today /\ Today \in Int /\ haltDay \in Int
  BY <1>1, <1>2, NumberFacts DEF HaltInv, TypeOK
<1>4. CASE Begin
  <2>1. /\ pc = "idle" /\ pc' = "evaluate" /\ config' = config
        /\ UNCHANGED <<act, ap, chosen, saved, hour, haltDay>>
    BY <1>2, <1>3, <1>4 DEF Begin, convex, market, history
  <2>. QED BY <1>1, <1>2, <1>3, <2>1 DEF HaltInv, Halted, Today
<1>5. CASE Evaluate
  <2>1. /\ pc = "evaluate" /\ pc' = "persist" /\ Decision(Marked(ap, Equity), Equity)
        /\ UNCHANGED <<config, chosen, saved, hour, haltDay>>
    BY <1>2, <1>5 DEF Evaluate, convex, market, history
  <2>2. /\ act' = "halt_day" => ap'.day = Today /\ ap'.halted
        /\ Halted(ap) => act' = "halt_day"
    BY <1>1, <2>1, HaltFacts
  <2>. QED BY <1>1, <1>2, <1>3, <2>1, <2>2 DEF HaltInv, Halted, Today
<1>6. CASE Persist
  <2>1. /\ pc = "persist" /\ saved' = ap
        /\ pc' = CASE act \in {"bank", "trail_exit"} -> "exit"
                   [] act = "halt_day"               -> "idle"
                   [] OTHER                          -> "kol"
        /\ haltDay' = IF act = "halt_day" THEN Today ELSE haltDay
        /\ UNCHANGED <<act, ap, config, chosen, hour>>
    BY <1>2, <1>6 DEF Persist, memory, market
  <2>2. CASE act = "halt_day"
    BY <1>1, <1>2, <1>3, <2>1, <2>2 DEF HaltInv, Halted, Today
  <2>3. CASE act # "halt_day"
    <3>1. haltDay # Today /\ pc' \in {"exit", "kol"}
      BY <1>2, <2>1, <2>3 DEF HaltInv
    <3>. QED BY <1>1, <1>3, <2>1, <2>3, <3>1 DEF HaltInv, Today
  <2>. QED BY <2>2, <2>3
<1>7. CASE Exit \/ Kol \/ Strategy \/ Activity
  <2>1. /\ pc \in {"exit", "kol", "strategy", "activity"} /\ pc' \in {"idle", "strategy", "activity"}
        /\ UNCHANGED <<config, chosen, hour, haltDay>>
    BY <1>7 DEF Exit, Kol, Strategy, Activity, convex, market
  <2>. QED BY <1>1, <1>2, <1>3, <2>1 DEF HaltInv, Today
<1>8. CASE Crash
  <2>1. pc' = "down" /\ pc # "down" /\ UNCHANGED <<config, ap, chosen, saved, hour, haltDay>>
    BY <1>8 DEF Crash, memory, convex, market
  <2>. QED BY <1>1, <1>2, <1>3, <2>1 DEF HaltInv, Halted, Today
<1>9. CASE Boot
  <2>1. /\ pc = "down" /\ pc' = "idle" /\ config' = BootConfig /\ ap' = saved
        /\ UNCHANGED <<chosen, saved, hour, haltDay>>
    BY <1>2, <1>9 DEF Boot, convex, market, Undisturbed
  <2>. QED BY <1>1, <1>2, <1>3, <2>1 DEF HaltInv, Halted, Today
<1>10. CASE SetAutopilot
  BY <1>2, <1>10 DEF SetAutopilot
<1>11. CASE NextBar
  <2>1. /\ pc \in {"idle", "down"} /\ hour' = hour + 1 /\ hour \in Nat
        /\ UNCHANGED <<pc, act, config, ap, chosen, saved, haltDay>>
    BY <1>1, <1>11, TimeAssumption DEF NextBar, memory, convex, history, TypeOK
  <2>2. Today <= Today' /\ Today' \in Int
    BY <2>1, DaysPass, TimeAssumption DEF Today
  <2>3. haltDay <= Today' /\ (haltDay = Today' => haltDay = Today /\ Today' = Today)
    BY <1>3, <2>2
  <2>. QED BY <1>1, <1>2, <1>3, <2>1, <2>3 DEF HaltInv, Halted
<1>12. CASE UNCHANGED vars
  BY <1>1, <1>2, <1>12 DEF HaltInv, Halted, Today, vars, memory, convex, market, history
<1>. QED BY <1>4, <1>5, <1>6, <1>7, <1>8, <1>9, <1>10, <1>11, <1>12 DEF Next, Rest

\* Once the daily target has halted a day no order of any kind fills in it, neither the
\* exits nor the KOL overlay nor the activity floor, and no crash between the decision
\* and the next day reopens it - while the state can be written and read, the
\* environment enables the autopilot and nobody sets it (evaluate, HALT_DAY).
THEOREM HaltHolds == Spec => NoTradeAfterHalt
<1>1. Init => HaltInv
  <2>. SUFFICES ASSUME Init PROVE HaltInv
    OBVIOUS
  <2>1. TypeOK /\ Today \in Int
    BY InitTyped, NumberFacts
  <2>2. hour = 0 /\ haltDay = -1 /\ pc = "idle" /\ chosen = None /\ config = BootConfig
    BY DEF Init
  <2>3. Today = 0
    BY <2>2, TimeAssumption DEF Today
  <2>. QED BY <2>1, <2>2, <2>3 DEF HaltInv
<1>2. HaltInv /\ [Next]_vars
        => [/\ cash' # cash /\ BootConfig.enabled
            /\ \A e \in {"write", "read", "set"} : used[e] = 0
            => Today # haltDay]_vars
  <2>. SUFFICES ASSUME HaltInv, Next, cash' # cash, Undisturbed PROVE Today # haltDay
    BY DEF Undisturbed
  <2>1. Exit \/ Kol \/ Strategy \/ Activity
    BY DEF Next, Rest, vars, Begin, Evaluate, Persist, Crash, Boot, SetAutopilot, NextBar, ledger
  <2>2. pc \in {"exit", "kol", "strategy", "activity"}
    BY <2>1 DEF Exit, Kol, Strategy, Activity
  <2>. QED BY <2>2 DEF HaltInv
<1>. QED BY <1>1, <1>2, HaltStep, PTL DEF Spec, NoTradeAfterHalt
=============================================================================
