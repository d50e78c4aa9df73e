------------------------------ MODULE Research ------------------------------
(***************************************************************************)
(* The backtest engine (core/backtest/engine.py) and the harnesses that    *)
(* run it over recorded bars: walk-forward validation, the 70/30 split of  *)
(* core/retune.py, the sweep of core/evaluate.py, and the thesis gate with *)
(* its holdout (research/evaluate.py).  A harness is a sequence of legs; a *)
(* leg runs one strategy over one slice of bars, bar after bar.            *)
(*                                                                         *)
(* A bar carries what the indicators show at it: above the trend line, the *)
(* line rising, the regime, the raw score; for a compiled rule its entry   *)
(* and exit.  A fill price divides the order size, and a clamped buy is    *)
(* cut to whole units.  ReturnScore stands for the Sortino ratio.          *)
(***************************************************************************)
EXTENDS Integers, Sequences, FiniteSets

CONSTANTS
    Symbols,           \* the symbols, in their order
    Tapes,             \* recordings: sequences of bars of one length
    Grid,              \* parameter sets, in the order they are tried
    ReturnScore(_),    \* of an equity curve
    Capital, Size,     \* initial_capital, position_size_usd
    Gas, Rate, Tick,   \* costs: flat, per cent of a fill, and what slippage adds to a price
    Train, Test, MinTrain,   \* WalkForwardConfig
    HoldoutBars, MinBeat     \* evaluate_thesis

Jobs    == {"walk", "retune", "evaluate", "thesis"}
Sides   == {"buy", "sell"}
Length  == Len(CHOOSE t \in Tapes : TRUE)
NoEntry == [price |-> 0, cost |-> 0]
Prices(bar)   == {bar.open, bar.close + Tick, bar.close - Tick}
Cost(usd)     == Gas + (usd * Rate) \div 100
Lesser(a, b)  == IF a <= b THEN a ELSE b
Greater(a, b) == IF a >= b THEN a ELSE b

ASSUME TapeAssumption  == /\ Tapes # {} /\ Length \in Nat \ {0}
                          /\ \A t \in Tapes : Len(t) = Length /\ t \in Seq({t[i] : i \in 1..Length})
                          /\ Len(Symbols) \in Nat \ {0} /\ DOMAIN Symbols = 1..Len(Symbols)
ASSUME PriceAssumption == \A t \in Tapes : \A i \in 1..Length : \A p \in Prices(t[i]) :
                              p \in Nat \ {0} /\ (Size \div p) * p = Size /\ t[i].close \in Nat
ASSUME MoneyAssumption == Capital \in Nat /\ Size \in Nat \ {0} /\ Gas \in Nat /\ Tick \in Nat
                          /\ Rate \in 0..100 /\ Cost(Size) <= Size
ASSUME PlanAssumption  == /\ Train \in Nat \ {0} /\ Test \in Nat \ {0} /\ MinTrain \in Nat
                          /\ HoldoutBars \in Nat /\ MinBeat \in Nat /\ Len(Grid) \in Nat \ {0}

VARIABLES
    tape,      \* the recordings, one for each symbol
    job,       \* what runs, and on which symbol
    leg,       \* the slice, the strategy and the fill mode that run now
    at,        \* bars of the leg done so far
    believed,  \* the strategy's own flag: in_position, held
    pending,   \* the order that waits for the next open
    acct,      \* the engine's account
    book,      \* the paper ledger, given the same orders
    curve,     \* equity_curve
    scores,    \* objectives of the parameter sets tried so far on this slice
    done,      \* legs finished and published
    verdict

engine == <<at, believed, pending, acct, book, curve>>
vars   == <<tape, job, leg, engine, scores, done, verdict>>

-----------------------------------------------------------------------------
(* Strategies.                                                             *)

Gate(params, regime) ==
    CASE regime = "trend" -> 10 [] regime = "chop" -> params.chop
      [] regime = "high_vol" -> 3 [] regime = "crash" -> 0

\* The decision of a preset after n bars, of which bar is the last.
Signal(params, n, bar, held) ==
    LET target  == bar.raw * Gate(params, bar.regime)
        current == IF held THEN 100 ELSE 0
        far     == target - current >= params.band \/ current - target >= params.band
    IN CASE n < params.warmup -> "none"
         [] held /\ (~bar.above \/ bar.regime = "crash") -> "sell"
         [] ~(bar.above /\ bar.rising) /\ ~params.bypass -> "none"
         [] far /\ ~held /\ target > params.entry -> "buy"
         [] far /\ held /\ target < params.exit -> "sell"
         [] OTHER -> "none"

\* The positions of a compiled rule over a sequence of bars.
Positions(bars) ==
    LET pos[i \in 0..Len(bars)] ==
            IF i = 0 THEN FALSE
            ELSE IF pos[i - 1] THEN ~bars[i].exit
            ELSE bars[i].entry /\ ~bars[i].exit
    IN pos

rule_to_strategy(want, held) ==
    IF want /\ ~held THEN "buy" ELSE IF ~want /\ held THEN "sell" ELSE "none"

-----------------------------------------------------------------------------
(* The account, and the paper ledger.                                      *)

Account == [cash : Int, units : Int, entry : [price : Int, cost : Int], pnl : Int,
            impossible : Nat, remainder : BOOLEAN]
Fresh   == [cash |-> Capital, units |-> 0, entry |-> NoEntry, pnl |-> 0,
            impossible |-> 0, remainder |-> FALSE]

\* Mutant of Impossible: a buy beyond the cash is not counted.
MutImpossibleSells(a, side, price) == side = "sell" /\ Size > a.units * price

\* Orders the account cannot meet are counted: oversized_sells, underfunded_buys.
Impossible(a, side, price) ==
    IF side = "sell" THEN Size > a.units * price ELSE Size > a.cash - Gas

\* The units that trade: the position caps a sell, the cash left after gas a buy.
Executed(a, side, price) ==
    IF side = "sell" THEN Lesser(Size \div price, a.units)
    ELSE Greater(Lesser(Size, a.cash - Gas), 0) \div price

\* Mutant of Realised: the cost of the entry is forgotten.
MutRealisedOneLeg(a, units, price, cost) ==
    IF a.entry = NoEntry THEN 0 ELSE (price - a.entry.price) * units - cost

\* The profit of the trade that a sell closes.
Realised(a, units, price, cost) ==
    IF a.entry = NoEntry THEN 0
    ELSE (price - a.entry.price) * units - cost - a.entry.cost

Bought(a, units, price, cost, count) ==
    [cash       |-> a.cash - units * price - cost,
     units      |-> a.units + units,
     entry      |-> IF a.entry = NoEntry THEN [price |-> price, cost |-> cost] ELSE a.entry,
     pnl        |-> a.pnl,
     impossible |-> count,
     remainder  |-> a.remainder]

\* A sell closes the trade even when it leaves a remainder of the position.
Sold(a, units, price, cost, count) ==
    [cash       |-> a.cash + units * price - cost,
     units      |-> Greater(a.units - units, 0),
     entry      |-> NoEntry,
     pnl        |-> a.pnl + Realised(a, units, price, cost),
     impossible |-> count,
     remainder  |-> a.remainder \/ units < a.units]

Fill(a, side, price) ==
    LET units == Executed(a, side, price)
        cost  == Cost(units * price)
        count == a.impossible + (IF Impossible(a, side, price) THEN 1 ELSE 0)
    IN IF units = 0 THEN [a EXCEPT !.impossible = count]
       ELSE IF side = "buy" THEN Bought(a, units, price, cost, count)
       ELSE Sold(a, units, price, cost, count)

\* The paper executor fills the whole order; the ledger clamps the units alone.
PaperFill(b, side, price) ==
    LET units == Size \div price
    IN IF side = "buy"
       THEN [cash |-> b.cash - Size - Cost(Size), units |-> b.units + units]
       ELSE [cash |-> b.cash + Size - Cost(Size), units |-> b.units - Lesser(units, b.units)]

-----------------------------------------------------------------------------
(* Scores.                                                                 *)

\* Deepest fall from a running peak, in per mille of the peak.
MaxDrawdown(c) ==
    LET Peak(i) == CHOOSE p \in {c[j] : j \in 1..i} : \A j \in 1..i : c[j] <= p
        Fall(i) == IF Peak(i) > 0 THEN ((Peak(i) - c[i]) * 1000) \div Peak(i) ELSE 0
        falls   == {Fall(i) : i \in 1..Len(c)}
    IN CHOOSE f \in falls : \A g \in falls : g <= f

objective(c) == IF Len(c) < 2 THEN 0 ELSE ReturnScore(c) - 2 * MaxDrawdown(c)

\* Walking along a curve: where the running peak is, and the longest time it took to
\* come back to one.
Recoveries(c) ==
    LET walk[i \in 1..Len(c)] ==
            IF i = 1 THEN [peak |-> 1, longest |-> 0]
            ELSE IF c[i] >= c[walk[i - 1].peak]
            THEN [peak |-> i, longest |-> Greater(walk[i - 1].longest, i - walk[i - 1].peak)]
            ELSE walk[i - 1]
    IN walk

\* Mutant of max_drawdown_duration: the episode still open at the end is not counted.
MutDurationClosedOnly(c) == IF Len(c) < 2 THEN 0 ELSE Recoveries(c)[Len(c)].longest

\* Bars under water before a peak was reached again, the last episode included.
max_drawdown_duration(c) ==
    LET last == Recoveries(c)[Len(c)]
    IN IF Len(c) < 2 THEN 0
       ELSE IF c[Len(c)] < c[last.peak] THEN Greater(last.longest, Len(c) - last.peak)
       ELSE last.longest

\* The first of the best: the stability bonus is the same for every candidate.
Best(s) == CHOOSE k \in DOMAIN s : /\ \A j \in DOMAIN s : s[j] <= s[k]
                                   /\ \A j \in 1..k - 1 : s[j] < s[k]

-----------------------------------------------------------------------------
(* Legs.                                                                   *)

Leg(symbol, from, to, purpose, pick) ==
    [symbol |-> symbol, from |-> from, to |-> to, purpose |-> purpose, pick |-> pick]
Idle  == Leg(1, 1, 0, "idle", 1)
Late  == leg.purpose = "test"         \* next_bar_open_fill
Split == (Length * 7) \div 10
Cut   == Length - Lesser(HoldoutBars, Length)

TrainLeg(start, pick) == Leg(job.symbol, start + 1, start + Train, "train", pick)
Windowed(start)       == Train >= MinTrain /\ start + Train < Length

Opening ==
    CASE job.kind = "walk"     -> IF Windowed(0) THEN TrainLeg(0, 1) ELSE Idle
      [] job.kind = "retune"   -> IF Length < Train + Test THEN Idle
                                  ELSE Leg(job.symbol, 1, Split, "train", 1)
      [] job.kind = "evaluate" -> Leg(1, 1, Length, "row", 1)
      [] job.kind = "thesis"   -> Leg(1, 1, Cut, "dev", 1)

Init ==
    /\ tape \in [DOMAIN Symbols -> Tapes]
    /\ job \in [kind : Jobs, symbol : DOMAIN Symbols]
    /\ leg = Opening
    /\ at = 0 /\ believed = FALSE /\ pending = "none"
    /\ acct = Fresh /\ book = [cash |-> Capital, units |-> 0]
    /\ curve = <<>> /\ scores = <<>> /\ done = <<>> /\ verdict = "none"

Start(next) ==
    /\ leg' = next
    /\ at' = 0 /\ believed' = FALSE /\ pending' = "none"
    /\ acct' = Fresh /\ book' = [cash |-> Capital, units |-> 0]
    /\ curve' = <<>>

-----------------------------------------------------------------------------
(* One bar of the engine.                                                  *)

Slice == SubSeq(tape[leg.symbol], leg.from, leg.to)
Now   == tape[leg.symbol][leg.from + at]

\* What the rule wants: its positions over the slice, or for the holdout those over
\* the whole recording, cut.
Wanted == IF leg.purpose = "holdout" THEN Positions(tape[leg.symbol])[leg.from + at]
          ELSE Positions(Slice)[at + 1]

\* Mutant of Order: the decision is taken on the bar after this one.
MutOrderPeeks ==
    IF leg.purpose \in {"dev", "holdout"} THEN rule_to_strategy(Wanted, believed)
    ELSE Signal(Grid[leg.pick], at + 1,
                tape[leg.symbol][Lesser(leg.from + at + 1, Length)], believed)

Order ==
    IF leg.purpose \in {"dev", "holdout"} THEN rule_to_strategy(Wanted, believed)
    ELSE Signal(Grid[leg.pick], at + 1, Now, believed)

Opened == IF pending = "none" THEN acct ELSE Fill(acct, pending, Now.open)
Slipped(side) == IF side = "buy" THEN Now.close + Tick ELSE Now.close - Tick

RunBar ==
    /\ leg # Idle /\ leg.from + at <= leg.to
    /\ acct' = IF Late \/ Order = "none" THEN Opened ELSE Fill(Opened, Order, Slipped(Order))
    /\ book' = IF Late \/ Order = "none" THEN book ELSE PaperFill(book, Order, Slipped(Order))
    /\ pending' = IF Late THEN Order ELSE "none"
    /\ believed' = IF Order = "none" THEN believed ELSE Order = "buy"
    /\ curve' = Append(curve, acct'.cash + acct'.units * Now.close)
    /\ at' = at + 1
    /\ UNCHANGED <<tape, job, leg, scores, done, verdict>>

-----------------------------------------------------------------------------
(* The harnesses, when a leg has run to its end.                           *)

Ended(purpose) == leg.purpose = purpose /\ leg # Idle /\ leg.from + at > leg.to
Published      == Append(done, [leg |-> leg, objective |-> objective(curve)])

TestEnd(end) == Lesser(end + Test, Length)

\* optimize: the grid on the training slice, then the best on the bars after it.
Optimise ==
    /\ Ended("train")
    /\ LET tried == Append(scores, objective(curve))
           end   == leg.to
       IN IF Len(tried) < Len(Grid)
          THEN scores' = tried /\ Start([leg EXCEPT !.pick = leg.pick + 1])
          ELSE /\ scores' = <<>>
               /\ Start(IF job.kind = "walk"
                        THEN Leg(job.symbol, end + 1, TestEnd(end), "test", Best(tried))
                        ELSE Leg(job.symbol, end + 1, Length, "split", Best(tried)))
    /\ UNCHANGED <<tape, job, done, verdict>>

\* Mutant of NextWindow: the next window starts where this test ends.
MutNextWindowSkips == leg.to

\* Where the next window starts.
NextWindow == leg.from - 1 - Train + Test

FinishTest ==
    /\ Ended("test")
    /\ done' = Published
    /\ Start(IF Windowed(NextWindow) THEN TrainLeg(NextWindow, 1) ELSE Idle)
    /\ UNCHANGED <<tape, job, scores, verdict>>

FinishSplit ==
    /\ Ended("split")
    /\ done' = Published /\ Start(Idle)
    /\ UNCHANGED <<tape, job, scores, verdict>>

\* Every preset on every symbol, and all of them reported.
FinishRow ==
    /\ Ended("row")
    /\ done' = Published
    /\ Start(IF leg.symbol < Len(Symbols) THEN Leg(leg.symbol + 1, 1, Length, "row", leg.pick)
             ELSE IF leg.pick < Len(Grid) THEN Leg(1, 1, Length, "row", leg.pick + 1)
             ELSE Idle)
    /\ UNCHANGED <<tape, job, scores, verdict>>

Beats == Cardinality({k \in DOMAIN done' : done'[k].objective > 0})

\* A thesis that beats cash on enough symbols goes on to the holdout.
FinishDev ==
    /\ Ended("dev")
    /\ done' = Published
    /\ IF leg.symbol < Len(Symbols)
       THEN Start(Leg(leg.symbol + 1, 1, Cut, "dev", 1)) /\ UNCHANGED verdict
       ELSE IF Beats >= MinBeat
       THEN verdict' = "VALIDATED" /\ Start(Leg(1, Cut + 1, Length, "holdout", 1))
       ELSE verdict' = "FALSIFIED" /\ Start(Idle)
    /\ UNCHANGED <<tape, job, scores>>

FinishHoldout ==
    /\ Ended("holdout")
    /\ done' = Published
    /\ Start(IF leg.symbol < Len(Symbols)
             THEN Leg(leg.symbol + 1, Cut + 1, Length, "holdout", 1) ELSE Idle)
    /\ UNCHANGED <<tape, job, scores, verdict>>

Next == \/ RunBar \/ Optimise \/ FinishTest \/ FinishSplit
        \/ FinishRow \/ FinishDev \/ FinishHoldout

Spec == Init /\ [][Next]_vars

-----------------------------------------------------------------------------
\* The paper run is a faithful mirror of the simulation (executor.py:116) as long as
\* the engine had nothing to refuse: fed with the orders of a close-filled leg, the
\* ledger holds what the account holds.
SimMatchesPaper ==
    ~Late /\ acct.impossible = 0 => book.cash = acct.cash /\ book.units = acct.units

\* The closed trades explain the cash of a flat account, as long as every exit closed
\* the whole position.  An exit of the fixed size from a position that has grown leaves
\* a remainder, which is sold as part of a later trade and in no profit: such an
\* account is left out for good.
TradesExplainCash ==
    acct.units = 0 /\ ~acct.remainder => acct.cash = Capital + acct.pnl

\* Out of sample: over a finished walk every bar after the first training span was
\* tested exactly once, and never before.
EachBarTestedOnce ==
    job.kind = "walk" =>
        LET Testers(b) == {k \in DOMAIN done : b \in done[k].leg.from..done[k].leg.to}
        IN /\ \A b \in 1..Length : Cardinality(Testers(b)) <= IF b <= Train THEN 0 ELSE 1
           /\ leg = Idle /\ Train >= MinTrain =>
                \A b \in Train + 1..Length : Testers(b) # {}

\* A point of a curve lies below an earlier one.
Sank(c) == \E i, j \in 1..Len(c) : i < j /\ c[j] < c[i]

\* An episode under water: it goes below the point where it starts, and ends at the
\* first point that is as high again, or with the curve.
Episode(c, i, j) == /\ i < j /\ c[i + 1] < c[i] /\ \A k \in i + 1..j - 1 : c[k] < c[i]
                    /\ j = Len(c) \/ c[j] >= c[i]

\* Of a curve that ever sank, the duration reported is the longest time below a prior
\* peak until it was reached again, the episode still open at the end included
\* (scorecard.py:188, :204).
DurationIsLongestEpisode ==
    Sank(curve) =>
        LET d == max_drawdown_duration(curve)
        IN /\ \A i, j \in 1..Len(curve) : Episode(curve, i, j) => j - i <= d
           /\ \E i, j \in 1..Len(curve) : Episode(curve, i, j) /\ j - i = d
=============================================================================
