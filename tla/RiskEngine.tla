----------------------------- MODULE RiskEngine -----------------------------
(***************************************************************************)
(* Three books of one position: what the strategy believes                 *)
(* (core/strategy/combined.py: in_position), what the risk engine tracks   *)
(* (core/risk/engine.py: _PosTracker, the base of stops, caps and breaker) *)
(* and what the agent holds (agent/ledger.py, fed by fills).  Each is      *)
(* updated on its own: the first when it signals, the second when an order *)
(* is emitted, at the closing price, the third when - and if, and for as   *)
(* much as - it fills, at a worse one.  Overlays of the loop trade past    *)
(* the first two; a restart rebuilds the second from the trade rows and    *)
(* forgets the first.                                                      *)
(*                                                                         *)
(* The position is counted in lots, an order in the lots its dollars are   *)
(* worth at the close; slippage takes whole lots, fewer for a buy and more *)
(* for a sell.  Signals, the ATR (so whether the stop is hit) and the size *)
(* of an entry before the exposure cap are nondeterministic; fees and gas  *)
(* are left out, as the tracker leaves them out.  An average price is      *)
(* rounded down.  The trade rows are taken to be within the 500 newest     *)
(* that recovery reads.                                                    *)
(***************************************************************************)
EXTENDS Integers

CONSTANTS
    None,         \* no order
    Prices,       \* open, high and closing prices
    Token,        \* the token the strategy trades
    Default,      \* the token a new engine names
    Slip,         \* most lots slippage may take from a fill
    Capital,      \* initial_capital
    MaxOrder,     \* most lots max_trade_usd and the base size let an entry have
    PositionPct,  \* max_position_pct
    ExitUsd,      \* position_size_usd, the size of every exit signal
    ExposurePct,  \* max_open_exposure_pct
    LossPct,      \* daily_loss_limit_pct
    MaxLosses,    \* max_consecutive_losses
    HoursPerDay,
    MaxHour,      \* bound: the last hour
    Paper,        \* the paper executor fills any size, a chain what is held
    MaxEvents     \* bound: how often each environment event may happen

Events == {"overlay", "restart"}
Named == {Token, Default}
Orders == [side : {"buy", "sell"}, lots : Nat \ {0}, symbol : Named]

ASSUME OrderAssumption  == None \notin Orders
ASSUME MarketAssumption == /\ Prices \subseteq Nat \ {0} /\ Prices # {}
                           /\ {Capital, MaxOrder, Slip} \subseteq Nat
                           /\ ExitUsd \in Nat /\ \A p \in Prices : ExitUsd >= p
ASSUME ConfigAssumption == /\ {PositionPct, ExposurePct} \subseteq 0..100 /\ LossPct \in 1..100
                           /\ MaxLosses \in Nat \ {0} /\ Paper \in BOOLEAN
ASSUME TimeAssumption   == HoursPerDay \in Nat \ {0} /\ MaxHour \in Nat
ASSUME BoundAssumption  == MaxEvents \in [Events -> Nat]

VARIABLES
    pc, hour, price,           \* where the cycle is, the last bar
    wish, inPosition,          \* the strategy: its signal at this bar, its flag
    pos, currentDay, dayStart, \* the tracker
    heldSymbol,                \* the token a forced exit will name
    order,                     \* emitted and not yet dealt with
    book,                      \* the ledger, and what the trade rows replay to
    loose,                     \* history: since the last restart a sell was cut or an
                               \* overlay bought
    strayed,                   \* history: the same, or any other fill that is not the
                               \* order as emitted
    used                       \* environment events so far

market  == <<hour, price>>
tracker == <<pos, currentDay, dayStart, heldSymbol>>
history == <<loose, strayed>>
vars    == <<pc, market, wish, inPosition, tracker, order, book, history, used>>

\* high is the high water mark of the position.
Account == [cash : Int, units : Nat, entry : Int, high : Int, losses : Nat]
Fresh   == [cash |-> Capital, units |-> 0, entry |-> 0, high |-> 0, losses |-> 0]

TypeOK ==
    /\ pc \in {"idle", "overlay", "call", "deliver", "activity"}
    /\ hour \in 0..MaxHour /\ price \in Prices
    /\ wish \in {"none", "enter", "exit"} /\ inPosition \in BOOLEAN
    /\ pos \in Account /\ currentDay \in Int /\ dayStart \in Int /\ heldSymbol \in Named
    /\ order \in Orders \union {None} /\ (order # None <=> pc = "deliver")
    /\ book \in Account
    /\ loose \in BOOLEAN /\ strayed \in BOOLEAN
    /\ used \in [Events -> Nat]

Init ==
    /\ pc = "idle" /\ hour = 0 /\ price \in Prices
    /\ wish = "none" /\ inPosition = FALSE
    /\ pos = Fresh /\ currentDay = -1 /\ dayStart = Capital /\ heldSymbol = Default
    /\ order = None /\ book = Fresh
    /\ loose = FALSE /\ strayed = FALSE
    /\ used = [e \in Events |-> 0]

Spend(e)     == used[e] < MaxEvents[e] /\ used' = [used EXCEPT ![e] = @ + 1]
Today        == hour \div HoursPerDay
Lesser(a, b) == IF a <= b THEN a ELSE b
Greater(a, b) == IF a >= b THEN a ELSE b
Equity(a)    == a.cash + a.units * price

-----------------------------------------------------------------------------
(* Accounting, the same in the tracker and in the ledger: usd dollars for  *)
(* n lots, so that a lot costs usd / n.                                    *)

Bought(a, usd, n) ==
    [cash   |-> a.cash - usd,
     units  |-> a.units + n,
     entry  |-> (a.entry * a.units + usd) \div (a.units + n),
     high   |-> IF a.units = 0 THEN usd \div n ELSE Greater(a.high, usd \div n),
     losses |-> a.losses]

\* The units are clamped to those held, the proceeds are not.
Sold(a, usd, n) ==
    LET m == Lesser(n, a.units)
    IN [cash   |-> a.cash + usd,
        units  |-> a.units - m,
        entry  |-> a.entry,
        high   |-> IF m = a.units THEN 0 ELSE a.high,
        losses |-> IF m > 0 /\ usd < n * a.entry THEN a.losses + 1 ELSE 0]

\* Lots got for the dollars of n, and lots given for them.
Got(n)   == {k \in 1..n : n <= k + Slip}
Given(n) == n..(n + Slip)

-----------------------------------------------------------------------------
(* The cycle.                                                              *)

NextBar ==
    /\ pc = "idle" /\ hour < MaxHour
    /\ pc' = "overlay"
    /\ hour' = hour + 1 /\ price' \in Prices
    /\ wish' \in {"none", "enter", "exit"}
    /\ UNCHANGED <<inPosition, tracker, order, book, history, used>>

\* An order of the autopilot, the KOL overlay or the activity floor, or the wallet's
\* reconciliation, which sells all: it reaches the
\* ledger and not the tracker.
OverlayTrade ==
    /\ Spend("overlay") /\ strayed' = TRUE
    /\ \/ \E n \in 1..MaxOrder : \E k \in Got(n) :
              book' = Bought(book, n * price, k) /\ loose' = TRUE
       \/ \E n \in 1..book.units : \E k \in Given(n) :
              book' = Sold(book, n * price, k) /\ UNCHANGED loose

\* The stages of run_cycle before the strategy: a halt or an intervention ends the
\* cycle without calling it.
Overlay ==
    /\ pc = "overlay"
    /\ \/ pc' \in {"idle", "call"} /\ UNCHANGED <<book, history, used>>
       \/ pc' = "idle" /\ OverlayTrade
    /\ UNCHANGED <<market, wish, inPosition, tracker, order>>

\* Mutant of Emitted: the tracker waits for the fill of a buy.
MutEmittedBuyUntracked(acct, side, n, symbol) ==
    /\ pc' = "deliver" /\ order' = [side |-> side, lots |-> n, symbol |-> symbol]
    /\ pos' = IF side = "buy" THEN acct ELSE Sold(acct, n * price, n)

\* An order is emitted, and the tracker takes it as filled at the close.
Emitted(acct, side, n, symbol) ==
    /\ pc' = "deliver" /\ order' = [side |-> side, lots |-> n, symbol |-> symbol]
    /\ pos' = IF side = "buy" THEN Bought(acct, n * price, n) ELSE Sold(acct, n * price, n)

\* The strategy has nothing to say, or is not let.
Silent(acct) == pc' = "activity" /\ pos' = acct /\ UNCHANGED order

\* The hard and the trailing stop, before anything else: a forced exit of all the
\* tracker holds, of which the strategy is not told.
StopExit ==
    /\ pc = "call" /\ pos.units > 0
    /\ Emitted(pos, "sell", pos.units, heldSymbol)
    /\ UNCHANGED <<market, wish, inPosition, currentDay, dayStart, heldSymbol, book, history, used>>

\* check_guardrails before the signal: daily loss and circuit breaker.
Tripped(start) ==
    \/ start > 0 /\ 100 * (start - Equity(pos)) >= LossPct * start
    \/ pos.losses >= MaxLosses

\* Mutant of Fits: the cap is applied to the order alone.
MutFitsAlone(n) == Equity(pos) <= 0 \/ 100 * (n * price) <= ExposurePct * Equity(pos)

\* check_max_exposure, which lets everything pass once there is no equity.
Fits(n) == \/ Equity(pos) <= 0
           \/ 100 * ((pos.units + n) * price) <= ExposurePct * Equity(pos)

\* compute_position_size: the volatility and the Kelly fraction of the last trades may
\* make an entry of any size up to the caps; without equity it makes none.
Sizes == {n \in 1..MaxOrder : 100 * (n * price) <= PositionPct * Equity(pos)}

Enter(acct) ==
    /\ wish = "enter" /\ ~inPosition /\ inPosition' = TRUE
    /\ \/ Silent(acct) /\ UNCHANGED heldSymbol
       \/ \E n \in Sizes : Fits(n) /\ Emitted(acct, "buy", n, Token) /\ heldSymbol' = Token

\* An exit signal is for a fixed size, bounded by what the tracker holds.
Exit(acct) ==
    /\ wish = "exit" /\ inPosition /\ inPosition' = FALSE /\ UNCHANGED heldSymbol
    /\ \/ pos.units = 0 /\ Silent(acct)
       \/ pos.units > 0 /\ Emitted(acct, "sell", Lesser(ExitUsd \div price, pos.units), Token)

Hold(acct) ==
    /\ wish = "none" \/ (wish = "enter" /\ inPosition) \/ (wish = "exit" /\ ~inPosition)
    /\ UNCHANGED <<inPosition, heldSymbol>> /\ Silent(acct)

\* A bar raises the high water mark of an open position.
Watched(high) == [pos EXCEPT !.high = IF pos.units > 0 THEN Greater(@, high) ELSE @]

\* RiskEngine.__call__ when no stop is hit: the day's baseline is the equity at the
\* open of the first bar that gets here; a tripped guardrail answers for the strategy.
Call ==
    /\ pc = "call" /\ currentDay' = Today
    /\ \E open \in Prices :
           dayStart' = IF currentDay = Today THEN dayStart ELSE pos.cash + pos.units * open
    /\ \E high \in {p \in Prices : p >= price} :
          \/ Tripped(dayStart') /\ Silent(Watched(high)) /\ UNCHANGED <<inPosition, heldSymbol>>
          \/ ~Tripped(dayStart')
             /\ (Enter(Watched(high)) \/ Exit(Watched(high)) \/ Hold(Watched(high)))
    /\ UNCHANGED <<market, wish, book, history, used>>

\* The loop and the executor deal with the order: it may be dropped, shrunk (the
\* deployable capital, a penalty, the forecast) or not filled, a sell like a buy; what
\* fills, fills at the slipped price.  The ledger knows one token, whatever was sold.
Deliver ==
    /\ pc = "deliver" /\ pc' = "activity" /\ order' = None
    /\ \E m \in 0..order.lots :
           /\ strayed' = (strayed \/ m # order.lots)
           /\ \/ m = 0 /\ UNCHANGED book
              \/ /\ m > 0 /\ order.side = "buy"
                 /\ \E k \in Got(m) : book' = Bought(book, m * price, k)
              \/ /\ m > 0 /\ order.side = "sell"
                 /\ Paper \/ order.symbol # Token \/ m <= book.units
                 /\ \E k \in Given(m) : book' = Sold(book, m * price, k)
           /\ loose' = (loose \/ (order.side = "sell" /\ m < order.lots /\ m < book.units))
    /\ UNCHANGED <<market, wish, inPosition, tracker, used>>

\* _maybe_compliance_trade.
Activity ==
    /\ pc = "activity" /\ pc' = "idle"
    /\ OverlayTrade \/ UNCHANGED <<book, history, used>>
    /\ UNCHANGED <<market, wish, inPosition, tracker, order>>

\* Mutant of Restored: the cash is not rebuilt.
MutRestoredKeepsCapital(a) == [a EXCEPT !.cash = Capital]

\* restore: the rows are replayed into a new tracker at their fill prices.  The high
\* water mark is that of the fills, not of the bars since.
Restored(a) == a

\* A crash and a start with --recover: the strategy is a new closure, the tracker is
\* rebuilt, the day's baseline is taken anew, and the engine names the default token.
Restart ==
    /\ Spend("restart")
    /\ pc' = "idle" /\ order' = None /\ wish' = "none" /\ inPosition' = FALSE
    /\ pos' = Restored(book) /\ currentDay' = -1 /\ dayStart' = Capital /\ heldSymbol' = Default
    /\ loose' = FALSE /\ strayed' = FALSE
    /\ UNCHANGED <<market, book>>

\* The last bar has been dealt with.
Rest == pc = "idle" /\ hour = MaxHour /\ UNCHANGED vars

Next == \/ NextBar \/ Overlay \/ StopExit \/ Call \/ Deliver \/ Activity
        \/ Restart \/ Rest

Spec == Init /\ [][Next]_vars

-----------------------------------------------------------------------------
(* Properties.                                                             *)

\* The stop covers the position: the tracker holds at least the lots the agent holds,
\* unless since the last restart a sell was cut short or an overlay bought.
StopIsArmed == order = None /\ ~loose => book.units <= pos.units

\* check_max_exposure is a bound on what is really held: a filled entry never leaves
\* more than the capped share of the tracked equity exposed, however many entries,
\* partial fills and partial exits came before.
ExposureCapped ==
    [][(order # None /\ ~loose /\ Equity(pos) > 0 /\ book'.units > book.units)
       => 100 * (book'.units * price) <= ExposurePct * Equity(pos)]_vars

\* A restart gives the risk engine nothing to spend: where every order was filled as
\* emitted, at whatever slippage, and no overlay traded, the replay of the trade rows
\* gives back the cash of before and no more lots, so that at no price is there more
\* equity to size orders and to measure the cap by (core/risk/engine.py:231).
RestartAddsNothing ==
    [][(used'["restart"] # used["restart"] /\ order = None /\ ~strayed)
       => pos'.cash = pos.cash /\ pos'.units <= pos.units]_vars
=============================================================================
