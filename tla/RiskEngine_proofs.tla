------------------------- MODULE RiskEngine_proofs -------------------------
(***************************************************************************)
(* Proofs about the three books of a position, for every market, every     *)
(* configuration and every pattern of overlays and restarts.  The argument *)
(* rests on what one emission and one delivery do to the two accounts      *)
(* (AccountFacts, EmittedFacts, DeliverFacts), and on three invariants     *)
(* that say how the tracker and the ledger differ while an order is under  *)
(* way:                                                                    *)
(*   ArmedInv  the tracker is ahead by at least a pending buy, and behind  *)
(*             by no more than a pending sell;                             *)
(*   SyncInv   the tracker is the ledger with the pending order applied;   *)
(*   CapInv    a pending buy has passed the exposure cap.                  *)
(*                                                                         *)
(* And about the advice that may shrink or block what the engine emits,    *)
(* module Advice: it expires, a stale forecast has been announced, and an  *)
(* entry is filed once.  Three more invariants:                            *)
(*   SizeInv   a forecast in the table that asks for caution is no younger *)
(*             than the last one that asked for it;                        *)
(*   ToldInv   what the cycle's first read found too old was announced,    *)
(*             and nothing read later in the cycle is older;               *)
(*   FiledInv  the open entry is the last, and not filed yet.              *)
(***************************************************************************)
EXTENDS RiskEngine, Advice, TLAPS

Buying  == order # None /\ order.side = "buy"
Selling == order # None /\ order.side = "sell"

ArmedInv ==
    ~loose => /\ order = None => book.units <= pos.units
              /\ Buying  => book.units + order.lots <= pos.units
              /\ Selling => book.units <= pos.units + order.lots

\* Cash moves by the dollars of an order, whatever lots they fetch.
SyncInv ==
    ~strayed => /\ ~loose
                /\ order = None => pos.cash = book.cash
                /\ Buying  => pos.cash = book.cash - order.lots * price
                /\ Selling => pos.cash = book.cash + order.lots * price

CapInv ==
    (Buying /\ Equity(pos) > 0) => 100 * (pos.units * price) <= ExposurePct * Equity(pos)

-----------------------------------------------------------------------------
(* Accounts.                                                               *)

\* Everything that is computed from a well typed state is a number.
LEMMA NumberFacts ==
    ASSUME TypeOK
    PROVE  /\ price \in Nat \ {0} /\ ExitUsd \div price \in Nat \ {0}
           /\ Today \in Int /\ Equity(pos) \in Int /\ MaxOrder \in Nat
           /\ pos.units \in Nat /\ book.units \in Nat
  <1>1. /\ price \in Nat \ {0} /\ ExitUsd \in Nat /\ ExitUsd >= price /\ MaxOrder \in Nat
    BY MarketAssumption DEF TypeOK, Named
  <1>2. ExitUsd \div price \in Nat \ {0}
    BY <1>1
  <1>3. Today \in Int
    BY TimeAssumption DEF Today, TypeOK
  <1>4. pos.units \in Nat /\ book.units \in Nat /\ Equity(pos) \in Int
    BY <1>1 DEF TypeOK, Account, Equity
  <1>. QED BY <1>1, <1>2, <1>3, <1>4

LEMMA SymbolFacts == Token \in Named /\ Default \in Named
  BY DEF Named

\* A buy and a sell keep an account an account, and move its lots and its cash.
LEMMA AccountFacts ==
    ASSUME NEW a \in Account, NEW usd \in Nat, NEW n \in Nat \ {0}
    PROVE  /\ Bought(a, usd, n) \in Account /\ Bought(a, usd, n).units = a.units + n
           /\ Bought(a, usd, n).cash = a.cash - usd
           /\ Sold(a, usd, n) \in Account /\ Sold(a, usd, n).cash = a.cash + usd
           /\ n <= a.units => Sold(a, usd, n).units = a.units - n
           /\ n >= a.units => Sold(a, usd, n).units = 0
  <1>. DEFINE m == Lesser(n, a.units)
  <1>1. /\ a.cash \in Int /\ a.units \in Nat /\ a.entry \in Int /\ a.high \in Int
        /\ a.losses \in Nat
    BY DEF Account
  <1>2. a.entry * a.units + usd \in Int /\ a.units + n \in Nat \ {0}
    BY <1>1
  <1>3. (a.entry * a.units + usd) \div (a.units + n) \in Int /\ usd \div n \in Int
    BY <1>2
  <1>4. a.cash - usd \in Int /\ a.cash + usd \in Int
    BY <1>1
  <1>5. /\ m \in Nat /\ a.units - m \in Nat
        /\ (n <= a.units => m = n) /\ (n >= a.units => m = a.units)
    BY <1>1 DEF Lesser
  <1>6. (IF a.units = 0 THEN usd \div n ELSE Greater(a.high, usd \div n)) \in Int
    BY <1>1, <1>3 DEF Greater
  <1>7. /\ Bought(a, usd, n) \in Account /\ Bought(a, usd, n).units = a.units + n
        /\ Bought(a, usd, n).cash = a.cash - usd
    BY <1>1, <1>2, <1>3, <1>4, <1>6 DEF Bought, Account
  <1>8. /\ Sold(a, usd, n) = [cash |-> a.cash + usd, units |-> a.units - m, entry |-> a.entry,
                              high |-> IF m = a.units THEN 0 ELSE a.high,
                              losses |-> IF m > 0 /\ usd < n * a.entry THEN a.losses + 1 ELSE 0]
    BY DEF Sold
  <1>. HIDE DEF m
  <1>9. /\ Sold(a, usd, n) \in Account /\ Sold(a, usd, n).units = a.units - m
        /\ Sold(a, usd, n).cash = a.cash + usd
    BY <1>1, <1>4, <1>5, <1>8 DEF Account
  <1>. QED BY <1>1, <1>5, <1>7, <1>9

\* A buy at the market price leaves the equity of the account unchanged.
LEMMA BuyKeepsEquity ==
    ASSUME TypeOK, NEW a \in Account, NEW n \in Nat \ {0}
    PROVE  Equity(Bought(a, n * price, n)) = Equity(a)
  <1>1. price \in Nat /\ a.cash \in Int /\ a.units \in Nat
    BY NumberFacts DEF Account
  <1>2. n * price \in Nat
    BY <1>1
  <1>3. Bought(a, n * price, n).cash = a.cash - n * price /\ Bought(a, n * price, n).units = a.units + n
    BY <1>2, AccountFacts
  <1>4. (a.units + n) * price = a.units * price + n * price
    BY <1>1
  <1>. QED BY <1>1, <1>2, <1>3, <1>4 DEF Equity

\* A bar moves nothing but the high water mark.
LEMMA WatchedFacts ==
    ASSUME TypeOK, NEW high \in Prices
    PROVE  /\ Watched(high) \in Account /\ Watched(high).units = pos.units
           /\ Watched(high).cash = pos.cash
  <1>1. pos \in Account /\ high \in Int /\ pos.high \in Int
    BY MarketAssumption DEF TypeOK, Account
  <1>2. (IF pos.units > 0 THEN Greater(pos.high, high) ELSE pos.high) \in Int
    BY <1>1 DEF Greater
  <1>. QED BY <1>1, <1>2 DEF Watched, Account

\* A budget that is spent stays a natural number.
LEMMA SpendTyped ==
    ASSUME NEW e \in Events, used \in [Events -> Nat], Spend(e)
    PROVE  used' \in [Events -> Nat]
  BY DEF Spend

\* An overlay trade marks the state as strayed, and as loose when it buys.
LEMMA OverlayFacts ==
    ASSUME TypeOK, OverlayTrade
    PROVE  /\ book' \in Account /\ loose' \in BOOLEAN /\ strayed' = TRUE
           /\ used' \in [Events -> Nat] /\ used'["restart"] = used["restart"]
           /\ (~loose' => ~loose /\ book'.units <= book.units)
  <1>1. /\ book \in Account /\ loose \in BOOLEAN /\ used \in [Events -> Nat]
        /\ "overlay" \in Events /\ "restart" \in Events /\ MaxOrder \in Nat
        /\ book.units \in Nat
    BY NumberFacts DEF TypeOK, Events
  <1>2. /\ used' \in [Events -> Nat] /\ used'["restart"] = used["restart"] /\ strayed' = TRUE
    BY <1>1, SpendTyped DEF OverlayTrade, Spend
  <1>3. CASE \E n \in 1..MaxOrder : \E k \in Got(n) :
                book' = Bought(book, n * price, k) /\ loose' = TRUE
    <2>0. PICK n \in 1..MaxOrder : \E k \in Got(n) :
              book' = Bought(book, n * price, k) /\ loose' = TRUE
      BY <1>3
    <2>1. PICK k \in Got(n) : book' = Bought(book, n * price, k) /\ loose' = TRUE
      BY <2>0
    <2>2. n * price \in Nat /\ k \in Nat \ {0}
      BY <1>1, NumberFacts DEF Got
    <2>3. book' \in Account
      BY <1>1, <2>1, <2>2, AccountFacts
    <2>. QED BY <1>2, <2>1, <2>3
  <1>4. CASE \E n \in 1..book.units : \E k \in Given(n) :
                book' = Sold(book, n * price, k) /\ UNCHANGED loose
    <2>0. PICK n \in 1..book.units : \E k \in Given(n) :
              book' = Sold(book, n * price, k) /\ UNCHANGED loose
      BY <1>4
    <2>1. PICK k \in Given(n) : book' = Sold(book, n * price, k) /\ UNCHANGED loose
      BY <2>0
    <2>2. n * price \in Nat /\ k \in Nat \ {0}
      BY <1>1, NumberFacts, MarketAssumption DEF Given
    <2>3. /\ book' \in Account
          /\ k <= book.units => book'.units = book.units - k
          /\ k >= book.units => book'.units = 0
      BY <1>1, <2>1, <2>2, AccountFacts
    <2>4. book'.units <= book.units
      BY <1>1, <2>2, <2>3
    <2>. QED BY <1>1, <1>2, <2>1, <2>3, <2>4
  <1>. QED BY <1>2, <1>3, <1>4 DEF OverlayTrade

\* What an emission leaves: an order under way, and a tracker that took it as filled.
LEMMA EmittedFacts ==
    ASSUME TypeOK, NEW acct \in Account, NEW side \in {"buy", "sell"}, NEW n \in Nat \ {0},
           NEW symbol \in Named, Emitted(acct, side, n, symbol)
    PROVE  /\ pc' = "deliver" /\ order' \in Orders /\ order' # None
           /\ order'.side = side /\ order'.lots = n
           /\ side = "buy"  => pos' = Bought(acct, n * price, n)
           /\ side = "sell" => pos' = Sold(acct, n * price, n)
           /\ pos' \in Account
  <1>1. pc' = "deliver" /\ order' = [side |-> side, lots |-> n, symbol |-> symbol]
    BY DEF Emitted
  <1>6. order' \in Orders
    BY <1>1 DEF Orders
  <1>2. order' \in Orders /\ order' # None
    BY <1>6, OrderAssumption
  <1>3. pos' = (IF side = "buy" THEN Bought(acct, n * price, n) ELSE Sold(acct, n * price, n))
    BY DEF Emitted
  <1>4. n * price \in Nat
    BY NumberFacts
  <1>5. pos' \in Account
    BY <1>3, <1>4, AccountFacts
  <1>. QED BY <1>1, <1>2, <1>3, <1>5

\* The tracker at the strategy's call, its high water mark apart.
Same(acct) == acct \in Account /\ acct.units = pos.units /\ acct.cash = pos.cash

\* What the strategy's call does: nothing, a buy that passed the cap, or a sell of
\* lots the tracker holds.
LEMMA CallFacts ==
    ASSUME TypeOK, StopExit \/ Call
    PROVE  /\ pc = "call" /\ UNCHANGED <<hour, price, wish, book, loose, strayed, used>>
           /\ inPosition' \in BOOLEAN /\ currentDay' \in Int /\ dayStart' \in Int
           /\ heldSymbol' \in Named
           /\ \E acct \in Account : Same(acct) /\
              \/ pc' = "activity" /\ order' = order /\ pos' = acct
              \/ \E n \in Nat \ {0}, symbol \in Named : Fits(n) /\ Emitted(acct, "buy", n, symbol)
              \/ \E n \in Nat \ {0}, symbol \in Named :
                    n <= pos.units /\ Emitted(acct, "sell", n, symbol)
  <1>. pos.units \in Nat /\ ExitUsd \div price \in Nat \ {0} /\ MaxOrder \in Nat /\ Today \in Int
       
    BY NumberFacts
  <1>. heldSymbol \in Named /\ Token \in Named /\ inPosition \in BOOLEAN /\ pos \in Account
    BY SymbolFacts DEF TypeOK
  <1>1. CASE StopExit
    <2>1. pos.units \in Nat \ {0} /\ pos.units <= pos.units
          /\ Emitted(pos, "sell", pos.units, heldSymbol)
      BY <1>1 DEF StopExit
    <2>2. /\ pc = "call" /\ UNCHANGED <<hour, price, wish, book, loose, strayed, used>>
          /\ inPosition' \in BOOLEAN /\ currentDay' \in Int /\ dayStart' \in Int
          /\ heldSymbol' \in Named
      BY <1>1 DEF StopExit, TypeOK, market, history
    <2>. QED BY <2>1, <2>2 DEF Same
  <1>2. CASE Call
    <2>1. pc = "call" /\ UNCHANGED <<hour, price, wish, book, loose, strayed, used>>
      BY <1>2 DEF Call, market, history
    <2>2. currentDay' \in Int
      BY <1>2 DEF Call
    <2>3. dayStart' \in Int
      <3>1. PICK open \in Prices :
                dayStart' = IF currentDay = Today THEN dayStart ELSE pos.cash + pos.units * open
        BY <1>2 DEF Call
      <3>2. open \in Nat /\ pos.cash \in Int /\ dayStart \in Int
        BY MarketAssumption DEF TypeOK, Account
      <3>. QED BY <3>1, <3>2
    <2>4. PICK high \in Prices :
              \/ Silent(Watched(high)) /\ UNCHANGED <<inPosition, heldSymbol>>
              \/ Enter(Watched(high)) \/ Exit(Watched(high)) \/ Hold(Watched(high))
      BY <1>2 DEF Call
    <2>. DEFINE acct == Watched(high)
    <2>5. acct \in Account /\ Same(acct)
      BY WatchedFacts DEF Same
    <2>. HIDE DEF acct
    <2>6. CASE Silent(acct) /\ UNCHANGED <<inPosition, heldSymbol>>
      BY <2>1, <2>2, <2>3, <2>5, <2>6 DEF Silent
    <2>7. CASE Enter(acct)
      <3>1. inPosition' \in BOOLEAN /\ heldSymbol' \in Named
        BY <2>7 DEF Enter
      <3>2. Silent(acct) \/ \E n \in Sizes : Fits(n) /\ Emitted(acct, "buy", n, Token)
        BY <2>7 DEF Enter
      <3>3. Sizes \subseteq Nat \ {0}
        BY DEF Sizes
      <3>. QED BY <2>1, <2>2, <2>3, <2>5, <3>1, <3>2, <3>3 DEF Silent
    <2>8. CASE Exit(acct)
      <3>1. inPosition' \in BOOLEAN /\ heldSymbol' \in Named
        BY <2>8 DEF Exit
      <3>2. CASE Silent(acct)
        BY <2>1, <2>2, <2>3, <2>5, <3>1, <3>2 DEF Silent
      <3>3. CASE pos.units > 0 /\ Emitted(acct, "sell", Lesser(ExitUsd \div price, pos.units), Token)
        <4>1. /\ Lesser(ExitUsd \div price, pos.units) \in Nat \ {0}
              /\ Lesser(ExitUsd \div price, pos.units) <= pos.units
          BY <3>3 DEF Lesser
        <4>. QED BY <2>1, <2>2, <2>3, <2>5, <3>1, <3>3, <4>1
      <3>. QED BY <2>8, <3>2, <3>3 DEF Exit
    <2>9. CASE Hold(acct)
      BY <2>1, <2>2, <2>3, <2>5, <2>9 DEF Hold, Silent
    <2>. QED BY <2>4, <2>6, <2>7, <2>8, <2>9 DEF acct
  <1>. QED BY <1>1, <1>2

\* What a delivery does: the ledger moves in the order's direction, a buy by no more
\* than the order.
LEMMA DeliverFacts ==
    ASSUME TypeOK, Deliver
    PROVE  /\ order # None /\ order \in Orders /\ order' = None /\ pc' = "activity"
           /\ UNCHANGED <<hour, price, wish, inPosition, pos, currentDay, dayStart, heldSymbol, used>>
           /\ book' \in Account /\ loose' \in BOOLEAN /\ strayed' \in BOOLEAN
           /\ (~loose' => ~loose) /\ (~strayed' => ~strayed /\ loose' = loose)
           /\ (Buying => book'.units <= book.units + order.lots)
           /\ (Selling => book'.units <= book.units)
           /\ (Selling /\ ~loose' => book'.units = 0 \/ book'.units + order.lots <= book.units)
           /\ (Buying /\ ~strayed' => book'.cash = book.cash - order.lots * price)
           /\ (Selling /\ ~strayed' => book'.cash = book.cash + order.lots * price)
  <1>1. /\ order # None /\ order \in Orders /\ order' = None /\ pc' = "activity"
        /\ UNCHANGED <<hour, price, wish, inPosition, pos, currentDay, dayStart, heldSymbol, used>>
    BY DEF Deliver, TypeOK, market, tracker
  <1>2. PICK m \in 0..order.lots :
           /\ strayed' = (strayed \/ m # order.lots)
           /\ \/ m = 0 /\ UNCHANGED book
              \/ m > 0 /\ order.side = "buy" /\ \E k \in Got(m) : book' = Bought(book, m * price, k)
              \/ m > 0 /\ order.side = "sell" /\ \E k \in Given(m) : book' = Sold(book, m * price, k)
           /\ loose' = (loose \/ (order.side = "sell" /\ m < order.lots /\ m < book.units))
    BY DEF Deliver
  <1>3. /\ order.lots \in Nat \ {0} /\ order.side \in {"buy", "sell"} /\ book \in Account
        /\ book.units \in Nat /\ book.cash \in Int /\ m \in Nat /\ m <= order.lots
        /\ loose \in BOOLEAN /\ strayed \in BOOLEAN /\ m * price \in Nat
    BY <1>1, NumberFacts DEF Orders, TypeOK, Account
  <1>4. /\ loose' \in BOOLEAN /\ strayed' \in BOOLEAN
        /\ (~loose' => ~loose) /\ (~strayed' => ~strayed /\ m = order.lots)
    BY <1>2, <1>3
  <1>9. ~strayed' => loose' = loose
    <2>1. ~strayed' => ~(m < order.lots)
      BY <1>3, <1>4
    <2>2. loose' = (loose \/ (order.side = "sell" /\ m < order.lots /\ m < book.units))
      BY <1>2
    <2>. QED BY <1>3, <2>1, <2>2, Zenon
  <1>8. ~loose' => order.side # "sell" \/ m = order.lots \/ m >= book.units
    <2>. SUFFICES ASSUME ~loose', order.side = "sell" PROVE m = order.lots \/ m >= book.units
      OBVIOUS
    <2>1. loose' = (loose \/ (order.side = "sell" /\ m < order.lots /\ m < book.units))
      BY <1>2
    <2>2. ~(m < order.lots /\ m < book.units)
      BY <2>1, Zenon
    <2>. QED BY <1>3, <2>2
  <1>5. CASE m = 0 /\ UNCHANGED book
    <2>1. order.side = "sell" /\ ~loose' => book.units = 0
      BY <1>3, <1>5, <1>8
    <2>2. strayed'
      BY <1>3, <1>4, <1>5
    <2>. QED BY <1>1, <1>3, <1>4, <1>5, <1>9, <2>1, <2>2 DEF Buying, Selling
  <1>6. CASE m > 0 /\ order.side = "buy" /\ \E k \in Got(m) : book' = Bought(book, m * price, k)
    <2>1. PICK k \in Got(m) : book' = Bought(book, m * price, k)
      BY <1>6
    <2>2. k \in Nat \ {0} /\ k <= m
      BY <1>3 DEF Got
    <2>3. book' \in Account /\ book'.units = book.units + k /\ book'.cash = book.cash - m * price
      BY <1>3, <2>1, <2>2, AccountFacts
    <2>4. book'.units <= book.units + order.lots
      BY <1>3, <2>2, <2>3
    <2>5. ~strayed' => book'.cash = book.cash - order.lots * price
      BY <1>4, <2>3
    <2>. QED BY <1>1, <1>3, <1>4, <1>6, <1>9, <2>3, <2>4, <2>5 DEF Buying, Selling
  <1>7. CASE m > 0 /\ order.side = "sell" /\ \E k \in Given(m) : book' = Sold(book, m * price, k)
    <2>1. PICK k \in Given(m) : book' = Sold(book, m * price, k)
      BY <1>7
    <2>2. k \in Nat \ {0} /\ m <= k
      BY <1>3, <1>7, MarketAssumption DEF Given
    <2>3. /\ book' \in Account /\ book'.cash = book.cash + m * price
          /\ (k <= book.units => book'.units = book.units - k)
          /\ (k >= book.units => book'.units = 0)
      BY <1>3, <2>1, <2>2, AccountFacts
    <2>4. book'.units <= book.units
      BY <1>3, <2>2, <2>3
    <2>5. ~loose' => book'.units = 0 \/ book'.units + order.lots <= book.units
      <3>1. ~loose' => m = order.lots \/ m >= book.units
        BY <1>7, <1>8
      <3>. QED BY <1>3, <2>2, <2>3, <3>1
    <2>6. ~strayed' => book'.cash = book.cash + order.lots * price
      BY <1>4, <2>3
    <2>. QED BY <1>1, <1>3, <1>4, <1>7, <1>9, <2>3, <2>4, <2>5, <2>6 DEF Buying, Selling
  <1>. QED BY <1>2, <1>5, <1>6, <1>7

-----------------------------------------------------------------------------
(* Typing.                                                                 *)

LEMMA InitTyped == Init => TypeOK
  <1>. SUFFICES ASSUME Init PROVE TypeOK
    OBVIOUS
  <1>1. Fresh \in Account /\ Capital \in Int /\ Default \in Named
    BY MarketAssumption, SymbolFacts DEF Fresh, Account
  <1>2. hour \in 0..MaxHour /\ used \in [Events -> Nat]
    BY TimeAssumption DEF Init
  <1>3. /\ pc = "idle" /\ wish = "none" /\ order = None /\ price \in Prices
        /\ pos \in Account /\ book \in Account /\ currentDay \in Int /\ dayStart \in Int
        /\ heldSymbol \in Named
    BY <1>1 DEF Init
  <1>4. inPosition \in BOOLEAN /\ loose \in BOOLEAN /\ strayed \in BOOLEAN
    BY DEF Init
  <1>. QED BY <1>2, <1>3, <1>4 DEF TypeOK

\* Every step preserves the types.
LEMMA StepTyped == TypeOK /\ [Next]_vars => TypeOK'
<1>. SUFFICES ASSUME TypeOK, [Next]_vars PROVE TypeOK'
  OBVIOUS
<1>1. CASE NextBar
  <2>1. hour' \in 0..MaxHour /\ price' \in Prices /\ order = None
    BY <1>1, TimeAssumption DEF NextBar, TypeOK
  <2>. QED BY <1>1, <2>1 DEF NextBar, TypeOK, tracker, history
<1>2. CASE Overlay
  <2>1. /\ pc' \in {"idle", "call"} /\ order' = None
        /\ UNCHANGED <<hour, price, wish, inPosition, pos, currentDay, dayStart, heldSymbol, order>>
    BY <1>2 DEF Overlay, TypeOK, market, tracker
  <2>2. /\ book' \in Account /\ loose' \in BOOLEAN /\ strayed' \in BOOLEAN
        /\ used' \in [Events -> Nat]
    BY <1>2, OverlayFacts DEF Overlay, TypeOK, history
  <2>. QED BY <2>1, <2>2 DEF TypeOK
<1>3. CASE StopExit \/ Call
  <2>1. /\ pc = "call" /\ UNCHANGED <<hour, price, wish, book, loose, strayed, used>>
        /\ inPosition' \in BOOLEAN /\ currentDay' \in Int /\ dayStart' \in Int
        /\ heldSymbol' \in Named
    BY <1>3, CallFacts
  <2>2. /\ pos' \in Account /\ order' \in Orders \union {None}
        /\ pc' \in {"activity", "deliver"} /\ (order' # None <=> pc' = "deliver")
    <3>0. PICK acct \in Account : Same(acct) /\
              \/ pc' = "activity" /\ order' = order /\ pos' = acct
              \/ \E n \in Nat \ {0}, symbol \in Named : Fits(n) /\ Emitted(acct, "buy", n, symbol)
              \/ \E n \in Nat \ {0}, symbol \in Named :
                    n <= pos.units /\ Emitted(acct, "sell", n, symbol)
      BY <1>3, CallFacts
    <3>1. CASE pc' = "activity" /\ order' = order /\ pos' = acct
      BY <2>1, <3>1 DEF TypeOK
    <3>2. CASE \E n \in Nat \ {0}, symbol \in Named : Fits(n) /\ Emitted(acct, "buy", n, symbol)
      BY <3>2, EmittedFacts
    <3>3. CASE \E n \in Nat \ {0}, symbol \in Named :
                  n <= pos.units /\ Emitted(acct, "sell", n, symbol)
      BY <3>3, EmittedFacts
    <3>. QED BY <3>0, <3>1, <3>2, <3>3
  <2>. QED BY <2>1, <2>2 DEF TypeOK
<1>4. CASE Deliver
  BY <1>4, DeliverFacts DEF TypeOK
<1>5. CASE Activity
  <2>1. /\ pc' = "idle" /\ order' = None
        /\ UNCHANGED <<hour, price, wish, inPosition, pos, currentDay, dayStart, heldSymbol, order>>
    BY <1>5 DEF Activity, TypeOK, market, tracker
  <2>2. /\ book' \in Account /\ loose' \in BOOLEAN /\ strayed' \in BOOLEAN
        /\ used' \in [Events -> Nat]
    BY <1>5, OverlayFacts DEF Activity, TypeOK, history
  <2>. QED BY <2>1, <2>2 DEF TypeOK
<1>6. CASE Restart
  <2>1. used' \in [Events -> Nat]
    BY <1>6, SpendTyped DEF Restart, TypeOK, Events
  <2>2. pos' \in Account /\ dayStart' \in Int /\ currentDay' \in Int
    BY <1>6, MarketAssumption DEF Restart, Restored, TypeOK
  <2>3. inPosition' \in BOOLEAN /\ loose' \in BOOLEAN /\ strayed' \in BOOLEAN
    BY <1>6 DEF Restart
  <2>4. /\ pc' = "idle" /\ wish' = "none" /\ order' = None /\ UNCHANGED <<hour, price, book>>
        /\ heldSymbol' \in Named
    BY <1>6, SymbolFacts DEF Restart, market
  <2>. QED BY <2>1, <2>2, <2>3, <2>4 DEF TypeOK
<1>7. CASE UNCHANGED vars
  BY <1>7 DEF TypeOK, vars, market, tracker, history
<1>. QED BY <1>1, <1>2, <1>3, <1>4, <1>5, <1>6, <1>7 DEF Next, Rest

\* Every state of the risk engine is well typed, for every market and configuration:
\* neither book goes below zero lots, and an order is under way exactly between its
\* emission (core/risk/engine.py) and what the loop makes of it.
THEOREM Typing == Spec => []TypeOK
  <1>. QED BY InitTyped, StepTyped, PTL DEF Spec

-----------------------------------------------------------------------------
(* The stop covers the position.                                           *)

LEMMA InitArmed == Init => ArmedInv
  BY MarketAssumption DEF Init, ArmedInv, Buying, Selling, Fresh

LEMMA StepArmed == TypeOK /\ ArmedInv /\ [Next]_vars => ArmedInv'
<1>. SUFFICES ASSUME TypeOK, ArmedInv, [Next]_vars, ~loose' PROVE ArmedInv'
  BY DEF ArmedInv
<1>. pos.units \in Nat /\ book.units \in Nat
  BY NumberFacts
<1>1. CASE NextBar
  BY <1>1 DEF NextBar, tracker, history, ArmedInv, Buying, Selling
<1>2. CASE Overlay \/ Activity
  <2>1. order = None /\ order' = None /\ pos' = pos
    BY <1>2 DEF Overlay, Activity, tracker, TypeOK
  <2>2. ~loose /\ book'.units <= book.units
    <3>1. CASE OverlayTrade
      BY <3>1, OverlayFacts
    <3>2. CASE UNCHANGED <<book, history>>
      <4>1. book' = book /\ loose' = loose
        BY <3>2 DEF history
      <4>2. ~loose
        BY <4>1, Zenon
      <4>. QED BY <4>1, <4>2
    <3>. QED BY <1>2, <3>1, <3>2 DEF Overlay, Activity
  <2>3. book' \in Account
    BY <1>2, OverlayFacts DEF Overlay, Activity, TypeOK
  <2>. QED BY <2>1, <2>2, <2>3 DEF ArmedInv, Buying, Selling, Account
<1>3. CASE StopExit \/ Call
  <2>1. ~loose /\ book' = book /\ order = None
    BY <1>3, CallFacts DEF TypeOK
  <2>2. book.units <= pos.units /\ pos \in Account
    BY <2>1 DEF ArmedInv, TypeOK
  <2>. PICK acct \in Account : Same(acct) /\
            \/ pc' = "activity" /\ order' = order /\ pos' = acct
            \/ \E n \in Nat \ {0}, symbol \in Named : Fits(n) /\ Emitted(acct, "buy", n, symbol)
            \/ \E n \in Nat \ {0}, symbol \in Named :
                  n <= pos.units /\ Emitted(acct, "sell", n, symbol)
    BY <1>3, CallFacts
  <2>0. acct.units = pos.units /\ acct \in Account
    BY DEF Same
  <2>3. CASE order' = order /\ pos' = acct
    BY <2>0, <2>1, <2>2, <2>3 DEF ArmedInv, Buying, Selling
  <2>4. ASSUME NEW n \in Nat \ {0}, NEW symbol \in Named, Emitted(acct, "buy", n, symbol)
        PROVE ArmedInv'
    <3>0. n * price \in Nat
      BY NumberFacts
    <3>2. /\ order'.side = "buy" /\ order'.lots = n /\ order' # None
          /\ pos' = Bought(acct, n * price, n)
      BY <2>0, <2>4, EmittedFacts
    <3>3. Bought(acct, n * price, n).units = pos.units + n
      <4>1. \A usd \in Nat : Bought(acct, usd, n).units = acct.units + n
        BY AccountFacts
      <4>. QED BY <2>0, <3>0, <4>1
    <3>1. order'.side = "buy" /\ order'.lots = n /\ order' # None /\ pos'.units = pos.units + n
      BY <3>2, <3>3
    <3>. QED BY <2>1, <2>2, <3>1 DEF ArmedInv, Buying, Selling
  <2>5. ASSUME NEW n \in Nat \ {0}, NEW symbol \in Named, n <= pos.units,
               Emitted(acct, "sell", n, symbol)
        PROVE ArmedInv'
    <3>0. n * price \in Nat
      BY NumberFacts
    <3>2. /\ order'.side = "sell" /\ order'.lots = n /\ order' # None
          /\ pos' = Sold(acct, n * price, n)
      BY <2>0, <2>5, EmittedFacts
    <3>3. Sold(acct, n * price, n).units = pos.units - n
      <4>1. \A usd \in Nat : n <= acct.units => Sold(acct, usd, n).units = acct.units - n
        BY AccountFacts
      <4>. QED BY <2>0, <2>5, <3>0, <4>1
    <3>1. order'.side = "sell" /\ order'.lots = n /\ order' # None /\ pos'.units = pos.units - n
      BY <3>2, <3>3
    <3>. QED BY <2>1, <2>2, <3>1 DEF ArmedInv, Buying, Selling
  <2>. QED BY <2>3, <2>4, <2>5
<1>4. CASE Deliver
  <2>1. /\ order # None /\ order.lots \in Nat \ {0} /\ order.side \in {"buy", "sell"}
        /\ order' = None /\ pos' = pos /\ ~loose /\ book'.units \in Nat
    BY <1>4, DeliverFacts DEF Orders, Account
  <2>2. CASE order.side = "buy"
    <3>1. book'.units <= book.units + order.lots /\ book.units + order.lots <= pos.units
      BY <1>4, <2>1, <2>2, DeliverFacts DEF ArmedInv, Buying
    <3>. QED BY <2>1, <3>1 DEF ArmedInv, Buying, Selling
  <2>3. CASE order.side = "sell"
    <3>1. /\ book'.units = 0 \/ book'.units + order.lots <= book.units
          /\ book.units <= pos.units + order.lots
      BY <1>4, <2>1, <2>3, DeliverFacts DEF ArmedInv, Selling
    <3>. QED BY <2>1, <3>1 DEF ArmedInv, Buying, Selling
  <2>. QED BY <2>1, <2>2, <2>3
<1>5. CASE Restart
  BY <1>5 DEF Restart, Restored, ArmedInv, Buying, Selling
<1>6. CASE UNCHANGED vars
  BY <1>6 DEF vars, tracker, history, ArmedInv, Buying, Selling
<1>. QED BY <1>1, <1>2, <1>3, <1>4, <1>5, <1>6 DEF Next, Rest

\* The tracker's stop covers what the agent holds: however orders are dropped, shrunk
\* or filled in part, the lots of the ledger are among those of the tracker unless a
\* sell was cut short or an overlay bought (core/risk/engine.py stops on the tracker).
THEOREM StopCovers == Spec => []StopIsArmed
  <1>1. ArmedInv => StopIsArmed
    BY DEF ArmedInv, StopIsArmed
  <1>. QED BY <1>1, Typing, InitArmed, StepArmed, PTL DEF Spec

-----------------------------------------------------------------------------
(* The exposure cap holds for what is held.                                *)

LEMMA InitCap == Init => CapInv
  BY DEF Init, CapInv, Buying

LEMMA StepCap == TypeOK /\ CapInv /\ [Next]_vars => CapInv'
<1>. SUFFICES ASSUME TypeOK, CapInv, [Next]_vars, Buying', Equity(pos)' > 0
              PROVE  (100 * (pos.units * price) <= ExposurePct * Equity(pos))'
  BY DEF CapInv
<1>1. CASE StopExit \/ Call
  <2>1. pc = "call" /\ order = None /\ price' = price
    BY <1>1, CallFacts DEF TypeOK
  <2>2. PICK acct \in Account, n \in Nat \ {0}, symbol \in Named :
            Same(acct) /\ Fits(n) /\ Emitted(acct, "buy", n, symbol)
    <3>1. ASSUME NEW acct \in Account, NEW n \in Nat \ {0}, NEW symbol \in Named,
                 Emitted(acct, "sell", n, symbol)
          PROVE FALSE
      BY <3>1, EmittedFacts DEF Buying
    <3>. QED BY <1>1, <2>1, <3>1, CallFacts DEF Buying
  <2>3. n * price \in Nat /\ acct.units = pos.units /\ acct.cash = pos.cash
    BY <2>2, NumberFacts DEF Same
  <2>4. pos' = Bought(acct, n * price, n) /\ pos'.units = pos.units + n
    BY <2>2, <2>3, EmittedFacts, AccountFacts
  <2>5. Equity(pos)' = Equity(pos)
    BY <2>1, <2>3, <2>4, BuyKeepsEquity DEF Equity
  <2>6. 100 * ((pos.units + n) * price) <= ExposurePct * Equity(pos)
    BY <2>2, <2>5, NumberFacts DEF Fits
  <2>. QED BY <2>1, <2>4, <2>5, <2>6
<1>2. CASE NextBar \/ Overlay \/ Deliver \/ Activity \/ Restart
  BY <1>2 DEF NextBar, Overlay, Deliver, Activity, Restart, TypeOK, Buying
<1>3. CASE UNCHANGED vars
  <2>1. order' = order /\ pos' = pos /\ price' = price
    BY <1>3 DEF vars, tracker, market
  <2>. QED BY <2>1 DEF CapInv, Buying, Equity
<1>. QED BY <1>1, <1>2, <1>3 DEF Next, Rest

\* Only a delivery raises the ledger's lots while an order is under way.
LEMMA RisesByDelivery ==
    ASSUME TypeOK, [Next]_vars, order # None, book'.units > book.units
    PROVE  Deliver
  <1>1. pc = "deliver"
    BY DEF TypeOK
  <1>2. ~(NextBar \/ Overlay \/ StopExit \/ Call \/ Activity \/ Rest)
    BY <1>1 DEF NextBar, Overlay, StopExit, Call, Activity, Rest
  <1>3. ~Restart /\ ~UNCHANGED vars
    BY NumberFacts DEF Restart, vars
  <1>. QED BY <1>2, <1>3 DEF Next

\* check_max_exposure (core/risk/guardrails.py) bounds what is really held: a fill
\* never leaves more than the capped share of the tracked equity exposed.
THEOREM CapHolds == Spec => ExposureCapped
<1>. DEFINE IInv == TypeOK /\ ArmedInv /\ CapInv
            A    == (order # None /\ ~loose /\ Equity(pos) > 0 /\ book'.units > book.units)
                    => 100 * (book'.units * price) <= ExposurePct * Equity(pos)
<1>1. Init => IInv
  BY InitTyped, InitArmed, InitCap
<1>2. IInv /\ [Next]_vars => IInv'
  BY StepTyped, StepArmed, StepCap
<1>3. IInv /\ [Next]_vars => [A]_vars
  <2>. SUFFICES ASSUME IInv, [Next]_vars, order # None, ~loose, Equity(pos) > 0,
                       book'.units > book.units
                PROVE  100 * (book'.units * price) <= ExposurePct * Equity(pos)
    OBVIOUS
  <2>1. Deliver
    BY RisesByDelivery
  <2>2. Buying /\ order.lots \in Nat /\ book.units \in Nat /\ book'.units \in Nat
    <3>1. order.side \in {"buy", "sell"} /\ order.lots \in Nat /\ book' \in Account
      BY <2>1, DeliverFacts DEF Orders
    <3>2. book.units \in Nat /\ book'.units \in Nat
      BY <3>1, NumberFacts DEF Account
    <3>3. ~Selling
      BY <2>1, <3>2, DeliverFacts
    <3>. QED BY <3>1, <3>2, <3>3 DEF Buying, Selling
  <2>3. book'.units <= book.units + order.lots /\ book.units + order.lots <= pos.units
    BY <2>1, <2>2, DeliverFacts DEF ArmedInv
  <2>4. 100 * (pos.units * price) <= ExposurePct * Equity(pos)
    BY <2>2 DEF CapInv
  <2>5. book'.units * price <= pos.units * price
    <3>1. pos.units \in Nat /\ price \in Nat /\ pos.units - book'.units \in Nat
      BY <2>2, <2>3, NumberFacts
    <3>2. (pos.units - book'.units) * price >= 0
      BY <3>1
    <3>. QED BY <2>2, <3>1, <3>2
  <2>6. /\ book'.units * price \in Int /\ pos.units * price \in Int
        /\ ExposurePct * Equity(pos) \in Int
    BY <2>2, NumberFacts, ConfigAssumption
  <2>. QED BY <2>4, <2>5, <2>6
<1>. QED BY <1>1, <1>2, <1>3, PTL DEF Spec, ExposureCapped

-----------------------------------------------------------------------------
(* A restart adds nothing.                                                 *)

LEMMA InitSync == Init => SyncInv
  BY DEF Init, SyncInv, Buying, Selling

LEMMA StepSync == TypeOK /\ SyncInv /\ [Next]_vars => SyncInv'
<1>. SUFFICES ASSUME TypeOK, SyncInv, [Next]_vars, ~strayed' PROVE SyncInv'
  BY DEF SyncInv
<1>1. CASE NextBar
  BY <1>1 DEF NextBar, tracker, history, SyncInv, Buying, Selling, TypeOK
<1>2. CASE Overlay \/ Activity
  <2>1. order = None /\ order' = None /\ pos' = pos
    BY <1>2 DEF Overlay, Activity, tracker, TypeOK
  <2>2. ~OverlayTrade
    BY OverlayFacts
  <2>3. UNCHANGED <<book, history>>
    BY <1>2, <2>2 DEF Overlay, Activity
  <2>4. book' = book /\ ~strayed /\ loose' = loose
    BY <2>3, Zenon DEF history
  <2>. QED BY <2>1, <2>4 DEF SyncInv, Buying, Selling
<1>3. CASE StopExit \/ Call
  <2>1. ~strayed /\ book' = book /\ order = None /\ price' = price /\ loose' = loose
    BY <1>3, CallFacts DEF TypeOK
  <2>2. pos.cash = book.cash /\ ~loose /\ book.cash \in Int
    BY <2>1 DEF SyncInv, TypeOK, Account
  <2>. PICK acct \in Account : Same(acct) /\
            \/ pc' = "activity" /\ order' = order /\ pos' = acct
            \/ \E n \in Nat \ {0}, symbol \in Named : Fits(n) /\ Emitted(acct, "buy", n, symbol)
            \/ \E n \in Nat \ {0}, symbol \in Named :
                  n <= pos.units /\ Emitted(acct, "sell", n, symbol)
    BY <1>3, CallFacts
  <2>0. acct.cash = pos.cash /\ acct \in Account
    BY DEF Same
  <2>3. CASE order' = order /\ pos' = acct
    BY <2>0, <2>1, <2>2, <2>3 DEF SyncInv, Buying, Selling
  <2>4. ASSUME NEW n \in Nat \ {0}, NEW symbol \in Named, Emitted(acct, "buy", n, symbol)
        PROVE SyncInv'
    <3>0. n * price \in Nat
      BY NumberFacts
    <3>1. /\ order'.side = "buy" /\ order'.lots = n /\ order' # None
          /\ pos'.cash = book.cash - n * price
      <4>1. Bought(acct, n * price, n).cash = book.cash - n * price
        <5>1. \A usd \in Nat : Bought(acct, usd, n).cash = acct.cash - usd
          BY AccountFacts
        <5>. QED BY <2>0, <2>2, <3>0, <5>1
      <4>2. /\ order'.side = "buy" /\ order'.lots = n /\ order' # None
            /\ pos' = Bought(acct, n * price, n)
        BY <2>0, <2>4, EmittedFacts
      <4>. QED BY <4>1, <4>2
    <3>. QED BY <2>1, <2>2, <3>1 DEF SyncInv, Buying, Selling
  <2>5. ASSUME NEW n \in Nat \ {0}, NEW symbol \in Named, Emitted(acct, "sell", n, symbol)
        PROVE SyncInv'
    <3>0. n * price \in Nat
      BY NumberFacts
    <3>1. /\ order'.side = "sell" /\ order'.lots = n /\ order' # None
          /\ pos'.cash = book.cash + n * price
      <4>1. Sold(acct, n * price, n).cash = book.cash + n * price
        <5>1. \A usd \in Nat : Sold(acct, usd, n).cash = acct.cash + usd
          BY AccountFacts
        <5>. QED BY <2>0, <2>2, <3>0, <5>1
      <4>2. /\ order'.side = "sell" /\ order'.lots = n /\ order' # None
            /\ pos' = Sold(acct, n * price, n)
        BY <2>0, <2>5, EmittedFacts
      <4>. QED BY <4>1, <4>2
    <3>. QED BY <2>1, <2>2, <3>1 DEF SyncInv, Buying, Selling
  <2>. QED BY <2>3, <2>4, <2>5
<1>4. CASE Deliver
  <2>1. /\ order # None /\ order.side \in {"buy", "sell"} /\ order' = None /\ pos' = pos
        /\ ~strayed /\ loose' = loose
    BY <1>4, DeliverFacts DEF Orders
  <2>2. book'.cash = pos.cash /\ ~loose
    BY <1>4, <2>1, DeliverFacts DEF SyncInv, Buying, Selling
  <2>. QED BY <2>1, <2>2 DEF SyncInv, Buying, Selling
<1>5. CASE Restart
  BY <1>5 DEF Restart, Restored, SyncInv, Buying, Selling
<1>6. CASE UNCHANGED vars
  BY <1>6 DEF vars, tracker, history, market, SyncInv, Buying, Selling
<1>. QED BY <1>1, <1>2, <1>3, <1>4, <1>5, <1>6 DEF Next, Rest

\* Only a restart spends from the restarts.
LEMMA OnlyRestartRestarts ==
    ASSUME TypeOK, [Next]_vars, used'["restart"] # used["restart"]
    PROVE  Restart
  <1>1. ~(Overlay \/ Activity)
    BY OverlayFacts DEF Overlay, Activity
  <1>2. ~(StopExit \/ Call) /\ ~Deliver
    BY CallFacts, DeliverFacts
  <1>3. ~NextBar /\ ~Rest /\ ~UNCHANGED vars
    BY DEF NextBar, Rest, vars
  <1>. QED BY <1>1, <1>2, <1>3 DEF Next

\* The replay of the trade rows (restore, core/risk/engine.py) gives back the cash of
\* before and no more lots, where every order was filled as emitted, whatever slipped.
THEOREM RestartHarmless == Spec => RestartAddsNothing
<1>. DEFINE IInv == TypeOK /\ ArmedInv /\ SyncInv
            A    == (used'["restart"] # used["restart"] /\ order = None /\ ~strayed)
                    => pos'.cash = pos.cash /\ pos'.units <= pos.units
<1>1. Init => IInv
  BY InitTyped, InitArmed, InitSync
<1>2. IInv /\ [Next]_vars => IInv'
  BY StepTyped, StepArmed, StepSync
<1>3. IInv /\ [Next]_vars => [A]_vars
  <2>. SUFFICES ASSUME IInv, [Next]_vars, used'["restart"] # used["restart"], order = None,
                       ~strayed
                PROVE  pos'.cash = pos.cash /\ pos'.units <= pos.units
    OBVIOUS
  <2>1. Restart
    BY OnlyRestartRestarts
  <2>. QED BY <2>1 DEF Restart, Restored, SyncInv, ArmedInv
<1>. QED BY <1>1, <1>2, <1>3, PTL DEF Spec, RestartAddsNothing

-----------------------------------------------------------------------------
(* Advice: what the gate that follows the risk engine does to its order.   *)

Levels == 0..NEUTRAL
Tickings == [pc : {"idle", "run", "again"}, todo : SUBSET Symbols, taken : SUBSET Symbols, conf : Levels]
Cycles == [pc : {"idle", "gate", "send", "book"}, side : {"buy", "sell"}, sized : Nat, mult : Nat,
           old : BOOLEAN, heard : BOOLEAN]
Filed == [no : Nat, conf : Levels]

AdviceType ==
    /\ clock \in Nat \ {0} /\ bar \in 0..clock /\ caution \in 0..clock
    /\ row \in [conf : Levels, ts : 0..clock] /\ calib \in Seq(Filed)
    /\ lastRun \in [Symbols -> Nat] /\ tick \in [Ticks -> Tickings]
    /\ cycle \in Cycles /\ stale \in BOOLEAN /\ entry \in [open : BOOLEAN, no : Nat, conf : Levels]
    /\ entries \in Seq(SUBSET Levels) /\ upsets \in Nat
    /\ told \in BOOLEAN /\ missed \in Nat
    /\ cycle.pc = "book" => Len(entries) > 0

(* The arithmetic of the gate.                                             *)

LEMMA Larger ==
  ASSUME NEW a \in Int, NEW b \in Int
  PROVE  Max({a, b}) = IF a >= b THEN a ELSE b
  BY DEF Max

LEMMA Smaller ==
  ASSUME NEW a \in Int, NEW b \in Int
  PROVE  Min({a, b}) = IF a <= b THEN a ELSE b
  BY DEF Min

LEMMA ConfidenceType == ASSUME NEW r PROVE Confidence(r) \in Levels
  BY DEF Confidence, Levels, NEUTRAL

LEMMA TTLType == TTL \in Nat /\ TTL > 0 /\ NEUTRAL * TTL = 100 * TTL /\ FLOOR * TTL = 50 * TTL
<1>1. TTL \in Nat /\ TTL > 0
  BY AgeAssumption
<1>. QED BY <1>1 DEF NEUTRAL, FLOOR

\* A forecast decays towards the neutral one.
LEMMA DecayedType ==
  ASSUME NEW conf \in Levels, NEW age \in Nat
  PROVE  /\ Decayed(conf, age) \in Int
         /\ Decayed(conf, age) < NEUTRAL * TTL => conf < NEUTRAL /\ age < TTL
<1>1. CASE age = 0 \/ age >= TTL
  BY <1>1, TTLType DEF Decayed, Levels, NEUTRAL
<1>2. CASE age > 0 /\ age < TTL
  <2>1. conf * TTL \in Int /\ (NEUTRAL - conf) * age \in Int
    BY TTLType DEF Levels, NEUTRAL
  <2>2. Decayed(conf, age) = conf * TTL + (NEUTRAL - conf) * age
    BY <1>2, TTLType DEF Decayed
  <2>3. CASE conf = NEUTRAL
    BY <1>2, <2>2, <2>3, TTLType DEF NEUTRAL
  <2>4. CASE conf # NEUTRAL
    BY <1>2, <2>1, <2>2, <2>4 DEF Levels, NEUTRAL
  <2>. QED BY <2>3, <2>4
<1>. QED BY <1>1, <1>2, TTLType

\* A forecast shrinks an order to half at most, and only while it is not too old.
LEMMA MultiplierType ==
  ASSUME AdviceType, NEW read \in BOOLEAN
  PROVE  /\ Multiplier(read) \in FLOOR * TTL .. NEUTRAL * TTL
         /\ Multiplier(read) \in Nat
         /\ Multiplier(read) < NEUTRAL * TTL => row.ts > 0 /\ row.conf < NEUTRAL /\ bar - row.ts < TTL
<1> USE TTLType
<1>1. CASE ~read \/ row.ts = 0
  BY <1>1 DEF Multiplier
<1>2. CASE read /\ row.ts # 0
  <2> DEFINE age == Max({0, bar - row.ts})
             d == Decayed(row.conf, age)
  <2>1. row.conf \in Levels /\ row.ts \in Nat /\ bar \in Nat
    BY DEF AdviceType
  <2>2. age \in Nat /\ age >= bar - row.ts
    BY <2>1, Larger
  <2>3. Multiplier(read) = Clamped(d)
    BY <1>2 DEF Multiplier
  <2>4. d \in Int /\ (d < NEUTRAL * TTL => row.conf < NEUTRAL /\ age < TTL)
    <3> HIDE DEF age
    <3>. QED BY <2>1, <2>2, DecayedType
  <2> HIDE DEF d, age
  <2>5. Clamped(d) = IF d <= FLOOR * TTL THEN FLOOR * TTL
                     ELSE IF d <= NEUTRAL * TTL THEN d ELSE NEUTRAL * TTL
    BY <2>4, Larger, Smaller DEF Clamped
  <2>6. d < NEUTRAL * TTL => row.ts > 0 /\ row.conf < NEUTRAL /\ bar - row.ts < TTL
    BY <1>2, <2>1, <2>2, <2>4
  <2> DEFINE low == FLOOR * TTL
             top == NEUTRAL * TTL
  <2>7. low \in Nat /\ top \in Nat /\ low < top
    OBVIOUS
  <2> HIDE DEF low, top
  <2>8. Multiplier(read) \in low..top /\ (Multiplier(read) < top => d < top)
    BY <2>3, <2>4, <2>5, <2>7 DEF low, top
  <2>. QED BY <2>6, <2>7, <2>8 DEF low, top
<1>. QED BY <1>1, <1>2

\* What the gate makes of an order is no more than the order.
LEMMA SizedType ==
  ASSUME AdviceType, NEW feedback, NEW memory, NEW read \in BOOLEAN
  PROVE  Sized(feedback, memory, read) \in 0..Whole
<1>1. Multiplier(read) \in Nat /\ Multiplier(read) <= 100 * TTL
  BY MultiplierType, TTLType
<1>2. Half(feedback) \in {1, 2} /\ Half(memory) \in {1, 2}
  BY DEF Half
<1>3. Whole = 4 * (100 * TTL)
  BY TTLType DEF Whole, NEUTRAL
<1>. QED BY <1>1, <1>2, <1>3, TTLType DEF Sized

-----------------------------------------------------------------------------
(* Type correctness.                                                       *)

LEMMA IdleTyped ==
    /\ NoTick \in Tickings /\ NoCycle \in Cycles /\ NEUTRAL \in Levels
    /\ NoEntry \in [open : BOOLEAN, no : Nat, conf : Levels]
BY DEF NoTick, Tickings, NoCycle, Cycles, NoEntry, Levels, NEUTRAL

LEMMA AdviceTyped == AdviceInit => AdviceType
<1>. SUFFICES ASSUME AdviceInit PROVE AdviceType
  OBVIOUS
<1>1. WINDOW \in Nat \ {0}
  BY AgeAssumption
<1>2. row \in [conf : Levels, ts : 0..clock] /\ entry \in [open : BOOLEAN, no : Nat, conf : Levels]
  BY <1>1 DEF AdviceInit, Levels, NEUTRAL, NoEntry
<1>3. tick \in [Ticks -> Tickings] /\ cycle \in Cycles /\ lastRun \in [Symbols -> Nat]
  BY IdleTyped DEF AdviceInit
<1>4. calib \in Seq(Filed) /\ entries \in Seq(SUBSET Levels)
  BY DEF AdviceInit
<1>5. clock \in Nat \ {0} /\ bar \in 0..clock /\ caution \in 0..clock
  BY <1>1 DEF AdviceInit
<1>6. upsets \in Nat /\ told \in BOOLEAN /\ missed \in Nat
  BY DEF AdviceInit
<1>7. stale \in BOOLEAN /\ cycle.pc # "book"
  BY DEF AdviceInit, NoCycle
<1>. QED BY <1>2, <1>3, <1>4, <1>5, <1>6, <1>7 DEF AdviceType

\* A forecast that may be read adds to the last entry, and only to it.
LEMMA MayReadTyped ==
  ASSUME AdviceType, NEW conf \in Levels
  PROVE  /\ MayRead(conf) \in Seq(SUBSET Levels) /\ Len(MayRead(conf)) = Len(entries)
         /\ \A i \in 1..Len(entries) : entries[i] \subseteq MayRead(conf)[i]
         /\ cycle.pc = "book" => conf \in MayRead(conf)[Len(entries)]
<1>1. /\ entries \in Seq(SUBSET Levels) /\ Len(entries) \in Nat
      /\ cycle.pc = "book" => Len(entries) > 0
  BY DEF AdviceType
<1>2. CASE cycle.pc = "book"
  <2>1. Len(entries) \in 1..Len(entries)
    BY <1>1, <1>2
  <2> DEFINE more == entries[Len(entries)] \cup {conf}
             longer == [entries EXCEPT ![Len(entries)] = more]
  <2>2. more \in SUBSET Levels
    BY <1>1, <2>1
  <2>3. MayRead(conf) = longer
    BY <1>2 DEF MayRead
  <2>4. entries[Len(entries)] \subseteq more /\ conf \in more
    OBVIOUS
  <2> HIDE DEF more
  <2>5. longer \in Seq(SUBSET Levels) /\ Len(longer) = Len(entries)
    BY <1>1, <2>1, <2>2
  <2>6. longer[Len(entries)] = more /\ \A i \in 1..Len(entries) : i # Len(entries) => longer[i] = entries[i]
    BY <1>1, <2>1
  <2> HIDE DEF longer
  <2>. QED BY <2>3, <2>4, <2>5, <2>6
<1>3. CASE cycle.pc # "book"
  BY <1>1, <1>3 DEF MayRead
<1>. QED BY <1>2, <1>3

LEMMA WriteTyped ==
  ASSUME AdviceType, NEW s, NEW conf \in Levels, NEW ok \in BOOLEAN, Write(s, conf, ok)
  PROVE  /\ row' \in [conf : Levels, ts : 0..clock] /\ caution' \in 0..clock
         /\ entries' \in Seq(SUBSET Levels) /\ Len(entries') = Len(entries)
         /\ \A i \in 1..Len(entries) : entries[i] \subseteq entries'[i]
<1>1. CASE ok /\ s = Primary
  <2>1. /\ row' = [conf |-> conf, ts |-> clock] /\ caution' = (IF conf < NEUTRAL THEN clock ELSE caution)
        /\ entries' = MayRead(conf)
    BY <1>1 DEF Write
  <2>2. clock \in Nat /\ caution \in 0..clock
    BY DEF AdviceType
  <2>. QED BY <2>1, <2>2, MayReadTyped
<1>2. CASE ~(ok /\ s = Primary)
  BY <1>2 DEF Write, AdviceType
<1>. QED BY <1>1, <1>2

LEMMA WorksTyped ==
  ASSUME AdviceType
  PROVE  /\ \A ok \in BOOLEAN : Works(ok) => upsets' \in Nat
         /\ \A n \in Nat : Failures(n) => upsets' \in Nat
         /\ Upset => upsets' \in Nat
BY DEF Works, Upset, Failures, AdviceType

LEMMA AdviceStep ==
  ASSUME AdviceType, [AdviceNext]_adviceVars
  PROVE  AdviceType'
<1> USE DEF server, loop, tables, notices
<1>1. ASSUME NEW t \in Ticks, NEW list \in BOOLEAN, TickStart(t, list) PROVE AdviceType'
  <2>1. _filter_dedupe \subseteq Symbols
    BY DEF _filter_dedupe, Symbols
  <2> DEFINE taken == IF list THEN _filter_dedupe ELSE {Primary}
             mine  == [NoTick EXCEPT !.pc = "run", !.todo = taken, !.taken = taken]
  <2>3. mine \in Tickings
    <3>1. taken \in SUBSET Symbols
      BY <2>1 DEF Symbols
    <3> HIDE DEF taken
    <3>. QED BY <3>1, IdleTyped DEF Tickings
  <2>4. tick' = [tick EXCEPT ![t] = mine]
    BY <1>1 DEF TickStart
  <2> HIDE DEF mine
  <2>2. tick' \in [Ticks -> Tickings]
    BY <2>3, <2>4 DEF AdviceType
  <2>. QED BY <1>1, <2>2 DEF TickStart, AdviceType
<1>2. ASSUME NEW t \in Ticks, NEW s \in Symbols, NEW r, NEW ok \in BOOLEAN, Research(t, s, r, ok)
      PROVE  AdviceType'
  <2>1. tick' \in [Ticks -> Tickings]
    <3> DEFINE c == IF Alone(t) /\ r # "unknown" THEN Confidence(r) ELSE NEUTRAL
               p == IF Alone(t) THEN "again" ELSE "run"
    <3>1. c \in Levels /\ p \in {"again", "run"}
      BY ConfidenceType DEF Levels, NEUTRAL
    <3>2. tick' = [tick EXCEPT ![t].todo = @ \ {s}, ![t].pc = p, ![t].conf = c]
      BY <1>2 DEF Research
    <3> HIDE DEF c, p
    <3>3. tick[t] \in Tickings
      BY DEF AdviceType
    <3> DEFINE mine == [tick[t] EXCEPT !.todo = @ \ {s}, !.pc = p, !.conf = c]
    <3>4. mine \in Tickings
      BY <3>1, <3>3 DEF Tickings
    <3>5. tick' = [tick EXCEPT ![t] = mine]
      BY <3>2 DEF AdviceType
    <3> HIDE DEF mine
    <3>. QED BY <3>4, <3>5 DEF AdviceType
  <2>2. /\ row' \in [conf : Levels, ts : 0..clock] /\ caution' \in 0..clock /\ upsets' \in Nat
        /\ entries' \in Seq(SUBSET Levels) /\ Len(entries') = Len(entries)
    BY <1>2, ConfidenceType, WriteTyped, WorksTyped DEF Research
  <2>. QED BY <1>2, <2>1, <2>2 DEF Research, AdviceType
<1>3. ASSUME NEW t \in Ticks, NEW ok \in BOOLEAN, WriteAgain(t, ok) PROVE AdviceType'
  <2>1. tick' \in [Ticks -> Tickings] /\ tick[t].conf \in Levels
    <3>1. tick \in [Ticks -> Tickings] /\ tick[t] \in Tickings
      BY <1>3 DEF AdviceType
    <3>2. [tick[t] EXCEPT !.pc = "run", !.conf = NEUTRAL] \in Tickings
      BY <3>1, IdleTyped DEF Tickings
    <3>3. tick' = [tick EXCEPT ![t] = [tick[t] EXCEPT !.pc = "run", !.conf = NEUTRAL]]
      BY <1>3, <3>1 DEF WriteAgain, Tickings
    <3>. QED BY <3>1, <3>2, <3>3 DEF Tickings
  <2>2. /\ row' \in [conf : Levels, ts : 0..clock] /\ caution' \in 0..clock /\ upsets' \in Nat
        /\ entries' \in Seq(SUBSET Levels) /\ Len(entries') = Len(entries)
    BY <1>3, <2>1, WriteTyped, WorksTyped DEF WriteAgain
  <2>. QED BY <1>3, <2>1, <2>2 DEF WriteAgain, AdviceType
<1>4. ASSUME NEW t \in Ticks, NEW s \in Symbols, ResearchFails(t, s) PROVE AdviceType'
  <2>1. tick[t] \in Tickings
    BY DEF AdviceType
  <2>2. [tick[t] EXCEPT !.todo = @ \ {s}] \in Tickings
    BY <2>1 DEF Tickings
  <2>3. tick' \in [Ticks -> Tickings]
    <3> DEFINE mine == IF Alone(t) THEN NoTick ELSE [tick[t] EXCEPT !.todo = @ \ {s}]
    <3>1. mine \in Tickings
      BY <2>2, IdleTyped
    <3>2. tick' = [tick EXCEPT ![t] = mine]
      BY <1>4, <2>1 DEF ResearchFails, AdviceType
    <3> HIDE DEF mine
    <3>. QED BY <3>1, <3>2 DEF AdviceType
  <2>4. upsets' \in Nat
    BY <1>4, WorksTyped DEF ResearchFails
  <2>. QED BY <1>4, <2>3, <2>4 DEF ResearchFails, AdviceType
<1>5. ASSUME NEW t \in Ticks, TickEnd(t) PROVE AdviceType'
  BY <1>5, IdleTyped DEF TickEnd, AdviceType
<1>6. CASE CheckStaleness
  <2>0. missed \in Nat /\ told \in BOOLEAN
    BY DEF AdviceType
  <2>1. ASSUME NEW read \in BOOLEAN, Unmarked(read) PROVE AdviceType'
    <3>1. upsets' \in Nat
      BY <2>1, WorksTyped DEF Unmarked
    <3>2. cycle' \in Cycles /\ cycle'.pc = "gate"
      BY <2>1 DEF Unmarked, NoCycle, Cycles
    <3>. QED BY <2>1, <3>1, <3>2 DEF Unmarked, AdviceType
  <2>2. ASSUME NEW event \in BOOLEAN, NEW message \in BOOLEAN, Marked(event, message)
        PROVE  AdviceType'
    <3>1. upsets' \in Nat /\ told' \in BOOLEAN /\ missed' \in Nat
      <4>1. CASE stale
        BY <2>0, <2>2, <4>1 DEF Marked, AdviceType
      <4>2. CASE ~stale
        <5> DEFINE lost == (IF event THEN 0 ELSE 1) + (IF message THEN 0 ELSE 1)
        <5>1. lost \in Nat /\ Failures(lost) /\ missed' = missed + lost /\ told' = (event \/ message)
          BY <2>2, <4>2 DEF Marked
        <5> HIDE DEF lost
        <5>. QED BY <2>0, <5>1, WorksTyped
      <4>. QED BY <4>1, <4>2
    <3>2. cycle' \in Cycles /\ cycle'.pc = "gate"
      BY <2>2 DEF Marked, NoCycle, Cycles
    <3>3. UNCHANGED <<clock, bar, tables, server, entry, entries, caution>> /\ stale' = TRUE
      BY <2>2 DEF Marked
    <3>. QED BY <3>1, <3>2, <3>3 DEF AdviceType
  <2>. QED BY <1>6, <2>1, <2>2 DEF CheckStaleness
<1>7. ASSUME NEW side \in {"buy", "sell"}, NEW net, NEW memory, NEW heard \in BOOLEAN,
             NEW read \in BOOLEAN, Gate(side, net, memory, heard, read)
      PROVE  AdviceType'
  <2>1. upsets' \in Nat
    BY <1>7, WorksTyped DEF Gate
  <2>2. Multiplier(read) \in Nat /\ Sized(Feedback(side, net, heard), memory, read) \in Nat
    BY MultiplierType, SizedType, TTLType DEF Whole, NEUTRAL
  <2>3. cycle' \in Cycles /\ cycle'.pc # "book"
    BY <1>7, <2>2 DEF Gate, AdviceType, Cycles, NoCycle
  <2>. QED BY <1>7, <2>1, <2>3 DEF Gate, AdviceType
<1>8. CASE OpenEntry \/ \E ok \in BOOLEAN : Snapshot(ok) \/ Fill(ok)
  <2>0. /\ entry \in [open : BOOLEAN, no : Nat, conf : Levels] /\ Len(entries) \in Nat
        /\ entries \in Seq(SUBSET Levels) /\ calib \in Seq(Filed) /\ cycle \in Cycles
    BY DEF AdviceType
  <2>1. \A read \in BOOLEAN : Raw(read) \in Levels
    BY DEF Raw, AdviceType, Levels, NEUTRAL
  <2>2. CASE OpenEntry
    <3>1. entry' \in [open : BOOLEAN, no : Nat, conf : Levels]
      <4>1. Len(entries) + 1 \in Nat
        BY <2>0
      <4> DEFINE n == Len(entries) + 1
      <4>2. entry' = [entry EXCEPT !.open = TRUE, !.no = n]
        BY <2>2 DEF OpenEntry
      <4> HIDE DEF n
      <4>. QED BY <2>0, <4>1, <4>2 DEF n
    <3>2. entries' \in Seq(SUBSET Levels) /\ Len(entries') > 0
      <4>1. {Raw(TRUE)} \in SUBSET Levels
        BY <2>1
      <4> DEFINE held == {Raw(TRUE)}
      <4>2. entries' = Append(entries, held) /\ held \in SUBSET Levels
        BY <2>2, <4>1 DEF OpenEntry
      <4> HIDE DEF held
      <4>. QED BY <2>0, <4>2
    <3>3. cycle' \in Cycles
      BY <2>0, <2>2, IdleTyped DEF OpenEntry, Cycles, NoCycle
    <3>. QED BY <2>2, <3>1, <3>2, <3>3 DEF OpenEntry, AdviceType
  <2>3. ASSUME NEW ok \in BOOLEAN, Snapshot(ok) PROVE AdviceType'
    <3>1. entry' \in [open : BOOLEAN, no : Nat, conf : Levels]
      BY <2>0, <2>1, <2>3 DEF Snapshot
    <3>2. entries' \in Seq(SUBSET Levels)
      <4>1. NEUTRAL \in Levels
        BY DEF Levels, NEUTRAL
      <4>. QED BY <2>0, <2>3, <4>1, MayReadTyped DEF Snapshot
    <3>3. cycle' \in Cycles /\ cycle'.pc # "book" /\ upsets' \in Nat
      BY <2>3, IdleTyped, WorksTyped DEF Snapshot, NoCycle
    <3>. QED BY <2>3, <3>1, <3>2, <3>3 DEF Snapshot, AdviceType
  <2>4. ASSUME NEW ok \in BOOLEAN, Fill(ok) PROVE AdviceType'
    <3>1. entry' \in [open : BOOLEAN, no : Nat, conf : Levels]
      BY <2>0, <2>4, IdleTyped DEF Fill, Settled
    <3>2. calib' \in Seq(Filed)
      <4>1. [no |-> entry.no, conf |-> entry.conf] \in Filed
        BY <2>0 DEF Filed
      <4>2. Append(calib, [no |-> entry.no, conf |-> entry.conf]) \in Seq(Filed)
        BY <2>0, <4>1
      <4>3. \/ calib' = calib
            \/ calib' = Append(calib, [no |-> entry.no, conf |-> entry.conf])
        BY <2>4 DEF Fill
      <4>. QED BY <2>0, <4>2, <4>3
    <3>3. cycle' \in Cycles /\ cycle'.pc # "book" /\ upsets' \in Nat
      BY <2>4, IdleTyped, WorksTyped DEF Fill, NoCycle
    <3>. QED BY <2>4, <3>1, <3>2, <3>3 DEF Fill, AdviceType
  <2>. QED BY <1>8, <2>2, <2>3, <2>4
<1>9. CASE Unfilled
  BY <1>9 DEF Unfilled, AdviceType, Cycles, NoCycle
<1>10. CASE Advance \/ NewBar
  <2>1. CASE Advance
    <3>1. /\ clock' = clock + 1
          /\ UNCHANGED <<bar, tables, server, loop, entries, caution, notices, upsets>>
      BY <2>1 DEF Advance
    <3>2. /\ clock' \in Nat \ {0} /\ bar \in 0..clock' /\ caution \in 0..clock'
          /\ row \in [conf : Levels, ts : 0..clock']
      BY <3>1 DEF AdviceType
    <3>. QED BY <3>1, <3>2 DEF AdviceType
  <2>2. CASE NewBar
    <3>1. bar' \in 0..clock
      BY <2>2 DEF NewBar, AdviceType
    <3>. QED BY <2>2, <3>1 DEF NewBar, AdviceType
  <2>. QED BY <1>10, <2>1, <2>2
<1>11. CASE Reboot
  <2>1. entry' \in [open : BOOLEAN, no : Nat, conf : Levels]
    BY <1>11 DEF Reboot, Levels, NEUTRAL, NoEntry
  <2>2. /\ tick' \in [Ticks -> Tickings] /\ cycle' \in Cycles /\ lastRun' \in [Symbols -> Nat]
        /\ cycle'.pc # "book"
    BY <1>11, IdleTyped DEF Reboot, NoCycle
  <2>3. UNCHANGED <<clock, bar, row, calib, entries, caution, missed>> /\ upsets' \in Nat
    BY <1>11, WorksTyped DEF Reboot
  <2>4. stale' \in BOOLEAN /\ told' \in BOOLEAN
    BY <1>11 DEF Reboot
  <2>. QED BY <2>1, <2>2, <2>3, <2>4 DEF AdviceType
<1>12. CASE UNCHANGED adviceVars
  BY <1>12 DEF adviceVars, AdviceType
<1>. QED BY <1>1, <1>2, <1>3, <1>4, <1>5, <1>6, <1>7, <1>8, <1>9, <1>10, <1>11, <1>12 DEF AdviceNext

\* Every row, tick, cycle and entry is of its type; no bar is later than the clock, and no
\* forecast carries a time still to come.
THEOREM AdviceIsTyped == AdviceSpec => []AdviceType
<1>1. AdviceInit => AdviceType
  BY AdviceTyped
<1>2. AdviceType /\ [AdviceNext]_adviceVars => AdviceType'
  BY AdviceStep
<1>. QED BY <1>1, <1>2, PTL DEF AdviceSpec

-----------------------------------------------------------------------------
(* What a step does to the forecast.                                       *)

\* A forecast of the table is as old as it says: it only ever becomes younger, and the
\* history knows of the last one that asked for caution.
RowInv == row.ts > 0 /\ row.conf < NEUTRAL => row.ts <= caution

LEMMA TableSteps ==
  ASSUME AdviceType, RowInv, [AdviceNext]_adviceVars
  PROVE  /\ RowInv'
         /\ clock <= clock' /\ caution <= caution'
         /\ row' = row \/ row'.ts = clock
<1> USE DEF RowInv, server, loop, tables
<1>0. /\ clock \in Nat /\ clock > 0 /\ caution \in Nat /\ caution <= clock
      /\ row.ts \in Nat /\ row.ts <= clock
  BY DEF AdviceType
<1>1. ASSUME NEW s, NEW conf \in Levels, NEW ok \in BOOLEAN, Write(s, conf, ok), clock' = clock
      PROVE  /\ RowInv' /\ caution <= caution' /\ (row' = row \/ row'.ts = clock)
  BY <1>0, <1>1 DEF Write, Levels
<1>2. ASSUME NEW t \in Ticks, NEW s \in Symbols, NEW r, NEW ok \in BOOLEAN, Research(t, s, r, ok)
      PROVE  Write(s, Confidence(r), ok) /\ clock' = clock
  BY <1>2 DEF Research
<1>3. ASSUME NEW t \in Ticks, NEW ok \in BOOLEAN, WriteAgain(t, ok)
      PROVE  Write(Primary, tick[t].conf, ok) /\ clock' = clock /\ tick[t].conf \in Levels
  BY <1>3 DEF WriteAgain, AdviceType, Tickings
<1>4. CASE row' = row /\ caution' = caution /\ clock' \in {clock, clock + 1}
  BY <1>0, <1>4
<1>5. CASE \/ \E t \in Ticks, list \in BOOLEAN : TickStart(t, list)
           \/ \E t \in Ticks, s \in Symbols : ResearchFails(t, s)
           \/ \E t \in Ticks : TickEnd(t)
           \/ CheckStaleness
           \/ \E side \in {"buy", "sell"}, net \in 0 .. 2, memory \in {"allow", "halve", "block"},
                 heard, read \in BOOLEAN : Gate(side, net, memory, heard, read)
           \/ OpenEntry \/ \E ok \in BOOLEAN : Snapshot(ok) \/ Fill(ok)
           \/ Unfilled \/ Advance \/ NewBar \/ Reboot \/ UNCHANGED adviceVars
  BY <1>4, <1>5 DEF TickStart, ResearchFails, TickEnd, CheckStaleness, Unmarked, Marked, Gate, OpenEntry,
                    Snapshot, Fill, Unfilled, Advance, NewBar, Reboot, adviceVars
<1>6. CASE \E t \in Ticks, s \in Symbols, r \in Regimes \cup {"unknown"}, ok \in BOOLEAN :
              Research(t, s, r, ok)
  BY <1>0, <1>1, <1>2, <1>6, ConfidenceType
<1>7. CASE \E t \in Ticks, ok \in BOOLEAN : WriteAgain(t, ok)
  BY <1>0, <1>1, <1>3, <1>7
<1>. QED BY <1>5, <1>6, <1>7 DEF AdviceNext

\* The steps of the server and of the clock do not touch the cycle; a forecast they write may
\* only be added to what an entry could read.
LEMMA CycleSteps ==
  ASSUME AdviceType, [AdviceNext]_adviceVars
  PROVE  \/ /\ UNCHANGED <<cycle, stale, entry, calib, notices>>
            /\ Len(entries') = Len(entries)
            /\ \A i \in 1..Len(entries) : entries[i] \subseteq entries'[i]
            /\ bar' = bar \/ cycle.pc = "idle"
         \/ /\ UNCHANGED <<clock, bar, row, caution>>
            /\ \/ CheckStaleness
               \/ \E side \in {"buy", "sell"}, net \in 0 .. 2, memory \in {"allow", "halve", "block"},
                     heard, read \in BOOLEAN : Gate(side, net, memory, heard, read)
               \/ OpenEntry \/ \E ok \in BOOLEAN : Snapshot(ok) \/ Fill(ok)
               \/ Unfilled \/ Reboot
<1> USE DEF server, loop, tables, notices
<1>1. CASE \/ \E t \in Ticks, list \in BOOLEAN : TickStart(t, list)
           \/ \E t \in Ticks, s \in Symbols : ResearchFails(t, s)
           \/ \E t \in Ticks : TickEnd(t)
           \/ Advance \/ NewBar \/ UNCHANGED adviceVars
  <2>1. ASSUME NEW t \in Ticks, NEW s, NEW list,
               TickStart(t, list) \/ ResearchFails(t, s) \/ TickEnd(t)
        PROVE  UNCHANGED <<cycle, stale, entry, entries, calib, bar, notices>>
    BY <2>1 DEF TickStart, ResearchFails, TickEnd
  <2>2. CASE Advance \/ NewBar \/ UNCHANGED adviceVars
    BY <2>2 DEF Advance, NewBar, adviceVars
  <2>. QED BY <1>1, <2>1, <2>2
<1>2. ASSUME NEW t \in Ticks, NEW s \in Symbols, NEW r, NEW ok \in BOOLEAN,
             Research(t, s, r, ok) \/ WriteAgain(t, ok)
      PROVE  /\ UNCHANGED <<cycle, stale, entry, calib, bar, notices>>
             /\ Len(entries') = Len(entries)
             /\ \A i \in 1..Len(entries) : entries[i] \subseteq entries'[i]
  <2>1. UNCHANGED <<cycle, stale, entry, calib, bar, notices>>
    BY <1>2 DEF Research, WriteAgain
  <2>2. CASE Research(t, s, r, ok)
    BY <2>1, <2>2, ConfidenceType, WriteTyped DEF Research
  <2>3. CASE WriteAgain(t, ok)
    <3>1. tick[t].conf \in Levels
      BY DEF AdviceType, Tickings
    <3>. QED BY <2>1, <2>3, <3>1, WriteTyped DEF WriteAgain
  <2>. QED BY <1>2, <2>2, <2>3
<1>3. CASE \/ CheckStaleness
           \/ \E side \in {"buy", "sell"}, net \in 0 .. 2, memory \in {"allow", "halve", "block"},
                 heard, read \in BOOLEAN : Gate(side, net, memory, heard, read)
           \/ OpenEntry \/ \E ok \in BOOLEAN : Snapshot(ok) \/ Fill(ok)
           \/ Unfilled \/ Reboot
  <2>1. UNCHANGED <<clock, bar, row, caution>>
    BY <1>3 DEF CheckStaleness, Unmarked, Marked, Gate, OpenEntry, Snapshot, Fill, Unfilled, Reboot
  <2>. QED BY <1>3, <2>1
<1>4. CASE \E t \in Ticks, s \in Symbols, r \in Regimes \cup {"unknown"}, ok \in BOOLEAN :
              Research(t, s, r, ok)
  BY <1>2, <1>4
<1>5. CASE \E t \in Ticks, ok \in BOOLEAN : WriteAgain(t, ok)
  BY <1>2, <1>5 DEF Symbols
<1>. QED BY <1>1, <1>3, <1>4, <1>5 DEF AdviceNext

-----------------------------------------------------------------------------
(* Advice expires.                                                         *)

\* Caution asked for later is still younger.
LEMMA Later ==
  ASSUME NEW b \in Int, NEW c \in Nat, NEW d \in Nat, NEW n \in Nat, c > 0, b - c < n, c <= d
  PROVE  d > 0 /\ b - d < n
OBVIOUS

\* What was sized with caution was so by a forecast of the table at that time.
SizeInv == RowInv /\ AdviceExpires

LEMMA SizeStep ==
  ASSUME AdviceType, AdviceType', SizeInv, [AdviceNext]_adviceVars
  PROVE  SizeInv'
<1>1. RowInv' /\ clock <= clock' /\ caution <= caution' /\ (row' = row \/ row'.ts = clock)
  BY TableSteps DEF SizeInv
<1>2. bar \in Int /\ caution \in Nat /\ caution' \in Nat /\ TTL \in Nat
  BY TTLType DEF AdviceType
<1>. SUFFICES ASSUME cycle'.pc = "send" PROVE AdviceExpires'
  BY <1>1 DEF SizeInv, AdviceExpires
<1>3. CASE UNCHANGED cycle /\ (bar' = bar \/ cycle.pc = "idle")
  <2>1. cycle.pc = "send" /\ bar' = bar /\ cycle' = cycle
    BY <1>3
  <2>2. ASSUME cycle.mult < NEUTRAL * TTL PROVE caution' > 0 /\ bar' - caution' < TTL
    <3>1. caution > 0 /\ bar - caution < TTL
      BY <2>1, <2>2 DEF SizeInv, AdviceExpires
    <3>2. caution <= caution' /\ bar' = bar
      BY <1>1, <2>1
    <3>. QED BY <1>2, <3>1, <3>2, Later
  <2>. QED BY <2>1, <2>2 DEF SizeInv, AdviceExpires
<1>4. ASSUME NEW side, NEW net, NEW memory, NEW heard \in BOOLEAN, NEW read \in BOOLEAN,
             Gate(side, net, memory, heard, read), UNCHANGED <<clock, bar, row, caution>>
      PROVE  AdviceExpires'
  <2>1. /\ cycle'.mult = Multiplier(read)
        /\ cycle'.sized = Sized(Feedback(side, net, heard), memory, read)
    BY <1>4 DEF Gate, NoCycle, AdviceType, Cycles
  <2>2. cycle'.sized <= Whole /\ cycle'.mult >= FLOOR * TTL
    BY <2>1, MultiplierType, SizedType, TTLType DEF Whole, NEUTRAL
  <2>3. ASSUME Multiplier(read) < NEUTRAL * TTL PROVE caution > 0 /\ bar - caution < TTL
    <3>1. row.ts > 0 /\ row.conf < NEUTRAL /\ bar - row.ts < TTL
      BY <2>3, MultiplierType
    <3>3. row.ts \in Nat
      BY DEF AdviceType
    <3>2. row.ts <= caution
      BY <3>1, <3>3 DEF SizeInv, RowInv
    <3>. QED BY <1>2, <3>1, <3>2, <3>3
  <2>. QED BY <1>4, <2>1, <2>2, <2>3 DEF AdviceExpires
<1>5. CASE CheckStaleness \/ Unfilled \/ Reboot \/ OpenEntry \/ \E ok \in BOOLEAN : Snapshot(ok) \/ Fill(ok)
  <2>1. cycle'.pc # "send"
    <3>1. ASSUME CheckStaleness PROVE cycle'.pc = "gate"
      BY <3>1 DEF CheckStaleness, Unmarked, Marked, NoCycle
    <3>2. ASSUME OpenEntry PROVE cycle'.pc = "book"
      BY <3>2 DEF OpenEntry, AdviceType, Cycles
    <3>3. NoCycle.pc = "idle"
      BY DEF NoCycle
    <3>. QED BY <1>5, <3>1, <3>2, <3>3 DEF Unfilled, Reboot, Snapshot, Fill
  <2>. QED BY <2>1
<1>. QED BY <1>3, <1>4, <1>5, CycleSteps

\* Advice only makes an order smaller, a forecast at most by half, and only if one that asked
\* for caution reached the table less than TTL before the bar, for any number of threads,
\* symbols and failures (forecast.py:19, loop.py:754).
THEOREM AdviceRunsOut == AdviceSpec => []AdviceExpires
<1>1. AdviceInit => SizeInv
  BY DEF AdviceInit, SizeInv, RowInv, AdviceExpires, NoCycle
<1>2. AdviceType /\ AdviceType' /\ SizeInv /\ [AdviceNext]_adviceVars => SizeInv'
  BY SizeStep
<1>3. SizeInv => AdviceExpires
  BY DEF SizeInv
<1>. QED BY <1>1, <1>2, <1>3, AdviceIsTyped, PTL DEF AdviceSpec

-----------------------------------------------------------------------------
(* A stale forecast is announced.                                          *)

\* What the cycle's first read saw cannot have become older; a mark stands for a notice that
\* arrived or for two that were lost.
ToldInv ==
    /\ stale => told \/ missed >= 2
    /\ cycle.pc = "gate" /\ cycle.heard /\ Age > STALE => stale
    /\ StaleIsAnnounced

\* What is too old now was so before the step, as long as the bar is the same.
LEMMA AgeFalls ==
  ASSUME AdviceType, row' = row \/ row'.ts = clock, bar' = bar, Age' > STALE
  PROVE  Age > STALE
<1>1. /\ bar \in Int /\ clock \in Nat /\ bar <= clock /\ clock > 0 /\ STALE \in Nat /\ row.ts \in Nat
  BY AgeAssumption DEF AdviceType
<1>2. CASE row' = row
  BY <1>2 DEF Age
<1>3. CASE row'.ts = clock
  BY <1>1, <1>3 DEF Age
<1>. QED BY <1>2, <1>3

LEMMA ToldStep ==
  ASSUME AdviceType, RowInv, ToldInv, [AdviceNext]_adviceVars
  PROVE  ToldInv'
<1>1. row' = row \/ row'.ts = clock
  BY TableSteps
<1> USE DEF ToldInv, StaleIsAnnounced
<1>2. CASE UNCHANGED <<cycle, stale, notices>> /\ (bar' = bar \/ cycle.pc = "idle")
  <2>0. told' = told /\ missed' = missed /\ cycle' = cycle /\ stale' = stale
    BY <1>2 DEF notices
  <2>1. CASE cycle.pc = "idle"
    BY <2>0, <2>1
  <2>2. CASE cycle.pc # "idle"
    BY <1>1, <1>2, <2>0, <2>2, AgeFalls
  <2>. QED BY <2>1, <2>2
<1>3. ASSUME NEW side, NEW net, NEW memory, NEW heard \in BOOLEAN, NEW read \in BOOLEAN,
             Gate(side, net, memory, heard, read)
      PROVE  ToldInv'
  <2>0. stale' = stale /\ told' = told /\ missed' = missed
    BY <1>3 DEF Gate, notices
  <2>1. CASE cycle'.pc = "send"
    <3>1. cycle.pc = "gate" /\ cycle'.heard = cycle.heard /\ cycle'.old = (read /\ Age > STALE)
      BY <1>3, <2>1 DEF Gate, NoCycle, AdviceType, Cycles
    <3>. QED BY <2>0, <2>1, <3>1
  <2>2. CASE cycle'.pc # "send"
    <3>1. cycle' = NoCycle
      BY <1>3, <2>2 DEF Gate, AdviceType, Cycles
    <3>. QED BY <2>0, <3>1 DEF NoCycle
  <2>. QED BY <2>1, <2>2
<1>4. ASSUME NEW read \in BOOLEAN, Unmarked(read), UNCHANGED <<clock, bar, row, caution>>
      PROVE  ToldInv'
  <2>1. cycle'.pc = "gate" /\ cycle'.heard = read /\ ~stale' /\ ~(read /\ Age > STALE) /\ Age' = Age
    BY <1>4 DEF Unmarked, NoCycle, Stale, Age
  <2>. QED BY <2>1
<1>5. ASSUME NEW event \in BOOLEAN, NEW message \in BOOLEAN, Marked(event, message)
      PROVE  ToldInv'
  <2>1. cycle'.pc = "gate" /\ stale'
    BY <1>5 DEF Marked, NoCycle
  <2>2. told' \/ missed' >= 2
    <3>1. CASE stale
      BY <1>5, <3>1 DEF Marked
    <3>2. CASE ~stale
      <4>1. missed \in Nat
        BY DEF AdviceType
      <4>. QED BY <1>5, <3>2, <4>1 DEF Marked
    <3>. QED BY <3>1, <3>2
  <2>. QED BY <2>1, <2>2
<1>6. CASE Unfilled \/ OpenEntry \/ \E ok \in BOOLEAN : Snapshot(ok) \/ Fill(ok)
  <2>1. cycle'.pc \in {"idle", "book"}
    <3>1. ASSUME OpenEntry PROVE cycle'.pc = "book"
      BY <3>1 DEF OpenEntry, AdviceType, Cycles
    <3>. QED BY <1>6, <3>1 DEF Unfilled, Snapshot, Fill, NoCycle
  <2>2. stale' = stale /\ told' = told /\ missed' = missed
    BY <1>6 DEF Unfilled, OpenEntry, Snapshot, Fill, notices, loop
  <2>. QED BY <2>1, <2>2
<1>7. CASE Reboot
  BY <1>7 DEF Reboot, NoCycle
<1>. QED BY <1>2, <1>3, <1>4, <1>5, <1>6, <1>7, CycleSteps DEF CheckStaleness

\* No order is sized by a forecast older than STALE unless its cycle's first read failed, or it
\* is marked stale and a notice of that arrived or two were lost: one lost call never leaves
\* the operator untold, and between the two reads the ticks can only write a younger one
\* (loop.py:708-752, 754).
THEOREM StalenessIsTold == AdviceSpec => []StaleIsAnnounced
<1>1. AdviceInit => RowInv /\ ToldInv
  BY DEF AdviceInit, ToldInv, StaleIsAnnounced, NoCycle, RowInv
<1>2. AdviceType /\ RowInv /\ ToldInv /\ [AdviceNext]_adviceVars => RowInv' /\ ToldInv'
  BY ToldStep, TableSteps
<1>3. ToldInv => StaleIsAnnounced
  BY DEF ToldInv
<1>. QED BY <1>1, <1>2, <1>3, AdviceIsTyped, PTL DEF AdviceSpec

-----------------------------------------------------------------------------
(* A calibration row is about one entry.                                   *)

\* The open entry is not yet filed; once its forecast has been read, it is one it could read.
\* While it is being read the entry is the last, and what the table holds may be the answer.
FiledInv ==
    /\ CalibrationPairsEntry
    /\ entry.open => /\ entry.no \in DOMAIN entries
                     /\ cycle.pc # "book" => entry.conf \in entries[entry.no]
                     /\ \A i \in DOMAIN calib : calib[i].no < entry.no
    /\ cycle.pc = "book" => /\ entry.open /\ entry.no = Len(entries)
                            /\ Raw(TRUE) \in entries[Len(entries)]

\* What stays true of the filed rows when the entries only grow.
LEMMA PairsGrow ==
  ASSUME AdviceType, AdviceType', CalibrationPairsEntry, calib' = calib, Len(entries') >= Len(entries),
         \A i \in 1..Len(entries) : entries[i] \subseteq entries'[i]
  PROVE  CalibrationPairsEntry'
<1>1. /\ DOMAIN entries = 1..Len(entries) /\ DOMAIN entries' = 1..Len(entries')
      /\ Len(entries) \in Nat /\ Len(entries') \in Nat
  BY DEF AdviceType
<1>. QED BY <1>1 DEF CalibrationPairsEntry

\* A forecast written while an entry's is being read is one it may read.
LEMMA RawGrows ==
  ASSUME AdviceType, FiledInv, [AdviceNext]_adviceVars, cycle' = cycle, cycle.pc = "book",
         \A i \in 1..Len(entries) : entries[i] \subseteq entries'[i], Len(entries') = Len(entries)
  PROVE  Raw(TRUE)' \in entries'[Len(entries')]
<1> USE DEF server, loop, tables, notices
<1>0. Len(entries) \in 1..Len(entries) /\ Raw(TRUE) \in entries[Len(entries)]
  <2>1. Len(entries) \in Nat /\ Len(entries) > 0
    BY DEF AdviceType
  <2>2. Raw(TRUE) \in entries[Len(entries)]
    BY DEF FiledInv
  <2>3. \A n \in Nat : n > 0 => n \in 1..n
    OBVIOUS
  <2>4. Len(entries) \in 1..Len(entries)
    BY ONLY <2>1, <2>3
  <2>. QED BY ONLY <2>2, <2>4
<1>1. CASE row' = row
  BY <1>0, <1>1 DEF Raw
<1>2. ASSUME NEW conf \in Levels, NEW s, NEW ok \in BOOLEAN, Write(s, conf, ok)
      PROVE  Raw(TRUE)' \in entries'[Len(entries')]
  <2>1. CASE ok /\ s = Primary
    <3>1. row' = [conf |-> conf, ts |-> clock] /\ entries' = MayRead(conf) /\ clock # 0
      BY <1>2, <2>1 DEF Write, AdviceType
    <3>2. Raw(TRUE)' = conf
      BY <3>1 DEF Raw
    <3>3. conf \in MayRead(conf)[Len(entries)]
      BY MayReadTyped
    <3>. QED BY <3>1, <3>2, <3>3
  <2>2. CASE ~(ok /\ s = Primary)
    BY <1>1, <1>2, <2>2 DEF Write
  <2>. QED BY <2>1, <2>2
<1>3. CASE \E t \in Ticks, s \in Symbols, r \in Regimes \cup {"unknown"}, ok \in BOOLEAN :
              Research(t, s, r, ok)
  <2>1. \A r : Confidence(r) \in Levels
    BY ConfidenceType
  <2>2. PICK t \in Ticks, s \in Symbols, r \in Regimes \cup {"unknown"}, ok \in BOOLEAN :
               Research(t, s, r, ok)
    BY <1>3
  <2>3. Write(s, Confidence(r), ok)
    BY <2>2 DEF Research
  <2>. QED BY <1>2, <2>1, <2>3
<1>4. CASE \E t \in Ticks, ok \in BOOLEAN : WriteAgain(t, ok)
  <2>1. \A t \in Ticks : tick[t].conf \in Levels
    BY DEF AdviceType, Tickings
  <2>. QED BY <1>2, <1>4, <2>1 DEF WriteAgain
<1>5. CASE \/ \E t \in Ticks, list \in BOOLEAN : TickStart(t, list)
           \/ \E t \in Ticks, s \in Symbols : ResearchFails(t, s)
           \/ \E t \in Ticks : TickEnd(t)
           \/ CheckStaleness
           \/ \E side \in {"buy", "sell"}, net \in 0 .. 2, memory \in {"allow", "halve", "block"},
                 heard, read \in BOOLEAN : Gate(side, net, memory, heard, read)
           \/ OpenEntry \/ \E ok \in BOOLEAN : Snapshot(ok) \/ Fill(ok)
           \/ Unfilled \/ Advance \/ NewBar \/ Reboot \/ UNCHANGED adviceVars
  <2>1. row' = row
    BY <1>5 DEF TickStart, ResearchFails, TickEnd, CheckStaleness, Unmarked, Marked, Gate, OpenEntry,
                Snapshot, Fill, Unfilled, Advance, NewBar, Reboot, adviceVars
  <2>. QED BY <1>1, <2>1
<1>. QED BY <1>3, <1>4, <1>5 DEF AdviceNext

LEMMA FiledStep ==
  ASSUME AdviceType, AdviceType', FiledInv, [AdviceNext]_adviceVars
  PROVE  FiledInv'
<1>0. /\ entries \in Seq(SUBSET Levels) /\ calib \in Seq(Filed) /\ cycle \in Cycles
      /\ entry \in [open : BOOLEAN, no : Nat, conf : Levels] /\ Len(entries) \in Nat
      /\ entries' \in Seq(SUBSET Levels) /\ Len(entries') \in Nat
      /\ DOMAIN entries = 1..Len(entries) /\ DOMAIN entries' = 1..Len(entries')
  BY DEF AdviceType
<1>1. CASE /\ UNCHANGED <<cycle, stale, entry, calib, notices>> /\ Len(entries') = Len(entries)
           /\ \A i \in 1..Len(entries) : entries[i] \subseteq entries'[i]
  <2>1. CalibrationPairsEntry'
    BY <1>0, <1>1, PairsGrow DEF FiledInv
  <2>2. CASE cycle.pc = "book"
    <3>1. Raw(TRUE)' \in entries'[Len(entries')]
      BY <1>1, <2>2, RawGrows
    <3>. QED BY <1>0, <1>1, <2>1, <2>2, <3>1 DEF FiledInv
  <2>3. CASE cycle.pc # "book"
    BY <1>0, <1>1, <2>1, <2>3 DEF FiledInv
  <2>. QED BY <2>2, <2>3
<1>2. CASE \/ CheckStaleness
           \/ \E side \in {"buy", "sell"}, net \in 0 .. 2, memory \in {"allow", "halve", "block"},
                 heard, read \in BOOLEAN : Gate(side, net, memory, heard, read)
           \/ Unfilled
  <2>0. NoCycle.pc = "idle"
    BY DEF NoCycle
  <2>1. UNCHANGED <<entry, entries, calib>> /\ cycle.pc # "book" /\ cycle'.pc # "book"
    <3>1. ASSUME CheckStaleness
          PROVE  UNCHANGED <<entry, entries, calib>> /\ cycle.pc # "book" /\ cycle'.pc # "book"
      BY <3>1 DEF CheckStaleness, Unmarked, Marked, NoCycle, tables
    <3>2. ASSUME NEW side, NEW net, NEW memory, NEW heard, NEW read, Gate(side, net, memory, heard, read)
          PROVE  UNCHANGED <<entry, entries, calib>> /\ cycle.pc # "book" /\ cycle'.pc # "book"
      BY <1>0, <2>0, <3>2 DEF Gate, Cycles, tables
    <3>3. ASSUME Unfilled
          PROVE  UNCHANGED <<entry, entries, calib>> /\ cycle.pc # "book" /\ cycle'.pc # "book"
      BY <2>0, <3>3 DEF Unfilled, tables
    <3>. QED BY <1>2, <3>1, <3>2, <3>3
  <2>. QED BY <2>1 DEF FiledInv, CalibrationPairsEntry
<1>3. CASE Reboot
  BY <1>3 DEF Reboot, tables, NoCycle, FiledInv, CalibrationPairsEntry, NoEntry
<1>4. CASE OpenEntry
  <2>1. /\ calib' = calib /\ entries' = Append(entries, {Raw(TRUE)}) /\ row' = row
        /\ entry'.open /\ entry'.no = Len(entries) + 1 /\ cycle'.pc = "book"
    BY <1>0, <1>4 DEF OpenEntry, Cycles, tables
  <2> DEFINE held == {Raw(TRUE)}
  <2>2. held \in SUBSET Levels
    BY DEF Raw, AdviceType, Levels, NEUTRAL
  <2>3. entries' = Append(entries, held) /\ Raw(TRUE) \in held
    BY <2>1
  <2> HIDE DEF held
  <2>4. /\ Len(entries') = Len(entries) + 1 /\ entries'[Len(entries) + 1] = held
        /\ \A i \in 1..Len(entries) : entries'[i] = entries[i]
    BY <1>0, <2>2, <2>3
  <2>5. CalibrationPairsEntry'
    BY <1>0, <2>1, <2>4, PairsGrow DEF FiledInv
  <2>6. \A i \in DOMAIN calib : calib[i].no < Len(entries) + 1
    BY <1>0 DEF FiledInv, CalibrationPairsEntry, Filed
  <2>7. Raw(TRUE)' = Raw(TRUE)
    BY <2>1 DEF Raw
  <2>8. Raw(TRUE)' \in entries'[Len(entries')]
    BY <1>0, <2>3, <2>4, <2>7
  <2>9. entry'.no \in DOMAIN entries' /\ \A i \in DOMAIN calib' : calib'[i].no < entry'.no
    BY <1>0, <2>1, <2>4, <2>6
  <2>. QED BY <1>0, <2>1, <2>4, <2>5, <2>8, <2>9 DEF FiledInv
<1>5. ASSUME NEW read \in BOOLEAN, Snapshot(read) PROVE FiledInv'
  <2>1. /\ cycle.pc = "book" /\ cycle'.pc = "idle" /\ calib' = calib
        /\ entry' = [entry EXCEPT !.conf = Raw(read)]
        /\ entries' = (IF read THEN entries ELSE MayRead(NEUTRAL))
    BY <1>5 DEF Snapshot, NoCycle, tables
  <2>2. /\ NEUTRAL \in Levels /\ entry.open /\ entry.no = Len(entries) /\ Len(entries) \in 1..Len(entries)
        /\ Raw(TRUE) \in entries[Len(entries)] /\ \A i \in DOMAIN calib : calib[i].no < entry.no
    <3>1. NEUTRAL \in Levels
      BY DEF Levels, NEUTRAL
    <3>2. Len(entries) > 0
      BY <2>1 DEF AdviceType
    <3>. QED BY <1>0, <2>1, <3>1, <3>2 DEF FiledInv
  <2>3. /\ Len(entries') = Len(entries) /\ \A i \in 1..Len(entries) : entries[i] \subseteq entries'[i]
        /\ Raw(read) \in entries'[Len(entries)]
    <3>1. CASE read
      BY <1>0, <2>1, <2>2, <3>1
    <3>2. CASE ~read
      <4>1. Raw(read) = NEUTRAL
        BY <3>2 DEF Raw
      <4>. QED BY <2>1, <2>2, <3>2, <4>1, MayReadTyped
    <3>. QED BY <3>1, <3>2
  <2>4. CalibrationPairsEntry'
    BY <1>0, <2>1, <2>3, PairsGrow DEF FiledInv
  <2>5. entry'.no = Len(entries) /\ entry'.conf = Raw(read)
    BY <1>0, <2>1, <2>2
  <2>. QED BY <1>0, <2>1, <2>2, <2>3, <2>4, <2>5 DEF FiledInv
<1>6. ASSUME NEW ok \in BOOLEAN, Fill(ok) PROVE FiledInv'
  <2>0. cycle.pc = "send" /\ cycle'.pc = "idle" /\ entries' = entries
    BY <1>6 DEF Fill, NoCycle
  <2>1. CASE ~(cycle.side = "sell" /\ entry.open)
    BY <1>6, <2>0, <2>1 DEF Fill, FiledInv, CalibrationPairsEntry
  <2>2. CASE cycle.side = "sell" /\ entry.open /\ ~ok
    <3>1. calib' = calib /\ ~entry'.open
      BY <1>0, <1>6, <2>2 DEF Fill, Settled, NoEntry
    <3>. QED BY <2>0, <3>1 DEF FiledInv, CalibrationPairsEntry
  <2>3. CASE cycle.side = "sell" /\ entry.open /\ ok
    <3>1. calib' = Append(calib, [no |-> entry.no, conf |-> entry.conf]) /\ ~entry'.open
      BY <1>0, <1>6, <2>3 DEF Fill, Settled, NoEntry
    <3>2. /\ DOMAIN calib = 1..Len(calib) /\ DOMAIN calib' = 1..Len(calib) + 1 /\ Len(calib) \in Nat
          /\ calib'[Len(calib) + 1] = [no |-> entry.no, conf |-> entry.conf]
          /\ \A i \in 1..Len(calib) : calib'[i] = calib[i]
      BY <1>0, <3>1 DEF Filed
    <3>3. /\ entry.no \in DOMAIN entries /\ entry.conf \in entries[entry.no]
          /\ \A i \in DOMAIN calib : calib[i].no < entry.no
      BY <2>0, <2>3 DEF FiledInv
    <3>4. CalibrationPairsEntry'
      BY <2>0, <3>2, <3>3 DEF FiledInv, CalibrationPairsEntry
    <3>. QED BY <2>0, <3>1, <3>4 DEF FiledInv
  <2>. QED BY <2>1, <2>2, <2>3
<1>. QED BY <1>1, <1>2, <1>3, <1>4, <1>5, <1>6, CycleSteps

\* Every calibration row carries a forecast the table held between the fill of one entry and
\* the read behind it, or the neutral one if that read failed, and no entry has two, however
\* often the process restarts (loop.py:783, 1098, 1109).
THEOREM EntriesArePaired == AdviceSpec => []CalibrationPairsEntry
<1>1. AdviceInit => FiledInv
  BY DEF AdviceInit, FiledInv, CalibrationPairsEntry, NoCycle, NoEntry
<1>2. AdviceType /\ AdviceType' /\ FiledInv /\ [AdviceNext]_adviceVars => FiledInv'
  BY FiledStep
<1>3. FiledInv => CalibrationPairsEntry
  BY DEF FiledInv
<1>. QED BY <1>1, <1>2, <1>3, AdviceIsTyped, PTL DEF AdviceSpec
=============================================================================
