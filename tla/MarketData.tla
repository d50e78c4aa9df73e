----------------------------- MODULE MarketData -----------------------------
(***************************************************************************)
(* Where the bars come from (BinanceClient).  A historical pull pages      *)
(* through the exchange's candles, then through funding settlements and    *)
(* snapshots of the open interest, fills in the Fear & Greed index and     *)
(* writes a recording, which later evaluations read back; the live feed    *)
(* asks for the last few candles in every cycle.                           *)
(*                                                                         *)
(* Time passes between the requests of a pull, any request may fail, and   *)
(* the newest candle is still forming: its numbers will change.  A reading *)
(* is named by the hour it was made, 0 for none; hours stand for the       *)
(* milliseconds of the cursors, which never fall on a candle twice.        *)
(***************************************************************************)
EXTENDS Integers, Sequences, FiniteSets, FiniteSetsExt

CONSTANTS
    Windows,    \* lengths of the pulls, days_back, in candles
    PAGE,       \* candles or settlements a request returns at most
    CHUNK,      \* hours of open interest a request may span
    ATTEMPTS,   \* stop_after_attempt
    FUNDING,    \* hours between settlements
    DAY,        \* hours between readings of the index
    KEPT,       \* hours the exchange keeps snapshots of the open interest
    HISTORY,    \* history_bars of the live feed
    FirstHour, LastHour,  \* bounds: the clock
    MaxPulls    \* bound: pulls and enrichments begun

ASSUME HourAssumption ==
    /\ {PAGE, CHUNK, ATTEMPTS, FUNDING, DAY, KEPT, HISTORY, FirstHour, LastHour} \subseteq Nat \ {0}
    /\ MaxPulls \in Nat /\ PAGE > 1 /\ Windows \subseteq Nat \ {0, 1} /\ \A w \in Windows : w < FirstHour

VARIABLES
    now,      \* the hour; the candle that opened at it is forming
    listed,   \* newest candle the exchange lists: now, or now - 1 before its first trade
    pull,     \* the pull under way
    records,  \* recordings on disk, by window; <<>> for none
    frCache,  \* settlements on disk (binance_futures_fr_*.parquet)
    oiCache,  \* snapshots on disk (binance_futures_oi_*.parquet)
    fgCache,  \* hour the index was fetched at (feargreed_history.parquet), 0 for never
    live,     \* what the feed returned last
    pulls     \* pulls begun so far

disk == <<records, frCache, oiCache, fgCache>>
feed == <<live, pulls>>
marketVars == <<now, listed, pull, disk, feed>>

Hours == 1 .. LastHour
Newest(S) == IF S = {} THEN 0 ELSE Max(S)
Oldest(S) == IF S = {} THEN LastHour + 1 ELSE Min(S)
Least(a, b) == IF a < b THEN a ELSE b

-----------------------------------------------------------------------------
(* What the services would answer.                                         *)

Settlements == {t \in Hours : t % FUNDING = 0 /\ t <= now}
Snapshots   == {t \in Hours : t <= now /\ t + KEPT > now}
Readings(fetched) == {t \in Hours : t % DAY = 0 /\ t <= fetched}

FirstOf(S, n) == {t \in S : Cardinality({u \in S : u <= t}) <= n}

\* The candles from one hour to another, and whether each has closed.
Candles(from, to) ==
    [i \in 1 .. IF to < from THEN 0 ELSE to - from + 1 |->
        [t |-> from + i - 1, final |-> from + i - 1 < now]]

-----------------------------------------------------------------------------
(* Alignment of the readings with the bars.                                *)

\* Rows are sorted by their time, and a set of hours stands for the list: At is the row at a
\* place of it, the first being 1, and Upto the place bisect_right(rows, t) - 1 leads to.
At(rows, n) == CHOOSE r \in rows : Cardinality({u \in rows : u <= r}) = n
Upto(rows, t) == Cardinality({r \in rows : r <= t})

\* Mutant of Passed: the pointer moves before it looks at the time of the row it passes.
MutPassed(ahead, t) == {r \in ahead : \A u \in ahead : u < r => u <= t}

\* The settlements the pointer of _merge_derivatives passes at a bar, of those ahead of it.
Passed(ahead, t) == {r \in ahead : r <= t}

\* The snapshot bisect finds, if no more than an hour old.
Interest(t, rows) ==
    LET idx == Upto(rows, t) IN IF idx > 0 /\ t - At(rows, idx) <= 1 THEN At(rows, idx) ELSE 0

\* The reading of the index bisect finds, of those on disk.
Sentiment(t, fetched) ==
    LET idx == Upto(Readings(fetched), t) IN IF idx > 0 THEN At(Readings(fetched), idx) ELSE 0

\* A bar as a recording or the feed has it.
BarOf(candle, fr, oi, fg) == [t |-> candle.t, final |-> candle.final, fr |-> fr, oi |-> oi, fg |-> fg]

-----------------------------------------------------------------------------
(* A historical pull.                                                      *)

NoPull == [pc |-> "idle", window |-> 0, start |-> 1, end |-> 0, cursor |-> 1, tries |-> 1,
           got |-> <<>>, rows |-> {}, fr |-> {}, rates |-> <<>>]

\* Next stage: its cursor at its start, its attempts and rows anew.
Stage(p, pc) ==
    [p EXCEPT !.pc = pc, !.tries = 1, !.rows = {}, !.cursor = IF p.got = <<>> THEN 1 ELSE p.got[1].t]

Another == pulls < MaxPulls /\ pulls' = pulls + 1

LastBar == pull.got[Len(pull.got)].t
FirstBar == pull.got[1].t

\* A recording that is there is read; without one, or by force, the window up
\* to this moment is pulled.
Start(w, force) ==
    /\ pull.pc = "idle" /\ (records[w] = <<>> \/ force) /\ Another
    /\ pull' = [NoPull EXCEPT !.pc = "candles", !.window = w, !.start = now - w + 1,
                              !.end = now, !.cursor = now - w + 1]
    /\ UNCHANGED <<now, listed, disk, live>>

\* A recording without any funding is enriched when it is read.
Enrich(w) ==
    /\ pull.pc = "idle" /\ records[w] # <<>> /\ Another
    /\ \A i \in DOMAIN records[w] : records[w][i].fr = 0
    /\ pull' = Stage([NoPull EXCEPT !.window = w,
                        !.got = [i \in DOMAIN records[w] |->
                                    [t |-> records[w][i].t, final |-> records[w][i].final]]], "funding")
    /\ UNCHANGED <<now, listed, disk, live>>

\* Mutant of Past: the candle a page ended with begins the next.
MutPast(t) == t

\* The cursor behind the last row of a page.
Past(t) == t + 1

\* A page of candles.  A short one ends the pull, and so does the end of the
\* window, which was fixed when the pull began.
CandlePage ==
    /\ pull.pc = "candles"
    /\ LET batch == Candles(pull.cursor, Least(pull.cursor + PAGE - 1, Least(pull.end, listed)))
           read  == [pull EXCEPT !.got = @ \o batch]
           next  == Past(batch[Len(batch)].t)
       IN pull' = IF Len(batch) < PAGE \/ next > pull.end THEN Stage(read, "funding")
                  ELSE [read EXCEPT !.cursor = next]
    /\ UNCHANGED <<now, listed, disk, feed>>

\* A request that fails begins the stage again, from nothing; the last failure
\* ends the pull, or leaves the derivatives without rows.
CandleFails ==
    /\ pull.pc = "candles"
    /\ pull' = IF pull.tries = ATTEMPTS THEN NoPull
               ELSE [pull EXCEPT !.tries = @ + 1, !.cursor = pull.start, !.got = <<>>]
    /\ UNCHANGED <<now, listed, disk, feed>>

RowsFail ==
    /\ pull.pc \in {"funding pages", "interest pages"}
    /\ pull' = IF pull.tries < ATTEMPTS
               THEN [Stage(pull, pull.pc) EXCEPT !.tries = pull.tries + 1]
               ELSE IF pull.pc = "funding pages" THEN Stage([pull EXCEPT !.fr = {}], "interest")
               ELSE Stage(pull, "merge")
    /\ UNCHANGED <<now, listed, disk, feed>>

Covers(rows) == Oldest(rows) <= FirstBar /\ Newest(rows) >= LastBar

\* Rows on disk are used if they cover the bars.
FundingBegins ==
    /\ pull.pc = "funding"
    /\ pull' = IF Covers(frCache) THEN Stage([pull EXCEPT !.fr = frCache], "interest")
               ELSE Stage(pull, "funding pages")
    /\ UNCHANGED <<now, listed, disk, feed>>

FundingPage ==
    /\ pull.pc = "funding pages"
    /\ LET batch == FirstOf({t \in Settlements : pull.cursor <= t /\ t <= LastBar}, PAGE)
           rows  == pull.rows \cup batch
       IN IF Cardinality(batch) < PAGE \/ Max(batch) <= pull.cursor \/ Past(Max(batch)) > LastBar
          THEN /\ pull' = Stage([pull EXCEPT !.fr = rows], "interest")
               /\ frCache' = IF rows = {} THEN frCache ELSE rows
          ELSE /\ pull' = [pull EXCEPT !.rows = rows, !.cursor = Past(Max(batch))]
               /\ UNCHANGED frCache
    /\ UNCHANGED <<now, listed, records, oiCache, fgCache, feed>>

InterestBegins ==
    /\ pull.pc = "interest"
    /\ pull' = IF Covers(oiCache) THEN [Stage(pull, "merge") EXCEPT !.rows = oiCache]
               ELSE Stage(pull, "interest pages")
    /\ UNCHANGED <<now, listed, disk, feed>>

\* A broken copy of PastChunk: a chunk without rows is asked for again.
MutPastChunk(batch, end) == IF batch = {} THEN pull.cursor ELSE end + 1

\* The cursor behind a chunk, which may have had no rows at all.
PastChunk(batch, end) == Max({Newest(batch), end}) + 1

\* A chunk of open interest: hours the exchange no longer keeps come back empty.
InterestPage ==
    /\ pull.pc = "interest pages"
    /\ LET end   == Least(pull.cursor + CHUNK, LastBar)
           batch == {t \in Snapshots : pull.cursor <= t /\ t <= end}
           rows  == pull.rows \cup batch
           next  == PastChunk(batch, end)
       IN IF next > LastBar
          THEN /\ pull' = [Stage(pull, "merge") EXCEPT !.rows = rows]
               /\ oiCache' = IF rows = {} THEN oiCache ELSE rows
          ELSE /\ pull' = [pull EXCEPT !.rows = rows, !.cursor = next]
               /\ UNCHANGED oiCache
    /\ UNCHANGED <<now, listed, records, frCache, fgCache, feed>>

\* The settlement the last bar got is carried on.
Rate == IF pull.rates = <<>> THEN 0 ELSE pull.rates[Len(pull.rates)]

\* One bar of the loop over the settlements: the pointer (fr is what it has ahead of it)
\* passes those up to the bar, which gets the last of them, or the one before it had.
MergeBar ==
    /\ pull.pc = "merge"
    /\ LET passed == Passed(pull.fr, pull.got[Len(pull.rates) + 1].t)
           rates  == Append(pull.rates, IF passed = {} THEN Rate ELSE Max(passed))
       IN pull' = [pull EXCEPT !.fr = @ \ passed, !.rates = rates,
                               !.pc = IF Len(rates) = Len(pull.got) THEN "write" ELSE "merge"]
    /\ UNCHANGED <<now, listed, disk, feed>>

\* The index is fetched once and kept for good; if it cannot be fetched there
\* is none.
Index(ok) == fgCache' = IF fgCache = 0 /\ ok THEN now ELSE fgCache

\* The recording is written.
Write(ok) ==
    /\ pull.pc = "write" /\ Index(ok)
    /\ records' = [records EXCEPT ![pull.window] =
           [i \in DOMAIN pull.got |->
               LET t == pull.got[i].t IN
               BarOf(pull.got[i], pull.rates[i], Interest(t, pull.rows), Sentiment(t, fgCache'))]]
    /\ pull' = NoPull
    /\ UNCHANGED <<now, listed, frCache, oiCache, feed>>

\* A recording without any reading of the index gets it when it is read.
EnrichSentiment(w, ok) ==
    /\ pull.pc = "idle" /\ records[w] # <<>>
    /\ \A i \in DOMAIN records[w] : records[w][i].fg = 0
    /\ \E i \in DOMAIN records[w] : records[w][i].fr # 0
    /\ Index(ok)
    /\ records' = [records EXCEPT ![w] =
           [i \in DOMAIN records[w] |-> [records[w][i] EXCEPT !.fg = Sentiment(records[w][i].t, fgCache')]]]
    /\ UNCHANGED <<now, listed, pull, frCache, oiCache, feed>>

\* The process dies: what was written stays.
Reboot ==
    /\ pull.pc # "idle" /\ pull' = NoPull
    /\ UNCHANGED <<now, listed, disk, feed>>

-----------------------------------------------------------------------------
(* The live feed.                                                          *)

\* A broken copy of Closed: the newest candle stays.
MutClosed(candles) == candles

\* All candles but the newest, forming or not.
Closed(candles) == SubSeq(candles, 1, Len(candles) - 1)

\* Live bars have the index, and no derivatives.
Fetch(ok) ==
    /\ Index(ok)
    /\ LET bars == Closed(Candles(Max({1, listed - HISTORY}), listed)) IN
       live' = [i \in DOMAIN bars |-> BarOf(bars[i], 0, 0, Sentiment(bars[i].t, fgCache'))]
    /\ UNCHANGED <<now, listed, pull, records, frCache, oiCache, pulls>>

-----------------------------------------------------------------------------
HourPasses ==
    /\ now < LastHour /\ listed = now /\ now' = now + 1
    /\ UNCHANGED <<listed, pull, disk, feed>>

\* The first trade of the hour.
List ==
    /\ listed < now /\ listed' = now
    /\ UNCHANGED <<now, pull, disk, feed>>

MarketInit ==
    /\ now = FirstHour /\ listed = FirstHour
    /\ pull = NoPull /\ records = [w \in Windows |-> <<>>]
    /\ frCache = {} /\ oiCache = {} /\ fgCache = 0 /\ live = <<>> /\ pulls = 0

Pulling ==
    \/ CandlePage \/ FundingBegins \/ FundingPage \/ InterestBegins \/ InterestPage
    \/ MergeBar \/ \E ok \in BOOLEAN : Write(ok)

MarketNext ==
    \/ \E w \in Windows, flag \in BOOLEAN : Start(w, flag) \/ EnrichSentiment(w, flag)
    \/ \E w \in Windows : Enrich(w)
    \/ Pulling \/ CandleFails \/ RowsFail \/ Reboot
    \/ \E ok \in BOOLEAN : Fetch(ok)
    \/ HourPasses \/ List

\* Every request has a timeout, and only so many may fail: a pull goes on.
MarketSpec == MarketInit /\ [][MarketNext]_marketVars /\ WF_marketVars(Pulling)

-----------------------------------------------------------------------------
InOrder(bars) == \A i \in DOMAIN bars : i > 1 => bars[i].t = bars[i - 1].t + 1

\* A recording has every candle of its window, in order and once, however the
\* pages fell, whichever of them failed and were asked for again, and however
\* much time passed between them.  It may lack the last hour, which had no
\* trade yet.
RecordingIsComplete ==
    \A w \in Windows : records[w] # <<>> =>
        InOrder(records[w]) /\ Len(records[w]) \in {w - 1, w}

\* No bar knows what was not known when it opened: wherever the pointer and the bisections
\* end up in the rows on disk - which windows of other lengths and other times share, and
\* which go on after the bar - funding, open interest and index are of its time or before,
\* and no bar has an older settlement than the one before it (binance_client.py:349-377).
NothingFromLater ==
    \A w \in Windows : \A i \in DOMAIN records[w] :
        LET bar == records[w][i] IN
        /\ bar.fr <= bar.t /\ bar.oi <= bar.t /\ bar.fg <= bar.t
        /\ i > 1 => records[w][i - 1].fr <= bar.fr

\* A bar whose numbers may still change reaches no one but as the last bar of a
\* recording: not the live loop, at whatever moment it asks, and no evaluation
\* before its last bar.
OnlyTheLastMayForm ==
    /\ \A i \in DOMAIN live : live[i].final
    /\ \A w \in Windows : \A i \in 1 .. Len(records[w]) - 1 : records[w][i].final

\* A pull returns, with a recording or without, whatever is missing on the
\* exchange's side and whatever fails.
PullReturns == pull.pc # "idle" ~> pull.pc = "idle"

=============================================================================
