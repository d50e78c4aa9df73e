------------------------------- MODULE Advice -------------------------------
(***************************************************************************)
(* How advice reaches a trade.  Research ticks (POST /supervisor, kind     *)
(* research_tick) write a confidence per symbol to forecast_state; the     *)
(* operator marks setups good or bad; the memory has a verdict (module     *)
(* Memory).  A cycle lets the three shrink or block the strategy's order,  *)
(* sends it, and at an entry remembers the forecast, which the first sell  *)
(* afterwards files with its profit in forecast_calibration.               *)
(*                                                                         *)
(* Ticks run in threads of the server while the loop is in the middle of   *)
(* a cycle; a forecast carries the time it was made, a cycle the time of   *)
(* its bar, which lags.  Any call may fail, and the process may restart.   *)
(* Sizes are fractions of the order after its cap, in units of 1/Whole.    *)
(***************************************************************************)
EXTENDS Integers, Sequences, FiniteSets, FiniteSetsExt

CONSTANTS
    Primary, Others,   \* the symbol the loop trades, the rest of the allowlist
    Ticks,             \* threads that may handle a research tick
    Regimes,           \* what detect_regime may return, a set of names
    TTL,               \* DEFAULT_FORECAST_TTL_MS
    STALE,             \* a forecast older than this is called stale (4 h)
    WINDOW,            \* _RESEARCH_DEDUPE_SECS
    Entries,           \* bound: round trips
    LastHour,          \* bound: the clock
    Limit              \* bound: failures and restarts

Symbols == Others \cup {Primary}
NEUTRAL == 100
FLOOR   == 50
Whole   == 4 * NEUTRAL * TTL

ASSUME SymbolAssumption == Primary \notin Others /\ IsFiniteSet(Others)
ASSUME AgeAssumption ==
    /\ {TTL, WINDOW, LastHour, Limit, Entries} \subseteq Nat
    /\ TTL > 0 /\ WINDOW > 0 /\ STALE \in 1 .. TTL
ASSUME RegimeAssumption == "unknown" \notin Regimes

VARIABLES
    clock,    \* wall clock
    bar,      \* timestamp of the newest bar
    row,      \* forecast_state of the traded symbol: [conf, ts], ts = 0 for no row
    lastRun,  \* _last_research_ts of the supervisor, 0 for never
    tick,     \* research threads: [pc, todo, taken, conf]
    cycle,    \* the cycle under way: [pc, side, sized, mult, old, heard]
    stale,    \* "forecast" is in _stale_sources
    entry,    \* _entry_fill and _entry_forecast_confidence: [open, no, conf]
    calib,    \* forecast_calibration: [no, conf]
    entries,  \* history: per entry, what could be read as its forecast from its fill on
    caution,  \* history: when the last forecast below NEUTRAL reached the table
    told,     \* history: the present staleness reached the operator
    missed,   \* history: announcements of staleness lost, by event or by message
    upsets    \* environment events so far

server == <<lastRun, tick>>
loop   == <<cycle, entry, stale>>
tables == <<row, calib>>
notices == <<told, missed>>
adviceVars == <<clock, bar, tables, server, loop, entries, caution, notices, upsets>>

Failures(n) == upsets + n <= Limit /\ upsets' = upsets + n
Upset == Failures(1)
Works(ok) == IF ok THEN UNCHANGED upsets ELSE Upset

-----------------------------------------------------------------------------
(* The arithmetic.                                                         *)

\* Confidence of a regime.  The names are those of confidence_from_regime; of
\* the detector's own, trend and crash are none of them.
Confidence(regime) ==
    CASE regime = "trend_up" -> 100 [] regime = "trend_down" -> 55
      [] regime = "chop" -> 75      [] regime = "high_vol" -> 65
      [] OTHER -> 85

\* Mutant of Decayed: an old forecast keeps its full weight.
MutDecayed(conf, age) == conf * TTL

\* Linear decay to NEUTRAL, in units of 1/TTL.
Decayed(conf, age) ==
    IF age <= 0 THEN conf * TTL
    ELSE IF age >= TTL THEN NEUTRAL * TTL
    ELSE conf * TTL + (NEUTRAL - conf) * age

Clamped(mult) == Max({FLOOR * TTL, Min({NEUTRAL * TTL, mult})})

\* The multiplier for the traded symbol; no row, or a read that fails, is neutral.
Multiplier(read) ==
    IF ~read \/ row.ts = 0 THEN NEUTRAL * TTL
    ELSE Clamped(Decayed(row.conf, Max({0, bar - row.ts})))

\* What the operator's marks on the setup (net: the bad ones minus the good ones) make
\* of a buy.
Feedback(side, net, read) ==
    IF side = "sell" \/ ~read THEN "allow"
    ELSE IF net >= 2 THEN "block" ELSE IF net >= 1 THEN "halve" ELSE "allow"

Half(verdict) == IF verdict = "halve" THEN 1 ELSE 2

-----------------------------------------------------------------------------
(* Research.                                                               *)

NoTick == [pc |-> "idle", todo |-> {}, taken |-> {}, conf |-> NEUTRAL]

\* The primary, and every other symbol outside its window.
_filter_dedupe == {Primary} \cup {s \in Others : clock - lastRun[s] >= WINDOW}

TickStart(t, list) ==
    /\ tick[t].pc = "idle"
    /\ clock - lastRun[Primary] >= WINDOW
    /\ LET taken == IF list THEN _filter_dedupe ELSE {Primary} IN
          tick' = [tick EXCEPT ![t] = [NoTick EXCEPT !.pc = "run", !.todo = taken, !.taken = taken]]
    /\ UNCHANGED <<clock, bar, tables, lastRun, loop, entries, caution, notices, upsets>>

Alone(t) == Cardinality(tick[t].taken) = 1

\* An entry whose forecast has not been read yet may be given this one.
MayRead(conf) == IF cycle.pc = "book" THEN [entries EXCEPT ![Len(entries)] = @ \cup {conf}]
                                      ELSE entries

Write(s, conf, ok) ==
    IF ok /\ s = Primary
    THEN /\ row' = [conf |-> conf, ts |-> clock]
         /\ caution' = IF conf < NEUTRAL THEN clock ELSE caution
         /\ entries' = MayRead(conf)
    ELSE UNCHANGED <<row, caution, entries>>

\* One symbol researched.  Without bars it writes the confidence of an unknown
\* regime; alone, the supervisor then writes its own, which is neutral.
Research(t, s, regime, ok) ==
    /\ tick[t].pc = "run" /\ s \in tick[t].todo /\ Works(ok)
    /\ Write(s, Confidence(regime), ok)
    /\ tick' = [tick EXCEPT ![t].todo = @ \ {s},
                            ![t].pc = IF Alone(t) THEN "again" ELSE "run",
                            ![t].conf = IF Alone(t) /\ regime # "unknown" THEN Confidence(regime)
                                        ELSE NEUTRAL]
    /\ UNCHANGED <<clock, bar, calib, lastRun, loop, notices>>

WriteAgain(t, ok) ==
    /\ tick[t].pc = "again" /\ Works(ok)
    /\ Write(Primary, tick[t].conf, ok)
    /\ tick' = [tick EXCEPT ![t].pc = "run", ![t].conf = NEUTRAL]
    /\ UNCHANGED <<clock, bar, calib, lastRun, loop, notices>>

\* In a fan-out a symbol that fails is marked with the rest; a lone one is not.
ResearchFails(t, s) ==
    /\ tick[t].pc = "run" /\ s \in tick[t].todo /\ Upset
    /\ tick' = [tick EXCEPT ![t] = IF Alone(t) THEN NoTick ELSE [tick[t] EXCEPT !.todo = @ \ {s}]]
    /\ UNCHANGED <<clock, bar, tables, lastRun, loop, entries, caution, notices>>

TickEnd(t) ==
    /\ tick[t].pc = "run" /\ tick[t].todo = {}
    /\ lastRun' = [s \in Symbols |-> IF s \in tick[t].taken THEN clock ELSE lastRun[s]]
    /\ tick' = [tick EXCEPT ![t] = NoTick]
    /\ UNCHANGED <<clock, bar, tables, loop, entries, caution, notices, upsets>>

-----------------------------------------------------------------------------
(* The cycle.                                                              *)

NoCycle == [pc |-> "idle", side |-> "buy", sized |-> 0, mult |-> 0, old |-> FALSE, heard |-> FALSE]

NoEntry == [open |-> FALSE, no |-> 0, conf |-> NEUTRAL]

AdviceInit ==
    /\ clock = WINDOW /\ bar = WINDOW
    /\ row = [conf |-> 0, ts |-> 0] /\ calib = <<>>
    /\ lastRun = [s \in Symbols |-> 0] /\ tick = [t \in Ticks |-> NoTick]
    /\ cycle = NoCycle /\ stale = FALSE /\ entry = NoEntry
    /\ entries = <<>> /\ caution = 0 /\ told = FALSE /\ missed = 0 /\ upsets = 0

Sized(feedback, memory, read) == Half(feedback) * Half(memory) * Multiplier(read)

\* How old the forecast is, in bar time; a row that is not there has no age.
Age == IF row.ts = 0 THEN 0 ELSE bar - row.ts

\* Mutant of Stale: measured against the time to live.
MutStale == Age > TTL

Stale == Age > STALE

\* A read that fails clears the mark, as a fresh forecast does.
Unmarked(read) ==
    /\ cycle.pc = "idle" /\ Works(read)
    /\ ~(read /\ Stale)
    /\ stale' = FALSE /\ told' = FALSE
    /\ cycle' = [NoCycle EXCEPT !.pc = "gate", !.heard = read]
    /\ UNCHANGED <<clock, bar, tables, server, entry, entries, caution, missed>>

\* A forecast found stale is announced once, by an event and by a message, each of
\* which may be lost unnoticed, and marked whatever became of them.
Marked(event, message) ==
    LET lost == (IF event THEN 0 ELSE 1) + (IF message THEN 0 ELSE 1) IN
    /\ cycle.pc = "idle" /\ Stale
    /\ IF stale THEN event /\ message /\ UNCHANGED <<told, missed, upsets>>
       ELSE /\ Failures(lost) /\ missed' = missed + lost
            /\ told' = (event \/ message)
    /\ stale' = TRUE
    /\ cycle' = [NoCycle EXCEPT !.pc = "gate", !.heard = TRUE]
    /\ UNCHANGED <<clock, bar, tables, server, entry, entries, caution>>

CheckStaleness == \/ \E read \in BOOLEAN : Unmarked(read)
                  \/ \E event, message \in BOOLEAN : Marked(event, message)

\* The marks (heard), the memory's verdict and the forecast (read), in that order.
Gate(side, net, memory, heard, read) ==
    /\ cycle.pc = "gate" /\ Works(heard /\ read)
    /\ cycle' = IF "block" \in {Feedback(side, net, heard), memory} THEN NoCycle
                ELSE [cycle EXCEPT !.pc = "send", !.side = side, !.mult = Multiplier(read),
                        !.old = read /\ Age > STALE,
                        !.sized = Sized(Feedback(side, net, heard), memory, read)]
    /\ UNCHANGED <<clock, bar, tables, server, entry, stale, entries, caution, notices>>

\* What _current_forecast_confidence returns: the row as it is, whatever its age.
Raw(read) == IF ~read \/ row.ts = 0 THEN NEUTRAL ELSE row.conf

\* Mutant of Settled: the entry stays open after the sell that closes it.
MutSettled == entry

\* A sell files the entry and closes it; what was remembered of it is not read again.
Settled == NoEntry

\* A buy while nothing is open fills: an entry, whose forecast is yet to be read.
OpenEntry ==
    /\ cycle.pc = "send" /\ cycle.side = "buy" /\ ~entry.open /\ Len(entries) < Entries
    /\ entry' = [entry EXCEPT !.open = TRUE, !.no = Len(entries) + 1]
    /\ entries' = Append(entries, {Raw(TRUE)})
    /\ cycle' = [NoCycle EXCEPT !.pc = "book"]
    /\ UNCHANGED <<clock, bar, tables, server, stale, caution, notices, upsets>>

\* The forecast of the entry is read, after the fill; a read that fails gives NEUTRAL.
Snapshot(read) ==
    /\ cycle.pc = "book" /\ Works(read)
    /\ entry' = [entry EXCEPT !.conf = Raw(read)]
    /\ entries' = IF read THEN entries ELSE MayRead(NEUTRAL)
    /\ cycle' = NoCycle
    /\ UNCHANGED <<clock, bar, tables, server, stale, caution, notices>>

\* Any other fill: a buy on top of an entry, a sell with nothing to close, or a sell
\* that files the entry, unless the call is lost.
Fill(ok) ==
    /\ cycle.pc = "send" /\ (cycle.side = "buy" => entry.open) /\ Works(ok)
    /\ cycle' = NoCycle
    /\ IF cycle.side = "sell" /\ entry.open
       THEN /\ entry' = Settled
            /\ calib' = IF ok THEN Append(calib, [no |-> entry.no, conf |-> entry.conf]) ELSE calib
       ELSE ok /\ UNCHANGED <<entry, calib>>
    /\ UNCHANGED <<clock, bar, row, server, stale, entries, caution, notices>>

\* The order is vetoed, fails, or the strategy gave none.
Unfilled ==
    /\ cycle.pc \in {"gate", "send"} /\ cycle' = NoCycle
    /\ UNCHANGED <<clock, bar, tables, server, entry, stale, entries, caution, notices, upsets>>

-----------------------------------------------------------------------------
Advance ==
    /\ clock < LastHour /\ clock' = clock + 1
    /\ UNCHANGED <<bar, tables, server, loop, entries, caution, notices, upsets>>

NewBar ==
    /\ cycle.pc = "idle" /\ bar < clock /\ bar' = clock
    /\ UNCHANGED <<clock, tables, server, loop, entries, caution, notices, upsets>>

Reboot ==
    /\ Upset
    /\ lastRun' = [s \in Symbols |-> 0] /\ tick' = [t \in Ticks |-> NoTick]
    /\ cycle' = NoCycle /\ stale' = FALSE /\ entry' = NoEntry
    /\ told' = FALSE
    /\ UNCHANGED <<clock, bar, tables, entries, caution, missed>>

AdviceNext ==
    \/ \E t \in Ticks, list \in BOOLEAN : TickStart(t, list)
    \/ \E t \in Ticks, s \in Symbols, r \in Regimes \cup {"unknown"}, ok \in BOOLEAN :
          Research(t, s, r, ok)
    \/ \E t \in Ticks, ok \in BOOLEAN : WriteAgain(t, ok)
    \/ \E t \in Ticks, s \in Symbols : ResearchFails(t, s)
    \/ \E t \in Ticks : TickEnd(t)
    \/ CheckStaleness
    \/ \E side \in {"buy", "sell"}, net \in 0 .. 2, memory \in {"allow", "halve", "block"},
          heard, read \in BOOLEAN : Gate(side, net, memory, heard, read)
    \/ OpenEntry \/ \E ok \in BOOLEAN : Snapshot(ok) \/ Fill(ok)
    \/ Unfilled \/ Advance \/ NewBar \/ Reboot

AdviceSpec == AdviceInit /\ [][AdviceNext]_adviceVars

-----------------------------------------------------------------------------
\* Advice only ever makes an order smaller, a forecast never to less than half; and
\* one whose research ended TTL before the bar has no say any more, however often
\* it is read and in whatever order the ticks wrote (forecast.py:19, loop.py:754).
AdviceExpires ==
    cycle.pc = "send" =>
        /\ cycle.sized <= Whole /\ cycle.mult >= FLOOR * TTL
        /\ cycle.mult < NEUTRAL * TTL => caution > 0 /\ bar - caution < TTL

\* An order is never sized by a forecast older than STALE without the operator having
\* been told of it, in this cycle or since it grew stale, unless the read that tells at
\* the cycle's start failed or two announcements were lost: one lost call never hides
\* it, two may, for it is marked all the same and not announced again.  What the ticks
\* write between that read and the gate's can only be younger (loop.py:708-752, 754).
StaleIsAnnounced ==
    cycle.pc = "send" /\ cycle.heard /\ cycle.old => stale /\ (told \/ missed >= 2)

\* A calibration row is about one entry, no entry has two, and it carries a forecast
\* the table held between that entry's fill and the read behind it, or NEUTRAL if the
\* read failed - whatever was researched, marked or traded afterwards (loop.py:1098,
\* 1109).
CalibrationPairsEntry ==
    \A i \in DOMAIN calib :
        /\ calib[i].no \in DOMAIN entries /\ calib[i].conf \in entries[calib[i].no]
        /\ \A j \in DOMAIN calib : i < j => calib[i].no < calib[j].no
=============================================================================
