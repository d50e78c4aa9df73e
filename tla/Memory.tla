------------------------------- MODULE Memory -------------------------------
(***************************************************************************)
(* What the agent learns from its trades (agent/secondbrain).  A sell that *)
(* fills is reflected on: a lesson is written, the setup and its outcome   *)
(* go to a vector index and a row to the Convex table reflections.  Before *)
(* every trade the index is asked for similar setups, and a record of      *)
(* losses halves or blocks the order (avoidance.py).                       *)
(*                                                                         *)
(* The loop reflects while it records the fill; POST /supervisor may       *)
(* deliver the same close again, and again, to threads that share one set  *)
(* of cycles already reflected (agent/graph/supervisor.py).  What such a   *)
(* request says of the close is filed, and its defaults for what it does   *)
(* not say.  Every write may be lost without notice, and the process may   *)
(* die between two steps.  The dreamer cleans up at night, from a list of  *)
(* rows it read earlier.                                                   *)
(*                                                                         *)
(* Similarity is that of the offline index, the overlap of the words of    *)
(* two setups; a regime is taken to be one word (high_vol is two).         *)
(***************************************************************************)
EXTENDS Integers, Sequences, FiniteSets, FiniteSetsExt, SequencesExt

CONSTANTS
    Trades,         \* closes that may happen: [setup, pnl]
    Regimes, Signals,
    Workers,        \* threads of POST /supervisor
    Vague, Sharp,   \* lessons a model may write, generic or with substance
    Plain,          \* the lesson written without a model
    Brief,          \* the text of a nightly digest
    Preloads,       \* what the index may hold at the start, a set of sequences
    TOP_K,          \* hits the avoidance check asks for
    MaxCloses,      \* bound: sells that fill
    Limit           \* bound: posts, lost writes, crashes, pauses and dreams

Sides   == {"buy", "sell"}
Setups  == [side : Sides, regime : Regimes, signal : Signals]
\* The texts setup_key makes, also of fields that are not there.
Texts   == [side : Sides \cup {""}, regime : Regimes \cup {""}, signal : Signals \cup {"none"}]
Lessons == {Vague, Sharp, Plain}
Loop    == "loop"
Writers == Workers \cup {Loop}
MIN_SAMPLES == 2

ASSUME TradeAssumption ==
    /\ \A t \in Trades : t.setup \in Setups /\ t.setup.side = "sell" /\ t.pnl \in Int
    /\ Trades \subseteq [setup : Setups, pnl : Int]
ASSUME LessonAssumption == (Lessons \cup {Brief}) \cap Texts = {} /\ Brief \notin Lessons /\ Vague \notin {Sharp, Plain}
ASSUME PreloadAssumption ==
    \A p \in Preloads :
        /\ p \in Seq([id : {"inst"} \X Nat, kind : {"institutional"}, text : Setups, pnl : Int])
        /\ \A i, j \in DOMAIN p : p[i].id = p[j].id => i = j
ASSUME LimitAssumption == {TOP_K, MaxCloses, Limit} \subseteq Nat
ASSUME WorkerAssumption == Loop \notin Workers

VARIABLES
    closes,     \* what happened: the sells that filled, a cycle being their number
    vec,        \* the index, in the order of writing: [id, kind, text, pnl]
    rows,       \* the table: [cycle, lesson, pnl, quality, stale]
    reflected,  \* cycles the supervisor believes it has reflected on
    paused,     \* the operator paused the advisory agents
    writer,     \* the threads: [pc, cycle, report, trade, lesson, quality]
    dream,      \* the dreamer: [pc, seen], seen the table it read
    filed,      \* history: what the last write that went through said, by cycle
    mishaps        \* environment events so far

memoryVars == <<closes, vec, rows, reflected, paused, writer, dream, filed, mishaps>>

Mishap == mishaps < Limit /\ mishaps' = mishaps + 1

\* A call to Convex or to the index: it goes through, or is swallowed.
Arrives(ok) == IF ok THEN UNCHANGED mishaps ELSE Mishap

-----------------------------------------------------------------------------
(* The index.                                                              *)

\* Words a text and a setup share: five are in every text, and side, regime and signal may be.
Common(text, setup) == 5 + Cardinality({f \in {"side", "regime", "signal"} : text[f] = setup[f]})

\* Words of the two together: eight of the setup, and of the text six, its side and its regime.
Together(text, setup) ==
    14 + Cardinality({f \in {"side", "regime"} : text[f] # ""}) - Common(text, setup)

\* The rank of a hit, over a common denominator of eight to twelve words.  A preloaded text
\* begins with a symbol: one more word.  Digests rank last.
Score(rec, setup) ==
    IF rec.text \notin Texts THEN 0
    ELSE Common(rec.text, setup)
           * (3960 \div (Together(rec.text, setup) + IF rec.kind = "institutional" THEN 1 ELSE 0))

\* Similarity .55: one of the three in common is enough, and none for a text without a side
\* and a regime (5 / 9), which is like every setup.
SimilarTo(text, setup) == 20 * Common(text, setup) >= 11 * Together(text, setup)

\* Mutant of upsert: the id does not replace.
MutUpsertAppends(index, rec) == Append(index, rec)

\* Ids are unique, so at most one record goes.
upsert(index, rec) ==
    LET old == {i \in DOMAIN index : index[i].id = rec.id}
    IN  Append(IF old = {} THEN index ELSE RemoveAt(index, CHOOSE i \in old : TRUE), rec)

\* The better hit comes first, of two equal ones the one written first.
Ahead(score, i, j) == score[i] > score[j] \/ (score[i] = score[j] /\ i < j)

\* The first n of some hits, places in the index.
Best(score, hits, n) ==
    IF Cardinality(hits) <= n THEN hits
    ELSE {i \in hits : Cardinality({j \in hits : Ahead(score, j, i)}) < n}

query(index, setup) ==
    LET score == [i \in DOMAIN index |-> Score(index[i], setup)]
        near  == Best(score, DOMAIN index, 4 * TOP_K)
    IN  Best(score, {i \in near : index[i].kind = "reflection"}, TOP_K)

\* n similar closes, so many of them losses, and what they earned together.
Verdict(n, losses, net) ==
    IF n < MIN_SAMPLES THEN "allow"
    ELSE IF 4 * losses >= 3 * n /\ net < 0 THEN "block"
    ELSE IF 2 * losses >= n /\ net < 0 THEN "halve" ELSE "allow"

\* The answer of VectorMistakeAvoidance for an order in this setup.
check(index, setup) ==
    LET similar == {i \in query(index, setup) : SimilarTo(index[i].text, setup)}
    IN  Verdict(Cardinality(similar),
                Cardinality({i \in similar : index[i].pnl < 0}),
                SumFunction([i \in similar |-> index[i].pnl]))

-----------------------------------------------------------------------------
(* Reflecting.                                                             *)

\* What a model answers: a text, or nothing (no key, every provider down).
Answers == {Vague, Sharp, Plain}

_is_generic(lesson) == lesson = Vague

\* The lesson and its mark.  No answer makes the plain lesson; a generic one is
\* asked for again, and a generic second answer leaves the first, marked.
Synthesised ==
    {[lesson |-> l, quality |-> ""] : l \in {a \in Answers : ~_is_generic(a)}}
        \cup {[lesson |-> Vague, quality |-> "low"]}

\* A request that says nothing of the close.
NoReport == [setup |-> [side |-> "", regime |-> "", signal |-> "none"], pnl |-> 0]

\* What a request may say of a close: all of it, or its setup or its profit left out.  One
\* without a cycle (0) says nothing.
Reports(c) ==
    IF c = 0 THEN {NoReport}
    ELSE {[setup |-> s, pnl |-> p] : s \in {closes[c].setup, NoReport.setup}, p \in {closes[c].pnl, 0}}

Idle == [pc |-> "idle", cycle |-> 0, report |-> NoReport, trade |-> FALSE, lesson |-> Plain,
         quality |-> ""]
Go(w, rec) == writer' = [writer EXCEPT ![w] = rec]
Free(w)    == Go(w, Idle)
At(w, pc)  == writer[w].pc = pc
Next_(w, pc) == Go(w, [writer[w] EXCEPT !.pc = pc])

\* The record of a cycle: its id is that of the cycle, all else what is reported of it.
ReflectionOf(c, report) ==
    [id |-> <<"refl", c>>, kind |-> "reflection", text |-> report.setup, pnl |-> report.pnl]

\* The mutation: one row per trade and cycle, a second write patches the first.
record(table, row) ==
    IF \E i \in DOMAIN table : table[i].cycle = row.cycle
    THEN [i \in DOMAIN table |->
             IF table[i].cycle = row.cycle
             THEN [table[i] EXCEPT !.lesson = row.lesson, !.quality = row.quality] ELSE table[i]]
    ELSE Append(table, row)

MemoryInit ==
    /\ closes = <<>> /\ rows = <<>> /\ vec \in Preloads
    /\ reflected = {} /\ paused = FALSE /\ filed = <<>> /\ mishaps = 0
    /\ writer = [w \in Writers |-> Idle]
    /\ dream = [pc |-> "idle", seen |-> <<>>]

\* A sell fills; the trade row it wants a reference to may not have been written.
Close(t, ok) ==
    /\ At(Loop, "idle") /\ Len(closes) < MaxCloses /\ Arrives(ok)
    /\ closes' = Append(closes, t)
    /\ Go(Loop, [Idle EXCEPT !.pc = "lesson", !.cycle = Len(closes) + 1, !.report = t, !.trade = ok])
    /\ UNCHANGED <<vec, rows, reflected, paused, dream, filed>>

\* The event of a close reaches a thread.  The pause is read once, and a read
\* that fails says not paused; a close already reflected on is only answered,
\* but an event that names no cycle is never one of those.
Post(w, c, report, heard) ==
    /\ At(w, "idle") /\ w \in Workers /\ Mishap
    /\ ~(paused /\ heard) /\ c \notin reflected
    /\ Go(w, [Idle EXCEPT !.pc = "lesson", !.cycle = c, !.report = report])
    /\ UNCHANGED <<closes, vec, rows, reflected, paused, dream, filed>>

Lesson(w) ==
    /\ At(w, "lesson")
    /\ \E s \in Synthesised :
          Go(w, [writer[w] EXCEPT !.pc = "upsert", !.lesson = s.lesson, !.quality = s.quality])
    /\ UNCHANGED <<closes, vec, rows, reflected, paused, dream, filed, mishaps>>

\* The answer of the index is not looked at.
Store(w, ok) ==
    /\ At(w, "upsert") /\ Arrives(ok)
    /\ LET me == writer[w] IN
          IF ok THEN /\ vec' = upsert(vec, ReflectionOf(me.cycle, me.report))
                     /\ filed' = [c \in DOMAIN filed \cup {me.cycle} |->
                                     IF c = me.cycle THEN me.report ELSE filed[c]]
          ELSE UNCHANGED <<vec, filed>>
    /\ Next_(w, "persist")
    /\ UNCHANGED <<closes, rows, reflected, paused, dream>>

\* The row needs a trade id; the supervisor's events carry none.
Persist(w, ok) ==
    /\ At(w, "persist")
    /\ LET me == writer[w] IN
          IF me.trade
          THEN /\ Arrives(ok)
               /\ rows' = IF ~ok THEN rows
                          ELSE record(rows, [cycle |-> me.cycle, lesson |-> me.lesson,
                                 pnl |-> me.report.pnl, quality |-> me.quality, stale |-> FALSE])
          ELSE ok /\ UNCHANGED <<rows, mishaps>>
    /\ IF w = Loop THEN Free(w) ELSE Next_(w, "mark")
    /\ UNCHANGED <<closes, vec, reflected, paused, dream, filed>>

\* Marked reflected whatever became of the writes; the historian confirms.
Mark(w) ==
    /\ At(w, "mark") /\ Free(w)
    /\ reflected' = reflected \cup ({writer[w].cycle} \ {0})
    /\ UNCHANGED <<closes, vec, rows, paused, dream, filed, mishaps>>

-----------------------------------------------------------------------------
(* The dreamer.                                                            *)

ReadRows(ok) ==
    /\ dream.pc = "idle" /\ Mishap
    /\ dream' = [pc |-> "pass", seen |-> IF ok THEN rows ELSE <<>>]
    /\ UNCHANGED <<closes, vec, rows, reflected, paused, writer, filed>>

\* The index is asked for the first lesson; the second must be the text of a hit.
Duplicate(a, b) == \E i \in DOMAIN vec : vec[i].text = b.lesson /\ a.lesson = b.lesson

Abs(n) == IF n < 0 THEN -n ELSE n
Smaller(seen, i, j) == IF Abs(seen[i].pnl) >= Abs(seen[j].pnl) THEN j ELSE i

Kept(seen, gone, i) == i \notin gone /\ ~seen[i].stale

\* A row not stale or dropped against all older ones, the newest of them first.
Compared(seen, i, gone) ==
    IF ~Kept(seen, gone, i) THEN gone
    ELSE FoldRight(LAMBDA j, g : IF Kept(seen, g, j) /\ Duplicate(seen[i], seen[j])
                                 THEN g \cup {Smaller(seen, i, j)} ELSE g,
                   [j \in 1 .. i - 1 |-> j], gone)

Dropped(seen) == FoldRight(LAMBDA i, gone : Compared(seen, i, gone), [i \in DOMAIN seen |-> i], {})

\* The record of a dropped row: its lesson for a text, and no kind any more.
Forgotten(r) == [id |-> <<"refl", r.cycle>>, kind |-> "none", text |-> r.lesson, pnl |-> r.pnl]
Digest == [id |-> <<"night", mishaps>>, kind |-> "research", text |-> Brief, pnl |-> 0]

\* Their records go one by one; then the digest comes.
Cleaned(seen, gone) ==
    upsert(FoldSet(LAMBDA i, index : upsert(index, Forgotten(seen[i])), vec, gone), Digest)

DreamPass ==
    /\ dream.pc = "pass"
    /\ LET seen == dream.seen
           gone == Dropped(seen)
           cycles == {seen[i].cycle : i \in gone}
       IN  /\ rows' = [i \in DOMAIN rows |->
                          [rows[i] EXCEPT !.stale = rows[i].stale \/ rows[i].cycle \in cycles]]
           /\ vec' = Cleaned(seen, gone)
    /\ dream' = [pc |-> "idle", seen |-> <<>>]
    /\ UNCHANGED <<closes, reflected, paused, writer, filed, mishaps>>

Pause ==
    /\ Mishap /\ paused' = ~paused
    /\ UNCHANGED <<closes, vec, rows, reflected, writer, dream, filed>>

\* The index and the table are services; all else is memory.
Reboot ==
    /\ Mishap /\ reflected' = {}
    /\ writer' = [w \in Writers |-> Idle]
    /\ dream' = [pc |-> "idle", seen |-> <<>>]
    /\ UNCHANGED <<closes, vec, rows, paused, filed>>

MemoryNext ==
    \/ \E t \in Trades, ok \in BOOLEAN : Close(t, ok)
    \/ \E w \in Workers, c \in 0..Len(closes), heard \in BOOLEAN :
          \E report \in Reports(c) : Post(w, c, report, heard)
    \/ \E w \in Writers : Lesson(w) \/ Mark(w)
    \/ \E w \in Writers, ok \in BOOLEAN : Store(w, ok) \/ Persist(w, ok)
    \/ \E ok \in BOOLEAN : ReadRows(ok)
    \/ DreamPass \/ Pause \/ Reboot

MemorySpec == MemoryInit /\ [][MemoryNext]_memoryVars

-----------------------------------------------------------------------------
\* What the record itself says: every cycle of which a write once went through, counted
\* once, as last reported, whatever came with it or after it.
RecordOf(setup) ==
    LET known == {c \in DOMAIN filed : SimilarTo(filed[c].setup, setup)}
    IN  Verdict(Cardinality(known),
                Cardinality({c \in known : filed[c].pnl < 0}),
                SumFunction([c \in known |-> filed[c].pnl]))

\* The advice on any order is the verdict of the record: a close delivered twice,
\* by two threads or after a restart is one piece of evidence, and the last report
\* of it that went through counts, whole; preloaded history, digests and a night of
\* the dreamer count for nothing, and nothing is forgotten (avoidance.py:42,
\* reflection.py:92, supervisor.py:249, dreamer.py:59).
\* It is said of an index within the over-fetch and a record within TOP_K; past
\* that the nearest hits stand for the rest.
VerdictMatchesRecord ==
    Len(vec) <= 4 * TOP_K /\ Cardinality(DOMAIN filed) <= TOP_K =>
        \A setup \in Setups : check(vec, setup) = RecordOf(setup)
=============================================================================
