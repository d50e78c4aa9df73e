------------------------ MODULE NoLookAhead_proofs ------------------------
(***************************************************************************)
(* Proofs about the backtest engine and its harnesses, for recordings of   *)
(* any length and number: the paper ledger mirrors the simulated account,  *)
(* the closed trades explain its cash, a walk tests every bar once, the    *)
(* longest time under water is what max_drawdown_duration returns of a     *)
(* curve that sank, and two runs over recordings that agree on the bars    *)
(* used are in one state.                                                  *)
(*                                                                         *)
(* The functions that recursion defines are shown to exist, and to do what *)
(* their equations say, by induction over numbers, which comes from the    *)
(* well-founded inclusion of finite sets.                                  *)
(***************************************************************************)
EXTENDS NoLookAhead, FiniteSetTheorems, SequenceTheorems, TLAPS

-----------------------------------------------------------------------------
(* Induction, and the functions that recursion defines.                    *)

\* A set of finite sets has a smallest member, by inclusion.
LEMMA Minimal ==
  ASSUME NEW S, NEW T, T \subseteq FiniteSubsetsOf(S), T # {}
  PROVE  \E x \in T : \A y \in T : ~(y \subseteq x /\ y # x)
<1>1. IsWellFoundedOn(StrictSubsetOrdering(S), FiniteSubsetsOf(S))
  BY FS_StrictSubsetOrderingWellFounded
<1>2. \E x \in T : \A y \in T : ~(<<y, x>> \in StrictSubsetOrdering(S))
  BY <1>1, WFMin, Zenon
<1>. QED BY <1>2 DEF StrictSubsetOrdering, FiniteSubsetsOf

\* A set of numbers has a least one.
LEMMA Least ==
  ASSUME NEW T, T \subseteq Nat, T # {}
  PROVE  \E x \in T : \A y \in T : x <= y
<1> DEFINE U == {1..n : n \in T}
<1>1. U \subseteq FiniteSubsetsOf(Nat) /\ U # {}
  <2>1. \A n \in Nat : IsFiniteSet(1..n)
    BY FS_Interval
  <2>2. U \subseteq FiniteSubsetsOf(Nat)
    BY <2>1 DEF FiniteSubsetsOf
  <2>. QED BY <2>2
<1>2. PICK x \in U : \A y \in U : ~(y \subseteq x /\ y # x)
  <2> HIDE DEF U
  <2>. QED BY <1>1, Minimal
<1>3. PICK n \in T : x = 1..n
  OBVIOUS
<1>4. ASSUME NEW m \in T, m < n PROVE FALSE
  <2>1. 1..m \in U /\ 1..m \subseteq 1..n /\ n \notin 1..m /\ n \in 1..n
    BY <1>4
  <2>. QED BY <1>2, <1>3, <2>1
<1>. QED BY <1>4

\* What holds of 0, and of n + 1 once it holds of n, holds of every number.
LEMMA Induction ==
  ASSUME NEW Q, 0 \in Q, \A n \in Nat : n \in Q => n + 1 \in Q
  PROVE  \A n \in Nat : n \in Q
<1>. SUFFICES ASSUME Nat \ Q # {} PROVE FALSE
  OBVIOUS
<1>1. PICK m \in Nat \ Q : \A y \in Nat \ Q : m <= y
  BY Least
<1>2. m - 1 \in Nat /\ m - 1 \in Q
  BY <1>1
<1>. QED BY <1>1, <1>2

\* A value to start with and a step for every index determine a function.
Follows(f, m, L, V, v, G) ==
    f \in [m..L -> V] /\ \A i \in m..L : f[i] = IF i = m THEN v ELSE G[i][f[i - 1]]

LEMMA Recursion ==
  ASSUME NEW m \in Nat, NEW L \in Nat, NEW V, NEW v \in V, NEW G \in [Nat -> [V -> V]]
  PROVE  \E f : Follows(f, m, L, V, v, G)
<1> DEFINE Q == {n \in Nat : \E f : Follows(f, m, n, V, v, G)}
<1>1. 0 \in Q
  <2> DEFINE f == [i \in m..0 |-> v]
  <2>1. Follows(f, m, 0, V, v, G)
    BY DEF Follows
  <2>. QED BY <2>1
<1>2. ASSUME NEW n \in Nat, n \in Q PROVE n + 1 \in Q
  <2>1. PICK f : Follows(f, m, n, V, v, G)
    BY <1>2
  <2> DEFINE g == [i \in m..n + 1 |-> IF i \in m..n THEN f[i]
                                      ELSE IF i = m THEN v ELSE G[i][f[i - 1]]]
  <2>2. \A i \in m..n + 1 : i \in m..n \/ (i = n + 1 /\ (i = m \/ i - 1 \in m..n))
    OBVIOUS
  <2>3. g \in [m..n + 1 -> V]
    <3>1. ASSUME NEW i \in m..n + 1 PROVE g[i] \in V
      BY <2>1, <2>2 DEF Follows
    <3>. QED BY <3>1
  <2>4. Follows(g, m, n + 1, V, v, G)
    <3>. SUFFICES ASSUME NEW i \in m..n + 1
                  PROVE  g[i] = IF i = m THEN v ELSE G[i][g[i - 1]]
      BY <2>3 DEF Follows
    <3>1. CASE i \in m..n
      <4>1. i = m \/ i - 1 \in m..n
        BY <3>1
      <4>. QED BY <2>1, <3>1, <4>1 DEF Follows
    <3>2. CASE i \notin m..n
      <4>1. i = m \/ i - 1 \in m..n
        BY <2>2, <3>2
      <4>. QED BY <3>2, <4>1
    <3>. QED BY <3>1, <3>2
  <2> HIDE DEF g
  <2>. QED BY <2>4
<1>3. \A n \in Nat : n \in Q
  <2> HIDE DEF Q
  <2>. QED BY <1>1, <1>2, Induction
<1>. QED BY <1>3

-----------------------------------------------------------------------------
(* A compiled rule decides from the bars so far.                           *)

Follow(bar, held) == IF held THEN ~bar.exit ELSE bar.entry /\ ~bar.exit

\* The positions of a rule are defined, bar after bar.
LEMMA PositionsDefined ==
  ASSUME NEW bars, Len(bars) \in Nat
  PROVE  /\ Positions(bars)[0] = FALSE
         /\ \A i \in 1..Len(bars) : Positions(bars)[i] = Follow(bars[i], Positions(bars)[i - 1])
<1> DEFINE L == Len(bars)
           P(pos) == pos = [i \in 0..Len(bars) |->
                              IF i = 0 THEN FALSE
                              ELSE IF pos[i - 1] THEN ~bars[i].exit
                              ELSE bars[i].entry /\ ~bars[i].exit]
           G == [i \in Nat |-> [held \in BOOLEAN |-> Follow(bars[i], held)]]
<1>1. G \in [Nat -> [BOOLEAN -> BOOLEAN]]
  BY DEF Follow
<1>2. PICK f \in [0..L -> BOOLEAN] : \A i \in 0..L : f[i] = IF i = 0 THEN FALSE ELSE G[i][f[i - 1]]
  <2>1. 0 \in Nat /\ L \in Nat /\ FALSE \in BOOLEAN
    OBVIOUS
  <2>2. \E f : Follows(f, 0, L, BOOLEAN, FALSE, G)
    <3> HIDE DEF G, L
    <3>. QED BY <1>1, <2>1, Recursion
  <2>. QED BY <2>2 DEF Follows
<1>3. P(f)
  <2>1. ASSUME NEW i \in 0..L
        PROVE  f[i] = IF i = 0 THEN FALSE
                      ELSE IF f[i - 1] THEN ~bars[i].exit
                      ELSE bars[i].entry /\ ~bars[i].exit
    <3>1. CASE i = 0
      BY <1>2, <3>1
    <3>2. CASE i # 0
      <4>1. i \in Nat /\ f[i - 1] \in BOOLEAN /\ f[i] = G[i][f[i - 1]]
        BY <1>2, <3>2
      <4>2. f[i] = Follow(bars[i], f[i - 1])
        BY <4>1
      <4>. QED BY <3>2, <4>2 DEF Follow
    <3>. QED BY <3>1, <3>2
  <2>. QED BY <2>1
<1>4. Positions(bars) = CHOOSE pos : P(pos)
  BY DEF Positions
<1>5. P(Positions(bars))
  <2> HIDE DEF P
  <2>. QED BY <1>3, <1>4
<1>. QED BY <1>5 DEF Follow

\* They depend on no later bar.
LEMMA PositionsCausal ==
  ASSUME NEW bars, NEW other, Len(bars) \in Nat, Len(other) \in Nat,
         NEW n \in Nat, n <= Len(bars), n <= Len(other),
         \A i \in 1..n : bars[i] = other[i]
  PROVE  Positions(bars)[n] = Positions(other)[n]
<1> DEFINE Q == {k \in Nat : k <= n => Positions(bars)[k] = Positions(other)[k]}
<1>1. 0 \in Q
  BY PositionsDefined
<1>2. ASSUME NEW k \in Nat, k \in Q PROVE k + 1 \in Q
  <2>. SUFFICES ASSUME k + 1 <= n PROVE Positions(bars)[k + 1] = Positions(other)[k + 1]
    OBVIOUS
  <2>1. k + 1 \in 1..Len(bars) /\ k + 1 \in 1..Len(other) /\ k + 1 \in 1..n /\ k + 1 - 1 = k
    OBVIOUS
  <2>2. Positions(bars)[k] = Positions(other)[k] /\ bars[k + 1] = other[k + 1]
    BY <1>2, <2>1
  <2>3. /\ Positions(bars)[k + 1] = Follow(bars[k + 1], Positions(bars)[k])
        /\ Positions(other)[k + 1] = Follow(other[k + 1], Positions(other)[k])
    <3>1. \A i \in 1..Len(bars) : Positions(bars)[i] = Follow(bars[i], Positions(bars)[i - 1])
      BY PositionsDefined
    <3>2. \A i \in 1..Len(other) : Positions(other)[i] = Follow(other[i], Positions(other)[i - 1])
      BY PositionsDefined
    <3> HIDE DEF Q
    <3>. QED BY <2>1, <3>1, <3>2
  <2>. QED BY <2>2, <2>3
<1>3. \A k \in Nat : k \in Q
  <2> HIDE DEF Q
  <2>. QED BY <1>1, <1>2, Induction
<1>. QED BY <1>3

-----------------------------------------------------------------------------
(* The longest time under water.                                           *)

Mark == [peak : Nat, longest : Int]

Advance(c, i, w) ==
    IF c[i] >= c[w.peak] THEN [peak |-> i, longest |-> Greater(w.longest, i - w.peak)] ELSE w

\* The walk is defined, point after point.
LEMMA RecoveriesDefined ==
  ASSUME NEW c, Len(c) \in Nat
  PROVE  /\ \A i \in 1..Len(c) : Recoveries(c)[i] \in Mark
         /\ 1 <= Len(c) => Recoveries(c)[1] = [peak |-> 1, longest |-> 0]
         /\ \A i \in 2..Len(c) : Recoveries(c)[i] = Advance(c, i, Recoveries(c)[i - 1])
<1> DEFINE L == Len(c)
           first == [peak |-> 1, longest |-> 0]
           P(walk) == walk = [i \in 1..Len(c) |->
                                IF i = 1 THEN [peak |-> 1, longest |-> 0]
                                ELSE IF c[i] >= c[walk[i - 1].peak]
                                THEN [peak |-> i, longest |-> Greater(walk[i - 1].longest,
                                                                      i - walk[i - 1].peak)]
                                ELSE walk[i - 1]]
           G == [i \in Nat |-> [w \in Mark |-> Advance(c, i, w)]]
<1>1. G \in [Nat -> [Mark -> Mark]] /\ first \in Mark
  <2>1. ASSUME NEW i \in Nat, NEW w \in Mark PROVE Advance(c, i, w) \in Mark
    BY DEF Advance, Mark, Greater
  <2>. QED BY <2>1 DEF Mark
<1>2. PICK f : Follows(f, 1, L, Mark, first, G)
  <2>1. 1 \in Nat /\ L \in Nat
    OBVIOUS
  <2> HIDE DEF G, L, first
  <2>. QED BY <1>1, <2>1, Recursion
<1>3. /\ f \in [1..L -> Mark]
      /\ \A i \in 1..L : f[i] = IF i = 1 THEN first ELSE Advance(c, i, f[i - 1])
  <2>1. ASSUME NEW i \in 1..L, i # 1 PROVE f[i] = Advance(c, i, f[i - 1])
    <3>1. i \in Nat /\ f[i - 1] \in Mark /\ f[i] = G[i][f[i - 1]]
      <4> HIDE DEF G, first
      <4>. QED BY <1>2, <2>1 DEF Follows
    <3>. QED BY <3>1
  <2>. QED BY <1>2, <2>1 DEF Follows
<1>4. P(f)
  BY <1>3 DEF Advance
<1>5. Recoveries(c) = CHOOSE walk : P(walk)
  BY DEF Recoveries
<1>6. P(Recoveries(c))
  <2> HIDE DEF P
  <2>. QED BY <1>4, <1>5
<1> DEFINE W == Recoveries(c)
<1>7. \A i \in 1..L : W[i] = IF i = 1 THEN first ELSE Advance(c, i, W[i - 1])
  BY <1>6 DEF Advance
<1>8. \A i \in 1..L : W[i] \in Mark
  <2> DEFINE Q == {n \in Nat : n + 1 <= L => W[n + 1] \in Mark}
  <2> HIDE DEF W, first
  <2>1. 0 \in Q
    BY <1>1, <1>7
  <2>2. ASSUME NEW n \in Nat, n \in Q PROVE n + 1 \in Q
    <3>. SUFFICES ASSUME n + 2 <= L PROVE W[n + 2] \in Mark
      OBVIOUS
    <3>1. W[n + 1] \in Mark /\ n + 2 \in 1..L /\ n + 2 # 1 /\ n + 2 - 1 = n + 1
      BY <2>2
    <3>2. W[n + 2] = Advance(c, n + 2, W[n + 1])
      <4>1. W[n + 2] = Advance(c, n + 2, W[n + 2 - 1])
        BY <1>7, <3>1
      <4>. QED BY <3>1, <4>1
    <3>. QED BY <3>1, <3>2 DEF Advance, Mark, Greater
  <2>3. \A n \in Nat : n \in Q
    <3> HIDE DEF Q
    <3>. QED BY <2>1, <2>2, Induction
  <2>4. ASSUME NEW i \in 1..L PROVE W[i] \in Mark
    <3>1. i - 1 \in Nat /\ i - 1 \in Q /\ i - 1 + 1 = i
      BY <2>3
    <3>. QED BY <3>1
  <2>. QED BY <2>4
<1>. QED BY <1>7, <1>8

\* From a to b the curve stayed below where it was at a, and came back to it.
CameBack(c, a, b) == a < b /\ c[b] >= c[a] /\ \A k \in a + 1..b - 1 : c[k] < c[a]

\* At point i of the walk: the peak is the last of the highest points, and whatever came
\* back before it did so in the longest time, or less.
Surveyed(c, i, w) ==
    /\ w.peak \in 1..i /\ w.longest \in Nat
    /\ \A j \in 1..i : c[j] <= c[w.peak]
    /\ \A j \in w.peak + 1..i : c[j] < c[w.peak]
    /\ \A a, b \in 1..i : CameBack(c, a, b) => b - a <= w.longest \/ w.peak < a
    /\ w.longest > 0 => \E a, b \in 1..i : CameBack(c, a, b) /\ b - a = w.longest

\* Nobody before the peak can still be waited for.
LEMMA BeyondPeak ==
  ASSUME NEW c \in Seq(Int), NEW i \in Nat, i + 1 \in 1..Len(c), NEW w \in Mark,
         Surveyed(c, i, w), NEW a \in 1..i, \A k \in a + 1..i : c[k] < c[a]
  PROVE  w.peak <= a
<1>. SUFFICES ASSUME a < w.peak PROVE FALSE
  BY DEF Mark
<1>1. w.peak \in a + 1..i /\ c[a] <= c[w.peak] /\ c[a] \in Int /\ c[w.peak] \in Int
  BY DEF Surveyed
<1>. QED BY <1>1

LEMMA SurveyStep ==
  ASSUME NEW c \in Seq(Int), NEW i \in Nat \ {0}, i + 1 \in 1..Len(c), NEW w \in Mark,
         Surveyed(c, i, w)
  PROVE  Surveyed(c, i + 1, Advance(c, i + 1, w))
<1>1. /\ \A j \in 1..i + 1 : c[j] \in Int
      /\ w.peak \in 1..i /\ w.longest \in Nat
      /\ \A j \in 1..i + 1 : j \in 1..i \/ j = i + 1
  BY DEF Surveyed
<1>2. ASSUME NEW a \in 1..i + 1, CameBack(c, a, i + 1) PROVE a \in 1..i /\ w.peak <= a
  BY <1>1, <1>2, BeyondPeak DEF CameBack
<1>3. CASE c[i + 1] >= c[w.peak]
  <2> DEFINE m == Greater(w.longest, i + 1 - w.peak)
             v == [peak |-> i + 1, longest |-> m]
  <2>1. m \in Nat /\ m >= w.longest /\ m >= i + 1 - w.peak /\ m \in {w.longest, i + 1 - w.peak}
    BY <1>1 DEF Greater
  <2>2. Advance(c, i + 1, w) = v
    <3>1. Advance(c, i + 1, w) = [peak |-> i + 1, longest |-> Greater(w.longest, i + 1 - w.peak)]
      BY <1>1, <1>3 DEF Advance, Greater
    <3>. QED BY <3>1
  <2> HIDE DEF m
  <2>6. v.peak = i + 1 /\ v.longest = m
    OBVIOUS
  <2> HIDE DEF v
  <2>3. \A j \in 1..i + 1 : c[j] <= c[i + 1]
    BY <1>1, <1>3 DEF Surveyed
  <2>4. ASSUME NEW a \in 1..i + 1, NEW b \in 1..i + 1, CameBack(c, a, b) PROVE b - a <= m
    <3>1. CASE b = i + 1
      BY <1>1, <1>2, <2>1, <2>4, <3>1
    <3>2. CASE b \in 1..i
      <4>1. a \in 1..i
        BY <2>4, <3>2 DEF CameBack
      <4>2. b - a <= w.longest \/ w.peak < a
        BY <2>4, <3>2, <4>1 DEF Surveyed
      <4>3. b <= i /\ w.peak \in Int /\ w.longest \in Int /\ a \in Int /\ b \in Int
        BY <1>1, <3>2
      <4>. QED BY <2>1, <4>2, <4>3
    <3>. QED BY <1>1, <3>1, <3>2
  <2>5. m > 0 => \E a, b \in 1..i + 1 : CameBack(c, a, b) /\ b - a = m
    <3>1. CASE m = w.longest
      BY <3>1 DEF Surveyed
    <3>2. CASE m = i + 1 - w.peak
      <4>1. CameBack(c, w.peak, i + 1)
        BY <1>1, <1>3 DEF CameBack, Surveyed
      <4>. QED BY <1>1, <3>2, <4>1
    <3>. QED BY <2>1, <3>1, <3>2
  <2>7. \A j \in i + 1 + 1..i + 1 : c[j] < c[i + 1]
    OBVIOUS
  <2>8. Surveyed(c, i + 1, v)
    BY <2>1, <2>3, <2>4, <2>5, <2>6, <2>7 DEF Surveyed
  <2>. QED BY <2>2, <2>8
<1>4. CASE ~(c[i + 1] >= c[w.peak])
  <2>1. Advance(c, i + 1, w) = w
    BY <1>4 DEF Advance
  <2>2. c[i + 1] < c[w.peak]
    BY <1>1, <1>4
  <2>3. ASSUME NEW a \in 1..i + 1, NEW b \in 1..i + 1, CameBack(c, a, b)
        PROVE  b - a <= w.longest \/ w.peak < a
    <3>1. CASE b = i + 1
      <4>1. a \in 1..i /\ w.peak <= a /\ a # w.peak
        BY <1>2, <1>4, <2>3, <3>1 DEF CameBack
      <4>. QED BY <1>1, <4>1
    <3>2. CASE b \in 1..i
      <4>1. a \in 1..i
        BY <2>3, <3>2 DEF CameBack
      <4>. QED BY <2>3, <3>2, <4>1 DEF Surveyed
    <3>. QED BY <1>1, <3>1, <3>2
  <2>4. \A j \in w.peak + 1..i + 1 : c[j] < c[w.peak]
    BY <1>1, <2>2 DEF Surveyed
  <2>5. \A j \in 1..i + 1 : c[j] <= c[w.peak]
    BY <1>1, <2>2 DEF Surveyed
  <2>6. w.longest > 0 => \E a, b \in 1..i + 1 : CameBack(c, a, b) /\ b - a = w.longest
    BY DEF Surveyed
  <2>7. w.peak \in 1..i + 1
    BY <1>1
  <2>8. Surveyed(c, i + 1, w)
    BY <1>1, <2>3, <2>4, <2>5, <2>6, <2>7 DEF Surveyed
  <2>. QED BY <2>1, <2>8
<1>. QED BY <1>3, <1>4

LEMMA Survey ==
  ASSUME NEW c \in Seq(Int)
  PROVE  \A i \in 1..Len(c) : Surveyed(c, i, Recoveries(c)[i])
<1> DEFINE Q == {n \in Nat : n + 1 <= Len(c) => Surveyed(c, n + 1, Recoveries(c)[n + 1])}
<1>1. 0 \in Q
  <2>. SUFFICES ASSUME 1 <= Len(c) PROVE Surveyed(c, 1, [peak |-> 1, longest |-> 0])
    BY RecoveriesDefined
  <2>1. c[1] \in Int
    OBVIOUS
  <2>. QED BY <2>1 DEF Surveyed, CameBack
<1>2. ASSUME NEW n \in Nat, n \in Q PROVE n + 1 \in Q
  <2>. SUFFICES ASSUME n + 2 <= Len(c) PROVE Surveyed(c, n + 2, Recoveries(c)[n + 2])
    OBVIOUS
  <2>1. /\ n + 1 \in Nat \ {0} /\ n + 1 + 1 = n + 2 /\ n + 2 - 1 = n + 1
        /\ n + 1 \in 1..Len(c) /\ n + 2 \in 1..Len(c) /\ n + 2 \in 2..Len(c)
        /\ Surveyed(c, n + 1, Recoveries(c)[n + 1])
    BY <1>2
  <2>2. Recoveries(c)[n + 1] \in Mark
    BY <2>1, RecoveriesDefined
  <2>3. Recoveries(c)[n + 2] = Advance(c, n + 2, Recoveries(c)[n + 1])
    <3>1. Recoveries(c)[n + 2] = Advance(c, n + 2, Recoveries(c)[n + 2 - 1])
      <4>1. \A i \in 2..Len(c) : Recoveries(c)[i] = Advance(c, i, Recoveries(c)[i - 1])
        <5> HIDE DEF Q
        <5>1. Len(c) \in Nat
          OBVIOUS
        <5>. QED BY <5>1, RecoveriesDefined, Zenon
      <4> HIDE DEF Q
      <4>. QED BY <2>1, <4>1
    <3>. QED BY <2>1, <3>1
  <2>4. Surveyed(c, n + 1 + 1, Advance(c, n + 1 + 1, Recoveries(c)[n + 1]))
    <3> HIDE DEF Q
    <3>. QED BY <2>1, <2>2, SurveyStep
  <2>. QED BY <2>1, <2>3, <2>4
<1>3. \A n \in Nat : n \in Q
  <2> HIDE DEF Q
  <2>. QED BY <1>1, <1>2, Induction
<1>4. ASSUME NEW i \in 1..Len(c) PROVE Surveyed(c, i, Recoveries(c)[i])
  <2>1. i - 1 \in Nat /\ i - 1 \in Q /\ i - 1 + 1 = i
    BY <1>3
  <2>. QED BY <2>1
<1>. QED BY <1>4

\* A span of a curve: from a point to the first that is as high again, or to the end.
\* One bar of a rising curve is a span, and no episode.
Span(c, i, j) == /\ i < j /\ \A k \in i + 1..j - 1 : c[k] < c[i]
                 /\ j = Len(c) \/ c[j] >= c[i]

\* What max_drawdown_duration returns is the length of the longest span, for a curve of
\* any length.
LEMMA LongestSpan ==
  ASSUME NEW c \in Seq(Int), NEW d, d = max_drawdown_duration(c)
  PROVE  /\ d \in Nat
         /\ \A i, j \in 1..Len(c) : Span(c, i, j) => j - i <= d
         /\ d > 0 => \E i, j \in 1..Len(c) : Span(c, i, j) /\ j - i = d
<1> DEFINE L == Len(c)
           w == Recoveries(c)[L]
<1>1. CASE L < 2
  <2>1. d = 0 /\ L \in Nat
    BY <1>1 DEF max_drawdown_duration
  <2>. QED BY <1>1, <2>1 DEF Span
<1>2. CASE ~(L < 2)
  <2>1. L \in Nat /\ L >= 2 /\ L \in 1..L /\ w \in Mark /\ Surveyed(c, L, w)
    BY <1>2, Survey, RecoveriesDefined
  <2>2. d = IF c[L] < c[w.peak] THEN Greater(w.longest, L - w.peak) ELSE w.longest
    BY <1>2 DEF max_drawdown_duration
  <2> HIDE DEF w
  <2>3. /\ \A j \in 1..L : c[j] \in Int
        /\ w.peak \in 1..L /\ w.longest \in Nat
    BY <2>1 DEF Surveyed
  <2>4. /\ d \in Nat /\ d >= w.longest
        /\ c[L] < c[w.peak] => d >= L - w.peak
        /\ d = w.longest \/ (d = L - w.peak /\ c[L] < c[w.peak])
    BY <2>1, <2>2, <2>3 DEF Greater
  <2>5. c[L] < c[w.peak] \/ w.peak = L
    BY <2>1, <2>3 DEF Surveyed
  <2>6. ASSUME NEW i \in 1..L, NEW j \in 1..L, Span(c, i, j) PROVE j - i <= d
    <3>1. CASE CameBack(c, i, j)
      <4>1. j - i <= w.longest \/ w.peak < i
        BY <2>1, <3>1 DEF Surveyed
      <4>. QED BY <2>3, <2>4, <2>5, <4>1
    <3>2. CASE ~CameBack(c, i, j)
      <4>1. j = L /\ i < L /\ c[L] < c[i] /\ \A k \in i + 1..L : c[k] < c[i]
        BY <2>1, <2>3, <2>6, <3>2 DEF Span, CameBack
      <4>2. w.peak <= i
        <5>. SUFFICES ASSUME i < w.peak PROVE FALSE
          BY <2>3
        <5>1. w.peak \in i + 1..L /\ c[i] <= c[w.peak]
          BY <2>1, <2>3 DEF Surveyed
        <5>. QED BY <2>3, <4>1, <5>1
      <4>. QED BY <2>1, <2>3, <2>4, <2>5, <4>1, <4>2
    <3>. QED BY <3>1, <3>2
  <2>7. ASSUME d > 0 PROVE \E i, j \in 1..L : Span(c, i, j) /\ j - i = d
    <3>1. CASE d = w.longest
      BY <2>1, <2>7, <3>1 DEF Surveyed, CameBack, Span
    <3>2. CASE d = L - w.peak /\ c[L] < c[w.peak]
      <4>1. Span(c, w.peak, L)
        BY <2>1, <2>3, <2>7, <3>2 DEF Surveyed, Span
      <4>. QED BY <2>1, <2>3, <3>2, <4>1
    <3>. QED BY <2>4, <3>1, <3>2
  <2>. QED BY <2>4, <2>6, <2>7
<1>. QED BY <1>1, <1>2

\* A curve that sank has an episode: where it first fell.
LEMMA SomeEpisode ==
  ASSUME NEW c \in Seq(Int), Sank(c)
  PROVE  \E i, j \in 1..Len(c) : Episode(c, i, j)
<1> DEFINE L == Len(c)
           Low == {j \in 1..L : \E i \in 1..L : i < j /\ c[j] < c[i]}
<1>1. L \in Nat /\ \A j \in 1..L : c[j] \in Int
  OBVIOUS
<1>2. PICK m \in Low : \A j \in Low : m <= j
  <2>1. Low \subseteq Nat /\ Low # {}
    BY DEF Sank
  <2> HIDE DEF Low
  <2>. QED BY <2>1, Least
<1>3. PICK i \in 1..L : i < m /\ c[m] < c[i]
  BY <1>2
<1>4. PICK p \in 1..L : p + 1 = m
  <2>1. m - 1 \in 1..L /\ m - 1 + 1 = m
    BY <1>1, <1>2, <1>3
  <2>. QED BY <2>1
<1>5. c[p + 1] < c[p]
  <2>1. CASE i = p
    BY <1>3, <1>4, <2>1
  <2>2. CASE i # p
    <3>1. i < p /\ ~(m <= p)
      BY <1>1, <1>3, <1>4, <2>2
    <3>2. ~(c[p] < c[i])
      BY <1>2, <3>1
    <3>. QED BY <1>1, <1>3, <1>4, <3>2
  <2>. QED BY <2>1, <2>2
<1> DEFINE Ends == {j \in p + 1..L : j = L \/ c[j] >= c[p]}
<1>6. PICK e \in Ends : \A j \in Ends : e <= j
  <2>1. Ends \subseteq Nat /\ L \in Ends
    BY <1>1, <1>4
  <2> HIDE DEF Ends
  <2>. QED BY <2>1, Least
<1>7. e \in 1..L /\ p < e /\ (e = L \/ c[e] >= c[p])
  BY <1>1, <1>6
<1>8. ASSUME NEW k \in p + 1..e - 1 PROVE c[k] < c[p]
  <2>1. k \in p + 1..L /\ k \in 1..L /\ ~(e <= k)
    BY <1>1, <1>7
  <2>2. ~(c[k] >= c[p])
    BY <1>6, <2>1
  <2>3. c[k] \in Int /\ c[p] \in Int
    BY <1>1, <1>4, <2>1
  <2> HIDE DEF Low, Ends
  <2>. QED BY <2>2, <2>3
<1>9. Episode(c, p, e)
  BY <1>5, <1>7, <1>8 DEF Episode
<1>. QED BY <1>7, <1>9

\* Of a curve that sank the longest span is an episode.
LEMMA LongestEpisode ==
  ASSUME NEW c \in Seq(Int), NEW d, d = max_drawdown_duration(c), Sank(c)
  PROVE  /\ \A i, j \in 1..Len(c) : Episode(c, i, j) => j - i <= d
         /\ \E i, j \in 1..Len(c) : Episode(c, i, j) /\ j - i = d
<1>1. /\ \A i, j \in 1..Len(c) : Span(c, i, j) => j - i <= d
      /\ d > 0 => \E i, j \in 1..Len(c) : Span(c, i, j) /\ j - i = d
  BY LongestSpan
<1>2. \A i, j \in 1..Len(c) : Episode(c, i, j) => Span(c, i, j)
  BY DEF Episode, Span
<1>3. PICK a \in 1..Len(c), b \in 1..Len(c) : Episode(c, a, b)
  BY SomeEpisode
<1>4. a < b /\ b - a <= d /\ d \in Int
  <2>1. d \in Int
    BY LongestSpan
  <2>. QED BY <1>1, <1>2, <1>3, <2>1 DEF Episode
<1>5. PICK i \in 1..Len(c), j \in 1..Len(c) : Span(c, i, j) /\ j - i = d
  BY <1>1, <1>4
<1>6. CASE c[i + 1] < c[i]
  BY <1>2, <1>1, <1>5, <1>6 DEF Episode, Span
<1>7. CASE ~(c[i + 1] < c[i])
  <2>1. ~(i + 1 \in i + 1..j - 1) /\ i < j
    BY <1>5, <1>7 DEF Span
  <2>2. d = 1 /\ b - a = d
    BY <1>4, <1>5, <2>1
  <2>. QED BY <1>1, <1>2, <1>3, <2>2
<1>. QED BY <1>6, <1>7

-----------------------------------------------------------------------------
(* What a fill does to the two accounts.                                   *)

\* A price some recorded bar may fill at.
Price(p) == p \in Nat \ {0} /\ (Size \div p) * p = Size

LEMMA PriceFacts ==
  ASSUME NEW p, Price(p)
  PROVE  /\ p \in Nat \ {0} /\ Size \div p \in Nat \ {0} /\ (Size \div p) * p = Size
         /\ \A n \in Int : n \div p \in Int
         /\ \A n \in Nat : n \div p \in Nat
         /\ \A n \in Int : n * p \in Int
         /\ \A n \in Int : n * p >= Size => n >= Size \div p
<1>1. p \in Nat \ {0} /\ Size \in Nat \ {0} /\ (Size \div p) * p = Size
  BY MoneyAssumption DEF Price
<1> DEFINE q == Size \div p
<1>2. q \in Int /\ \A n \in Int : n \div p \in Int
  BY <1>1
<1>3. \A n \in Nat : n \div p \in Nat
  BY <1>1
<1>4. q * p = Size
  BY <1>1
<1> HIDE DEF q
<1>5. q > 0
  <2>1. q <= 0 => q * p <= 0
    BY <1>1, <1>2
  <2>. QED BY <1>1, <1>2, <1>4, <2>1
<1>6. ASSUME NEW n \in Int, n * p >= Size PROVE n >= q
  <2>1. n + 1 <= q => (n + 1) * p <= q * p
    BY <1>1, <1>2
  <2>2. (n + 1) * p = n * p + p
    BY <1>1
  <2>. QED BY <1>1, <1>2, <1>4, <1>6, <2>1, <2>2
<1>. QED BY <1>1, <1>2, <1>3, <1>4, <1>5, <1>6 DEF q

LEMMA CostType == /\ \A usd \in Int : Cost(usd) \in Int
                  /\ Gas \in Nat /\ Size \in Nat /\ Capital \in Nat
<1>1. Gas \in Nat /\ Rate \in Int /\ Size \in Nat /\ Capital \in Nat
  BY MoneyAssumption
<1>2. \A usd \in Int : usd * Rate \in Int
  BY <1>1
<1>. QED BY <1>1, <1>2 DEF Cost

\* An account that owes no units.
Sane == {a \in Account : a.units >= 0}

LEMMA ExecutedType ==
  ASSUME NEW a \in Sane, NEW side \in {"buy", "sell"}, NEW p, Price(p)
  PROVE  Executed(a, side, p) \in Nat /\ (side = "sell" => Executed(a, side, p) <= a.units)
<1>1. a.units \in Nat /\ a.cash \in Int
  BY DEF Sane, Account
<1>2. Greater(Lesser(Size, a.cash - Gas), 0) \in Nat
  BY <1>1, CostType DEF Greater, Lesser
<1>. QED BY <1>1, <1>2, PriceFacts DEF Executed, Lesser

LEMMA FillTyped ==
  ASSUME NEW a \in Sane, NEW side \in {"buy", "sell"}, NEW p, Price(p)
  PROVE  /\ Fill(a, side, p) \in Sane
         /\ Fill(a, side, p).impossible = a.impossible + IF Impossible(a, side, p) THEN 1 ELSE 0
<1> DEFINE units == Executed(a, side, p)
           cost  == Cost(units * p)
           count == a.impossible + IF Impossible(a, side, p) THEN 1 ELSE 0
<1>1. /\ a.units \in Nat /\ a.cash \in Int /\ a.entry \in [price : Int, cost : Int] /\ a.pnl \in Int
      /\ a.impossible \in Nat /\ a.remainder \in BOOLEAN /\ a \in Account
  BY DEF Sane, Account
<1>2. units \in Nat /\ p \in Nat /\ (side = "sell" => units <= a.units)
  BY ExecutedType, PriceFacts
<1>3. units * p \in Int /\ cost \in Int /\ count \in Nat
  <2>1. units * p \in Int
    BY <1>2, PriceFacts
  <2>. QED BY <1>1, <2>1, CostType
<1>4. Fill(a, side, p) = IF units = 0 THEN [a EXCEPT !.impossible = count]
                         ELSE IF side = "buy" THEN Bought(a, units, p, cost, count)
                         ELSE Sold(a, units, p, cost, count)
  BY DEF Fill
<1>5. Realised(a, units, p, cost) \in Int
  <2>1. a.entry.price \in Int /\ a.entry.cost \in Int
    BY <1>1
  <2>2. (p - a.entry.price) * units \in Int
    BY <1>2, <2>1
  <2>. QED BY <1>3, <2>1, <2>2 DEF Realised
<1> HIDE DEF units, cost, count
<1>6. [a EXCEPT !.impossible = count] \in Sane /\ [a EXCEPT !.impossible = count].impossible = count
  BY <1>1, <1>3 DEF Sane, Account
<1>7. /\ Bought(a, units, p, cost, count) \in Sane
      /\ Bought(a, units, p, cost, count).impossible = count
  <2>1. [price |-> p, cost |-> cost] \in [price : Int, cost : Int]
    BY <1>2, <1>3
  <2>. QED BY <1>1, <1>2, <1>3, <2>1 DEF Bought, Sane, Account
<1>8. /\ Sold(a, units, p, cost, count) \in Sane
      /\ Sold(a, units, p, cost, count).impossible = count
  <2>1. Greater(a.units - units, 0) \in Nat
    BY <1>1, <1>2 DEF Greater
  <2>2. /\ a.cash + units * p - cost \in Int /\ NoEntry \in [price : Int, cost : Int]
        /\ a.pnl + Realised(a, units, p, cost) \in Int
        /\ (a.remainder \/ units < a.units) \in BOOLEAN
    BY <1>1, <1>3, <1>5 DEF NoEntry
  <2> DEFINE r == Sold(a, units, p, cost, count)
  <2>3. r = [cash |-> a.cash + units * p - cost, units |-> Greater(a.units - units, 0),
             entry |-> NoEntry, pnl |-> a.pnl + Realised(a, units, p, cost),
             impossible |-> count, remainder |-> a.remainder \/ units < a.units]
    BY DEF Sold
  <2> HIDE DEF r
  <2>4. r \in Account /\ r.units >= 0 /\ r.impossible = count
    BY <1>3, <2>1, <2>2, <2>3 DEF Account
  <2>. QED BY <2>4 DEF r, Sane
<1>. QED BY <1>4, <1>6, <1>7, <1>8 DEF count

\* An order the engine had nothing to cut from moves both accounts alike.
LEMMA FillMirrors ==
  ASSUME NEW a \in Sane, NEW side \in {"buy", "sell"}, NEW p, Price(p), ~Impossible(a, side, p),
         NEW b, b.cash = a.cash, b.units = a.units
  PROVE  /\ PaperFill(b, side, p).cash = Fill(a, side, p).cash
         /\ PaperFill(b, side, p).units = Fill(a, side, p).units
<1> DEFINE q == Size \div p
<1>1. /\ q \in Nat \ {0} /\ q * p = Size /\ p \in Nat \ {0} /\ Size \in Nat
      /\ \A n \in Int : n * p >= Size => n >= q
  BY PriceFacts, CostType
<1>2. a.units \in Nat /\ a.cash \in Int /\ a.units * p \in Int /\ Gas \in Nat
  BY <1>1, CostType DEF Sane, Account
<1>3. Executed(a, side, p) = q
  <2>1. CASE side = "sell"
    <3>1. a.units * p >= Size
      BY <1>1, <1>2, <2>1 DEF Impossible
    <3>2. a.units >= q
      BY <1>1, <1>2, <3>1
    <3>. QED BY <1>1, <1>2, <2>1, <3>2 DEF Executed, Lesser
  <2>2. CASE side = "buy"
    <3>1. Size <= a.cash - Gas
      BY <1>1, <1>2, <2>2 DEF Impossible
    <3>2. Greater(Lesser(Size, a.cash - Gas), 0) = Size
      BY <1>1, <1>2, <3>1 DEF Greater, Lesser
    <3>. QED BY <2>2, <3>2 DEF Executed
  <2>. QED BY <2>1, <2>2
<1>4. side = "sell" => q <= a.units
  BY <1>2, <1>3, ExecutedType
<1>5. Cost(Size) \in Int
  BY <1>1, CostType
<1> DEFINE count == a.impossible + IF Impossible(a, side, p) THEN 1 ELSE 0
<1>6. Fill(a, side, p) = IF side = "buy" THEN Bought(a, q, p, Cost(Size), count)
                         ELSE Sold(a, q, p, Cost(Size), count)
  <2> HIDE DEF q
  <2>. QED BY <1>1, <1>3 DEF Fill
<1>7. PaperFill(b, side, p) =
        IF side = "buy" THEN [cash |-> b.cash - Size - Cost(Size), units |-> b.units + q]
        ELSE [cash |-> b.cash + Size - Cost(Size), units |-> b.units - Lesser(q, b.units)]
  BY DEF PaperFill
<1> HIDE DEF q, count
<1>8. CASE side = "buy"
  BY <1>1, <1>2, <1>5, <1>6, <1>7, <1>8 DEF Bought
<1>9. CASE side = "sell"
  <2>1. Sold(a, q, p, Cost(Size), count).cash = a.cash + Size - Cost(Size)
    BY <1>1, <1>2, <1>5 DEF Sold
  <2>2. Sold(a, q, p, Cost(Size), count).units = a.units - q
    BY <1>1, <1>2, <1>4, <1>9 DEF Sold, Greater
  <2>. QED BY <1>1, <1>2, <1>4, <1>6, <1>7, <1>9, <2>1, <2>2 DEF Lesser
<1>. QED BY <1>8, <1>9

\* A flat account whose cash the closed trades explain, and one that holds a position
\* bought in one go.
Flat(a) == a.units = 0 /\ a.entry = NoEntry /\ a.cash = Capital + a.pnl
Long(a) == /\ a.units > 0 /\ a.entry # NoEntry
           /\ a.cash = Capital + a.pnl - a.units * a.entry.price - a.entry.cost

LEMMA FillExplains ==
  ASSUME NEW a \in Sane, NEW side \in {"buy", "sell"}, NEW p, Price(p)
  PROVE  /\ a.remainder => Fill(a, side, p).remainder
         /\ Flat(a) /\ side = "buy" => Flat(Fill(a, side, p)) \/ Long(Fill(a, side, p))
         /\ Flat(a) /\ side = "sell" => Flat(Fill(a, side, p))
         /\ Long(a) /\ side = "sell" => Flat(Fill(a, side, p)) \/ Fill(a, side, p).remainder
<1> DEFINE units == Executed(a, side, p)
           cost  == Cost(units * p)
           count == a.impossible + IF Impossible(a, side, p) THEN 1 ELSE 0
           f     == Fill(a, side, p)
<1>1. /\ a.units \in Nat /\ a.cash \in Int /\ a.entry \in [price : Int, cost : Int] /\ a.pnl \in Int
      /\ a.impossible \in Nat /\ a.remainder \in BOOLEAN /\ a \in Account /\ Capital \in Nat
  BY CostType DEF Sane, Account
<1>2. units \in Nat /\ p \in Nat \ {0} /\ (side = "sell" => units <= a.units)
  BY ExecutedType, PriceFacts
<1>3. units * p \in Int /\ cost \in Int /\ count \in Nat
  <2>1. units * p \in Int
    BY <1>2, PriceFacts
  <2>. QED BY <1>1, <2>1, CostType
<1>4. f = IF units = 0 THEN [a EXCEPT !.impossible = count]
          ELSE IF side = "buy" THEN Bought(a, units, p, cost, count)
          ELSE Sold(a, units, p, cost, count)
  BY DEF Fill
<1>5. side = "sell" /\ a.units > 0 => units > 0
  <2>1. Size \div p \in Nat \ {0}
    BY PriceFacts
  <2>. QED BY <1>1, <2>1 DEF Executed, Lesser
<1> HIDE DEF units, cost, count, f
<1>6. CASE units = 0
  <2>1. /\ f.units = a.units /\ f.entry = a.entry /\ f.cash = a.cash /\ f.pnl = a.pnl
        /\ f.remainder = a.remainder
    BY <1>1, <1>4, <1>6 DEF Account
  <2>. QED BY <1>1, <1>5, <1>6, <2>1 DEF Flat, Long, f
<1>7. CASE units # 0 /\ side = "buy"
  <2>1. /\ f.cash = a.cash - units * p - cost /\ f.units = a.units + units
        /\ f.entry = IF a.entry = NoEntry THEN [price |-> p, cost |-> cost] ELSE a.entry
        /\ f.pnl = a.pnl /\ f.remainder = a.remainder
    BY <1>4, <1>7 DEF Bought
  <2>2. ASSUME Flat(a) PROVE Long(f)
    <3>1. f.entry = [price |-> p, cost |-> cost] /\ f.units = units
      BY <1>2, <2>1, <2>2 DEF Flat
    <3>2. f.entry # NoEntry /\ f.entry.price = p /\ f.entry.cost = cost
      BY <1>2, <3>1 DEF NoEntry
    <3>3. f.cash = Capital + f.pnl - f.units * f.entry.price - f.entry.cost
      BY <1>1, <1>3, <2>1, <2>2, <3>1, <3>2 DEF Flat
    <3>. QED BY <1>2, <1>7, <3>1, <3>2, <3>3 DEF Long
  <2>. QED BY <1>7, <2>1, <2>2 DEF f
<1>8. CASE units # 0 /\ side = "sell"
  <2>1. /\ f.cash = a.cash + units * p - cost /\ f.units = Greater(a.units - units, 0)
        /\ f.entry = NoEntry /\ f.pnl = a.pnl + Realised(a, units, p, cost)
        /\ f.remainder = (a.remainder \/ units < a.units)
    BY <1>4, <1>8 DEF Sold
  <2>2. ~Flat(a)
    BY <1>2, <1>8 DEF Flat
  <2>3. ASSUME Long(a), ~f.remainder PROVE Flat(f)
    <3>1. units = a.units
      <4>1. ~(units < a.units)
        BY <2>1, <2>3, Zenon
      <4>2. units <= a.units
        BY <1>2, <1>8
      <4>. QED BY <1>1, <1>2, <4>1, <4>2
    <3>2. f.units = 0
      BY <1>1, <2>1, <3>1 DEF Greater
    <3> DEFINE e == a.entry.price
               k == a.entry.cost
    <3>3. e \in Int /\ k \in Int
      BY <1>1
    <3>4. Realised(a, units, p, cost) = (p - e) * units - cost - k
      BY <2>3 DEF Realised, Long
    <3>5. (p - e) * units = units * p - units * e
      BY <1>2, <3>3
    <3>6. a.cash = Capital + a.pnl - units * e - k /\ units * e \in Int
      BY <1>2, <2>3, <3>1, <3>3 DEF Long
    <3> HIDE DEF e, k
    <3>7. f.cash = Capital + f.pnl
      BY <1>1, <1>3, <2>1, <3>3, <3>4, <3>5, <3>6
    <3>. QED BY <2>1, <3>2, <3>7 DEF Flat
  <2>. QED BY <1>8, <2>1, <2>2, <2>3 DEF f
<1>. QED BY <1>6, <1>7, <1>8

-----------------------------------------------------------------------------
(* The states of a run.                                                    *)

Purposes == {"idle", "train", "test", "split", "row", "dev", "holdout"}
Orders   == {"none", "buy", "sell"}
Values   == {objective(c) : c \in Seq(Int)}
Picks    == Nat \cup {Best(s) : s \in Seq(Values)}
Legs     == [symbol : DOMAIN Symbols, from : Nat \ {0}, to : 0..Length,
             purpose : Purposes, pick : Picks]
Rows     == [leg : Legs, objective : Values]

\* What runs lies within the recordings; a parameter that is still being counted is a
\* number, and the bars of a test follow a training span.
LegOK == /\ leg \in Legs /\ leg.from + at <= leg.to + 1
         /\ leg.purpose \in {"idle", "train", "row"} => leg.pick \in Nat
         /\ leg.purpose = "train" => Train <= leg.to \/ job.kind # "walk"
         /\ leg.purpose = "test" => Train < leg.from

EngineOK == /\ at \in Nat /\ believed \in BOOLEAN /\ pending \in Orders
            /\ acct \in Sane /\ book \in [cash : Int, units : Int] /\ curve \in Seq(Int)
            /\ pending = "buy" => believed
            /\ ~Late => pending = "none"

RunInv == /\ tape \in [DOMAIN Symbols -> Tapes] /\ job \in [kind : Jobs, symbol : DOMAIN Symbols]
          /\ LegOK /\ EngineOK
          /\ scores \in Seq(Values) /\ done \in Seq(Rows)

LEMMA PlanFacts ==
  /\ Length \in Nat \ {0} /\ Len(Symbols) \in Nat \ {0} /\ DOMAIN Symbols = 1..Len(Symbols)
  /\ Train \in Nat \ {0} /\ Test \in Nat \ {0} /\ MinTrain \in Nat /\ Len(Grid) \in Nat \ {0}
  /\ Split \in 0..Length /\ Cut \in 0..Length /\ Idle \in Legs
<1>1. Length \in Nat \ {0} /\ Len(Symbols) \in Nat \ {0} /\ DOMAIN Symbols = 1..Len(Symbols)
  BY TapeAssumption
<1>2. /\ Train \in Nat \ {0} /\ Test \in Nat \ {0} /\ MinTrain \in Nat /\ Len(Grid) \in Nat \ {0}
      /\ HoldoutBars \in Nat
  BY PlanAssumption
<1>3. Split \in 0..Length
  <2> DEFINE n == Length
  <2>1. n \in Nat
    BY <1>1
  <2> HIDE DEF n
  <2>2. (n * 7) \div 10 \in 0..n
    BY <2>1
  <2>. QED BY <2>2 DEF Split, n
<1>4. Cut \in 0..Length
  BY <1>1, <1>2 DEF Cut, Lesser
<1>5. Idle \in Legs
  BY <1>1 DEF Idle, Leg, Legs, Purposes, Picks
<1>. QED BY <1>1, <1>2, <1>3, <1>4, <1>5

LEMMA StartOK ==
  ASSUME NEW next \in Legs, Start(next), next.from <= next.to + 1,
         next.purpose \in {"idle", "train", "row"} => next.pick \in Nat,
         next.purpose = "train" => Train <= next.to \/ job'.kind # "walk",
         next.purpose = "test" => Train < next.from
  PROVE  LegOK' /\ EngineOK'
<1>1. Fresh \in Sane /\ [cash |-> Capital, units |-> 0] \in [cash : Int, units : Int]
  BY CostType DEF Fresh, Sane, Account, NoEntry
<1>2. <<>> \in Seq(Int)
  OBVIOUS
<1>3. leg' = next /\ at' = 0 /\ believed' = FALSE /\ pending' = "none" /\ acct' = Fresh
      /\ book' = [cash |-> Capital, units |-> 0] /\ curve' = <<>>
  BY DEF Start
<1>4. next.from + 0 <= next.to + 1
  BY PlanFacts DEF Legs
<1>5. LegOK'
  BY <1>3, <1>4 DEF LegOK
<1>6. EngineOK'
  BY <1>1, <1>2, <1>3 DEF EngineOK, Orders
<1>. QED BY <1>5, <1>6

LEMMA TrainLegOK ==
  ASSUME NEW start \in Nat, start + Train < Length, job \in [kind : Jobs, symbol : DOMAIN Symbols],
         NEW l, l = TrainLeg(start, 1)
  PROVE  /\ l \in Legs /\ l.from <= l.to + 1 /\ l.pick \in Nat /\ l.purpose = "train"
         /\ l.from = start + 1 /\ l.to = start + Train
  BY PlanFacts DEF TrainLeg, Leg, Legs, Purposes, Picks

LEMMA PositionsBoolean ==
  ASSUME NEW bars, Len(bars) \in Nat, NEW i \in 0..Len(bars)
  PROVE  Positions(bars)[i] \in BOOLEAN
<1>1. CASE i = 0
  BY <1>1, PositionsDefined
<1>2. CASE i \in 1..Len(bars)
  <2>1. Positions(bars)[i] = Follow(bars[i], Positions(bars)[i - 1])
    BY <1>2, PositionsDefined
  <2>2. \A bar, held : Follow(bar, held) \in BOOLEAN
    BY DEF Follow
  <2>. QED BY <2>1, <2>2
<1>. QED BY <1>1, <1>2

\* The bar at hand is one of the recording's, and the slice is the bars of the leg.
LEMMA BarAtHand ==
  ASSUME RunInv, leg.from + at <= leg.to
  PROVE  /\ leg.from + at \in 1..Length /\ leg.symbol \in DOMAIN Symbols
         /\ tape[leg.symbol] \in Tapes /\ Len(tape[leg.symbol]) = Length
         /\ Now = tape[leg.symbol][leg.from + at]
         /\ Len(Slice) = leg.to - leg.from + 1
         /\ at + 1 \in 1..Len(Slice)
         /\ \A i \in 1..Len(Slice) : Slice[i] = tape[leg.symbol][leg.from + i - 1]
<1> DEFINE t == tape[leg.symbol]
           from == leg.from
           to == leg.to
<1>1. /\ leg.symbol \in DOMAIN Symbols /\ from \in Nat \ {0} /\ to \in 0..Length /\ at \in Nat
      /\ from + at <= to /\ Length \in Nat
  BY PlanFacts DEF RunInv, LegOK, EngineOK, Legs
<1>2. t \in Tapes
  BY <1>1 DEF RunInv
<1>3. Len(t) = Length /\ t \in Seq({t[i] : i \in 1..Length})
  BY <1>2, TapeAssumption
<1>4. Slice = SubSeq(t, from, to) /\ Now = t[from + at]
  BY DEF Slice, Now
<1> HIDE DEF t, from, to
<1>5. /\ Len(SubSeq(t, from, to)) = to - from + 1
      /\ \A i \in 1..to - from + 1 : SubSeq(t, from, to)[i] = t[from + i - 1]
  <2> DEFINE S == {t[i] : i \in 1..Length}
  <2>1. t \in Seq(S)
    BY <1>3
  <2> HIDE DEF S
  <2>2. from \in 1..Len(t) + 1 /\ to \in from - 1..Len(t)
    BY <1>1, <1>3
  <2>. QED BY <1>1, <2>1, <2>2, SubSeqProperties
<1>6. from + at \in 1..Length /\ at + 1 \in 1..to - from + 1
  BY <1>1
<1>. QED BY <1>1, <1>2, <1>3, <1>4, <1>5, <1>6 DEF t, from, to

LEMMA OrderType ==
  ASSUME RunInv, leg.from + at <= leg.to
  PROVE  Order \in Orders /\ (Order = "buy" => ~believed) /\ (Order = "sell" => believed)
<1>1. ASSUME NEW want \in BOOLEAN, NEW held \in BOOLEAN
      PROVE  LET o == rule_to_strategy(want, held)
             IN o \in Orders /\ (o = "buy" => ~held) /\ (o = "sell" => held)
  BY DEF rule_to_strategy, Orders
<1>2. ASSUME NEW params, NEW n, NEW bar, NEW held \in BOOLEAN
      PROVE  LET o == Signal(params, n, bar, held)
             IN o \in Orders /\ (o = "buy" => ~held) /\ (o = "sell" => held)
  BY DEF Signal, Orders
<1>3. Wanted \in BOOLEAN
  <2>1. Positions(tape[leg.symbol])[leg.from + at] \in BOOLEAN
    <3>1. Len(tape[leg.symbol]) \in Nat /\ leg.from + at \in 0..Len(tape[leg.symbol])
      BY BarAtHand, PlanFacts
    <3>. QED BY <3>1, PositionsBoolean
  <2>2. Positions(Slice)[at + 1] \in BOOLEAN
    <3>1. Len(Slice) \in Nat /\ at + 1 \in 0..Len(Slice)
      BY BarAtHand DEF RunInv, LegOK, Legs
    <3>. QED BY <3>1, PositionsBoolean
  <2>. QED BY <2>1, <2>2 DEF Wanted
<1>4. believed \in BOOLEAN
  BY DEF RunInv, EngineOK
<1>. QED BY <1>1, <1>2, <1>3, <1>4 DEF Order

\* A price at which a bar fills.
LEMMA BarPrices ==
  ASSUME RunInv, leg.from + at <= leg.to
  PROVE  /\ Price(Now.open) /\ Now.close \in Nat
         /\ \A side \in {"buy", "sell"} : Price(Slipped(side))
<1>1. PICK t \in Tapes, i \in 1..Length : Now = t[i]
  BY BarAtHand
<1>2. \A p \in Prices(t[i]) : Price(p)
  BY <1>1, PriceAssumption DEF Price
<1>. QED BY <1>1, <1>2, PriceAssumption DEF Prices, Slipped

\* What waited for the open is filled first.
LEMMA OpenedType ==
  ASSUME RunInv, leg.from + at <= leg.to
  PROVE  Opened \in Sane /\ acct.impossible <= Opened.impossible
         /\ (acct.remainder => Opened.remainder)
<1>1. acct \in Sane /\ pending \in Orders /\ acct.impossible \in Nat
  BY DEF RunInv, EngineOK, Sane, Account
<1>2. CASE pending = "none"
  BY <1>1, <1>2 DEF Opened
<1>3. CASE pending # "none"
  <2>1. pending \in {"buy", "sell"} /\ Price(Now.open)
    BY <1>1, <1>3, BarPrices DEF Orders
  <2> DEFINE f == Fill(acct, pending, Now.open)
             p == Now.open
  <2>2. Opened = f
    BY <1>3 DEF Opened
  <2>3. f \in Sane /\ f.impossible = acct.impossible + (IF Impossible(acct, pending, p) THEN 1 ELSE 0)
    BY <1>1, <2>1, FillTyped
  <2>4. acct.remainder => f.remainder
    BY <1>1, <2>1, FillExplains
  <2> HIDE DEF f
  <2>. QED BY <1>1, <2>2, <2>3, <2>4
<1>. QED BY <1>2, <1>3

LEMMA RunBarOK ==
  ASSUME RunInv, RunBar
  PROVE  RunInv'
<1>1. leg.from + at <= leg.to
  BY DEF RunBar
<1>2. Opened \in Sane /\ Order \in Orders /\ (Order = "buy" => ~believed)
  BY <1>1, OpenedType, OrderType
<1>3. Order # "none" => Order \in {"buy", "sell"} /\ Price(Slipped(Order))
  BY <1>1, <1>2, BarPrices DEF Orders
<1>4. acct' \in Sane
  BY <1>2, <1>3, FillTyped DEF RunBar
<1>5. book' \in [cash : Int, units : Int]
  <2> DEFINE p == Slipped(Order)
  <2>1. CASE Late \/ Order = "none"
    BY <2>1 DEF RunBar, RunInv, EngineOK
  <2>2. CASE ~(Late \/ Order = "none")
    <3>1. book' = PaperFill(book, Order, p)
      BY <2>2 DEF RunBar
    <3>2. book.cash \in Int /\ book.units \in Int /\ Size \in Int /\ Cost(Size) \in Int
      BY CostType DEF RunInv, EngineOK
    <3>3. Size \div p \in Int
      BY <1>3, <2>2, PriceFacts
    <3>4. Lesser(Size \div p, book.units) \in Int
      BY <3>2, <3>3 DEF Lesser
    <3> HIDE DEF p
    <3>. QED BY <3>1, <3>2, <3>3, <3>4 DEF PaperFill
  <2>. QED BY <2>1, <2>2
<1>6. curve' \in Seq(Int)
  <2>1. acct'.cash \in Int /\ acct'.units \in Int /\ Now.close \in Int
    BY <1>1, <1>4, BarPrices DEF Sane, Account
  <2>2. acct'.cash + acct'.units * Now.close \in Int
    BY <2>1
  <2>3. curve \in Seq(Int) /\ curve' = Append(curve, acct'.cash + acct'.units * Now.close)
    BY DEF RunInv, EngineOK, RunBar
  <2>. QED BY <2>2, <2>3
<1>7. at' = at + 1 /\ at \in Nat /\ leg' = leg /\ job' = job /\ tape' = tape
      /\ scores' = scores /\ done' = done
      /\ pending' = (IF Late THEN Order ELSE "none")
      /\ believed' = (IF Order = "none" THEN believed ELSE Order = "buy") /\ believed \in BOOLEAN
      /\ leg.from \in Nat /\ leg.to \in Nat
  BY PlanFacts DEF RunBar, RunInv, EngineOK, LegOK, Legs
<1>8. EngineOK'
  <2>1. pending' \in Orders /\ at' \in Nat
    BY <1>2, <1>7 DEF Orders
  <2>4. believed' \in BOOLEAN
    <3>1. believed' = (IF Order = "none" THEN believed ELSE Order = "buy") /\ believed \in BOOLEAN
      BY <1>7
    <3>. QED BY <3>1, Zenon
  <2>2. pending' = "buy" => believed'
    BY <1>7
  <2>3. ~Late' => pending' = "none"
    BY <1>7 DEF Late
  <2>. QED BY <1>4, <1>5, <1>6, <2>1, <2>2, <2>3, <2>4 DEF EngineOK
<1>9. LegOK'
  BY <1>1, <1>7 DEF LegOK, RunInv
<1>. QED BY <1>7, <1>8, <1>9 DEF RunInv

\* What a leg leaves behind.
LEMMA PublishedType ==
  ASSUME RunInv
  PROVE  /\ Published \in Seq(Rows) /\ Append(scores, objective(curve)) \in Seq(Values)
         /\ Len(Published) = Len(done) + 1 /\ Published[Len(done) + 1].leg = leg
         /\ \A k \in 1..Len(done) : Published[k] = done[k]
<1>1. objective(curve) \in Values /\ leg \in Legs /\ done \in Seq(Rows) /\ scores \in Seq(Values)
  BY DEF RunInv, EngineOK, LegOK, Values
<1>2. [leg |-> leg, objective |-> objective(curve)] \in Rows
  BY <1>1 DEF Rows
<1>. QED BY <1>1, <1>2 DEF Published

LEMMA OptimiseOK ==
  ASSUME RunInv, Optimise
  PROVE  RunInv'
<1> DEFINE tried == Append(scores, objective(curve))
           end   == leg.to
<1>1. tried \in Seq(Values)
  BY PublishedType
<1>2. /\ leg \in Legs /\ job \in [kind : Jobs, symbol : DOMAIN Symbols] /\ leg.purpose = "train"
      /\ leg.pick \in Nat /\ end \in 0..Length /\ leg.from \in Nat \ {0} /\ at \in Nat
      /\ end < leg.from + at /\ leg.from + at <= end + 1 /\ job' = job /\ tape' = tape /\ done' = done
      /\ (Train <= end \/ job.kind # "walk")
  BY DEF RunInv, LegOK, EngineOK, Legs, Optimise, Ended
<1>3. CASE Len(tried) < Len(Grid)
  <2> DEFINE next == [leg EXCEPT !.pick = leg.pick + 1]
  <2>1. /\ next \in Legs /\ next.pick \in Nat /\ next.from = leg.from /\ next.to = end
        /\ next.purpose = "train"
    BY <1>2 DEF Legs, Picks
  <2>2. next.from <= next.to + 1
    BY <1>2, <2>1
  <2>3. Start(next) /\ scores' = tried
    BY <1>3 DEF Optimise
  <2> HIDE DEF next
  <2>4. LegOK' /\ EngineOK'
    BY <1>2, <2>1, <2>2, <2>3, StartOK
  <2>. QED BY <1>1, <1>2, <2>3, <2>4 DEF RunInv
<1>4. CASE ~(Len(tried) < Len(Grid))
  <2> DEFINE best == Best(tried)
             next == IF job.kind = "walk" THEN Leg(job.symbol, end + 1, TestEnd(end), "test", best)
                     ELSE Leg(job.symbol, end + 1, Length, "split", best)
  <2>1. Start(next) /\ scores' = <<>>
    BY <1>4 DEF Optimise
  <2>2. best \in Picks
    BY <1>1 DEF Picks
  <2>3. TestEnd(end) \in 0..Length /\ end <= TestEnd(end)
    BY <1>2, PlanFacts DEF TestEnd, Lesser
  <2> HIDE DEF best
  <2>4. /\ next \in Legs /\ next.from = end + 1 /\ next.from <= next.to + 1
        /\ next.purpose = (IF job.kind = "walk" THEN "test" ELSE "split")
    BY <1>2, <2>2, <2>3, PlanFacts DEF Leg, Legs, Purposes
  <2>5. next.purpose = "test" => Train < next.from
    BY <1>2, <2>4, PlanFacts
  <2> HIDE DEF next
  <2>6. LegOK' /\ EngineOK'
    BY <1>2, <2>1, <2>4, <2>5, StartOK
  <2>7. <<>> \in Seq(Values)
    OBVIOUS
  <2>. QED BY <1>2, <2>1, <2>6, <2>7 DEF RunInv
<1>. QED BY <1>3, <1>4

\* A leg that ends is published, and the next one is in order.
LEMMA FinishOK ==
  ASSUME RunInv, done' = Published, UNCHANGED <<tape, job, scores>>,
         NEW next \in Legs, Start(next), next.from <= next.to + 1,
         next.purpose \in {"idle", "train", "row"} => next.pick \in Nat,
         next.purpose = "train" => Train <= next.to \/ job.kind # "walk",
         next.purpose # "test"
  PROVE  RunInv'
<1>1. LegOK' /\ EngineOK'
  BY StartOK
<1>. QED BY <1>1, PublishedType DEF RunInv

LEMMA IdleOK ==
  Idle \in Legs /\ Idle.from <= Idle.to + 1 /\ Idle.pick \in Nat /\ Idle.purpose = "idle"
BY PlanFacts DEF Idle, Leg

LEMMA LegAfter ==
  ASSUME NEW s \in DOMAIN Symbols, NEW from \in 1..Length + 1, NEW to \in 0..Length, from <= to + 1,
         NEW purpose \in Purposes, NEW pick \in Nat, NEW l, l = Leg(s, from, to, purpose, pick)
  PROVE  l \in Legs /\ l.from <= l.to + 1 /\ l.pick \in Nat /\ l.purpose = purpose
BY PlanFacts DEF Leg, Legs, Picks

LEMMA FinishTestOK ==
  ASSUME RunInv, FinishTest
  PROVE  RunInv'
<1> DEFINE next == IF Windowed(NextWindow) THEN TrainLeg(NextWindow, 1) ELSE Idle
<1>1. done' = Published /\ UNCHANGED <<tape, job, scores>> /\ Start(next)
  BY DEF FinishTest
<1>2. NextWindow \in Nat
  BY PlanFacts DEF FinishTest, Ended, RunInv, LegOK, Legs, NextWindow
<1>3. /\ next \in Legs /\ next.from <= next.to + 1 /\ next.pick \in Nat
      /\ next.purpose \in {"train", "idle"} /\ (next.purpose = "train" => Train <= next.to)
  <2>1. CASE Windowed(NextWindow)
    <3> DEFINE l == TrainLeg(NextWindow, 1)
    <3>1. NextWindow + Train < Length
      BY <2>1 DEF Windowed
    <3>2. /\ l \in Legs /\ l.from <= l.to + 1 /\ l.pick \in Nat /\ l.purpose = "train"
          /\ l.to = NextWindow + Train
      BY <1>2, <3>1, TrainLegOK DEF RunInv
    <3>3. Train <= l.to
      BY <1>2, <3>2, PlanFacts
    <3>4. next = l
      BY <2>1
    <3> HIDE DEF next, l
    <3>. QED BY <3>2, <3>3, <3>4
  <2>2. CASE ~Windowed(NextWindow)
    <3>1. next = Idle
      BY <2>2
    <3> HIDE DEF next
    <3>. QED BY <3>1, IdleOK
  <2>. QED BY <2>1, <2>2
<1> HIDE DEF next
<1>4. next.purpose # "test"
  BY <1>3
<1>. QED BY <1>1, <1>3, <1>4, FinishOK

LEMMA FinishSplitOK ==
  ASSUME RunInv, FinishSplit
  PROVE  RunInv'
<1>1. done' = Published /\ UNCHANGED <<tape, job, scores>> /\ Start(Idle)
  BY DEF FinishSplit
<1>2. Idle.purpose # "test" /\ Idle.purpose # "train"
  BY IdleOK
<1>. QED BY <1>1, <1>2, IdleOK, FinishOK

LEMMA NextSymbol ==
  ASSUME RunInv
  PROVE  /\ leg.symbol < Len(Symbols) => leg.symbol + 1 \in DOMAIN Symbols
         /\ 1 \in DOMAIN Symbols
BY PlanFacts DEF RunInv, LegOK, Legs

LEMMA FinishRowOK ==
  ASSUME RunInv, FinishRow
  PROVE  RunInv'
<1> DEFINE next == IF leg.symbol < Len(Symbols) THEN Leg(leg.symbol + 1, 1, Length, "row", leg.pick)
                   ELSE IF leg.pick < Len(Grid) THEN Leg(1, 1, Length, "row", leg.pick + 1)
                   ELSE Idle
<1>1. done' = Published /\ UNCHANGED <<tape, job, scores>> /\ Start(next)
  BY DEF FinishRow
<1>2. /\ leg.pick \in Nat /\ leg.pick + 1 \in Nat /\ "row" \in Purposes
      /\ 1 \in 1..Length + 1 /\ Length \in 0..Length /\ 1 <= Length + 1
  BY PlanFacts DEF FinishRow, Ended, RunInv, LegOK, Purposes
<1>3. next \in Legs /\ next.from <= next.to + 1 /\ next.pick \in Nat /\ next.purpose \in {"row", "idle"}
  <2>1. CASE leg.symbol < Len(Symbols)
    BY <1>2, <2>1, NextSymbol, LegAfter
  <2>2. CASE ~(leg.symbol < Len(Symbols)) /\ leg.pick < Len(Grid)
    BY <1>2, <2>2, NextSymbol, LegAfter
  <2>3. CASE ~(leg.symbol < Len(Symbols)) /\ ~(leg.pick < Len(Grid))
    BY <2>3, IdleOK
  <2>. QED BY <2>1, <2>2, <2>3
<1> HIDE DEF next
<1>4. next.purpose # "test" /\ next.purpose # "train"
  BY <1>3
<1>. QED BY <1>1, <1>3, <1>4, FinishOK

\* The bars before the holdout, and those of it.
LEMMA GateLegs ==
  ASSUME NEW s \in DOMAIN Symbols
  PROVE  /\ \A l : l = Leg(s, 1, Cut, "dev", 1) =>
                     l \in Legs /\ l.from <= l.to + 1 /\ l.pick \in Nat /\ l.purpose = "dev"
         /\ \A l : l = Leg(s, Cut + 1, Length, "holdout", 1) =>
                     l \in Legs /\ l.from <= l.to + 1 /\ l.pick \in Nat /\ l.purpose = "holdout"
<1>1. /\ Cut \in 0..Length /\ Length \in Nat \ {0} /\ 1 \in 1..Length + 1 /\ Cut + 1 \in 1..Length + 1
      /\ 1 <= Cut + 1 /\ Cut + 1 <= Length + 1 /\ Length \in 0..Length
      /\ "dev" \in Purposes /\ "holdout" \in Purposes /\ 1 \in Nat
  BY PlanFacts DEF Purposes
<1>. QED BY <1>1, LegAfter

LEMMA FinishDevOK ==
  ASSUME RunInv, FinishDev
  PROVE  RunInv'
<1> DEFINE next == IF leg.symbol < Len(Symbols) THEN Leg(leg.symbol + 1, 1, Cut, "dev", 1)
                   ELSE IF Beats >= MinBeat THEN Leg(1, Cut + 1, Length, "holdout", 1)
                   ELSE Idle
<1>1. done' = Published /\ UNCHANGED <<tape, job, scores>> /\ Start(next)
  BY DEF FinishDev
<1>2. /\ next \in Legs /\ next.from <= next.to + 1 /\ next.pick \in Nat
      /\ next.purpose \in {"dev", "holdout", "idle"}
  <2>1. CASE leg.symbol < Len(Symbols)
    BY <2>1, NextSymbol, GateLegs
  <2>2. CASE ~(leg.symbol < Len(Symbols)) /\ Beats >= MinBeat
    BY <2>2, NextSymbol, GateLegs
  <2>3. CASE ~(leg.symbol < Len(Symbols)) /\ ~(Beats >= MinBeat)
    BY <2>3, IdleOK
  <2>. QED BY <2>1, <2>2, <2>3
<1> HIDE DEF next
<1>3. next.purpose # "test" /\ next.purpose # "train"
  BY <1>2
<1>. QED BY <1>1, <1>2, <1>3, FinishOK

LEMMA FinishHoldoutOK ==
  ASSUME RunInv, FinishHoldout
  PROVE  RunInv'
<1> DEFINE next == IF leg.symbol < Len(Symbols)
                   THEN Leg(leg.symbol + 1, Cut + 1, Length, "holdout", 1) ELSE Idle
<1>1. done' = Published /\ UNCHANGED <<tape, job, scores>> /\ Start(next)
  BY DEF FinishHoldout
<1>2. /\ next \in Legs /\ next.from <= next.to + 1 /\ next.pick \in Nat
      /\ next.purpose \in {"holdout", "idle"}
  <2>1. CASE leg.symbol < Len(Symbols)
    BY <2>1, NextSymbol, GateLegs
  <2>2. CASE ~(leg.symbol < Len(Symbols))
    BY <2>2, IdleOK
  <2>. QED BY <2>1, <2>2
<1> HIDE DEF next
<1>3. next.purpose # "test" /\ next.purpose # "train"
  BY <1>2
<1>. QED BY <1>1, <1>2, <1>3, FinishOK

LEMMA RunInit ==
  ASSUME Init
  PROVE  RunInv
<1>1. /\ tape \in [DOMAIN Symbols -> Tapes] /\ job \in [kind : Jobs, symbol : DOMAIN Symbols]
      /\ leg = Opening /\ at = 0 /\ believed = FALSE /\ pending = "none" /\ acct = Fresh
      /\ book = [cash |-> Capital, units |-> 0] /\ curve = <<>> /\ scores = <<>> /\ done = <<>>
  BY DEF Init
<1>2. EngineOK
  <2>1. Fresh \in Sane /\ [cash |-> Capital, units |-> 0] \in [cash : Int, units : Int]
    BY CostType DEF Fresh, Sane, Account, NoEntry
  <2>2. <<>> \in Seq(Int)
    OBVIOUS
  <2>. QED BY <1>1, <2>1, <2>2 DEF EngineOK, Orders
<1>3. <<>> \in Seq(Values) /\ <<>> \in Seq(Rows)
  OBVIOUS
<1>4. LegOK
  <2> DEFINE OK(l) == /\ l \in Legs /\ l.from <= l.to + 1
                      /\ l.purpose \in {"idle", "train", "row"} => l.pick \in Nat
                      /\ l.purpose = "train" => Train <= l.to \/ job.kind # "walk"
                      /\ l.purpose # "test"
  <2>1. OK(Idle)
    BY IdleOK
  <2>2. CASE job.kind = "walk"
    <3>1. Opening = IF Windowed(0) THEN TrainLeg(0, 1) ELSE Idle
      BY <2>2 DEF Opening
    <3>2. Windowed(0) => OK(TrainLeg(0, 1))
      <4>. SUFFICES ASSUME Windowed(0) PROVE OK(TrainLeg(0, 1))
        OBVIOUS
      <4> DEFINE l == TrainLeg(0, 1)
      <4>1. 0 \in Nat /\ 0 + Train < Length
        BY DEF Windowed
      <4>2. /\ l \in Legs /\ l.from <= l.to + 1 /\ l.pick \in Nat /\ l.purpose = "train"
            /\ l.to = 0 + Train
        BY <1>1, <4>1, TrainLegOK
      <4> HIDE DEF l
      <4>3. OK(l)
        BY <4>2, PlanFacts
      <4>. QED BY <4>3 DEF l
    <3>3. OK(Opening)
      <4> HIDE DEF OK
      <4>. QED BY <2>1, <3>1, <3>2
    <3>. QED BY <1>1, <3>3 DEF LegOK, Legs
  <2>3. CASE job.kind # "walk"
    <3> DEFINE S == job.symbol
    <3>1. S \in DOMAIN Symbols /\ 1 \in DOMAIN Symbols /\ Split \in 0..Length /\ Length \in Nat \ {0}
      BY <1>1, PlanFacts
    <3>2. OK(Leg(S, 1, Split, "train", 1))
      <4>1. /\ 1 \in 1..Length + 1 /\ 1 <= Split + 1 /\ "train" \in Purposes /\ 1 \in Nat
        BY <3>1 DEF Purposes
      <4> HIDE DEF S
      <4>. QED BY <2>3, <3>1, <4>1, LegAfter
    <3>3. OK(Leg(1, 1, Length, "row", 1))
      <4>1. 1 \in 1..Length + 1 /\ 1 <= Length + 1 /\ "row" \in Purposes /\ 1 \in Nat /\ Length \in 0..Length
        BY <3>1 DEF Purposes
      <4>. QED BY <3>1, <4>1, LegAfter
    <3>4. OK(Leg(1, 1, Cut, "dev", 1))
      BY <3>1, GateLegs
    <3>5. Opening \in {Idle, Leg(S, 1, Split, "train", 1), Leg(1, 1, Length, "row", 1),
                       Leg(1, 1, Cut, "dev", 1)}
      <4>1. job.kind \in {"retune", "evaluate", "thesis"}
        BY <1>1, <2>3 DEF Jobs
      <4>. QED BY <4>1 DEF Opening
    <3>6. OK(Opening)
      <4> HIDE DEF OK
      <4>. QED BY <2>1, <3>2, <3>3, <3>4, <3>5
    <3>. QED BY <1>1, <3>6 DEF LegOK, Legs
  <2>. QED BY <2>2, <2>3
<1>. QED BY <1>1, <1>2, <1>3, <1>4 DEF RunInv

LEMMA RunStep ==
  ASSUME RunInv, [Next]_vars
  PROVE  RunInv'
<1>1. CASE UNCHANGED vars
  BY <1>1 DEF vars, engine, RunInv, LegOK, EngineOK, Late
<1>. QED BY <1>1, RunBarOK, OptimiseOK, FinishTestOK, FinishSplitOK, FinishRowOK, FinishDevOK,
            FinishHoldoutOK DEF Next

LEMMA RunInvariant == Spec => []RunInv
<1>. QED BY RunInit, RunStep, PTL DEF Spec

-----------------------------------------------------------------------------
\* Of whatever curve a leg has drawn, if it sank at all, max_drawdown_duration gives the
\* longest time below a prior peak, the episode still open included (scorecard.py:188).
\* Of a curve that never sank the code gives more than that.
THEOREM DurationIsRight == Spec => []DurationIsLongestEpisode
<1>1. RunInv => DurationIsLongestEpisode
  <2>1. RunInv => curve \in Seq(Int)
    BY DEF RunInv, EngineOK
  <2> DEFINE d == max_drawdown_duration(curve)
  <2>2. curve \in Seq(Int) /\ Sank(curve) =>
          /\ \A i, j \in 1..Len(curve) : Episode(curve, i, j) => j - i <= d
          /\ \E i, j \in 1..Len(curve) : Episode(curve, i, j) /\ j - i = d
    <3> HIDE DEF d
    <3>1. ASSUME NEW e, e = max_drawdown_duration(curve), curve \in Seq(Int), Sank(curve)
          PROVE  /\ \A i, j \in 1..Len(curve) : Episode(curve, i, j) => j - i <= e
                 /\ \E i, j \in 1..Len(curve) : Episode(curve, i, j) /\ j - i = e
      BY <3>1, LongestEpisode
    <3>. QED BY <3>1 DEF d
  <2>. QED BY <2>1, <2>2 DEF DurationIsLongestEpisode
<1>. QED BY <1>1, RunInvariant, PTL

-----------------------------------------------------------------------------
(* The account of a leg.                                                   *)

\* What a bar trades: an order of the strategy, at a price that fills.
LEMMA RunBarFills ==
  ASSUME RunInv, RunBar
  PROVE  /\ Opened \in Sane /\ Order \in Orders
         /\ Order # "none" => Order \in {"buy", "sell"} /\ Price(Slipped(Order))
         /\ Order = "buy" => ~believed
         /\ Order = "sell" => believed
<1>1. leg.from + at <= leg.to
  BY DEF RunBar
<1>2. Opened \in Sane /\ Order \in Orders /\ (Order = "buy" => ~believed) /\ (Order = "sell" => believed)
  BY <1>1, OpenedType, OrderType
<1>3. Order # "none" => Order \in {"buy", "sell"} /\ Price(Slipped(Order))
  BY <1>1, <1>2, BarPrices DEF Orders
<1>. QED BY <1>2, <1>3

\* A leg starts with both accounts alike.
LEMMA StartMirrors ==
  ASSUME NEW next, Start(next)
  PROVE  SimMatchesPaper' /\ acct'.remainder = FALSE /\ Flat(acct')
BY CostType DEF Start, SimMatchesPaper, Fresh, Flat, Late

LEMMA NextStarts ==
  ASSUME Next, ~RunBar
  PROVE  \E next : Start(next)
BY DEF Next, Optimise, FinishTest, FinishSplit, FinishRow, FinishDev, FinishHoldout

\* Fed with the orders of a leg filled at the close, the paper ledger holds what the
\* simulated account holds, as long as the engine had nothing to cut (executor.py:116).
THEOREM PaperMirrors == Spec => []SimMatchesPaper
<1>1. Init => SimMatchesPaper
  BY DEF Init, SimMatchesPaper, Fresh
<1>2. ASSUME RunInv, SimMatchesPaper, [Next]_vars PROVE SimMatchesPaper'
  <2>1. CASE UNCHANGED vars
    BY <1>2, <2>1 DEF vars, engine, SimMatchesPaper, Late
  <2>2. CASE Next /\ ~RunBar
    BY <2>2, NextStarts, StartMirrors
  <2>3. CASE RunBar
    <3>. SUFFICES ASSUME ~Late', acct'.impossible = 0
                  PROVE  book'.cash = acct'.cash /\ book'.units = acct'.units
      BY DEF SimMatchesPaper
    <3>1. ~Late /\ leg' = leg /\ acct \in Sane /\ acct.impossible \in Nat
      BY <1>2, <2>3 DEF RunBar, Late, RunInv, EngineOK, Sane, Account
    <3>2. Opened = acct
      BY <1>2, <3>1 DEF Opened, RunInv, EngineOK
    <3>3. CASE Order = "none"
      BY <1>2, <2>3, <3>1, <3>2, <3>3 DEF RunBar, SimMatchesPaper
    <3>4. CASE Order # "none"
      <4> DEFINE p == Slipped(Order)
      <4>1. Order \in {"buy", "sell"} /\ Price(p)
        BY <1>2, <2>3, <3>4, RunBarFills
      <4>2. acct' = Fill(acct, Order, p) /\ book' = PaperFill(book, Order, p)
        BY <2>3, <3>1, <3>2, <3>4 DEF RunBar
      <4> HIDE DEF p
      <4>3. Fill(acct, Order, p).impossible
              = acct.impossible + (IF Impossible(acct, Order, p) THEN 1 ELSE 0)
        BY <3>1, <4>1, FillTyped
      <4>4. acct.impossible = 0 /\ ~Impossible(acct, Order, p)
        BY <3>1, <4>2, <4>3
      <4>5. book.cash = acct.cash /\ book.units = acct.units
        BY <1>2, <3>1, <4>4 DEF SimMatchesPaper
      <4>. QED BY <3>1, <4>1, <4>2, <4>4, <4>5, FillMirrors
    <3>. QED BY <3>3, <3>4
  <2>. QED BY <1>2, <2>1, <2>2, <2>3
<1>. QED BY <1>1, <1>2, RunInvariant, PTL DEF Spec

\* While no exit has left a remainder the account is flat and explained by its closed
\* trades, or holds the one position the strategy believes in, or is about to sell.
Holding == (believed /\ pending # "buy") \/ pending = "sell"
Explained == ~acct.remainder => Flat(acct) \/ (Long(acct) /\ Holding)

LEMMA RunBarExplains ==
  ASSUME RunInv, Explained, RunBar
  PROVE  Explained'
<1>1. /\ Opened \in Sane /\ Order \in Orders
      /\ Order # "none" => Order \in {"buy", "sell"} /\ Price(Slipped(Order))
      /\ Order = "buy" => ~believed
      /\ Order = "sell" => believed
  BY RunBarFills
<1>2. /\ leg.from + at <= leg.to /\ acct \in Sane /\ pending \in Orders /\ (pending = "buy" => believed)
      /\ (~Late => pending = "none") /\ acct.remainder \in BOOLEAN
      /\ pending' = (IF Late THEN Order ELSE "none")
  BY DEF RunBar, RunInv, EngineOK, Sane, Account
<1>3. /\ Order = "none" => (believed' <=> believed)
      /\ Order = "buy" => believed'
      /\ Order = "sell" => ~believed'
  BY DEF RunBar
<1>4. CASE Late
  <2>1. acct' = Opened
    BY <1>4 DEF RunBar
  <2>2. pending' = Order
    BY <1>2, <1>4
  <2>3. CASE pending = "none"
    <3>1. acct' = acct
      BY <2>1, <2>3 DEF Opened
    <3>. QED BY <1>1, <1>3, <2>2, <2>3, <3>1 DEF Explained, Holding, Orders
  <2>4. CASE pending # "none"
    <3> DEFINE p == Now.open
               f == Fill(acct, pending, p)
    <3>1. pending \in {"buy", "sell"} /\ Price(p) /\ acct' = f
      BY <1>2, <2>1, <2>4, BarPrices DEF Orders, Opened
    <3>2. /\ acct.remainder => f.remainder
          /\ Flat(acct) /\ pending = "buy" => Flat(f) \/ Long(f)
          /\ Flat(acct) /\ pending = "sell" => Flat(f)
          /\ Long(acct) /\ pending = "sell" => Flat(f) \/ f.remainder
      BY <1>2, <3>1, FillExplains
    <3> HIDE DEF p, f
    <3>3. pending = "buy" => believed
      BY <1>2
    <3>. QED BY <1>1, <1>3, <2>2, <3>1, <3>2, <3>3 DEF Explained, Holding, Orders
  <2>. QED BY <2>3, <2>4
<1>5. CASE ~Late
  <2>1. pending = "none" /\ pending' = "none" /\ Opened = acct
    BY <1>2, <1>5 DEF Opened
  <2>2. CASE Order = "none"
    <3>1. acct' = acct
      BY <1>5, <2>1, <2>2 DEF RunBar
    <3>. QED BY <1>3, <2>1, <2>2, <3>1 DEF Explained, Holding
  <2>3. CASE Order # "none"
    <3> DEFINE p == Slipped(Order)
               f == Fill(acct, Order, p)
    <3>1. Order \in {"buy", "sell"} /\ Price(p) /\ acct' = f
      BY <1>1, <1>5, <2>1, <2>3 DEF RunBar
    <3>2. /\ acct.remainder => f.remainder
          /\ Flat(acct) /\ Order = "buy" => Flat(f) \/ Long(f)
          /\ Flat(acct) /\ Order = "sell" => Flat(f)
          /\ Long(acct) /\ Order = "sell" => Flat(f) \/ f.remainder
      BY <1>2, <3>1, FillExplains
    <3> HIDE DEF p, f
    <3>. QED BY <1>1, <1>3, <2>1, <3>1, <3>2 DEF Explained, Holding
  <2>. QED BY <2>2, <2>3
<1>. QED BY <1>4, <1>5

\* The closed trades explain the cash of a flat account, in every leg of every harness.
THEOREM CashIsExplained == Spec => []TradesExplainCash
<1>1. Init => Explained
  BY CostType DEF Init, Explained, Fresh, Flat
<1>2. ASSUME RunInv, Explained, [Next]_vars PROVE Explained'
  <2>1. CASE UNCHANGED vars
    BY <1>2, <2>1 DEF vars, engine, Explained, Holding
  <2>2. CASE Next /\ ~RunBar
    BY <2>2, NextStarts, StartMirrors DEF Explained
  <2>. QED BY <1>2, <2>1, <2>2, RunBarExplains
<1>3. Explained => TradesExplainCash
  BY DEF Explained, TradesExplainCash, Flat, Long
<1>. QED BY <1>1, <1>2, <1>3, RunInvariant, PTL DEF Spec

-----------------------------------------------------------------------------
(* A walk covers the bars after its first training span.                   *)

LEMMA TimesTest ==
  /\ \A n \in Nat : Test * n \in Nat /\ Test * (n + 1) = Test * n + Test
  /\ Test * 0 = 0
  /\ \A m, n \in Nat : m <= n => Test * m <= Test * n
<1>1. Test \in Nat \ {0}
  BY PlanFacts
<1>2. \A n \in Nat : Test * n \in Nat /\ Test * (n + 1) = Test * n + Test
  BY <1>1
<1>3. ASSUME NEW m \in Nat, NEW n \in Nat, m <= n PROVE Test * m <= Test * n
  <2>1. n - m \in Nat /\ Test * (n - m) \in Nat /\ Test * n = Test * m + Test * (n - m)
    BY <1>1, <1>3
  <2>. QED BY <1>1, <2>1
<1>. QED BY <1>1, <1>2, <1>3

\* Window n of the walk, the first being 0: where it trains, and the bars it tests.
Behind(n) == Test * n + Train
Tested(l, n) == l.from = Behind(n) + 1 /\ l.to = Lesser(Behind(n + 1), Length)

\* As many windows are behind as were published, each tested the bars after its own
\* training span, and the next is due where the last one's were.
WalkInv ==
    job.kind = "walk" =>
        /\ leg.purpose \in {"idle", "train", "test"}
        /\ leg.purpose # "idle" => Windowed(Test * Len(done))
        /\ leg.purpose = "train" => /\ leg.from = Test * Len(done) + 1
                                    /\ leg.to = Behind(Len(done))
        /\ leg.purpose = "test" => Tested(leg, Len(done))
        /\ leg = Idle => ~Windowed(Test * Len(done))
        /\ \A k \in 1..Len(done) : Tested(done[k].leg, k - 1)

LEMMA WalkType ==
  ASSUME RunInv
  PROVE  /\ Len(done) \in Nat /\ Test * Len(done) \in Nat /\ Behind(Len(done)) \in Nat
         /\ Behind(Len(done) + 1) = Behind(Len(done)) + Test
         /\ DOMAIN done = 1..Len(done)
         /\ Train \in Nat \ {0} /\ Test \in Nat \ {0} /\ Length \in Nat \ {0}
<1>1. Len(done) \in Nat /\ DOMAIN done = 1..Len(done)
  BY DEF RunInv
<1>2. Train \in Nat \ {0} /\ Test \in Nat \ {0} /\ Length \in Nat \ {0}
  BY PlanFacts
<1> DEFINE n == Len(done)
<1>3. n \in Nat
  BY <1>1
<1> HIDE DEF n
<1>4. Test * n \in Nat /\ Test * (n + 1) = Test * n + Test
  BY <1>3, TimesTest
<1>5. Behind(n) \in Nat /\ Behind(n + 1) = Behind(n) + Test
  BY <1>2, <1>4 DEF Behind
<1>. QED BY <1>1, <1>2, <1>4, <1>5 DEF n

LEMMA WalkInit ==
  ASSUME Init, RunInv
  PROVE  WalkInv
<1>. SUFFICES ASSUME job.kind = "walk"
              PROVE  WalkInv
  BY DEF WalkInv
<1>1. leg = (IF Windowed(0) THEN TrainLeg(0, 1) ELSE Idle) /\ done = <<>>
  BY DEF Init, Opening
<1>2. Len(done) = 0 /\ Test * Len(done) = 0 /\ Behind(Len(done)) = Train
  BY <1>1, TimesTest, PlanFacts DEF Behind
<1>3. CASE Windowed(0)
  <2>1. leg = TrainLeg(0, 1)
    BY <1>1, <1>3
  <2>2. /\ leg.purpose = "train" /\ leg.from = 1 /\ leg.to = Train
    BY <2>1, PlanFacts DEF TrainLeg, Leg
  <2>3. leg # Idle
    BY <2>2 DEF Idle, Leg
  <2>. QED BY <1>2, <1>3, <2>2, <2>3 DEF WalkInv
<1>4. CASE ~Windowed(0)
  BY <1>1, <1>2, <1>4, IdleOK DEF WalkInv
<1>. QED BY <1>3, <1>4

LEMMA WalkTrained ==
  ASSUME RunInv, WalkInv, Optimise
  PROVE  WalkInv'
<1>. SUFFICES ASSUME job.kind = "walk", job' = job, done' = done
              PROVE  WalkInv'
  BY DEF WalkInv, Optimise
<1> DEFINE n == Len(done)
           tried == Append(scores, objective(curve))
           end == leg.to
<1>1. /\ leg.purpose = "train" /\ Windowed(Test * n) /\ leg.from = Test * n + 1
      /\ end = Behind(n) /\ \A k \in 1..Len(done) : Tested(done[k].leg, k - 1)
  BY DEF WalkInv, Optimise, Ended
<1>2. leg \in Legs
  BY DEF RunInv, LegOK
<1>3. CASE Len(tried) < Len(Grid)
  <2>1. leg' = [leg EXCEPT !.pick = leg.pick + 1]
    BY <1>3 DEF Optimise, Start
  <2>2. leg'.purpose = "train" /\ leg'.from = leg.from /\ leg'.to = leg.to
    BY <1>1, <1>2, <2>1 DEF Legs
  <2>3. leg' # Idle
    BY <2>2, IdleOK
  <2>. QED BY <1>1, <2>2, <2>3 DEF WalkInv, Windowed, Behind
<1>4. CASE ~(Len(tried) < Len(Grid))
  <2> DEFINE l == Leg(job.symbol, end + 1, TestEnd(end), "test", Best(tried))
  <2>1. leg' = l
    BY <1>4 DEF Optimise, Start
  <2>2. l.purpose = "test" /\ l.from = end + 1 /\ l.to = TestEnd(end)
    BY DEF Leg
  <2> HIDE DEF l
  <2>3. TestEnd(end) = Lesser(Behind(n + 1), Length)
    BY <1>1, WalkType DEF TestEnd
  <2>4. leg' # Idle
    BY <2>1, <2>2, IdleOK
  <2>. QED BY <1>1, <2>1, <2>2, <2>3, <2>4 DEF WalkInv, Windowed, Tested, Behind
<1>. QED BY <1>3, <1>4

LEMMA WalkTested ==
  ASSUME RunInv, WalkInv, FinishTest
  PROVE  WalkInv'
<1>. SUFFICES ASSUME job.kind = "walk", job' = job
              PROVE  WalkInv'
  BY DEF WalkInv, FinishTest
<1> DEFINE n == Len(done)
           next == IF Windowed(NextWindow) THEN TrainLeg(NextWindow, 1) ELSE Idle
<1>1. leg.purpose = "test" /\ Tested(leg, n) /\ \A k \in 1..n : Tested(done[k].leg, k - 1)
  BY DEF WalkInv, FinishTest, Ended
<1>2. /\ Len(done') = n + 1 /\ n \in Nat /\ done'[n + 1].leg = leg
      /\ \A k \in 1..n : done'[k] = done[k]
  BY PublishedType, WalkType DEF FinishTest
<1>3. leg' = next
  BY DEF FinishTest, Start
<1>4. NextWindow = Test * (n + 1) /\ NextWindow \in Nat
  <2>1. leg.from = Behind(n) + 1 /\ Behind(n) = Test * n + Train /\ Test * n \in Nat
        /\ Test * (n + 1) = Test * n + Test
    BY <1>1, <1>2, TimesTest DEF Tested, Behind
  <2>. QED BY <2>1, PlanFacts DEF NextWindow
<1>5. \A k \in 1..n + 1 : Tested(done'[k].leg, k - 1)
  <2>1. ASSUME NEW k \in 1..n + 1 PROVE Tested(done'[k].leg, k - 1)
    <3>1. CASE k \in 1..n
      BY <1>1, <1>2, <3>1
    <3>2. CASE k = n + 1
      BY <1>1, <1>2, <3>2
    <3>. QED BY <1>2, <3>1, <3>2
  <2>. QED BY <2>1
<1>6. CASE Windowed(NextWindow)
  <2> DEFINE l == TrainLeg(NextWindow, 1)
  <2>1. leg' = l
    BY <1>3, <1>6
  <2>2. l.purpose = "train" /\ l.from = NextWindow + 1 /\ l.to = NextWindow + Train
    BY DEF TrainLeg, Leg
  <2> HIDE DEF l
  <2>3. leg' # Idle
    BY <2>1, <2>2, IdleOK
  <2>. QED BY <1>2, <1>4, <1>5, <1>6, <2>1, <2>2, <2>3 DEF WalkInv, Windowed, Behind, Tested
<1>7. CASE ~Windowed(NextWindow)
  <2>1. leg' = Idle /\ leg'.purpose = "idle"
    BY <1>3, <1>7, IdleOK
  <2>. QED BY <1>2, <1>4, <1>5, <1>7, <2>1 DEF WalkInv, Windowed, Tested, Behind
<1>. QED BY <1>6, <1>7

LEMMA WalkStep ==
  ASSUME RunInv, WalkInv, [Next]_vars
  PROVE  WalkInv'
<1>1. CASE UNCHANGED vars \/ RunBar
  <2>1. leg' = leg /\ job' = job /\ done' = done
    BY <1>1 DEF vars, RunBar
  <2>. QED BY <2>1 DEF WalkInv, Windowed, Tested, Behind
<1>2. CASE FinishSplit \/ FinishRow \/ FinishDev \/ FinishHoldout
  <2>1. job' = job /\ leg.purpose \notin {"idle", "train", "test"}
    BY <1>2 DEF FinishSplit, FinishRow, FinishDev, FinishHoldout, Ended
  <2>. QED BY <2>1 DEF WalkInv
<1>. QED BY <1>1, <1>2, WalkTrained, WalkTested DEF Next

\* Two windows that tested one bar are one window, and none tested a bar it could train on.
LEMMA OneTester ==
  ASSUME NEW j \in Nat, NEW k \in Nat, NEW b \in 1..Length,
         b \in Behind(j) + 1..Lesser(Behind(j + 1), Length),
         b \in Behind(k) + 1..Lesser(Behind(k + 1), Length)
  PROVE  j = k /\ Train < b
<1>1. /\ Train \in Nat /\ Length \in Nat /\ Test * j \in Nat /\ Test * k \in Nat
      /\ Test * (j + 1) = Test * j + Test /\ Test * (k + 1) = Test * k + Test /\ Test \in Nat
  BY PlanFacts, TimesTest
<1>2. /\ b > Test * j + Train /\ b <= Test * (j + 1) + Train
      /\ b > Test * k + Train /\ b <= Test * (k + 1) + Train
  BY <1>1 DEF Behind, Lesser
<1>3. ASSUME j + 1 <= k PROVE FALSE
  <2>1. Test * (j + 1) <= Test * k
    BY <1>3, TimesTest
  <2>. QED BY <1>1, <1>2, <2>1
<1>4. ASSUME k + 1 <= j PROVE FALSE
  <2>1. Test * (k + 1) <= Test * j
    BY <1>4, TimesTest
  <2>. QED BY <1>1, <1>2, <2>1
<1>. QED BY <1>1, <1>2, <1>3, <1>4

\* Some window tests each bar up to where the walk has come.
LEMMA SomeTester ==
  ASSUME NEW n \in Nat, NEW b \in Train + 1..Length, b <= Behind(n)
  PROVE  \E k \in 1..n : b \in Behind(k - 1) + 1..Lesser(Behind(k), Length)
<1> DEFINE T == {k \in Nat : b <= Behind(k)}
<1>1. PICK k \in T : \A m \in T : k <= m
  <2>1. n \in T /\ T \subseteq Nat
    OBVIOUS
  <2> HIDE DEF T
  <2>. QED BY <2>1, Least
<1>2. k \in Nat /\ b <= Behind(k) /\ k <= n
  BY <1>1
<1>3. Train \in Nat /\ Length \in Nat /\ b \in Nat /\ Train < b /\ b <= Length
  BY PlanFacts
<1>4. k # 0
  BY <1>2, <1>3, TimesTest DEF Behind
<1>5. k - 1 \in Nat /\ k - 1 \notin T
  BY <1>1, <1>2, <1>4
<1>6. ~(b <= Behind(k - 1)) /\ Behind(k - 1) \in Nat
  <2>1. Test * (k - 1) \in Nat
    BY <1>5, TimesTest
  <2>2. Behind(k - 1) = Test * (k - 1) + Train
    BY DEF Behind
  <2>3. ~(b <= Behind(k - 1))
    BY <1>5
  <2>. QED BY <1>3, <2>1, <2>2, <2>3
<1>. QED BY <1>2, <1>3, <1>4, <1>6 DEF Lesser

\* Over a walk every bar after the first training span is tested exactly once, however
\* many windows it takes and wherever the last one is cut.
THEOREM WalkIsOutOfSample == Spec => []EachBarTestedOnce
<1>1. Init /\ RunInv => WalkInv
  BY WalkInit
<1>2. RunInv /\ WalkInv /\ [Next]_vars => WalkInv'
  BY WalkStep
<1>3. ASSUME RunInv, WalkInv PROVE EachBarTestedOnce
  <2>. SUFFICES ASSUME job.kind = "walk" PROVE EachBarTestedOnce
    BY DEF EachBarTestedOnce
  <2> DEFINE Testers(b) == {k \in DOMAIN done : b \in done[k].leg.from..done[k].leg.to}
             n == Len(done)
  <2>1. n \in Nat /\ DOMAIN done = 1..n /\ Length \in Nat /\ Train \in Nat
    BY <1>3, WalkType
  <2>2. \A k \in 1..n : /\ done[k].leg.from = Behind(k - 1) + 1
                        /\ done[k].leg.to = Lesser(Behind(k), Length)
    <3>1. \A k \in 1..n : Tested(done[k].leg, k - 1) /\ k - 1 + 1 = k
      BY <1>3, <2>1 DEF WalkInv
    <3>. QED BY <3>1 DEF Tested
  <2>3. ASSUME NEW b \in 1..Length
        PROVE  Cardinality(Testers(b)) <= IF b <= Train THEN 0 ELSE 1
    <3>1. ASSUME NEW j \in Testers(b), NEW k \in Testers(b) PROVE j = k /\ Train < b
      <4>1. j - 1 \in Nat /\ k - 1 \in Nat /\ j - 1 + 1 = j /\ k - 1 + 1 = k
        BY <2>1
      <4>2. /\ b \in Behind(j - 1) + 1..Lesser(Behind(j - 1 + 1), Length)
            /\ b \in Behind(k - 1) + 1..Lesser(Behind(k - 1 + 1), Length)
        BY <2>1, <2>2, <4>1
      <4>3. j - 1 = k - 1 /\ Train < b
        BY <4>1, <4>2, OneTester
      <4>. QED BY <4>1, <4>3
    <3>2. CASE Testers(b) = {}
      <4>1. Cardinality({}) = 0
        BY FS_EmptySet
      <4>. QED BY <3>2, <4>1
    <3>3. CASE Testers(b) # {}
      <4>1. PICK k : k \in Testers(b)
        BY <3>3
      <4>2. Testers(b) = {k} /\ Train < b
        BY <3>1, <4>1
      <4>3. Cardinality({k}) = 1
        BY FS_Singleton
      <4>4. ~(b <= Train)
        BY <2>1, <4>2
      <4>. QED BY <4>2, <4>3, <4>4
    <3>. QED BY <3>2, <3>3
  <2>4. ASSUME leg = Idle, Train >= MinTrain, NEW b \in Train + 1..Length PROVE Testers(b) # {}
    <3>1. ~Windowed(Test * n)
      BY <1>3, <2>4 DEF WalkInv
    <3>2. Length <= Behind(n) /\ Behind(n) \in Nat
      BY <1>3, <2>1, <2>4, <3>1, WalkType DEF Windowed, Behind
    <3>3. b <= Behind(n)
      BY <2>1, <3>2
    <3>4. PICK k \in 1..n : b \in Behind(k - 1) + 1..Lesser(Behind(k), Length)
      <4> HIDE DEF n
      <4>. QED BY <2>1, <2>4, <3>3, SomeTester
    <3>5. k \in Testers(b)
      BY <2>1, <2>2, <3>4
    <3>. QED BY <3>5
  <2>. QED BY <2>3, <2>4 DEF EachBarTestedOnce
<1>. QED BY <1>1, <1>2, <1>3, RunInvariant, PTL DEF Spec

-----------------------------------------------------------------------------
(* Two runs in step.                                                       *)

Same == <<leg, engine, scores, done, verdict>> = <<leg2, engine2, scores2, done2, verdict2>>

\* A bar once used stays used.
LEMMA UsedGrows ==
  ASSUME RunInv, [Next]_vars, NEW i \in 1..Length, Used(i)
  PROVE  Used(i)'
<1>1. CASE UNCHANGED vars
  BY <1>1 DEF vars, engine, Used
<1>2. CASE RunBar
  <2>1. leg' = leg /\ at' = at + 1 /\ scores' = scores /\ done' = done /\ leg # Idle
        /\ at \in Nat /\ leg.from \in Nat
    BY <1>2, PlanFacts DEF RunBar, RunInv, EngineOK, LegOK, Legs
  <2>. QED BY <2>1 DEF Used
<1>3. ASSUME leg.from + at <= leg.to + 1, leg.from \in Nat, leg.to \in Nat, at \in Nat, leg # Idle
      PROVE  i <= leg.to \/ \E k \in DOMAIN done : i <= done[k].leg.to
  BY <1>3 DEF Used
<1>4. leg.from + at <= leg.to + 1 /\ leg.from \in Nat /\ leg.to \in Nat /\ at \in Nat
  BY PlanFacts DEF RunInv, EngineOK, LegOK, Legs
<1>5. CASE Optimise
  <2> DEFINE tried == Append(scores, objective(curve))
  <2>1. leg # Idle /\ done' = done
    BY <1>5 DEF Optimise, Ended
  <2>. SUFFICES ASSUME i <= leg.to PROVE Used(i)'
    BY <1>3, <1>4, <2>1 DEF Used
  <2>2. CASE Len(tried) < Len(Grid)
    <3>1. scores' = tried /\ leg' = [leg EXCEPT !.pick = leg.pick + 1]
      BY <1>5, <2>2 DEF Optimise, Start
    <3>2. leg'.to = leg.to
      BY <3>1 DEF RunInv, LegOK, Legs
    <3>3. scores' # <<>>
      <4>1. scores \in Seq(Values) /\ objective(curve) \in Values
        BY DEF RunInv, EngineOK, Values
      <4>. QED BY <3>1, <4>1
    <3>. QED BY <3>2, <3>3 DEF Used
  <2>3. CASE ~(Len(tried) < Len(Grid))
    <3> DEFINE best == Best(tried)
               to == IF job.kind = "walk" THEN TestEnd(leg.to) ELSE Length
               purpose == IF job.kind = "walk" THEN "test" ELSE "split"
    <3>1. leg' = Leg(job.symbol, leg.to + 1, to, purpose, best) /\ at' = 0
      BY <1>5, <2>3 DEF Optimise, Start
    <3> HIDE DEF best, to
    <3>2. leg'.from = leg.to + 1 /\ leg'.purpose # "idle"
      BY <3>1 DEF Leg
    <3>3. leg' # Idle
      BY <3>2, IdleOK
    <3>. QED BY <1>4, <3>1, <3>2, <3>3 DEF Used
  <2>. QED BY <2>2, <2>3
<1>6. CASE FinishTest \/ FinishSplit \/ FinishRow \/ FinishDev \/ FinishHoldout
  <2>1. done' = Published /\ leg # Idle /\ scores' = scores
    BY <1>6 DEF FinishTest, FinishSplit, FinishRow, FinishDev, FinishHoldout, Ended
  <2>2. /\ DOMAIN done' = 1..Len(done) + 1 /\ DOMAIN done = 1..Len(done) /\ Len(done) \in Nat
        /\ done'[Len(done) + 1].leg = leg /\ \A k \in 1..Len(done) : done'[k] = done[k]
    BY <2>1, PublishedType DEF RunInv
  <2>3. i <= leg.to => Used(i)'
    BY <2>2 DEF Used
  <2>4. (\E k \in DOMAIN done : i <= done[k].leg.to) => Used(i)'
    BY <2>2 DEF Used
  <2>. QED BY <1>3, <1>4, <2>1, <2>3, <2>4
<1>. QED BY <1>1, <1>2, <1>5, <1>6 DEF Next

\* From the same state, over the same bars, the engine takes the same step.
LEMMA SameBar ==
  ASSUME RunInv, tape2 \in [DOMAIN Symbols -> Tapes], Same, RunBar, Twin!RunBar, Agree'
  PROVE  Same'
<1> DEFINE s == leg.symbol
           i == leg.from + at
<1>1. /\ leg2 = leg /\ at2 = at /\ believed2 = believed /\ pending2 = pending /\ acct2 = acct
      /\ book2 = book /\ curve2 = curve /\ scores2 = scores /\ done2 = done /\ verdict2 = verdict
  BY DEF Same, engine, engine2
<1>2. /\ leg # Idle /\ leg.from + at <= leg.to /\ leg' = leg /\ at' = at + 1 /\ tape' = tape
      /\ tape2' = tape2 /\ at \in Nat /\ leg.from \in Nat \ {0} /\ leg.to \in 0..Length /\ Length \in Nat
  BY PlanFacts DEF RunBar, Twin!RunBar, RunInv, EngineOK, LegOK, Legs
<1>3. i \in 1..Length /\ s \in DOMAIN Symbols
  BY <1>2, BarAtHand
<1>4. \A j \in 1..i : tape[s][j] = tape2[s][j]
  <2>1. ASSUME NEW j \in 1..i PROVE tape[s][j] = tape2[s][j]
    <3>1. j \in 1..Length
      <4> HIDE DEF i
      <4>. QED BY <1>2, <1>3
    <3>2. Used(j)'
      BY <1>2, <3>1 DEF Used
    <3>3. \A a \in DOMAIN Symbols : \A b \in 1..Length : Used(b)' => tape[a][b] = tape2[a][b]
      BY <1>2 DEF Agree
    <3>. QED BY <1>3, <3>1, <3>2, <3>3
  <2>. QED BY <2>1
<1>5. Now = tape[s][i] /\ Twin!Now = tape2[s][i] /\ Twin!Now = Now
  <2>1. i \in 1..i
    BY <1>3
  <2>. QED BY <1>1, <1>4, <2>1 DEF Now, Twin!Now
<1>6. Twin!Wanted = Wanted
  <2>1. Twin!Wanted = IF leg.purpose = "holdout" THEN Positions(tape2[s])[i]
                      ELSE Positions(SubSeq(tape2[s], leg.from, leg.to))[at + 1]
    BY <1>1 DEF Twin!Wanted, Twin!Slice, Twin!Positions, Positions
  <2>2. Wanted = IF leg.purpose = "holdout" THEN Positions(tape[s])[i]
                 ELSE Positions(SubSeq(tape[s], leg.from, leg.to))[at + 1]
    BY DEF Wanted, Slice
  <2>3. Len(tape[s]) = Length /\ Len(tape2[s]) = Length
    <3>1. tape[s] \in Tapes /\ tape2[s] \in Tapes
      BY <1>3 DEF RunInv
    <3>. QED BY <3>1, TapeAssumption
  <2>4. Positions(tape[s])[i] = Positions(tape2[s])[i]
    <3>1. i \in Nat /\ i <= Len(tape[s]) /\ i <= Len(tape2[s])
          /\ Len(tape[s]) \in Nat /\ Len(tape2[s]) \in Nat
      BY <1>2, <1>3, <2>3
    <3> HIDE DEF s, i
    <3>. QED BY <1>4, <3>1, PositionsCausal
  <2>5. ASSUME NEW t \in Tapes
        PROVE  /\ Len(SubSeq(t, leg.from, leg.to)) = leg.to - leg.from + 1
               /\ \A j \in 1..leg.to - leg.from + 1 :
                     SubSeq(t, leg.from, leg.to)[j] = t[leg.from + j - 1]
    <3> DEFINE S == {t[j] : j \in 1..Length}
               from == leg.from
               to == leg.to
    <3>1. from \in Int /\ to \in Int /\ from <= to /\ \A j \in from..to : t[j] \in S
      BY <1>2
    <3> HIDE DEF S, from, to
    <3>2. /\ Len(SubSeq(t, from, to)) = to - from + 1
          /\ \A j \in 1..to - from + 1 : SubSeq(t, from, to)[j] = t[from + j - 1]
      BY <3>1, SubSeqProperties
    <3>. QED BY <3>2 DEF from, to
  <2>6. Positions(SubSeq(tape[s], leg.from, leg.to))[at + 1]
          = Positions(SubSeq(tape2[s], leg.from, leg.to))[at + 1]
    <3> DEFINE a == SubSeq(tape[s], leg.from, leg.to)
               b == SubSeq(tape2[s], leg.from, leg.to)
               n == leg.to - leg.from + 1
    <3>1. tape[s] \in Tapes /\ tape2[s] \in Tapes
      BY <1>3 DEF RunInv
    <3>2. /\ Len(a) = n /\ \A j \in 1..n : a[j] = tape[s][leg.from + j - 1]
          /\ Len(b) = n /\ \A j \in 1..n : b[j] = tape2[s][leg.from + j - 1]
      BY <2>5, <3>1
    <3>3. n \in Nat /\ at + 1 \in Nat /\ at + 1 <= n
      BY <1>2
    <3>4. \A j \in 1..at + 1 : j \in 1..n /\ leg.from + j - 1 \in 1..i
      BY <1>2
    <3>5. \A j \in 1..at + 1 : a[j] = b[j]
      <4> HIDE DEF a, b, n
      <4>1. ASSUME NEW j \in 1..at + 1 PROVE a[j] = b[j]
        <5>1. j \in 1..n /\ leg.from + j - 1 \in 1..i
          BY <3>4
        <5>2. a[j] = tape[s][leg.from + j - 1] /\ b[j] = tape2[s][leg.from + j - 1]
          BY <3>2, <5>1
        <5>3. tape[s][leg.from + j - 1] = tape2[s][leg.from + j - 1]
          <6> HIDE DEF s, i
          <6>. QED BY <1>4, <5>1
        <5>. QED BY <5>2, <5>3
      <4>. QED BY <4>1
    <3> HIDE DEF a, b, n
    <3>6. Len(a) \in Nat /\ Len(b) \in Nat /\ at + 1 <= Len(a) /\ at + 1 <= Len(b)
      BY <3>2, <3>3
    <3>7. Positions(a)[at + 1] = Positions(b)[at + 1]
      BY <3>3, <3>5, <3>6, PositionsCausal
    <3>. QED BY <3>7 DEF a, b
  <2>. QED BY <2>1, <2>2, <2>4, <2>6
<1> HIDE DEF s, i
<1>7. Twin!Order = Order
  BY <1>1, <1>5, <1>6 DEF Order, Twin!Order, Twin!rule_to_strategy, rule_to_strategy,
                          Twin!Signal, Signal, Twin!Gate, Gate
<1>8. Twin!Opened = Opened /\ \A side : Twin!Slipped(side) = Slipped(side)
  BY <1>1, <1>5 DEF Opened, Twin!Opened, Slipped, Twin!Slipped, Fill, Twin!Fill,
       Executed, Twin!Executed, Impossible, Twin!Impossible, Bought, Twin!Bought, Sold, Twin!Sold,
       Realised, Twin!Realised, Cost, Twin!Cost, Lesser, Twin!Lesser, Greater, Twin!Greater,
       NoEntry, Twin!NoEntry
<1>9. acct2' = acct'
  <2>1. acct' = IF Late \/ Order = "none" THEN Opened ELSE Fill(Opened, Order, Slipped(Order))
    BY DEF RunBar
  <2>2. acct2' = IF Late \/ Order = "none" THEN Opened ELSE Fill(Opened, Order, Slipped(Order))
    <3>1. acct2' = IF Twin!Late \/ Twin!Order = "none" THEN Twin!Opened
                   ELSE Twin!Fill(Twin!Opened, Twin!Order, Twin!Slipped(Twin!Order))
      BY DEF Twin!RunBar
    <3>2. Twin!Late <=> Late
      BY <1>1 DEF Twin!Late, Late
    <3>3. \A a, side, price : Twin!Fill(a, side, price) = Fill(a, side, price)
      BY DEF Fill, Twin!Fill, Executed, Twin!Executed, Impossible, Twin!Impossible,
             Bought, Twin!Bought, Sold, Twin!Sold, Realised, Twin!Realised, Cost, Twin!Cost,
             Lesser, Twin!Lesser, Greater, Twin!Greater, NoEntry, Twin!NoEntry
    <3>. QED BY <1>7, <1>8, <3>1, <3>2, <3>3
  <2>. QED BY <2>1, <2>2
<1>10. book2' = book'
  <2>1. book' = IF Late \/ Order = "none" THEN book ELSE PaperFill(book, Order, Slipped(Order))
    BY DEF RunBar
  <2>2. book2' = IF Twin!Late \/ Twin!Order = "none" THEN book2
                 ELSE Twin!PaperFill(book2, Twin!Order, Twin!Slipped(Twin!Order))
    BY DEF Twin!RunBar
  <2>3. Twin!Late <=> Late
    BY <1>1 DEF Twin!Late, Late
  <2>4. \A a, side, price : Twin!PaperFill(a, side, price) = PaperFill(a, side, price)
    BY DEF PaperFill, Twin!PaperFill, Cost, Twin!Cost, Lesser, Twin!Lesser
  <2>. QED BY <1>1, <1>7, <1>8, <2>1, <2>2, <2>3, <2>4
<1>11. believed2' = believed' /\ pending2' = pending'
  BY <1>1, <1>7 DEF RunBar, Twin!RunBar, Late, Twin!Late
<1>12. curve2' = curve'
  <2>1. curve' = Append(curve, acct'.cash + acct'.units * Now.close)
    BY DEF RunBar
  <2>2. curve2' = Append(curve2, acct2'.cash + acct2'.units * Twin!Now.close)
    BY DEF Twin!RunBar
  <2>. QED BY <1>1, <1>5, <1>9, <2>1, <2>2
<1>13. /\ leg2' = leg' /\ at2' = at' /\ scores2' = scores' /\ done2' = done' /\ verdict2' = verdict'
  BY <1>1 DEF RunBar, Twin!RunBar
<1>. QED BY <1>9, <1>10, <1>11, <1>12, <1>13 DEF Same, engine, engine2

\* The harness itself looks at no bar.
LEMMA SameHarness ==
  ASSUME Same, Next, ~RunBar, Twin!Next, ~Twin!RunBar
  PROVE  Same'
<1>1. /\ leg2 = leg /\ at2 = at /\ believed2 = believed /\ pending2 = pending /\ acct2 = acct
      /\ book2 = book /\ curve2 = curve /\ scores2 = scores /\ done2 = done /\ verdict2 = verdict
  BY DEF Same, engine, engine2
<1>2. /\ Twin!Idle = Idle /\ Twin!Cut = Cut
      /\ \A s, from, to, purpose, pick :
            Twin!Leg(s, from, to, purpose, pick) = Leg(s, from, to, purpose, pick)
      /\ \A start, pick : Twin!TrainLeg(start, pick) = TrainLeg(start, pick)
      /\ \A start : Twin!Windowed(start) = Windowed(start)
      /\ \A end : Twin!TestEnd(end) = TestEnd(end)
      /\ Twin!NextWindow = NextWindow /\ Twin!Length = Length
  BY <1>1 DEF Idle, Twin!Idle, Cut, Twin!Cut, Leg, Twin!Leg, TrainLeg, Twin!TrainLeg,
              Windowed, Twin!Windowed, TestEnd, Twin!TestEnd, NextWindow, Twin!NextWindow,
              Length, Twin!Length, Lesser, Twin!Lesser
<1>3. /\ \A c : Twin!objective(c) = objective(c)
      /\ \A s : Twin!Best(s) = Best(s)
  BY DEF objective, Twin!objective, MaxDrawdown, Twin!MaxDrawdown, Best, Twin!Best
<1>4. Twin!Published = Published
  BY <1>1, <1>3 DEF Published, Twin!Published
<1>5. \A purpose : Twin!Ended(purpose) <=> Ended(purpose)
  BY <1>1, <1>2 DEF Ended, Twin!Ended
<1>6. ASSUME NEW next, Start(next), Twin!Start(next)
      PROVE  /\ leg2' = leg' /\ at2' = at' /\ believed2' = believed' /\ pending2' = pending'
             /\ acct2' = acct' /\ book2' = book' /\ curve2' = curve'
  BY <1>6 DEF Start, Twin!Start, Fresh, Twin!Fresh, NoEntry, Twin!NoEntry
<1>7. ASSUME NEW next, Start(next), Twin!Start(next), scores2' = scores', done2' = done',
             verdict2' = verdict'
      PROVE  Same'
  BY <1>6, <1>7 DEF Same, engine, engine2
<1>8. ASSUME Optimise, Twin!Optimise PROVE Same'
  <2> DEFINE tried == Append(scores, objective(curve))
             end   == leg.to
             next  == IF Len(tried) < Len(Grid) THEN [leg EXCEPT !.pick = leg.pick + 1]
                      ELSE IF job.kind = "walk"
                           THEN Leg(job.symbol, end + 1, TestEnd(end), "test", Best(tried))
                           ELSE Leg(job.symbol, end + 1, Length, "split", Best(tried))
             left  == IF Len(tried) < Len(Grid) THEN tried ELSE <<>>
  <2>1. Start(next) /\ scores' = left /\ done' = done /\ verdict' = verdict
    BY <1>8 DEF Optimise
  <2>2. Twin!Start(next) /\ scores2' = left /\ done2' = done2 /\ verdict2' = verdict2
    <3>1. Append(scores2, Twin!objective(curve2)) = tried
      BY <1>1, <1>3
    <3>. QED BY <1>1, <1>2, <1>3, <1>8, <3>1 DEF Twin!Optimise
  <2> HIDE DEF next, left
  <2>. QED BY <1>1, <1>7, <2>1, <2>2
<1>9. ASSUME FinishTest, Twin!FinishTest PROVE Same'
  <2> DEFINE next == IF Windowed(NextWindow) THEN TrainLeg(NextWindow, 1) ELSE Idle
  <2>1. Start(next) /\ done' = Published /\ scores' = scores /\ verdict' = verdict
    BY <1>9 DEF FinishTest
  <2>2. Twin!Start(next) /\ done2' = Published /\ scores2' = scores2 /\ verdict2' = verdict2
    BY <1>2, <1>4, <1>9 DEF Twin!FinishTest
  <2> HIDE DEF next
  <2>. QED BY <1>1, <1>7, <2>1, <2>2
<1>10. ASSUME FinishSplit, Twin!FinishSplit PROVE Same'
  <2>1. Start(Idle) /\ done' = Published /\ scores' = scores /\ verdict' = verdict
    BY <1>10 DEF FinishSplit
  <2>2. Twin!Start(Idle) /\ done2' = Published /\ scores2' = scores2 /\ verdict2' = verdict2
    BY <1>2, <1>4, <1>10 DEF Twin!FinishSplit
  <2>. QED BY <1>1, <1>7, <2>1, <2>2
<1>11. ASSUME FinishRow, Twin!FinishRow PROVE Same'
  <2> DEFINE next == IF leg.symbol < Len(Symbols) THEN Leg(leg.symbol + 1, 1, Length, "row", leg.pick)
                     ELSE IF leg.pick < Len(Grid) THEN Leg(1, 1, Length, "row", leg.pick + 1)
                     ELSE Idle
  <2>1. Start(next) /\ done' = Published /\ scores' = scores /\ verdict' = verdict
    BY <1>11 DEF FinishRow
  <2>2. Twin!Start(next) /\ done2' = Published /\ scores2' = scores2 /\ verdict2' = verdict2
    BY <1>1, <1>2, <1>4, <1>11 DEF Twin!FinishRow
  <2> HIDE DEF next
  <2>. QED BY <1>1, <1>7, <2>1, <2>2
<1>12. ASSUME FinishDev, Twin!FinishDev PROVE Same'
  <2> DEFINE beaten == Cardinality({k \in DOMAIN Published : Published[k].objective > 0}) >= MinBeat
             last   == ~(leg.symbol < Len(Symbols))
             next   == IF ~last THEN Leg(leg.symbol + 1, 1, Cut, "dev", 1)
                       ELSE IF beaten THEN Leg(1, Cut + 1, Length, "holdout", 1) ELSE Idle
             found  == IF ~last THEN verdict ELSE IF beaten THEN "VALIDATED" ELSE "FALSIFIED"
  <2>1. Start(next) /\ done' = Published /\ scores' = scores /\ verdict' = found
    <3>1. done' = Published /\ (Beats >= MinBeat <=> beaten)
      BY <1>12 DEF FinishDev, Beats
    <3> HIDE DEF beaten
    <3>. QED BY <1>12, <3>1 DEF FinishDev
  <2>2. Twin!Start(next) /\ done2' = Published /\ scores2' = scores2 /\ verdict2' = found
    <3>3. done2' = Published
      BY <1>4, <1>12 DEF Twin!FinishDev
    <3>4. \A S : Twin!Cardinality(S) = Cardinality(S)
      BY DEF Cardinality, Twin!Cardinality
    <3>1. done2' = Published /\ (Twin!Beats >= MinBeat <=> beaten)
      BY <3>3, <3>4 DEF Twin!Beats
    <3> HIDE DEF beaten
    <3>. QED BY <1>1, <1>2, <1>12, <3>1 DEF Twin!FinishDev
  <2> HIDE DEF next, found
  <2>. QED BY <1>1, <1>7, <2>1, <2>2
<1>13. ASSUME FinishHoldout, Twin!FinishHoldout PROVE Same'
  <2> DEFINE next == IF leg.symbol < Len(Symbols)
                     THEN Leg(leg.symbol + 1, Cut + 1, Length, "holdout", 1) ELSE Idle
  <2>1. Start(next) /\ done' = Published /\ scores' = scores /\ verdict' = verdict
    BY <1>13 DEF FinishHoldout
  <2>2. Twin!Start(next) /\ done2' = Published /\ scores2' = scores2 /\ verdict2' = verdict2
    BY <1>1, <1>2, <1>4, <1>13 DEF Twin!FinishHoldout
  <2> HIDE DEF next
  <2>. QED BY <1>1, <1>7, <2>1, <2>2
<1>14. /\ Optimise => leg.purpose = "train"
       /\ FinishTest => leg.purpose = "test"
       /\ FinishSplit => leg.purpose = "split"
       /\ FinishRow => leg.purpose = "row"
       /\ FinishDev => leg.purpose = "dev"
       /\ FinishHoldout => leg.purpose = "holdout"
  BY DEF Optimise, FinishTest, FinishSplit, FinishRow, FinishDev, FinishHoldout, Ended
<1>15. /\ Twin!Optimise => leg.purpose = "train"
       /\ Twin!FinishTest => leg.purpose = "test"
       /\ Twin!FinishSplit => leg.purpose = "split"
       /\ Twin!FinishRow => leg.purpose = "row"
       /\ Twin!FinishDev => leg.purpose = "dev"
       /\ Twin!FinishHoldout => leg.purpose = "holdout"
  BY <1>1 DEF Twin!Optimise, Twin!FinishTest, Twin!FinishSplit, Twin!FinishRow, Twin!FinishDev,
              Twin!FinishHoldout, Twin!Ended
<1>16. Optimise \/ FinishTest \/ FinishSplit \/ FinishRow \/ FinishDev \/ FinishHoldout
  BY DEF Next
<1>17. \/ Twin!Optimise \/ Twin!FinishTest \/ Twin!FinishSplit \/ Twin!FinishRow \/ Twin!FinishDev
       \/ Twin!FinishHoldout
  BY DEF Twin!Next
<1>. QED BY <1>8, <1>9, <1>10, <1>11, <1>12, <1>13, <1>14, <1>15, <1>16, <1>17

\* A step of either run needs a leg, and a leg runs bar after bar before it ends.
LEMMA StepKinds ==
  ASSUME RunInv, Same
  PROVE  /\ Next => leg # Idle
         /\ Twin!Next => leg2 # Idle
         /\ leg2 = leg
         /\ Next /\ Twin!Next => (RunBar <=> Twin!RunBar)
<1>1. /\ leg2 = leg /\ at2 = at /\ Twin!Idle = Idle
      /\ leg.from \in Nat /\ leg.to \in Nat /\ at \in Nat
  BY PlanFacts DEF Same, engine, engine2, Twin!Idle, Idle, Twin!Leg, Leg,
                   RunInv, EngineOK, LegOK, Legs
<1>2. /\ RunBar => leg # Idle /\ leg.from + at <= leg.to
      /\ Next /\ ~RunBar => leg # Idle /\ leg.from + at > leg.to
  BY DEF RunBar, Next, Optimise, FinishTest, FinishSplit, FinishRow, FinishDev, FinishHoldout, Ended
<1>3. /\ Twin!RunBar => leg # Idle /\ leg.from + at <= leg.to
      /\ Twin!Next /\ ~Twin!RunBar => leg # Idle /\ leg.from + at > leg.to
  BY <1>1 DEF Twin!RunBar, Twin!Next, Twin!Optimise, Twin!FinishTest, Twin!FinishSplit,
              Twin!FinishRow, Twin!FinishDev, Twin!FinishHoldout, Twin!Ended
<1>. QED BY <1>1, <1>2, <1>3

\* The decisions of the engine and of the harnesses over it - the orders, the account,
\* the parameters chosen, the verdict - are a function of the bars used so far, whatever
\* the recordings hold after them (engine.py:108, walk_forward.py:61, evaluate.py:241).
THEOREM DecisionsArePointInTime == TwinSpec => []PointInTime
<1> DEFINE TwinInv == RunInv /\ tape2 \in [DOMAIN Symbols -> Tapes] /\ PointInTime
<1>1. TwinInit => TwinInv
  <2>. SUFFICES ASSUME TwinInit PROVE TwinInv
    OBVIOUS
  <2>1. Opening = Twin!Opening /\ Fresh = Twin!Fresh
    BY DEF Opening, Twin!Opening, Fresh, Twin!Fresh, NoEntry, Twin!NoEntry, Windowed, Twin!Windowed,
           TrainLeg, Twin!TrainLeg, Leg, Twin!Leg, Idle, Twin!Idle, Split, Twin!Split, Cut, Twin!Cut,
           Length, Twin!Length, Lesser, Twin!Lesser
  <2>2. PointInTime
    BY <2>1 DEF TwinInit, Init, Twin!Init, PointInTime, engine, engine2
  <2>. QED BY <2>2, RunInit DEF TwinInit, Twin!Init
<1>2. TwinInv /\ [TwinNext]_<<vars, vars2>> => TwinInv'
  <2>. SUFFICES ASSUME TwinInv, [TwinNext]_<<vars, vars2>> PROVE TwinInv'
    OBVIOUS
  <2>1. [Next]_vars
    BY DEF TwinNext, vars, vars2
  <2>2. RunInv'
    BY <2>1, RunStep
  <2>3. tape' = tape /\ tape2' = tape2
    BY DEF TwinNext, Next, RunBar, Optimise, FinishTest, FinishSplit, FinishRow, FinishDev,
           FinishHoldout, Twin!Next, Twin!RunBar, Twin!Optimise, Twin!FinishTest, Twin!FinishSplit,
           Twin!FinishRow, Twin!FinishDev, Twin!FinishHoldout, vars, vars2
  <2>4. ASSUME Agree' PROVE Same'
    <3>1. Agree
      BY <2>1, <2>3, <2>4, UsedGrows DEF Agree
    <3>2. Same
      BY <3>1 DEF PointInTime, Same
    <3>3. CASE UNCHANGED <<vars, vars2>>
      BY <3>2, <3>3 DEF vars, vars2, engine, engine2, Same
    <3>4. CASE TwinNext
      <4>1. Next /\ Twin!Next
        BY <3>2, <3>4, StepKinds DEF TwinNext
      <4>2. CASE RunBar
        BY <2>4, <3>2, <4>1, <4>2, StepKinds, SameBar
      <4>3. CASE ~RunBar
        BY <3>2, <4>1, <4>3, StepKinds, SameHarness
      <4>. QED BY <4>2, <4>3
    <3>. QED BY <3>3, <3>4
  <2>5. PointInTime'
    BY <2>4 DEF PointInTime, Same
  <2>. QED BY <2>2, <2>3, <2>5
<1>3. TwinInv => PointInTime
  OBVIOUS
<1>. QED BY <1>1, <1>2, <1>3, PTL DEF TwinSpec
===========================================================================
