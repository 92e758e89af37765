---------------------------- MODULE HashdProofs ----------------------------
(* Theorems about rd-hashd on its own: the benchmark of its memory size,   *)
(* HashdBench, and its files, HashdFiles.                                  *)
EXTENDS HashdBench, HashdFiles, FiniteSetTheorems, FunctionTheorems, WellFoundedInduction, TLAPS

-----------------------------------------------------------------------------
(* The memory benchmark of rd-hashd, HashdBench.                           *)

(* The scale of bench.rs, five steps up and a grain of a twentieth, and one *)
(* late try at most.                                                       *)
BenchScale == Full = 20 * Grain /\ Grain \in 2..40 /\ MaxLate \in {0, 1}

(* The first size that saturates, or the one past the last.                *)
FirstOf(size) == IF size > Full THEN Full + 1 ELSE size
FirstSat == FirstOf(sat.refine)

FoundTyped ==
    /\ {sat.refine, sat.bisect, sat.up} \subseteq Nat \ {0}
    /\ sat.refine <= sat.bisect /\ sat.bisect <= sat.up
    /\ pos \in 0..Full /\ before \in 0..Full /\ late \in 0..MaxLate
    /\ left \in Seq(0..Full) /\ right \in Seq(0..Full)
    /\ benchParams.frac \in 0..Full

AllKeepUp(s, from) == \A i \in from..Len(s) : s[i] < sat.bisect
AllSaturate(s, from) == \A i \in from..Len(s) : s[i] >= sat.bisect
Lied == late = MaxLate

(* The bounds are as they were found, or the late try is the nearest one   *)
(* on one of the sides, with another behind it.                            *)
Honest == AllKeepUp(left, 1) /\ AllSaturate(right, 1)
LastRight ==
    /\ Lied /\ Len(right) >= 2 /\ right[1] < sat.bisect /\ left[1] < right[1]
    /\ AllKeepUp(left, 1) /\ AllSaturate(right, 2)
LastLeft ==
    /\ Lied /\ Len(left) >= 2 /\ left[1] >= sat.bisect /\ left[1] <= right[1]
    /\ AllKeepUp(left, 2) /\ AllSaturate(right, 1)

CpuInv == benchPhase \in Cpu => before = 0
UpInv ==
    benchPhase = "up" =>
        /\ pos \in {4 * Grain, 8 * Grain, 12 * Grain, 16 * Grain, 20 * Grain}
        /\ before <= pos
BoundsInv ==
    benchPhase \in {"bisect", "verify"} =>
        /\ Len(left) >= 1 /\ Len(right) >= 1 /\ (Honest \/ LastRight \/ LastLeft)
        /\ ~Lied /\ Len(left) >= 2 => left[2] < left[1]
        /\ ~Lied /\ Len(right) >= 2 => right[1] < right[2]
BisectInv == benchPhase = "bisect" => pos = Mid(left, right) /\ (~Lied => ~Near(left, right))
VerifyInv ==
    benchPhase = "verify" =>
        /\ Len(left) >= 2 /\ Len(right) >= 2 /\ Near(left, right)
        /\ pos \in {left[1], right[1]}
        /\ pos = left[1] /\ LastRight => right[2] - right[1] <= Grain

(* However the walk down ends, it is near enough: it has not gone far past  *)
(* the first size that saturates, even with a step in vain to come, and     *)
(* where it may still be ended too soon, then by a size that is near.       *)
WalkInv ==
    benchPhase = "refine" =>
        /\ (FirstSat - 1) - pos < Grain
        /\ ~Lied => 2 * (FirstSat - pos) <= Grain /\ pos - before < Grain
FracInv ==
    benchPhase \in {"save", "done"} =>
        /\ benchParams.frac - (FirstSat - 1) < Grain
        /\ (FirstSat - 1) - benchParams.frac < Grain

ParamsShape == DOMAIN benchParams = {"test", "frac", "args", "params"}

FoundAll ==
    FoundTyped /\ CpuInv /\ UpInv /\ BoundsInv /\ BisectInv /\ VerifyInv /\ WalkInv /\ FracInv
FoundInv == ParamsShape /\ (TestMode \/ FoundAll)

(* Sequences of bounds, the nearest first.                                 *)
LEMMA PushedFront ==
  ASSUME NEW D, NEW s \in Seq(D), NEW x \in D
  PROVE  LET t == <<x>> \o s IN
         /\ t \in Seq(D) /\ Len(t) = Len(s) + 1 /\ t[1] = x
         /\ \A i \in 2..Len(t) : t[i] = s[i - 1]
<1> DEFINE t == <<x>> \o s
<1>1. <<x>> \in Seq(D) /\ Len(<<x>>) = 1 /\ <<x>>[1] = x
  OBVIOUS
<1>2. t \in Seq(D) /\ Len(t) = Len(s) + 1
  BY <1>1
<1>3. t[1] = x /\ \A i \in 2..Len(t) : t[i] = s[i - 1]
  BY <1>1, <1>2
<1> QED BY <1>2, <1>3

LEMMA HeadOf ==
  ASSUME NEW D, NEW s \in Seq(D), Len(s) >= 1
  PROVE  Head(s) = s[1] /\ s[1] \in D /\ Len(s) \in Nat /\ 1 \in 1..Len(s)
OBVIOUS

LEMMA TailOf ==
  ASSUME NEW D, NEW s \in Seq(D), Len(s) >= 1
  PROVE  /\ Tail(s) \in Seq(D) /\ Len(Tail(s)) = Len(s) - 1 /\ Head(s) = s[1]
         /\ \A i \in 1..Len(Tail(s)) : Tail(s)[i] = s[i + 1]
OBVIOUS

LEMMA FrontOf ==
  ASSUME NEW D, NEW s \in Seq(D), Len(s) >= 1
  PROVE  /\ Front(s) \in Seq(D) /\ Len(Front(s)) = Len(s) - 1
         /\ \A i \in 1..Len(Front(s)) : Front(s)[i] = s[i]
BY DEF Front

LEMMA MovedOver ==
  ASSUME NEW D, NEW s \in Seq(D), NEW x \in D, Len(s) >= 1
  PROVE  LET t == <<x>> \o Front(s) IN
         /\ t \in Seq(D) /\ Len(t) = Len(s) /\ t[1] = x
         /\ \A i \in 2..Len(t) : t[i] = s[i - 1]
<1>1. /\ Front(s) \in Seq(D) /\ Len(Front(s)) = Len(s) - 1
      /\ \A i \in 1..Len(Front(s)) : Front(s)[i] = s[i]
  BY FrontOf
<1> DEFINE f == Front(s)
           t == <<x>> \o f
<1> HIDE DEF f
<1>2. /\ t \in Seq(D) /\ Len(t) = Len(f) + 1 /\ t[1] = x
      /\ \A i \in 2..Len(t) : t[i] = f[i - 1]
  BY <1>1, PushedFront DEF f
<1>3. \A i \in 2..Len(t) : t[i] = s[i - 1]
  <2> SUFFICES ASSUME NEW i \in 2..Len(t) PROVE t[i] = s[i - 1]
    OBVIOUS
  <2>1. Len(s) \in Nat /\ Len(t) = Len(s)
    BY <1>1, <1>2 DEF f
  <2>2. i - 1 \in 1..Len(f)
    BY <2>1, <1>2
  <2> QED BY <1>1, <1>2, <2>2 DEF f
<1> QED BY <1>1, <1>2, <1>3 DEF f

(* A try tells the truth, or is the only late one.                         *)
LEMMA OneLate ==
  ASSUME BenchScale, FoundTyped, NEW v \in BOOLEAN, Judged(v)
  PROVE  /\ sat' = sat /\ before' \in {pos, before} /\ late' \in 0..MaxLate
         /\ \/ (v <=> Saturates(pos)) /\ late' = late /\ before' = pos
            \/ ~Lied /\ Lied' /\ (v <=> Saturates(before))
BY DEF BenchScale, FoundTyped, Judged, Lied

LEMMA OneLateInBisection ==
  ASSUME BenchScale, FoundTyped, benchPhase \in {"bisect", "verify"}, NEW v \in BOOLEAN, Judged(v)
  PROVE  /\ sat' = sat /\ before' \in {pos, before} /\ late' \in 0..MaxLate
         /\ \/ (v <=> pos >= sat.bisect) /\ late' = late /\ before' = pos
            \/ ~Lied /\ Lied'
BY OneLate DEF Saturates

LEMMA ScaleFacts ==
  ASSUME BenchScale
  PROVE  /\ Full \in Nat /\ Full = 20 * Grain /\ Grain \in 2..40 /\ MaxLate \in {0, 1}
         /\ Full \div 5 = 4 * Grain
BY DEF BenchScale

LEMMA MidBetween ==
  ASSUME NEW l \in Seq(0..Full), NEW r \in Seq(0..Full), Len(l) >= 1, Len(r) >= 1,
         l[1] <= r[1], BenchScale
  PROVE  /\ Head(l) = l[1] /\ Head(r) = r[1] /\ l[1] \in 0..Full /\ r[1] \in 0..Full
         /\ Mid(l, r) \in 0..Full /\ l[1] <= Mid(l, r) /\ Mid(l, r) <= r[1]
         /\ l[1] < r[1] => Mid(l, r) < r[1]
         /\ r[1] - l[1] >= 2 => l[1] < Mid(l, r)
         /\ Mid(l, r) - l[1] <= r[1] - Mid(l, r)
         /\ r[1] - Mid(l, r) <= Mid(l, r) - l[1] + 1
<1>1. Head(l) = l[1] /\ Head(r) = r[1] /\ l[1] \in 0..Full /\ r[1] \in 0..Full
  BY HeadOf
<1>2. Full \in Nat
  BY ScaleFacts
<1> DEFINE a == l[1]
           b == r[1]
<1>3. a \in Nat /\ b \in Nat /\ a <= b /\ b <= Full
  BY <1>1, <1>2
<1>4. Mid(l, r) = (a + b) \div 2
  BY <1>1 DEF Mid
<1> HIDE DEF a, b
<1>5. /\ Mid(l, r) \in 0..Full /\ a <= Mid(l, r) /\ Mid(l, r) <= b
      /\ a < b => Mid(l, r) < b
      /\ b - a >= 2 => a < Mid(l, r)
      /\ Mid(l, r) - a <= b - Mid(l, r)
      /\ b - Mid(l, r) <= Mid(l, r) - a + 1
  BY <1>2, <1>3, <1>4
<1> QED BY <1>1, <1>5 DEF a, b

(* What a round of the bisection makes of the bounds.                      *)
LEMMA BisectTries ==
  ASSUME BenchScale, FoundTyped, BoundsInv, BisectInv, benchPhase = "bisect",
         NEW saturated \in BOOLEAN, Judged(saturated),
         left' = IF saturated THEN left ELSE <<pos>> \o left,
         right' = IF saturated THEN <<pos>> \o right ELSE right
  PROVE  /\ left' \in Seq(0..Full) /\ right' \in Seq(0..Full) /\ sat' = sat
         /\ Len(left') >= 1 /\ Len(right') >= 1 /\ (Honest \/ LastRight \/ LastLeft)'
         /\ ~Lied' => ~Lied
         /\ ~Lied' /\ Len(left') >= 2 => left'[2] < left'[1]
         /\ ~Lied' /\ Len(right') >= 2 => right'[1] < right'[2]
         /\ saturated => /\ pos = right'[1] /\ Len(right') >= 2
                         /\ right'[2] - right'[1] <= right'[1] - left'[1] + 1
         /\ ~saturated => /\ pos = left'[1] /\ Len(left') >= 2 /\ left'[1] < right'[1]
                          /\ left'[1] - left'[2] <= right'[1] - left'[1]
         /\ left'[1] <= right'[1]
<1> DEFINE D == 0..Full
<1>0. /\ left \in Seq(D) /\ right \in Seq(D) /\ pos \in D /\ Len(left) >= 1 /\ Len(right) >= 1
      /\ Honest \/ LastRight \/ LastLeft
      /\ pos = Mid(left, right) /\ sat.bisect \in Nat \ {0}
  BY DEF FoundTyped, BoundsInv, BisectInv
<1>s. Full \in Nat /\ Full = 20 * Grain /\ Grain \in 2..40 /\ MaxLate \in {0, 1} /\ late \in 0..MaxLate
  BY ScaleFacts DEF FoundTyped
<1>1. /\ sat' = sat
      /\ \/ (saturated <=> pos >= sat.bisect) /\ late' = late
         \/ ~Lied /\ Lied'
  BY OneLateInBisection
<1>2. /\ left[1] \in D /\ right[1] \in D /\ left[1] <= right[1]
      /\ Honest \/ LastRight => left[1] < right[1]
  <2>1. /\ left[1] \in D /\ right[1] \in D /\ 1 \in 1..Len(left) /\ 1 \in 1..Len(right)
    BY <1>0, HeadOf
  <2>2. Honest => left[1] < sat.bisect /\ sat.bisect <= right[1]
    BY <2>1, <1>0 DEF Honest, AllKeepUp, AllSaturate
  <2> QED BY <1>0, <1>s, <2>1, <2>2 DEF LastRight, LastLeft
<1>3. /\ left[1] <= pos /\ pos <= right[1] /\ (left[1] < right[1] => pos < right[1])
      /\ right[1] - left[1] >= 2 => left[1] < pos
      /\ pos - left[1] <= right[1] - pos /\ right[1] - pos <= pos - left[1] + 1
  BY <1>0, <1>2, MidBetween
<1>4. ~Lied => right[1] - left[1] >= 2
  BY <1>0, <1>s DEF BisectInv, Near
<1>5. ~Lied => Honest
  BY <1>0 DEF LastRight, LastLeft
<1>6. Lied => (saturated <=> pos >= sat.bisect) /\ Lied'
  BY <1>1 DEF Lied
<1>7. CASE saturated
  <2>1. /\ left' = left /\ right' \in Seq(D) /\ Len(right') = Len(right) + 1 /\ right'[1] = pos
        /\ \A i \in 2..Len(right') : right'[i] = right[i - 1]
    <3>1. right' = <<pos>> \o right
      BY <1>7
    <3> HIDE DEF D
    <3>2. LET t == <<pos>> \o right IN
            /\ t \in Seq(D) /\ Len(t) = Len(right) + 1 /\ t[1] = pos
            /\ \A i \in 2..Len(t) : t[i] = right[i - 1]
      BY <1>0, PushedFront
    <3> QED BY <1>7, <3>1, <3>2
  <2>2. Len(right) \in Nat /\ Len(left) \in Nat /\ Len(right') >= 2 /\ right'[2] = right[1]
    BY <1>0, <2>1
  <2>3. \A k \in {1, 2} : AllSaturate(right, 1) => AllSaturate(right', 2)
    BY <1>0, <2>1, <2>2 DEF AllSaturate
  <2>4. CASE LastLeft
    <3>1. pos >= sat.bisect /\ Lied'
      BY <1>0, <1>3, <1>6, <1>7, <2>4, <1>2 DEF LastLeft
    <3>2. LastLeft'
      <4>1. AllSaturate(right', 1)
        BY <1>0, <2>1, <2>2, <3>1, <2>4 DEF LastLeft, AllSaturate
      <4> QED BY <1>1, <2>1, <2>4, <3>1, <4>1, <1>3 DEF LastLeft, AllKeepUp, AllSaturate
    <3> QED BY <1>1, <1>2, <1>3, <1>0, <1>7, <2>1, <2>2, <3>1, <3>2
  <2>5. CASE LastRight
    <3>1. pos >= sat.bisect /\ right[1] < sat.bisect /\ left[1] < right[1]
      BY <1>6, <1>7, <2>5 DEF LastRight
    <3> QED BY <1>0, <1>s, <1>2, <1>3, <3>1
  <2>6. CASE Honest
    <3>1. CASE pos >= sat.bisect
      <4>1. AllSaturate(right', 1)
        BY <1>0, <2>1, <2>2, <3>1, <2>6 DEF Honest, AllSaturate
      <4>2. Honest'
        BY <1>1, <2>1, <2>6, <4>1 DEF Honest, AllKeepUp, AllSaturate
      <4>3. ~Lied' => ~Lied /\ left[1] < pos /\ pos < right[1]
        BY <1>2, <1>3, <1>4, <1>6, <1>s, <1>0
      <4>4. ~Lied' /\ Len(left') >= 2 => left'[2] < left'[1]
        BY <1>0, <2>1, <4>3 DEF BoundsInv
      <4>5. ~Lied' /\ Len(right') >= 2 => right'[1] < right'[2]
        BY <2>1, <2>2, <4>3
      <4> QED BY <1>0, <1>1, <1>2, <1>3, <1>7, <2>1, <2>2, <4>2, <4>3, <4>4, <4>5
    <3>2. CASE ~(pos >= sat.bisect)
      <4>1. ~Lied /\ Lied'
        BY <1>1, <1>7, <3>2
      <4>2. AllSaturate(right', 2)
        BY <2>3, <2>6 DEF Honest
      <4>3. LastRight'
        BY <1>0, <1>1, <1>3, <1>4, <2>1, <2>2, <2>6, <3>2, <4>1, <4>2
        DEF LastRight, Honest, AllKeepUp, AllSaturate
      <4> QED BY <1>0, <1>1, <1>2, <1>3, <1>7, <2>1, <2>2, <4>1, <4>3
    <3> QED BY <3>1, <3>2
  <2> QED BY <1>0, <2>4, <2>5, <2>6
<1>8. CASE ~saturated
  <2>1. /\ right' = right /\ left' \in Seq(D) /\ Len(left') = Len(left) + 1 /\ left'[1] = pos
        /\ \A i \in 2..Len(left') : left'[i] = left[i - 1]
    <3>1. left' = <<pos>> \o left
      BY <1>8
    <3> HIDE DEF D
    <3>2. LET t == <<pos>> \o left IN
            /\ t \in Seq(D) /\ Len(t) = Len(left) + 1 /\ t[1] = pos
            /\ \A i \in 2..Len(t) : t[i] = left[i - 1]
      BY <1>0, PushedFront
    <3> QED BY <1>8, <3>1, <3>2
  <2>2. Len(right) \in Nat /\ Len(left) \in Nat /\ Len(left') >= 2 /\ left'[2] = left[1]
    BY <1>0, <2>1
  <2>3. AllKeepUp(left, 1) => AllKeepUp(left', 2)
    BY <1>0, <2>1, <2>2 DEF AllKeepUp
  <2>4. CASE LastLeft
    <3>1. ~(pos >= sat.bisect) /\ left[1] >= sat.bisect
      BY <1>6, <1>8, <2>4 DEF LastLeft
    <3> QED BY <1>0, <1>s, <1>2, <1>3, <3>1
  <2>5. CASE LastRight
    <3>1. pos < sat.bisect /\ Lied' /\ left[1] < right[1]
      BY <1>0, <1>2, <1>3, <1>6, <1>8, <2>5 DEF LastRight
    <3>2. LastRight'
      <4>1. AllKeepUp(left', 1)
        <5>1. AllKeepUp(left', 2)
          BY <2>3, <2>5 DEF LastRight
        <5>2. \A i \in 1..Len(left') : i = 1 \/ i \in 2..Len(left')
          BY <2>1, <2>2
        <5> QED BY <1>1, <2>1, <3>1, <5>1, <5>2 DEF AllKeepUp
      <4> QED BY <1>1, <2>1, <2>5, <3>1, <4>1, <1>3 DEF LastRight, AllKeepUp, AllSaturate
    <3> QED BY <1>0, <1>1, <1>2, <1>3, <1>8, <2>1, <2>2, <3>1, <3>2
  <2>6. CASE Honest
    <3>0. left[1] < right[1]
      BY <1>2, <2>6
    <3>1. CASE pos < sat.bisect
      <4>1. AllKeepUp(left', 1)
        BY <1>0, <2>1, <2>2, <3>1, <2>6 DEF Honest, AllKeepUp
      <4>2. Honest'
        BY <1>1, <2>1, <2>6, <4>1 DEF Honest, AllKeepUp, AllSaturate
      <4> QED BY <1>0, <1>1, <1>2, <1>3, <1>4, <1>6, <1>8, <2>1, <2>2, <3>0, <4>2 DEF BoundsInv
    <3>2. CASE pos >= sat.bisect
      <4>1. ~Lied /\ Lied'
        BY <1>1, <1>8, <3>2
      <4>2. AllKeepUp(left', 2)
        BY <2>3, <2>6 DEF Honest
      <4>3. LastLeft'
        BY <1>0, <1>1, <1>3, <1>4, <2>1, <2>2, <2>6, <3>2, <4>1, <4>2
        DEF LastLeft, Honest, AllKeepUp, AllSaturate
      <4> QED BY <1>0, <1>1, <1>2, <1>3, <1>8, <2>1, <2>2, <3>0, <4>1, <4>3
    <3> QED BY <1>0, <3>1, <3>2
  <2> QED BY <1>0, <2>4, <2>5, <2>6
<1> QED BY <1>7, <1>8

LEMMA ElementsOf ==
  ASSUME NEW D, NEW s \in Seq(D)
  PROVE  \A i \in 1..Len(s) : s[i] \in D
OBVIOUS

LEMMA RefinesFrom ==
  ASSUME BenchScale, FoundTyped, ParamsShape, sat' = sat,
         left' \in Seq(0..Full), right' \in Seq(0..Full), Len(left') >= 1, Len(right') >= 1,
         Near(left', right'), left'[1] <= right'[1], Refined(Head(right')),
         ~Lied' => before' \in {left'[1], right'[1]},
         \/ Honest'
         \/ LastRight' /\ right'[2] - right'[1] <= Grain
         \/ LastLeft'
  PROVE  WalkInv'
<1> DEFINE F == right'[1]
           l == left'[1]
           S == FirstOf(sat.bisect)
           K == FirstSat
<1>1. /\ F \in 0..Full /\ l \in 0..Full /\ Head(right') = F /\ Head(left') = l
      /\ 1 \in 1..Len(left') /\ 1 \in 1..Len(right') /\ Len(left') \in Nat /\ Len(right') \in Nat
      /\ \A i \in 1..Len(left') : left'[i] \in 0..Full
      /\ \A i \in 1..Len(right') : right'[i] \in 0..Full
  BY HeadOf, ElementsOf
<1>2. Full \in Nat /\ Grain \in 2..40 /\ {sat.refine, sat.bisect} \subseteq Nat \ {0}
  BY ScaleFacts DEF FoundTyped
<1>3. S \in 1..(Full + 1) /\ K \in 1..(Full + 1) /\ K <= S /\ FirstSat' = K
  <2>1. sat.refine <= sat.bisect
    BY DEF FoundTyped
  <2>2. FirstSat' = K
    BY DEF FirstSat, FirstOf
  <2> QED BY <1>2, <2>1, <2>2 DEF FirstSat, FirstOf
<1>4. \A p \in 0..Full : (p < sat.bisect <=> p < S) /\ (p >= sat.bisect <=> S <= p)
  BY <1>2 DEF FirstOf
<1>5. pos' = F
  BY <1>1 DEF Refined
<1>6. F - l < Grain /\ l <= F
  BY <1>1 DEF Near
<1>7. S <= F \/ (Lied' /\ (S - 1) - F < Grain)
  <2>1. CASE Honest'
    <3>1. F >= sat.bisect
      BY <1>1, <2>1 DEF Honest, AllSaturate
    <3> QED BY <1>1, <1>4, <3>1
  <2>2. CASE LastRight' /\ right'[2] - right'[1] <= Grain
    <3>1. 2 \in 2..Len(right') /\ right'[2] \in 0..Full
      BY <2>2, <1>1 DEF LastRight
    <3>2. Lied' /\ right'[2] >= sat.bisect
      BY <2>2, <3>1 DEF LastRight, AllSaturate
    <3> DEFINE r2 == right'[2]
    <3>3. r2 \in 0..Full /\ S <= r2 /\ r2 - F <= Grain
      BY <1>4, <2>2, <3>1, <3>2
    <3> HIDE DEF r2, F, S
    <3>4. (S - 1) - F < Grain
      BY <1>1, <1>2, <1>3, <3>3
    <3> QED BY <3>2, <3>4
  <2>3. CASE LastLeft'
    <3>1. l >= sat.bisect
      BY <2>3 DEF LastLeft
    <3> QED BY <1>1, <1>2, <1>4, <1>6, <3>1
  <2> QED BY <2>1, <2>2, <2>3
<1>8. ~Lied' => F - before' < Grain
  <2> DEFINE b == before'
  <2>1. ~Lied' => b = l \/ b = F
    OBVIOUS
  <2> HIDE DEF b, l, F
  <2>2. ~Lied' => F - b < Grain
    BY <1>1, <1>2, <1>6, <2>1
  <2> QED BY <2>2 DEF b
<1>9. (K - 1) - F < Grain /\ (~Lied' => 2 * (K - F) <= Grain)
  <2> HIDE DEF F, S, K
  <2> QED BY <1>1, <1>2, <1>3, <1>7
<1> QED BY <1>3, <1>5, <1>8, <1>9 DEF WalkInv

LEMMA UpKept ==
  ASSUME BenchScale, ParamsShape, ~TestMode, FoundAll, UpRound
  PROVE  FoundAll'
<1>0. FoundTyped /\ UpInv /\ benchPhase = "up"
  BY DEF FoundAll, UpRound
<1>1. /\ Full \in Nat /\ Full = 20 * Grain /\ Grain \in 2..40 /\ Full \div 5 = 4 * Grain
      /\ {sat.refine, sat.bisect, sat.up} \subseteq Nat \ {0}
      /\ sat.refine <= sat.bisect /\ sat.bisect <= sat.up
      /\ pos \in 0..Full /\ before \in 0..Full /\ late \in 0..MaxLate
  BY <1>0, ScaleFacts DEF FoundTyped
<1>b. before <= pos
  BY <1>0 DEF UpInv
<1>2. Judged(TRUE) \/ Judged(FALSE) =>
        /\ sat' = sat /\ late' \in 0..MaxLate
        /\ before' \in 0..Full /\ before' <= pos
        /\ before' = pos \/ Lied'
  <2>1. ASSUME NEW v \in BOOLEAN, Judged(v)
        PROVE  sat' = sat /\ before' \in {pos, before} /\ late' \in 0..MaxLate /\ (before' = pos \/ Lied')
    BY <1>0, <2>1, OneLate
  <2>2. ASSUME NEW v \in BOOLEAN, Judged(v)
        PROVE  /\ sat' = sat /\ late' \in 0..MaxLate
               /\ before' \in 0..Full /\ before' <= pos
               /\ before' = pos \/ Lied'
    <3>1. sat' = sat /\ before' \in {pos, before} /\ late' \in 0..MaxLate /\ (before' = pos \/ Lied')
      BY <2>1, <2>2
    <3>2. before' \in 0..Full /\ before' <= pos
      BY <1>1, <1>b, <3>1
    <3> QED BY <3>1, <3>2
  <2>3. CASE Judged(TRUE)
    BY <2>2, <2>3
  <2>4. CASE Judged(FALSE)
    BY <2>2, <2>4
  <2> QED BY <2>3, <2>4
<1>t. Judged(TRUE) => pos >= sat.up \/ before >= sat.up
  BY <1>0, OneLate DEF Saturates
<1>3. CASE /\ Judged(TRUE)
           /\ left' = <<0>> /\ right' = <<pos>> /\ pos' = Mid(<<0>>, <<pos>>)
           /\ benchPhase' = "bisect" /\ UNCHANGED benchParams
  <2>j. sat' = sat /\ late' \in 0..MaxLate /\ before' \in 0..Full
    BY <1>2, <1>3
  <2>1. pos >= sat.bisect /\ sat' = sat
    <3>1. pos >= sat.up \/ before >= sat.up
      BY <1>t, <1>3
    <3> QED BY <1>1, <1>b, <2>j, <3>1
  <2>2. /\ left' \in Seq(0..Full) /\ Len(left') = 1 /\ left'[1] = 0
        /\ right' \in Seq(0..Full) /\ Len(right') = 1 /\ right'[1] = pos
    BY <1>1, <1>3
  <2>3. Honest'
    BY <1>1, <2>1, <2>2 DEF Honest, AllKeepUp, AllSaturate
  <2>4. pos' = Mid(left', right') /\ pos' \in 0..Full
    <3>1. pos' = Mid(left', right')
      BY <1>3
    <3>2. left'[1] <= right'[1]
      BY <1>1, <2>2
    <3>3. Len(left') >= 1 /\ Len(right') >= 1
      BY <2>2
    <3>4. Mid(left', right') \in 0..Full
      BY <2>2, <3>2, <3>3, MidBetween
    <3> QED BY <3>1, <3>4
  <2>5. Head(left') = 0 /\ Head(right') = pos
    BY <2>2, HeadOf
  <2>6. ~Near(left', right')
    BY <1>0, <1>1, <2>5 DEF Near, UpInv
  <2>7. FoundTyped'
    BY <1>0, <1>3, <2>j, <2>2, <2>4 DEF FoundTyped
  <2>8. BoundsInv' /\ BisectInv'
    BY <1>3, <2>2, <2>3, <2>4, <2>6 DEF BoundsInv, BisectInv
  <2> QED BY <1>3, <2>7, <2>8 DEF FoundAll, CpuInv, UpInv, VerifyInv, WalkInv, FracInv, Cpu
<1>4. CASE Judged(FALSE) /\ pos < Full /\ pos' = NextUp(pos) /\ UNCHANGED <<benchPhase, left, right, benchParams>>
  <2>1. pos' = pos + 4 * Grain /\ pos' \in {8 * Grain, 12 * Grain, 16 * Grain, 20 * Grain}
    BY <1>0, <1>1, <1>4 DEF NextUp, UpInv
  <2>j. sat' = sat /\ late' \in 0..MaxLate /\ before' \in 0..Full /\ before' <= pos
    BY <1>2, <1>4
  <2>2. before' <= pos'
    BY <1>1, <2>j, <2>1
  <2>3. UpInv'
    BY <2>1, <2>2 DEF UpInv
  <2>4. FoundTyped'
    BY <1>0, <1>1, <1>4, <2>j, <2>1 DEF FoundTyped
  <2> QED BY <1>0, <1>4, <2>3, <2>4 DEF FoundAll, CpuInv, BoundsInv, BisectInv, VerifyInv, WalkInv, FracInv, Cpu
<1>5. CASE Judged(FALSE) /\ pos = Full /\ Refined(Full) /\ UNCHANGED <<left, right>>
  <2>1. pos' = Full /\ benchParams'.frac = Full /\ benchPhase' = "refine"
    BY <1>5 DEF Refined, ParamsShape
  <2>2. sat' = sat /\ late' \in 0..MaxLate /\ before' \in 0..Full /\ (before' = Full \/ Lied')
    BY <1>2, <1>5
  <2>3. FirstSat' \in 1..(Full + 1)
    BY <1>1, <2>2 DEF FirstSat, FirstOf
  <2>4. WalkInv'
    <3> DEFINE K == FirstSat'
               b == before'
    <3>1. K \in 1..(Full + 1) /\ (~Lied' => b = Full)
      BY <2>2, <2>3
    <3> HIDE DEF K, b
    <3>2. (K - 1) - Full < Grain /\ 2 * (K - Full) <= Grain /\ (b = Full => Full - b < Grain)
      BY <1>1, <3>1
    <3> QED BY <2>1, <3>1, <3>2 DEF WalkInv, K, b
  <2>5. FoundTyped'
    BY <1>0, <1>1, <1>5, <2>1, <2>2 DEF FoundTyped
  <2> QED BY <2>1, <2>4, <2>5 DEF FoundAll, CpuInv, UpInv, BoundsInv, BisectInv, VerifyInv, FracInv, Cpu
<1> QED BY <1>3, <1>4, <1>5 DEF UpRound

LEMMA BisectKept ==
  ASSUME BenchScale, ParamsShape, ~TestMode, FoundAll, BisectRound
  PROVE  FoundAll'
<1>0. FoundTyped /\ BoundsInv /\ BisectInv /\ benchPhase = "bisect"
  BY DEF FoundAll, BisectRound
<1>1. PICK saturated \in BOOLEAN :
        /\ Judged(saturated)
        /\ left' = IF saturated THEN left ELSE <<pos>> \o left
        /\ right' = IF saturated THEN <<pos>> \o right ELSE right
  BY DEF BisectRound
<1>2. /\ left' \in Seq(0..Full) /\ right' \in Seq(0..Full) /\ sat' = sat
      /\ Len(left') >= 1 /\ Len(right') >= 1 /\ (Honest \/ LastRight \/ LastLeft)'
      /\ ~Lied' => ~Lied
      /\ ~Lied' /\ Len(left') >= 2 => left'[2] < left'[1]
      /\ ~Lied' /\ Len(right') >= 2 => right'[1] < right'[2]
      /\ saturated => /\ pos = right'[1] /\ Len(right') >= 2
                      /\ right'[2] - right'[1] <= right'[1] - left'[1] + 1
      /\ ~saturated => /\ pos = left'[1] /\ Len(left') >= 2 /\ left'[1] < right'[1]
                       /\ left'[1] - left'[2] <= right'[1] - left'[1]
      /\ left'[1] <= right'[1]
  BY <1>0, <1>1, BisectTries
<1>3. /\ left'[1] \in 0..Full /\ right'[1] \in 0..Full
      /\ Head(left') = left'[1] /\ Head(right') = right'[1]
      /\ Len(left') \in Nat /\ Len(right') \in Nat
  BY <1>2, HeadOf
<1>4. Full \in Nat /\ Grain \in 2..40 /\ sat.bisect \in Nat \ {0}
  BY <1>0, ScaleFacts DEF FoundTyped
<1>5. late' \in 0..MaxLate /\ before' \in 0..Full /\ (before' = pos \/ Lied')
  <2>1. before' \in {pos, before} /\ late' \in 0..MaxLate /\ (before' = pos \/ Lied')
    BY <1>0, <1>1, OneLateInBisection
  <2> QED BY <1>0, <2>1 DEF FoundTyped
<1>6. CASE ~Near(left', right') /\ pos' = Mid(left', right') /\ UNCHANGED <<benchPhase, benchParams>>
  <2>1. pos' \in 0..Full
    BY <1>2, <1>6, MidBetween
  <2>2. FoundTyped'
    BY <1>0, <1>2, <1>5, <1>6, <2>1 DEF FoundTyped
  <2>3. BoundsInv' /\ BisectInv'
    BY <1>2, <1>6 DEF BoundsInv, BisectInv
  <2> QED BY <1>0, <1>6, <2>2, <2>3 DEF FoundAll, CpuInv, UpInv, VerifyInv, WalkInv, FracInv, Cpu
<1>7. CASE Near(left', right') /\ Opposite(pos, left', right') = 0 /\ Refined(Head(right'))
  <2>1. \/ Honest'
        \/ LastRight' /\ right'[2] - right'[1] <= Grain
        \/ LastLeft'
    <3>1. right'[1] - left'[1] < Grain
      BY <1>3, <1>7 DEF Near
    <3>2. CASE saturated
      <4>1. Len(left') = 1 \/ left'[1] = 0
        BY <1>2, <1>3, <1>7, <3>2 DEF Opposite
      <4>2. ~LastLeft'
        <5> SUFFICES ASSUME LastLeft' PROVE FALSE
          OBVIOUS
        <5>1. Len(left') >= 2 /\ left'[1] >= sat'.bisect
          BY DEF LastLeft
        <5>2. left'[1] # 0
          BY <1>2, <1>3, <1>4, <5>1
        <5>3. Len(left') # 1
          <6> DEFINE n == Len(left')
          <6>1. n \in Nat /\ n >= 2
            BY <1>3, <5>1
          <6> HIDE DEF n
          <6>2. n # 1
            BY <6>1
          <6> QED BY <6>2 DEF n
        <5> QED BY <4>1, <5>2, <5>3
      <4>3. right'[2] \in 0..Full
        <5>1. 2 \in 1..Len(right')
          BY <1>2, <1>3, <3>2
        <5> QED BY <1>2, <5>1, ElementsOf
      <4>4. right'[2] - right'[1] <= Grain
        <5>1. right'[2] - right'[1] <= right'[1] - left'[1] + 1
          BY <1>2, <3>2
        <5> QED BY <1>3, <1>4, <3>1, <4>3, <5>1
      <4> QED BY <1>2, <4>2, <4>4
    <3>3. CASE ~saturated
      <4>1. Len(right') = 1 \/ right'[1] = 0
        BY <1>2, <1>3, <1>4, <1>7, <3>3 DEF Opposite
      <4>2. ~LastRight'
        <5> SUFFICES ASSUME LastRight' PROVE FALSE
          OBVIOUS
        <5>1. Len(right') >= 2 /\ left'[1] < right'[1]
          BY DEF LastRight
        <5>2. right'[1] # 0
          BY <1>3, <1>4, <5>1
        <5>3. Len(right') # 1
          <6> DEFINE n == Len(right')
          <6>1. n \in Nat /\ n >= 2
            BY <1>3, <5>1
          <6> HIDE DEF n
          <6>2. n # 1
            BY <6>1
          <6> QED BY <6>2 DEF n
        <5> QED BY <4>1, <5>2, <5>3
      <4> QED BY <1>2, <3>3, <4>2
    <3> QED BY <3>2, <3>3
  <2>b. ~Lied' => before' \in {left'[1], right'[1]}
    BY <1>2, <1>5
  <2>2. WalkInv'
    BY <1>0, <1>2, <1>7, <2>1, <2>b, RefinesFrom
  <2>3. pos' \in 0..Full /\ benchParams'.frac \in 0..Full /\ benchPhase' = "refine"
    BY <1>3, <1>7 DEF Refined, ParamsShape
  <2>4. FoundTyped'
    BY <1>0, <1>2, <1>5, <2>3 DEF FoundTyped
  <2> QED BY <2>2, <2>3, <2>4 DEF FoundAll, CpuInv, UpInv, BoundsInv, BisectInv, VerifyInv, FracInv, Cpu
<1>8. CASE /\ Near(left', right') /\ Opposite(pos, left', right') # 0
           /\ pos' = Opposite(pos, left', right') /\ benchPhase' = "verify" /\ UNCHANGED benchParams
  <2>1. CASE saturated
    <3>1. pos' = left'[1] /\ Len(left') >= 2 /\ Len(right') >= 2
      <4>1. pos = Head(right') /\ Len(right') >= 2
        BY <1>2, <1>3, <2>1
      <4>2. Opposite(pos, left', right') = IF Len(left') = 1 THEN 0 ELSE Head(left')
        BY <4>1 DEF Opposite
      <4>3. Len(left') # 1 /\ pos' = Head(left')
        BY <1>8, <4>2
      <4>4. Len(left') \in Nat /\ Len(left') >= 1 /\ Head(left') = left'[1]
        BY <1>2, <1>3
      <4>5. Len(left') >= 2
        BY <4>3, <4>4
      <4> QED BY <4>1, <4>3, <4>4, <4>5
    <3>2. right'[2] \in 0..Full
      <4>1. 2 \in 1..Len(right')
        BY <1>2, <1>3, <2>1
      <4> QED BY <1>2, <4>1, ElementsOf
    <3>3. right'[2] - right'[1] <= Grain
      <4>1. right'[2] - right'[1] <= right'[1] - left'[1] + 1
        BY <1>2, <2>1
      <4>2. right'[1] - left'[1] < Grain
        BY <1>3, <1>8 DEF Near
      <4> QED BY <1>3, <1>4, <3>2, <4>1, <4>2
    <3>4. VerifyInv'
      BY <1>8, <3>1, <3>3 DEF VerifyInv
    <3>5. FoundTyped' /\ BoundsInv'
      BY <1>0, <1>2, <1>3, <1>5, <1>8, <3>1 DEF FoundTyped, BoundsInv
    <3> QED BY <1>8, <3>4, <3>5 DEF FoundAll, CpuInv, UpInv, BisectInv, WalkInv, FracInv, Cpu
  <2>2. CASE ~saturated
    <3>1. pos' = right'[1] /\ Len(left') >= 2 /\ Len(right') >= 2 /\ pos' # left'[1]
      <4>1. pos = left'[1] /\ Len(left') >= 2 /\ left'[1] < right'[1]
        BY <1>2, <2>2
      <4>2. pos # Head(right')
        BY <1>3, <1>4, <4>1
      <4>3. Opposite(pos, left', right') = IF Len(right') = 1 THEN 0 ELSE Head(right')
        BY <4>2 DEF Opposite
      <4>4. Len(right') # 1 /\ pos' = Head(right')
        BY <1>8, <4>3
      <4>5. /\ Len(right') \in Nat /\ Len(right') >= 1 /\ Head(right') = right'[1]
            /\ left'[1] \in 0..Full /\ right'[1] \in 0..Full
        BY <1>2, <1>3
      <4>6. Len(right') >= 2
        BY <4>4, <4>5
      <4>7. right'[1] # left'[1]
        BY <4>1, <4>5, <1>4
      <4> QED BY <4>1, <4>4, <4>5, <4>6, <4>7
    <3>4. VerifyInv'
      BY <1>2, <1>8, <2>2, <3>1 DEF VerifyInv
    <3>5. FoundTyped' /\ BoundsInv'
      BY <1>0, <1>2, <1>3, <1>5, <1>8, <3>1 DEF FoundTyped, BoundsInv
    <3> QED BY <1>8, <3>4, <3>5 DEF FoundAll, CpuInv, UpInv, BisectInv, WalkInv, FracInv, Cpu
  <2> QED BY <2>1, <2>2
<1> QED BY <1>6, <1>7, <1>8 DEF BisectRound

(* What becomes of the bounds when the one verified moves over.            *)
LEMMA BoundMoves ==
  ASSUME BenchScale, FoundTyped, BoundsInv, VerifyInv, benchPhase = "verify",
         NEW ofLeft \in BOOLEAN, ofLeft <=> pos = Head(left), Judged(ofLeft),
         IF ofLeft THEN right' = <<pos>> \o Front(right) /\ left' = Tail(left)
         ELSE left' = <<pos>> \o Front(left) /\ right' = Tail(right)
  PROVE  /\ left' \in Seq(0..Full) /\ right' \in Seq(0..Full) /\ sat' = sat /\ Lied'
         /\ Len(left') >= 1 /\ Len(right') >= 1 /\ (Honest \/ LastRight \/ LastLeft)'
         /\ left'[1] <= right'[1]
<1> DEFINE D == 0..Full
<1>0. /\ left \in Seq(D) /\ right \in Seq(D) /\ pos \in D /\ Len(left) >= 2 /\ Len(right) >= 2
      /\ Honest \/ LastRight \/ LastLeft
      /\ pos \in {left[1], right[1]} /\ sat.bisect \in Nat \ {0}
  BY DEF FoundTyped, BoundsInv, VerifyInv
<1>l. Len(left) \in Nat /\ Len(right) \in Nat /\ Len(left) >= 1 /\ Len(right) >= 1
  BY <1>0
<1>s. Full \in Nat /\ Grain \in 2..40
  BY ScaleFacts
<1>1. /\ sat' = sat
      /\ \/ (ofLeft <=> pos >= sat.bisect) /\ late' = late
         \/ ~Lied /\ Lied'
  BY OneLateInBisection
<1>2. Lied => (ofLeft <=> pos >= sat.bisect) /\ Lied'
  BY <1>1 DEF Lied
<1>3. ~Lied => Honest
  BY <1>0 DEF LastRight, LastLeft
<1>4. /\ Head(left) = left[1] /\ Head(right) = right[1] /\ left[1] \in D /\ right[1] \in D
      /\ left[2] \in D /\ right[2] \in D
      /\ {1, 2} \subseteq 1..Len(left) /\ {1, 2} \subseteq 1..Len(right)
  <2>1. {1, 2} \subseteq 1..Len(left) /\ {1, 2} \subseteq 1..Len(right)
    BY <1>0, <1>l
  <2> HIDE DEF D
  <2>2. Head(left) = left[1] /\ Head(right) = right[1]
    BY <1>0, <1>l, HeadOf
  <2>3. left[1] \in D /\ right[1] \in D /\ left[2] \in D /\ right[2] \in D
    BY <1>0, <2>1, ElementsOf
  <2> QED BY <2>1, <2>2, <2>3
<1>5. Honest => left[1] < sat.bisect /\ left[2] < sat.bisect /\ right[1] >= sat.bisect /\ right[2] >= sat.bisect
  BY <1>4 DEF Honest, AllKeepUp, AllSaturate
<1>6. CASE ofLeft
  <2>0. pos = left[1]
    BY <1>4, <1>6
  <2>1. /\ left' \in Seq(D) /\ Len(left') = Len(left) - 1
        /\ \A i \in 1..Len(left') : left'[i] = left[i + 1]
    <3>1. left' = Tail(left)
      BY <1>6
    <3> HIDE DEF D
    <3> QED BY <1>0, <1>l, <3>1, TailOf
  <2>2. /\ right' \in Seq(D) /\ Len(right') = Len(right) /\ right'[1] = pos
        /\ \A i \in 2..Len(right') : right'[i] = right[i - 1]
    <3>1. right' = <<pos>> \o Front(right)
      BY <1>6
    <3> HIDE DEF D
    <3>2. LET t == <<pos>> \o Front(right) IN
            /\ t \in Seq(D) /\ Len(t) = Len(right) /\ t[1] = pos
            /\ \A i \in 2..Len(t) : t[i] = right[i - 1]
      <4>1. right \in Seq(D) /\ pos \in D /\ Len(right) >= 1
        BY <1>0, <1>l
      <4> QED BY <4>1, MovedOver
    <3> QED BY <3>1, <3>2
  <2>3. Len(left') >= 1 /\ Len(right') >= 2 /\ left'[1] = left[2] /\ right'[2] = right[1]
    BY <1>0, <1>l, <2>1, <2>2
  <2>4. CASE Honest
    <3>1. ~Lied /\ Lied'
      BY <1>1, <1>4, <1>5, <1>6, <2>0, <2>4, <1>0, <1>s
    <3>2. left[2] < left[1]
      BY <1>0, <3>1 DEF BoundsInv
    <3>3. AllKeepUp(left', 1)
      <4>1. \A i \in 1..Len(left') : i + 1 \in 1..Len(left)
        BY <1>l, <2>1
      <4> QED BY <1>1, <2>1, <2>4, <4>1 DEF Honest, AllKeepUp
    <3>4. AllSaturate(right', 2)
      <4>1. \A i \in 2..Len(right') : i - 1 \in 1..Len(right)
        BY <1>l, <2>2
      <4> QED BY <2>2, <2>4, <4>1 DEF Honest, AllSaturate
    <3>5. right'[1] < sat.bisect
      BY <1>5, <2>0, <2>2, <2>4
    <3>6. left'[1] < right'[1]
      BY <2>0, <2>2, <2>3, <3>2
    <3>7. LastRight'
      BY <1>1, <2>3, <3>1, <3>3, <3>4, <3>5, <3>6 DEF LastRight, AllKeepUp, AllSaturate
    <3>8. left'[1] <= right'[1]
      BY <1>4, <2>0, <2>2, <2>3, <3>2, <1>s
    <3> QED BY <1>1, <2>1, <2>2, <2>3, <1>l, <3>1, <3>7, <3>8
  <2>5. CASE LastRight
    <3>1. Lied /\ left[1] < right[1] /\ right[1] < sat.bisect
      BY <2>5 DEF LastRight
    <3>2. pos >= sat.bisect
      BY <1>2, <1>6, <3>1
    <3>3. pos < sat.bisect
      BY SMTT(20), <2>0, <3>1, <1>0, <1>4, <1>s
    <3> QED BY <1>0, <1>4, <1>s, <3>2, <3>3
  <2>6. CASE LastLeft
    <3>1. Lied' /\ left[1] >= sat.bisect /\ left[2] < sat.bisect
      BY <1>2, <1>4, <1>l, <2>6 DEF LastLeft, AllKeepUp
    <3>2. AllKeepUp(left', 1)
      <4>1. \A i \in 1..Len(left') : i + 1 \in 2..Len(left)
        BY <1>l, <2>1
      <4>2. \A i \in 2..Len(left) : left[i] < sat.bisect
        BY <2>6 DEF LastLeft, AllKeepUp
      <4> QED BY <2>1, <4>1, <4>2 DEF AllKeepUp
    <3>3. AllSaturate(right', 1)
      <4>1. \A i \in 2..Len(right') : i - 1 \in 1..Len(right)
        BY <1>l, <2>2
      <4>2. \A i \in 1..Len(right) : right[i] >= sat.bisect
        BY <2>6 DEF LastLeft, AllSaturate
      <4>3. \A i \in 1..Len(right') : i = 1 \/ i \in 2..Len(right')
        BY <1>l, <2>2
      <4>4. right'[1] >= sat.bisect
        BY <2>0, <2>2, <3>1
      <4> QED BY <2>2, <4>1, <4>2, <4>3, <4>4 DEF AllSaturate
    <3>4. Honest'
      BY <1>1, <3>2, <3>3 DEF Honest, AllKeepUp, AllSaturate
    <3>5. left'[1] <= right'[1]
      <4>1. left'[1] = left[2] /\ right'[1] = left[1]
        BY <2>0, <2>2, <2>3
      <4> QED BY <1>0, <1>4, <1>s, <3>1, <4>1
    <3> QED BY <1>1, <2>1, <2>2, <2>3, <1>l, <3>1, <3>4, <3>5
  <2> QED BY <1>0, <2>4, <2>5, <2>6
<1>7. CASE ~ofLeft
  <2>0. pos = right[1]
    BY <1>0, <1>4, <1>7
  <2>1. /\ right' \in Seq(D) /\ Len(right') = Len(right) - 1
        /\ \A i \in 1..Len(right') : right'[i] = right[i + 1]
    <3>1. right' = Tail(right)
      BY <1>7
    <3> HIDE DEF D
    <3> QED BY <1>0, <1>l, <3>1, TailOf
  <2>2. /\ left' \in Seq(D) /\ Len(left') = Len(left) /\ left'[1] = pos
        /\ \A i \in 2..Len(left') : left'[i] = left[i - 1]
    <3>1. left' = <<pos>> \o Front(left)
      BY <1>7
    <3> HIDE DEF D
    <3>2. LET t == <<pos>> \o Front(left) IN
            /\ t \in Seq(D) /\ Len(t) = Len(left) /\ t[1] = pos
            /\ \A i \in 2..Len(t) : t[i] = left[i - 1]
      <4>1. left \in Seq(D) /\ pos \in D /\ Len(left) >= 1
        BY <1>0, <1>l
      <4> QED BY <4>1, MovedOver
    <3> QED BY <3>1, <3>2
  <2>3. Len(right') >= 1 /\ Len(left') >= 2 /\ right'[1] = right[2] /\ left'[2] = left[1]
    BY <1>0, <1>l, <2>1, <2>2
  <2>4. CASE Honest
    <3>1. ~Lied /\ Lied'
      BY <1>1, <1>5, <1>7, <2>0, <2>4
    <3>2. right[1] < right[2]
      BY <1>0, <3>1 DEF BoundsInv
    <3>3. AllKeepUp(left', 2)
      <4>1. \A i \in 2..Len(left') : i - 1 \in 1..Len(left)
        BY <1>l, <2>2
      <4> QED BY <2>2, <2>4, <4>1 DEF Honest, AllKeepUp
    <3>4. AllSaturate(right', 1)
      <4>1. \A i \in 1..Len(right') : i + 1 \in 1..Len(right)
        BY <1>l, <2>1
      <4> QED BY <2>1, <2>4, <4>1 DEF Honest, AllSaturate
    <3>5. left'[1] >= sat.bisect
      BY <1>5, <2>0, <2>2, <2>4
    <3>6. left'[1] <= right'[1]
      BY <1>4, <1>s, <2>0, <2>2, <2>3, <3>2
    <3>7. LastLeft'
      BY <1>1, <2>3, <3>1, <3>3, <3>4, <3>5, <3>6 DEF LastLeft, AllKeepUp, AllSaturate
    <3> QED BY <1>1, <2>1, <2>2, <2>3, <1>l, <3>1, <3>6, <3>7
  <2>5. CASE LastRight
    <3>1. Lied' /\ right[1] < sat.bisect /\ right[2] >= sat.bisect
      BY <1>2, <1>4, <1>l, <2>5, <1>0 DEF LastRight, AllSaturate
    <3>2. AllKeepUp(left', 1)
      <4>1. \A i \in 2..Len(left') : i - 1 \in 1..Len(left)
        BY <1>l, <2>2
      <4>2. \A i \in 1..Len(left) : left[i] < sat.bisect
        BY <2>5 DEF LastRight, AllKeepUp
      <4>3. \A i \in 1..Len(left') : i = 1 \/ i \in 2..Len(left')
        BY <1>l, <2>2
      <4>4. left'[1] < sat.bisect
        BY <2>0, <2>2, <3>1
      <4> QED BY <2>2, <4>1, <4>2, <4>3, <4>4 DEF AllKeepUp
    <3>3. AllSaturate(right', 1)
      BY <1>0, <1>l, <2>1, <2>5 DEF LastRight, AllSaturate
    <3>4. Honest'
      BY <1>1, <3>2, <3>3 DEF Honest, AllKeepUp, AllSaturate
    <3>5. left'[1] <= right'[1]
      <4>1. left'[1] = right[1] /\ right'[1] = right[2]
        BY <2>0, <2>2, <2>3
      <4> QED BY <1>0, <1>4, <1>s, <3>1, <4>1
    <3> QED BY <1>1, <2>1, <2>2, <2>3, <1>l, <3>1, <3>4, <3>5
  <2>6. CASE LastLeft
    <3>1. Lied /\ left[1] >= sat.bisect /\ left[1] <= right[1]
      BY <2>6 DEF LastLeft
    <3>2. ~(pos >= sat.bisect)
      BY <1>2, <1>7, <3>1
    <3> QED BY <1>0, <1>4, <1>s, <2>0, <3>1, <3>2
  <2> QED BY <1>0, <2>4, <2>5, <2>6
<1> QED BY <1>6, <1>7

LEMMA VerifyKept ==
  ASSUME BenchScale, ParamsShape, ~TestMode, FoundAll, VerifyRound
  PROVE  FoundAll'
<1>0. FoundTyped /\ BoundsInv /\ VerifyInv /\ benchPhase = "verify"
  BY DEF FoundAll, VerifyRound
<1> DEFINE ofLeft == pos = Head(left)
<1>1. ofLeft \in BOOLEAN
  OBVIOUS
<1>2. late' \in 0..MaxLate /\ sat' = sat /\ before' \in 0..Full /\ (before' = pos \/ Lied')
  <2>1. PICK v \in BOOLEAN : Judged(v)
    BY DEF VerifyRound
  <2>2. sat' = sat /\ before' \in {pos, before} /\ late' \in 0..MaxLate /\ (before' = pos \/ Lied')
    BY <1>0, <2>1, OneLateInBisection
  <2> QED BY <1>0, <2>2 DEF FoundTyped
<1>3. CASE /\ Judged(ofLeft)
           /\ IF ofLeft THEN right' = <<pos>> \o Front(right) /\ left' = Tail(left)
              ELSE left' = <<pos>> \o Front(left) /\ right' = Tail(right)
           /\ pos' = Mid(left', right') /\ benchPhase' = "bisect" /\ UNCHANGED benchParams
  <2>0. ofLeft <=> pos = Head(left)
    OBVIOUS
  <2> HIDE DEF ofLeft
  <2>1. /\ left' \in Seq(0..Full) /\ right' \in Seq(0..Full) /\ Lied'
        /\ Len(left') >= 1 /\ Len(right') >= 1 /\ (Honest \/ LastRight \/ LastLeft)'
        /\ left'[1] <= right'[1]
    BY <1>0, <1>1, <1>3, <2>0, BoundMoves
  <2>2. pos' \in 0..Full
    BY <1>3, <2>1, MidBetween
  <2>3. FoundTyped' /\ BoundsInv' /\ BisectInv'
    BY <1>0, <1>2, <1>3, <2>1, <2>2 DEF FoundTyped, BoundsInv, BisectInv
  <2> QED BY <1>3, <2>3 DEF FoundAll, CpuInv, UpInv, VerifyInv, WalkInv, FracInv, Cpu
<1>4. CASE Judged(~ofLeft) /\ Refined(Head(right)) /\ UNCHANGED <<left, right>>
  <2>1. /\ left \in Seq(0..Full) /\ right \in Seq(0..Full) /\ Len(left) >= 1 /\ Len(right) >= 1
        /\ Len(left) >= 2 /\ Len(right) >= 2
        /\ Near(left, right) /\ pos \in {left[1], right[1]} /\ sat.bisect \in Nat \ {0}
        /\ Honest \/ LastRight \/ LastLeft
    BY <1>0 DEF FoundTyped, BoundsInv, VerifyInv
  <2>2. /\ Head(left) = left[1] /\ Head(right) = right[1]
        /\ left[1] \in 0..Full /\ right[1] \in 0..Full
        /\ 1 \in 1..Len(left) /\ 1 \in 1..Len(right)
    BY <2>1, HeadOf
  <2>3. \/ (ofLeft <=> ~(pos >= sat.bisect)) /\ late' = late
        \/ ~Lied /\ Lied'
    <3>1. \A v \in BOOLEAN : Judged(v) => ((v <=> pos >= sat.bisect) /\ late' = late) \/ (~Lied /\ Lied')
      BY <1>0, OneLateInBisection
    <3>2. (~ofLeft) \in BOOLEAN
      OBVIOUS
    <3> HIDE DEF ofLeft
    <3>3. (((~ofLeft) <=> pos >= sat.bisect) /\ late' = late) \/ (~Lied /\ Lied')
      BY <1>4, <3>1, <3>2
    <3> QED BY <3>3
  <2>4. Full \in Nat
    BY ScaleFacts
  <2>5. Lied => Lied'
    BY <2>3 DEF Lied
  <2>6. /\ left[1] <= right[1]
        /\ \/ Honest'
           \/ LastRight' /\ right'[2] - right'[1] <= Grain
           \/ LastLeft'
    <3>1. CASE Honest
      <4>1. left[1] < sat.bisect /\ right[1] >= sat.bisect
        BY <2>2, <3>1 DEF Honest, AllKeepUp, AllSaturate
      <4>2. Honest'
        BY <1>2, <1>4, <3>1 DEF Honest, AllKeepUp, AllSaturate
      <4> QED BY <2>1, <2>2, <2>4, <4>1, <4>2
    <3>2. CASE LastRight
      <4>1. Lied /\ left[1] < right[1] /\ right[1] < sat.bisect
        BY <3>2 DEF LastRight
      <4>2. ofLeft
        BY <2>1, <2>2, <2>3, <2>4, <4>1
      <4>3. right[2] - right[1] <= Grain
        BY <1>0, <2>2, <3>2, <4>2 DEF VerifyInv
      <4>4. LastRight'
        BY <1>2, <1>4, <2>5, <3>2 DEF LastRight, AllKeepUp, AllSaturate
      <4> QED BY <1>4, <2>2, <2>4, <4>1, <4>3, <4>4
    <3>3. CASE LastLeft
      <4>1. Lied /\ left[1] >= sat.bisect /\ left[1] <= right[1]
        BY <3>3 DEF LastLeft
      <4>2. LastLeft'
        BY <1>2, <1>4, <2>5, <3>3 DEF LastLeft, AllKeepUp, AllSaturate
      <4> QED BY <4>1, <4>2
    <3> QED BY <2>1, <3>1, <3>2, <3>3
  <2>7. /\ left' \in Seq(0..Full) /\ right' \in Seq(0..Full) /\ Len(left') >= 1 /\ Len(right') >= 1
        /\ Near(left', right') /\ left'[1] <= right'[1] /\ Refined(Head(right'))
    BY <1>4, <2>1, <2>6
  <2>b. ~Lied' => before' \in {left'[1], right'[1]}
    BY <1>2, <1>4, <2>1
  <2>8. WalkInv'
    BY <1>0, <1>2, <2>6, <2>7, <2>b, RefinesFrom
  <2>9. pos' \in 0..Full /\ benchParams'.frac \in 0..Full /\ benchPhase' = "refine"
    BY <1>4, <2>2 DEF Refined, ParamsShape
  <2>10. FoundTyped'
    BY <1>0, <1>2, <2>7, <2>9 DEF FoundTyped
  <2> QED BY <2>8, <2>9, <2>10 DEF FoundAll, CpuInv, UpInv, BoundsInv, BisectInv, VerifyInv, FracInv, Cpu
<1> QED BY <1>3, <1>4 DEF VerifyRound

LEMMA WalkKept ==
  ASSUME BenchScale, ParamsShape, ~TestMode, FoundAll, RefineRound
  PROVE  FoundAll'
<1>0. FoundTyped /\ WalkInv /\ benchPhase = "refine"
  BY DEF FoundAll, RefineRound
<1> DEFINE K == FirstSat
           st == Step
<1>1. /\ Full \in Nat /\ Full = 20 * Grain /\ Grain \in 2..40
      /\ sat.refine \in Nat \ {0} /\ pos \in 0..Full /\ before \in 0..Full
  BY <1>0, ScaleFacts DEF FoundTyped
<1>2. K \in 1..(Full + 1) /\ \A p \in 0..Full : p >= sat.refine <=> K <= p
  BY <1>1 DEF FirstSat, FirstOf
<1>3. st \in Nat /\ st >= 1 /\ 2 * st <= Grain
  BY <1>1 DEF Step
<1>4. /\ (K - 1) - pos < Grain
      /\ ~Lied => 2 * (K - pos) <= Grain /\ pos - before < Grain
  BY <1>0 DEF WalkInv
<1>s. \A p \in 0..Full : Saturates(p) <=> K <= p
  BY <1>0, <1>2 DEF Saturates
<1>5. Judged(TRUE) \/ Judged(FALSE) => sat' = sat /\ late' \in 0..MaxLate /\ before' \in 0..Full
  <2>1. ASSUME NEW v \in BOOLEAN, Judged(v)
        PROVE  sat' = sat /\ before' \in {pos, before} /\ late' \in 0..MaxLate
    BY <1>0, <2>1, OneLate
  <2> QED BY <1>1, <2>1
<1>t. Judged(TRUE) => \/ K <= pos /\ late' = late /\ before' = pos
                      \/ ~Lied /\ Lied'
  BY <1>0, <1>1, <1>s, OneLate
<1>f. Judged(FALSE) => ~(K <= pos) \/ (~Lied /\ ~(K <= before))
  BY <1>0, <1>1, <1>s, OneLate
<1>6. CASE /\ Judged(TRUE) /\ MayGoLower /\ pos' = pos - Step
           /\ UNCHANGED <<benchPhase, benchParams, left, right>>
  <2>1. sat' = sat /\ late' \in 0..MaxLate /\ before' \in 0..Full
    BY <1>5, <1>6
  <2>2. FirstSat' = K
    BY <2>1 DEF FirstSat, FirstOf
  <2>3. pos' = pos - st /\ pos' \in 0..Full
    <3>1. pos >= st
      BY <1>1, <1>3, <1>6 DEF MayGoLower
    <3> QED BY <1>1, <1>3, <1>6, <3>1
  <2>4. K <= pos \/ ~Lied
    BY <1>t, <1>6
  <2>5. ~Lied' => K <= pos /\ before' = pos
    BY <1>t, <1>6
  <2>6. /\ (K - 1) - pos' < Grain
        /\ ~Lied' => 2 * (K - pos') <= Grain /\ pos' - before' < Grain
    <3> HIDE DEF K, st
    <3>1. (K - 1) - pos' < Grain
      BY <1>1, <1>2, <1>3, <1>4, <2>3, <2>4
    <3>2. ~Lied' => 2 * (K - pos') <= Grain /\ pos' - before' < Grain
      BY <1>1, <1>2, <1>3, <2>3, <2>5
    <3> QED BY <3>1, <3>2
  <2>7. WalkInv'
    BY <2>2, <2>6 DEF WalkInv
  <2>8. FoundTyped'
    BY <1>0, <1>6, <2>1, <2>3 DEF FoundTyped
  <2> QED BY <1>0, <1>6, <2>7, <2>8 DEF FoundAll, CpuInv, UpInv, BoundsInv, BisectInv, VerifyInv, FracInv, Cpu
<1>7. CASE /\ Judged(FALSE) \/ (Judged(TRUE) /\ ~MayGoLower)
           /\ benchPhase' = "save" /\ UNCHANGED <<pos, left, right>>
           /\ benchParams' = [benchParams EXCEPT !.frac = pos]
  <2>1. sat' = sat /\ late' \in 0..MaxLate /\ before' \in 0..Full
    BY <1>5, <1>7
  <2>2. FirstSat' = K /\ benchParams'.frac = pos
    BY <1>7, <2>1 DEF FirstSat, FirstOf, ParamsShape
  <2>3. pos - (K - 1) < Grain
    <3>1. CASE Judged(FALSE)
      <4>1. ~(K <= pos) \/ (~Lied /\ ~(K <= before))
        BY <1>f, <3>1
      <4> HIDE DEF K
      <4> QED BY <1>1, <1>2, <1>4, <4>1
    <3>2. CASE ~MayGoLower
      <4>1. pos <= 1
        <5>1. CASE pos < 4
          BY <1>1, <3>2, <5>1 DEF MayGoLower, Step
        <5>2. CASE pos >= 4 /\ pos < 40
          BY <1>1, <3>2, <5>2 DEF MayGoLower, Step
        <5>3. CASE pos >= 40
          <6> DEFINE h == pos \div 2
                     t == pos \div 40
          <6>1. h \in Nat /\ 2 * h <= pos /\ t \in Nat /\ 40 * t <= pos
            BY <1>1, <5>3
          <6>2. pos < h + t
            BY <1>1, <3>2, <5>3 DEF MayGoLower, Step
          <6> HIDE DEF h, t
          <6> QED BY <1>1, <5>3, <6>1, <6>2
        <5> QED BY <1>1, <5>1, <5>2, <5>3
      <4> HIDE DEF K
      <4> QED BY <1>1, <1>2, <4>1
    <3> QED BY <1>7, <3>1, <3>2
  <2>4. FracInv'
    BY <1>4, <2>2, <2>3 DEF FracInv
  <2>5. FoundTyped'
    BY <1>0, <1>1, <1>7, <2>1, <2>2 DEF FoundTyped
  <2> QED BY <1>7, <2>4, <2>5 DEF FoundAll, CpuInv, UpInv, BoundsInv, BisectInv, VerifyInv, WalkInv, Cpu
<1> QED BY <1>6, <1>7 DEF RefineRound

LEMMA FoundKept ==
  ASSUME BenchScale
  PROVE  FoundInv /\ [BenchRunNext]_benchRunVars => FoundInv'
<1> SUFFICES ASSUME FoundInv, [BenchRunNext]_benchRunVars PROVE FoundInv'
  OBVIOUS
<1>1. ParamsShape' /\ (TestMode' <=> TestMode)
  <2>1. \A f : /\ [benchParams EXCEPT !.frac = f].test = benchParams.test
               /\ DOMAIN [benchParams EXCEPT !.frac = f] = DOMAIN benchParams
    BY DEF FoundInv, ParamsShape
  <2>2. /\ [benchParams EXCEPT !.args = TRUE].test = benchParams.test
        /\ DOMAIN [benchParams EXCEPT !.args = TRUE] = DOMAIN benchParams
        /\ [benchParams EXCEPT !.params = TRUE].test = benchParams.test
        /\ DOMAIN [benchParams EXCEPT !.params = TRUE] = DOMAIN benchParams
    BY DEF FoundInv, ParamsShape
  <2>3. CASE UNCHANGED benchParams
    BY <2>3 DEF FoundInv, ParamsShape, TestMode
  <2>4. CASE \E f : benchParams' = [benchParams EXCEPT !.frac = f]
    BY <2>1, <2>4 DEF FoundInv, ParamsShape, TestMode
  <2>5. CASE SaveParams
    BY <2>2, <2>5 DEF FoundInv, ParamsShape, TestMode, SaveParams
  <2>6. CASE UpRound \/ BisectRound
    BY <2>3, <2>4, <2>6 DEF UpRound, BisectRound, Refined
  <2>7. CASE VerifyRound \/ RefineRound
    BY <2>3, <2>4, <2>7 DEF VerifyRound, RefineRound, Refined
  <2> QED BY <2>3, <2>5, <2>6, <2>7 DEF BenchRunNext, benchRunVars, Slot, ConvergePanics, CpuRound
<1> SUFFICES ASSUME ~TestMode PROVE FoundAll'
  BY <1>1 DEF FoundInv
<1>2. FoundAll /\ ParamsShape
  BY DEF FoundInv
<1>s. Full \in Nat /\ Grain \in 2..40 /\ Full = 20 * Grain /\ Full \div 5 = 4 * Grain
  BY ScaleFacts
<1>3. CASE Slot
  <2>1. UNCHANGED <<benchPhase, sat, pos, left, right, before, late, benchParams>>
    BY <1>3 DEF Slot
  <2> QED BY <1>2, <2>1
    DEF FoundAll, FoundTyped, CpuInv, UpInv, BoundsInv, BisectInv, VerifyInv, WalkInv, FracInv, Honest,
        LastRight, LastLeft, AllKeepUp, AllSaturate, Lied, Near, Mid, FirstSat, FirstOf
<1>4. CASE ConvergePanics
  <2>1. UNCHANGED <<sat, pos, left, right, before, late, benchParams>> /\ benchPhase' = "panicked"
    BY <1>4 DEF ConvergePanics
  <2> QED BY <1>2, <2>1
    DEF FoundAll, FoundTyped, CpuInv, UpInv, BoundsInv, BisectInv, VerifyInv, WalkInv, FracInv, Cpu
<1>5. CASE CpuRound
  <2>1. UNCHANGED <<sat, left, right, before, late, benchParams>> /\ benchPhase \in Cpu
    BY <1>5 DEF CpuRound
  <2>2. FoundTyped /\ before = 0
    BY <1>2, <2>1 DEF FoundAll, CpuInv
  <2>3. \/ benchPhase' \in Cpu /\ pos' \in {0, pos}
        \/ benchPhase' = "up" /\ pos' = 4 * Grain
    BY <1>s, <1>5 DEF CpuRound, Cpu, NextUp
  <2>4. pos' \in 0..Full /\ FoundTyped'
    BY <1>s, <2>1, <2>2, <2>3 DEF FoundTyped
  <2>5. CpuInv'
    BY <2>1, <2>2 DEF CpuInv
  <2>6. UpInv'
    BY <1>s, <2>1, <2>2, <2>3 DEF UpInv, Cpu, FoundTyped
  <2> QED BY <2>3, <2>4, <2>5, <2>6 DEF FoundAll, BoundsInv, BisectInv, VerifyInv, WalkInv, FracInv, Cpu
<1>6. CASE SaveParams
  <2>1. UNCHANGED <<sat, pos, left, right, before, late>> /\ benchPhase = "save"
          /\ benchPhase' \in {"save", "done"}
    BY <1>6 DEF SaveParams
  <2>2. benchParams'.frac = benchParams.frac
    BY <1>2, <1>6 DEF SaveParams, ParamsShape
  <2> QED BY <1>2, <2>1, <2>2
    DEF FoundAll, FoundTyped, CpuInv, UpInv, BoundsInv, BisectInv, VerifyInv, WalkInv, FracInv, Cpu, FirstSat, FirstOf
<1>7. CASE UNCHANGED benchRunVars
  <2>1. UNCHANGED <<benchPhase, sat, pos, left, right, before, late, benchParams>>
    BY <1>7 DEF benchRunVars
  <2> QED BY <1>2, <2>1
    DEF FoundAll, FoundTyped, CpuInv, UpInv, BoundsInv, BisectInv, VerifyInv, WalkInv, FracInv, Honest,
        LastRight, LastLeft, AllKeepUp, AllSaturate, Lied, Near, Mid, FirstSat, FirstOf
<1> QED BY <1>2, <1>3, <1>4, <1>5, <1>6, <1>7, UpKept, BisectKept, VerifyKept, WalkKept DEF BenchRunNext

LEMMA BenchStarts == ASSUME BenchScale PROVE BenchRunInit => FoundInv
<1> SUFFICES ASSUME BenchRunInit PROVE FoundInv
  OBVIOUS
<1>1. /\ Full \in Nat /\ MaxLate \in Nat /\ {sat.refine, sat.bisect, sat.up} \subseteq Nat \ {0}
      /\ sat.refine <= sat.bisect /\ sat.bisect <= sat.up
  BY HashdBenchAssumption DEF BenchRunInit
<1>2. ParamsShape /\ benchParams.frac = 0
  BY DEF BenchRunInit, ParamsShape
<1>3. FoundTyped
  BY <1>1, <1>2 DEF BenchRunInit, FoundTyped
<1> QED BY <1>2, <1>3 DEF BenchRunInit, FoundInv, FoundAll, CpuInv, UpInv, BoundsInv, BisectInv, VerifyInv,
                          WalkInv, FracInv, Cpu

LEMMA FoundIsNear == ASSUME BenchScale PROVE FoundInv => MemoryFound
<1> SUFFICES ASSUME FoundInv, benchPhase = "done", ~TestMode
             PROVE  /\ benchParams.frac - (FirstSat - 1) < Grain
                    /\ (FirstSat - 1) - benchParams.frac < Grain
  BY DEF MemoryFound, FirstSat, FirstOf
<1> QED BY DEF FoundInv, FoundAll, FracInv

(* On the scale of bench.rs, wherever the rps falls short by each of its    *)
(* three thresholds, however long each round takes to converge and with up  *)
(* to one try judged by the size before it: the size that                   *)
(* bench_memio_saturation_bisect() and bench_memio_saturation_refine() end  *)
(* with, and run() saves, is within the grain of the largest that is full   *)
(* performance by the last and strictest of them.                           *)
THEOREM SizeFoundIsNear == ASSUME BenchScale PROVE BenchRunSpec => []MemoryFound
<1>1. BenchRunInit => FoundInv
  BY BenchStarts
<1>2. FoundInv /\ [BenchRunNext]_benchRunVars => FoundInv'
  BY FoundKept
<1>3. FoundInv => MemoryFound
  BY FoundIsNear
<1> QED BY <1>1, <1>2, <1>3, PTL DEF BenchRunSpec

-----------------------------------------------------------------------------
(* The test files of rd-hashd and its log, HashdFiles.                     *)

TestFile == [whole: BOOLEAN, comp: Comps \cup {"none"}]
Hashd == [at: {"down", "clear", "look", "create", "write", "logging", "closing"},
          nr: 1..NrTestFiles, comp: Comps \cup {CHOOSE c \in Comps : TRUE}, i: 0..NrTestFiles]
FilesTyped ==
    /\ testFiles \in [0..(NrTestFiles - 1) -> TestFile]
    /\ hashd \in Hashd /\ hashd.i <= hashd.nr
    /\ ~HashdAt("down") => hashd.comp \in Comps

(* The files up to the one that is looked at are as they are to be.        *)
ReadyFile == [whole |-> TRUE, comp |-> hashd.comp]
ReadyInv ==
    /\ HashdAt("clear") => hashd.i = 0
    /\ hashd.at \in {"create", "write"} => hashd.i < hashd.nr
    /\ hashd.at \in Running => hashd.i = hashd.nr
    /\ hashd.at \notin {"down", "clear"} => \A j \in 0..(hashd.i - 1) : testFiles[j] = ReadyFile
    /\ HashdAt("write") => testFiles[hashd.i] = [NoFile EXCEPT !.comp = hashd.comp]

(* The names that rotations have given so far.                             *)
Names == {Times[k] : k \in 1..spentFiles.rotations}
Line == Nat \ {0}
InHand == {"rotate", "expire", "create", "write"}

LogTyped ==
    /\ logDir = [cur |-> logDir.cur, old |-> logDir.old]
    /\ logDir.cur = NoLog \/ logDir.cur \in Seq(Line)
    /\ DOMAIN logDir.old \subseteq Names /\ logDir.old \in [DOMAIN logDir.old -> Seq(Line)]
    /\ worker \in [file: BOOLEAN, size: Nat, old: Seq(DOMAIN logDir.old),
                   step: {"none", "opening", "idle"} \cup InHand, msg: Nat]
    /\ lines \in Seq(Line)
    /\ logged \in [sent: 0..MaxLines, expired: Nat, stuck: SUBSET Names]
    /\ spentFiles \in [starts: Nat, faults: Nat, rotations: 0..Len(Times)]
    /\ (worker.step = "none") <=> hashd.at \notin Running

(* The lines are written in the order sent: Done is the last that has been *)
(* written, or given up.                                                   *)
Done == logged.sent - Len(lines) - (IF worker.step \in InHand THEN 1 ELSE 0)
CurLines == IF logDir.cur = NoLog THEN {} ELSE ToSet(logDir.cur)
QueueInv ==
    /\ Done \in Nat /\ (worker.step \in {"none", "opening"} => lines = <<>>)
    /\ \A i \in DOMAIN lines : lines[i] = logged.sent - Len(lines) + i
    /\ worker.step \in InHand => worker.msg = Done + 1
OrderInv ==
    /\ \A l \in CurLines : l <= Done /\ l > logged.expired
    /\ \A n \in DOMAIN logDir.old : \A l \in ToSet(logDir.old[n]) :
          /\ l <= Done /\ (n \notin logged.stuck => l > logged.expired)
          /\ \A k \in CurLines : l < k
          /\ \A m \in DOMAIN logDir.old : Before(n, m) => \A k \in ToSet(logDir.old[m]) : l < k
    /\ logged.expired <= Done

(* What there is to expire is known, the oldest first.                     *)
KnownInv ==
    worker.step # "none" =>
        /\ \A i, j \in DOMAIN worker.old : i < j => Before(worker.old[i], worker.old[j])
        /\ OnDisk \subseteq ToSet(worker.old)
        /\ worker.step \in {"idle", "rotate", "create", "write"} => ~TooMany

(* A rotation takes a full log.                                            *)
SizeInv ==
    /\ worker.file /\ worker.step \in {"opening", "idle", "rotate", "write"} =>
          logDir.cur # NoLog /\ worker.size = Len(logDir.cur)
    /\ spentFiles.rotations * UnitLines + (IF logDir.cur = NoLog THEN 0 ELSE Len(logDir.cur)) <= Done

(* Nothing is lost where nothing fails.                                    *)
WholeInv ==
    spentFiles.faults = 0 =>
        /\ logged.stuck = {} /\ (worker.step # "none" => worker.file)
        /\ worker.step \in {"expire", "create"} => logDir.cur = NoLog
        /\ (logged.expired + 1)..Done \subseteq LinesLeft

LogInv == LogTyped /\ QueueInv /\ OrderInv /\ KnownInv /\ SizeInv /\ WholeInv

LEMMA FileSlots == /\ NrTestFiles \in Nat \ {0} /\ UnitLines \in Nat \ {0} /\ LogCapacity \in Nat \ {0}
                   /\ NrToKeep \in Nat /\ MaxLines \in Nat /\ MaxStarts \in Nat
BY HashdFilesAssumption

(* What moves from one test file to the next.                              *)
LEMMA NextFile ==
  ASSUME hashd \in Hashd, hashd.i \in 0..(NrTestFiles - 1), NextTestFile
  PROVE  /\ hashd' \in Hashd /\ hashd'.at = "look" /\ hashd'.i = hashd.i + 1 /\ hashd'.nr = hashd.nr
         /\ hashd'.comp = hashd.comp
<1>1. hashd.i + 1 \in 0..NrTestFiles
  BY FileSlots
<1>2. hashd' = [at |-> "look", nr |-> hashd.nr, comp |-> hashd.comp, i |-> hashd.i + 1]
  BY DEF NextTestFile, Hashd
<1> QED BY <1>1, <1>2 DEF Hashd

LEMMA SetupKeepsReady ==
  ASSUME FilesTyped, ReadyInv, Setup
  PROVE  FilesTyped' /\ ReadyInv'
<1> DEFINE f == testFiles[hashd.i]
<1>1. /\ testFiles \in [0..(NrTestFiles - 1) -> TestFile] /\ hashd \in Hashd
      /\ hashd.i \in 0..(NrTestFiles - 1) /\ hashd.i < hashd.nr /\ hashd.nr \in 1..NrTestFiles
      /\ NrTestFiles \in Nat
  BY FileSlots DEF FilesTyped, Setup, Hashd
<1>2. f \in TestFile /\ hashd.at \in {"look", "create", "write"} /\ hashd.comp \in Comps
  BY <1>1 DEF Setup, FilesTyped, HashdAt
<1>3. \A j \in 0..(hashd.i - 1) : testFiles[j] = ReadyFile
  BY <1>2 DEF ReadyInv
<1>s. ASSUME NEW g, SetTestFile(g)
      PROVE  /\ \A j \in 0..(hashd.i - 1) : testFiles'[j] = ReadyFile
             /\ testFiles'[hashd.i] = g
             /\ g \in TestFile => testFiles' \in [0..(NrTestFiles - 1) -> TestFile]
  <2>1. \A j \in 0..(hashd.i - 1) : j \in 0..(NrTestFiles - 1) /\ j # hashd.i
    BY <1>1
  <2> QED BY <1>1, <1>3, <1>s, <2>1 DEF SetTestFile
<1>4. CASE HashdAt("look") /\ Usable(f) /\ NextTestFile /\ UNCHANGED testFiles
  <2>1. f = ReadyFile
    BY <1>2, <1>4 DEF Usable, ReadyFile, TestFile
  <2>2. /\ hashd' \in Hashd /\ hashd'.at = "look" /\ hashd'.i = hashd.i + 1 /\ hashd'.nr = hashd.nr
        /\ hashd'.comp = hashd.comp
    BY <1>1, <1>4, NextFile
  <2>3. \A j \in 0..(hashd'.i - 1) : testFiles'[j] = ReadyFile'
    <3> SUFFICES ASSUME NEW j \in 0..(hashd'.i - 1) PROVE testFiles'[j] = ReadyFile'
      OBVIOUS
    <3>1. j \in 0..(hashd.i - 1) \/ j = hashd.i
      BY <1>1, <2>2
    <3> QED BY <1>3, <1>4, <2>1, <2>2, <3>1 DEF ReadyFile
  <2> QED BY <1>1, <1>2, <1>4, <2>2, <2>3 DEF FilesTyped, ReadyInv, HashdAt, Running
<1>5. CASE HashdAt("look") /\ HashdGoto("create") /\ SetTestFile(NoFile)
  <2>1. /\ hashd' \in Hashd /\ hashd'.at = "create" /\ hashd'.i = hashd.i /\ hashd'.nr = hashd.nr
        /\ hashd'.comp = hashd.comp
    BY <1>1, <1>5 DEF HashdGoto, Hashd
  <2>2. testFiles' \in [0..(NrTestFiles - 1) -> TestFile]
    BY <1>1, <1>5 DEF SetTestFile, NoFile, TestFile
  <2>3. \A j \in 0..(hashd'.i - 1) : testFiles'[j] = ReadyFile'
    BY <1>5, <1>s, <2>1 DEF ReadyFile
  <2> QED BY <1>1, <1>2, <2>1, <2>2, <2>3 DEF FilesTyped, ReadyInv, HashdAt, Running
<1>6. CASE HashdAt("create") /\ HashdGoto("write") /\ SetTestFile([NoFile EXCEPT !.comp = hashd.comp])
  <2>1. /\ hashd' \in Hashd /\ hashd'.at = "write" /\ hashd'.i = hashd.i /\ hashd'.nr = hashd.nr
        /\ hashd'.comp = hashd.comp
    BY <1>1, <1>6 DEF HashdGoto, Hashd
  <2>2. testFiles' \in [0..(NrTestFiles - 1) -> TestFile]
    BY <1>1, <1>2, <1>6 DEF SetTestFile, NoFile, TestFile
  <2>3. /\ \A j \in 0..(hashd'.i - 1) : testFiles'[j] = ReadyFile'
        /\ testFiles'[hashd'.i] = [NoFile EXCEPT !.comp = hashd'.comp]
    BY <1>6, <1>s, <2>1 DEF ReadyFile
  <2> QED BY <1>1, <1>2, <2>1, <2>2, <2>3 DEF FilesTyped, ReadyInv, HashdAt, Running
<1>7. CASE HashdAt("write") /\ NextTestFile /\ SetTestFile([f EXCEPT !.whole = TRUE])
  <2>1. /\ hashd' \in Hashd /\ hashd'.at = "look" /\ hashd'.i = hashd.i + 1 /\ hashd'.nr = hashd.nr
        /\ hashd'.comp = hashd.comp
    BY <1>1, <1>7, NextFile
  <2>2. f = [NoFile EXCEPT !.comp = hashd.comp]
    BY <1>7 DEF ReadyInv
  <2>3. [f EXCEPT !.whole = TRUE] = ReadyFile /\ ReadyFile \in TestFile
    <3>1. f.comp = hashd.comp
      BY <2>2 DEF NoFile
    <3>2. \A g \in TestFile : \A v : [g EXCEPT !.whole = v] = [whole |-> v, comp |-> g.comp]
      BY DEF TestFile
    <3>3. [f EXCEPT !.whole = TRUE] = [whole |-> TRUE, comp |-> f.comp]
      BY <1>2, <3>2, Zenon
    <3> QED BY <1>2, <3>1, <3>3 DEF ReadyFile, TestFile
  <2>4. testFiles' \in [0..(NrTestFiles - 1) -> TestFile]
    BY <1>7, <1>s, <2>3
  <2>5. \A j \in 0..(hashd'.i - 1) : testFiles'[j] = ReadyFile'
    <3> SUFFICES ASSUME NEW j \in 0..(hashd'.i - 1) PROVE testFiles'[j] = ReadyFile'
      OBVIOUS
    <3>1. j \in 0..(hashd.i - 1) \/ j = hashd.i
      BY <1>1, <2>1
    <3>2. ReadyFile' = ReadyFile
      BY <2>1 DEF ReadyFile
    <3> QED BY <1>7, <1>s, <2>3, <3>1, <3>2
  <2> QED BY <1>1, <1>2, <2>1, <2>4, <2>5 DEF FilesTyped, ReadyInv, HashdAt, Running
<1> QED BY <1>4, <1>5, <1>6, <1>7 DEF Setup

LEMMA ReadyKept == FilesTyped /\ ReadyInv /\ [FilesNext]_fileVars => FilesTyped' /\ ReadyInv'
<1> SUFFICES ASSUME FilesTyped, ReadyInv, [FilesNext]_fileVars
             PROVE  FilesTyped' /\ ReadyInv'
  OBVIOUS
<1>1. /\ testFiles \in [0..(NrTestFiles - 1) -> TestFile] /\ hashd \in Hashd
      /\ hashd.i \in 0..NrTestFiles /\ hashd.nr \in 1..NrTestFiles /\ NrTestFiles \in Nat
      /\ hashd.i <= hashd.nr
  BY FileSlots DEF FilesTyped, Hashd
<1>2. CASE StartHashd
  <2>1. PICK nr \in 1..NrTestFiles, c \in Comps, clear \in BOOLEAN :
          hashd' = [at |-> IF clear THEN "clear" ELSE "look", nr |-> nr, comp |-> c, i |-> 0]
    BY <1>2 DEF StartHashd
  <2>2. hashd' \in Hashd /\ hashd'.i = 0 /\ hashd'.at \in {"clear", "look"} /\ hashd'.nr = nr
        /\ hashd'.comp \in Comps /\ testFiles' = testFiles
    BY <1>1, <1>2, <2>1 DEF StartHashd, Hashd
  <2> QED BY <1>1, <2>2 DEF FilesTyped, ReadyInv, HashdAt, Running
<1>3. CASE Clear
  <2>1. testFiles' \in [0..(NrTestFiles - 1) -> TestFile]
    <3>1. NoFile \in TestFile
      BY DEF NoFile, TestFile
    <3> QED BY <1>1, <1>3, <3>1 DEF Clear
  <2>2. CASE UNCHANGED hashd
    BY <1>1, <1>3, <2>1, <2>2 DEF Clear, FilesTyped, ReadyInv, HashdAt, Running
  <2>3. CASE HashdGoto("look")
    <3>1. hashd' \in Hashd /\ hashd'.i = 0 /\ hashd'.at = "look" /\ hashd'.nr = hashd.nr
          /\ hashd'.comp \in Comps
      BY <1>1, <1>3, <2>3 DEF Clear, HashdGoto, Hashd, ReadyInv, HashdAt, FilesTyped
    <3> QED BY <1>1, <2>1, <3>1 DEF FilesTyped, ReadyInv, HashdAt, Running
  <2> QED BY <1>3, <2>2, <2>3 DEF Clear
<1>4. CASE Setup
  BY <1>4, SetupKeepsReady
<1>5. CASE OpenLog \/ DropLogger
  <2>1. /\ hashd' \in Hashd /\ hashd'.at \in Running /\ hashd'.i = hashd.i /\ hashd'.nr = hashd.nr
        /\ hashd'.comp = hashd.comp /\ hashd.comp \in Comps /\ hashd.i = hashd.nr /\ testFiles' = testFiles
        /\ hashd.at \notin {"down", "clear"}
    BY <1>1, <1>5 DEF OpenLog, DropLogger, HashdGoto, HashdAt, Hashd, FilesTyped, ReadyInv, Running
  <2> QED BY <1>1, <2>1 DEF FilesTyped, ReadyInv, ReadyFile, HashdAt, Running
<1>6. CASE Receive \/ Rotate \/ Expire \/ Expired \/ Create \/ WriteLine \/ SendLine
           \/ UNCHANGED fileVars
  <2>1. UNCHANGED <<testFiles, hashd>>
    BY <1>6 DEF Receive, Rotate, Expire, Expired, Create, WriteLine, SendLine, HashStill, fileVars
  <2> QED BY <2>1 DEF FilesTyped, ReadyInv, ReadyFile, HashdAt, Running
<1>7. CASE JoinWorker \/ Kill
  <2>1. hashd' \in Hashd /\ hashd'.at = "down" /\ hashd'.i = hashd.i /\ hashd'.nr = hashd.nr
        /\ testFiles' = testFiles
    BY <1>1, <1>7 DEF JoinWorker, Kill, HashdGoto, Hashd
  <2> QED BY <1>1, <2>1 DEF FilesTyped, ReadyInv, HashdAt, Running
<1> QED BY <1>2, <1>3, <1>4, <1>5, <1>6, <1>7 DEF FilesNext

LEMMA FilesStart == FilesInit => FilesTyped /\ ReadyInv
BY FileSlots DEF FilesInit, FilesTyped, ReadyInv, Hashd, TestFile, NoFile, HashdAt, Running

LEMMA FilesAreReady == FilesTyped /\ ReadyInv => FilesReady
BY DEF FilesTyped, ReadyInv, FilesReady, ReadyFile, Running, HashdAt

-----------------------------------------------------------------------------
(* Names of archives, and sequences of them.                               *)
Time == Nat \X Nat

LEMMA BeforeOrders ==
  /\ \A a \in Time : ~Before(a, a)
  /\ \A a, b \in Time : a = b \/ Before(a, b) \/ Before(b, a)
  /\ \A a, b, c \in Time : Before(a, b) /\ Before(b, c) => Before(a, c)
<1>1. \A a \in Time : a[1] \in Nat /\ a[2] \in Nat /\ a = <<a[1], a[2]>>
  BY DEF Time
<1>2. \A a \in Time : ~Before(a, a)
  BY <1>1 DEF Before
<1>3. \A a, b \in Time : a = b \/ Before(a, b) \/ Before(b, a)
  <2> SUFFICES ASSUME NEW a \in Time, NEW b \in Time, ~Before(a, b), ~Before(b, a)
               PROVE  a = b
    OBVIOUS
  <2>1. a[1] = b[1] /\ a[2] = b[2]
    BY <1>1 DEF Before
  <2> QED BY <1>1, <2>1
<1>4. \A a, b, c \in Time : Before(a, b) /\ Before(b, c) => Before(a, c)
  BY <1>1 DEF Before
<1> QED BY <1>2, <1>3, <1>4

(* A finite set of names has an order, the oldest first, and OldestFirst is *)
(* one: the number of names up to a name is its place.                      *)
LEMMA NamesSorted ==
  ASSUME NEW S, IsFiniteSet(S), S \subseteq Time
  PROVE  /\ OldestFirst(S) \in Seq(S) /\ ToSet(OldestFirst(S)) = S
         /\ \A i, j \in DOMAIN OldestFirst(S) :
               i < j => Before(OldestFirst(S)[i], OldestFirst(S)[j])
<1> DEFINE n == Cardinality(S)
           D == 1..n
           Down(x) == {y \in S : y = x \/ Before(y, x)}
           rank == [x \in S |-> Cardinality(Down(x))]
           Ordered(s) == \A i, j \in DOMAIN s : i < j => Before(s[i], s[j])
<1>1. n \in Nat /\ IsFiniteSet(D) /\ Cardinality(D) = n
  <2>1. n \in Nat
    BY FS_CardinalityType
  <2> HIDE DEF n
  <2> QED BY <2>1, FS_Interval
<1>2. \A x \in S : IsFiniteSet(Down(x)) /\ Cardinality(Down(x)) \in 1..n
  <2> SUFFICES ASSUME NEW x \in S
               PROVE  IsFiniteSet(Down(x)) /\ Cardinality(Down(x)) \in 1..n
    OBVIOUS
  <2>1. Down(x) \in SUBSET S /\ x \in Down(x)
    OBVIOUS
  <2> HIDE DEF Down
  <2>2. IsFiniteSet(Down(x)) /\ Cardinality(Down(x)) <= n
    BY <2>1, FS_Subset
  <2>3. Cardinality(Down(x)) \in Nat /\ Cardinality(Down(x)) # 0
    BY <2>1, <2>2, FS_CardinalityType, FS_EmptySet
  <2> QED BY <1>1, <2>2, <2>3
<1>3. \A x, y \in S : Before(x, y) => rank[x] < rank[y]
  <2> SUFFICES ASSUME NEW x \in S, NEW y \in S, Before(x, y)
               PROVE  rank[x] < rank[y]
    OBVIOUS
  <2>1. Down(x) \in SUBSET Down(y) /\ y \in Down(y) /\ y \notin Down(x)
    BY BeforeOrders
  <2>2. rank[x] = Cardinality(Down(x)) /\ rank[y] = Cardinality(Down(y))
    OBVIOUS
  <2>3. IsFiniteSet(Down(y)) /\ Cardinality(Down(x)) \in Nat /\ Cardinality(Down(y)) \in Nat
    BY <1>2
  <2> HIDE DEF Down, rank
  <2>4. Cardinality(Down(x)) <= Cardinality(Down(y)) /\ Cardinality(Down(y)) # Cardinality(Down(x))
    BY <2>1, <2>3, FS_Subset
  <2> QED BY <2>2, <2>3, <2>4
<1>4. rank \in Injection(S, D)
  <2>1. rank \in [S -> D]
    BY <1>2
  <2>2. \A x, y \in S : rank[x] = rank[y] => x = y
    <3> SUFFICES ASSUME NEW x \in S, NEW y \in S, rank[x] = rank[y], x # y
                 PROVE  FALSE
      OBVIOUS
    <3>1. Before(x, y) \/ Before(y, x)
      BY BeforeOrders
    <3>2. rank[x] \in Nat /\ rank[y] \in Nat
      BY <2>1, <1>1
    <3> HIDE DEF rank
    <3> QED BY <1>3, <3>1, <3>2
  <2> HIDE DEF rank, D
  <2> QED BY <2>1, <2>2, Fun_IsInj
<1>5. rank \in [S -> D] /\ \A k \in D : \E x \in S : rank[x] = k
  <2> HIDE DEF rank, D
  <2>1. rank \in Surjection(S, D)
    BY <1>1, <1>4, FS_Injection
  <2> QED BY <2>1 DEF Surjection
<1> DEFINE s == [k \in D |-> CHOOSE x \in S : rank[x] = k]
<1>6. \A k \in D : s[k] \in S /\ rank[s[k]] = k
  <2> HIDE DEF rank, D
  <2> QED BY <1>5
<1>7. s \in SetToSeqs(S) /\ Ordered(s)
  <2>1. s \in [D -> S] /\ DOMAIN s = D
    BY <1>6
  <2>2. \A i, j \in D : i # j => s[i] # s[j]
    <3> HIDE DEF s, D, rank
    <3> QED BY <1>6
  <2>3. ASSUME NEW i \in D, NEW j \in D, i < j PROVE Before(s[i], s[j])
    <3>1. s[i] \in S /\ s[j] \in S /\ rank[s[i]] = i /\ rank[s[j]] = j
      BY <1>6
    <3>2. i \in Nat /\ j \in Nat
      BY <1>1
    <3> HIDE DEF s, D, rank
    <3>3. ~Before(s[j], s[i])
      BY <1>3, <2>3, <3>1, <3>2
    <3> QED BY <2>2, <2>3, <3>1, <3>2, <3>3, BeforeOrders
  <2> HIDE DEF s
  <2> QED BY <2>1, <2>2, <2>3 DEF SetToSeqs
<1> DEFINE t == OldestFirst(S)
<1>8. t \in SetToSeqs(S) /\ Ordered(t)
  <2> HIDE DEF s
  <2> QED BY <1>7 DEF OldestFirst
<1>9. t \in [D -> S] /\ \A i, j \in D : i # j => t[i] # t[j]
  BY <1>8 DEF SetToSeqs
<1>10. t \in Seq(S) /\ DOMAIN t = D
  <2> HIDE DEF t
  <2> QED BY <1>1, <1>9
<1>11. ToSet(t) = S
  <2> HIDE DEF t, D
  <2>1. t \in Injection(D, S)
    BY <1>9, Fun_IsInj
  <2>2. t \in Surjection(D, S)
    BY <1>1, <2>1, FS_Injection
  <2> QED BY <2>2, <1>10 DEF Surjection, ToSet
<1> QED BY <1>8, <1>10, <1>11

LEMMA ElementsOfNames ==
  ASSUME NEW D, NEW s \in Seq(D)
  PROVE  /\ ToSet(s) \subseteq D
         /\ \A x : ToSet(Append(s, x)) = ToSet(s) \cup {x}
         /\ s # <<>> => /\ Head(s) \in ToSet(s) /\ Tail(s) \in Seq(ToSet(s)) /\ Len(Tail(s)) = Len(s) - 1
                        /\ ToSet(s) = ToSet(Tail(s)) \cup {Head(s)}
                        /\ \A i \in DOMAIN Tail(s) : Tail(s)[i] = s[i + 1] /\ i + 1 \in DOMAIN s
         /\ IsFiniteSet(ToSet(s)) /\ Cardinality(ToSet(s)) <= Len(s)
<1>1. ToSet(s) \subseteq D /\ DOMAIN s = 1..Len(s) /\ Len(s) \in Nat
  BY DEF ToSet
<1>2. ASSUME NEW x PROVE ToSet(Append(s, x)) = ToSet(s) \cup {x}
  <2>1. /\ DOMAIN Append(s, x) = 1..(Len(s) + 1)
        /\ \A i \in 1..(Len(s) + 1) : Append(s, x)[i] = IF i = Len(s) + 1 THEN x ELSE s[i]
    <3>1. s \in Seq(D \cup {x})
      BY <1>1
    <3> QED BY <1>1, <3>1
  <2>2. \A i : i \in 1..(Len(s) + 1) <=> i \in 1..Len(s) \/ i = Len(s) + 1
    BY <1>1
  <2> QED BY <1>1, <2>1, <2>2 DEF ToSet
<1>3. ASSUME s # <<>>
      PROVE  /\ Head(s) \in ToSet(s) /\ Tail(s) \in Seq(ToSet(s)) /\ Len(Tail(s)) = Len(s) - 1
             /\ ToSet(s) = ToSet(Tail(s)) \cup {Head(s)}
             /\ \A i \in DOMAIN Tail(s) : Tail(s)[i] = s[i + 1] /\ i + 1 \in DOMAIN s
  <2>1. Len(s) >= 1 /\ Head(s) = s[1] /\ 1 \in DOMAIN s
    BY <1>1, <1>3
  <2>2. /\ DOMAIN Tail(s) = 1..(Len(s) - 1) /\ Len(Tail(s)) = Len(s) - 1
        /\ \A i \in 1..(Len(s) - 1) : Tail(s)[i] = s[i + 1] /\ i + 1 \in DOMAIN s
    BY <1>1, <1>3, <2>1
  <2>3. Head(s) \in ToSet(s) /\ \A i \in 1..(Len(s) - 1) : Tail(s)[i] \in ToSet(s)
    BY <2>1, <2>2 DEF ToSet
  <2>4. Tail(s) \in Seq(ToSet(s))
    <3>1. s \in Seq(ToSet(s))
      BY <1>1 DEF ToSet
    <3> QED BY <1>3, <3>1
  <2>5. ToSet(s) \subseteq ToSet(Tail(s)) \cup {Head(s)}
    <3> SUFFICES ASSUME NEW i \in DOMAIN s PROVE s[i] \in ToSet(Tail(s)) \cup {s[1]}
      BY <2>1 DEF ToSet
    <3>1. i # 1 => i - 1 \in 1..(Len(s) - 1) /\ Tail(s)[i - 1] = s[(i - 1) + 1] /\ (i - 1) + 1 = i
      BY <1>1, <2>2
    <3> QED BY <2>2, <3>1 DEF ToSet
  <2>6. ToSet(Tail(s)) \subseteq ToSet(s)
    BY <2>2, <2>3 DEF ToSet
  <2> QED BY <2>1, <2>2, <2>3, <2>4, <2>5, <2>6
<1>4. IsFiniteSet(ToSet(s)) /\ Cardinality(ToSet(s)) <= Len(s)
  <2>1. IsFiniteSet(1..Len(s)) /\ Cardinality(1..Len(s)) = Len(s)
    BY <1>1, FS_Interval
  <2>2. s \in Surjection(1..Len(s), ToSet(s))
    <3>1. s \in [1..Len(s) -> ToSet(s)]
      BY <1>1 DEF ToSet
    <3>2. \A x \in ToSet(s) : \E i \in 1..Len(s) : s[i] = x
      BY <1>1 DEF ToSet
    <3> QED BY <3>1, <3>2 DEF Surjection
  <2> QED BY <2>1, <2>2, FS_Surjection
<1> QED BY <1>1, <1>2, <1>3, <1>4

(* The largest of some numbers that none of exceeds a bound.               *)
LEMMA LargestIs ==
  ASSUME NEW S \in SUBSET Nat, NEW b \in Nat, S # {}, \A x \in S : x <= b
  PROVE  Max(S) \in S /\ \A x \in S : x <= Max(S)
<1> DEFINE Bounds == {c \in Nat : \A x \in S : x <= c}
<1>1. PICK c \in Bounds : \A d \in Bounds : c <= d
  <2>1. b \in Bounds
    OBVIOUS
  <2>2. PICK c \in Bounds : \A d \in Bounds : ~(<<d, c>> \in OpToRel(<, Nat))
    BY <2>1, NatLessThanWellFounded, WFMin
  <2>3. \A d \in Bounds : c <= d
    <3>1. TAKE d \in Bounds
    <3>2. c \in Nat /\ d \in Nat
      OBVIOUS
    <3>3. ~(d < c)
      BY <2>2, <3>2 DEF OpToRel
    <3> QED BY <3>2, <3>3
  <2> QED BY <2>2, <2>3
<1>2. c \in S
  <2> SUFFICES ASSUME c \notin S PROVE FALSE
    OBVIOUS
  <2>1. \A x \in S : x <= c /\ x # c /\ x \in Nat
    BY <1>1
  <2>2. PICK x \in S : TRUE
    OBVIOUS
  <2>3. c \in Nat /\ c >= 1
    BY <1>1, <2>1, <2>2
  <2>4. c - 1 \in Bounds
    BY <2>1, <2>3
  <2> QED BY <1>1, <2>3, <2>4
<1>3. \A x \in S : c >= x
  BY <1>1
<1>4. Max(S) \in S /\ \A x \in S : Max(S) >= x
  BY <1>2, <1>3 DEF Max
<1> QED BY <1>4

-----------------------------------------------------------------------------
(* The log.                                                                *)
LEMMA LogParts ==
  ASSUME LogTyped
  PROVE  /\ DOMAIN logDir.old \subseteq Names
         /\ \A n \in DOMAIN logDir.old : logDir.old[n] \in Seq(Line)
         /\ worker.old \in Seq(DOMAIN logDir.old) /\ worker.file \in BOOLEAN
         /\ worker.size \in Nat /\ worker.msg \in Nat
         /\ worker.step \in {"none", "opening", "idle"} \cup InHand
         /\ lines \in Seq(Line) /\ Len(lines) \in Nat
         /\ logged.sent \in 0..MaxLines /\ logged.expired \in Nat /\ logged.stuck \subseteq Names
         /\ spentFiles.faults \in Nat /\ spentFiles.rotations \in 0..Len(Times)
<1>1. lines \in Seq(Line) /\ Len(lines) \in Nat
  BY DEF LogTyped
<1>2. /\ logged.sent \in 0..MaxLines /\ logged.expired \in Nat /\ logged.stuck \subseteq Names
      /\ spentFiles.faults \in Nat /\ spentFiles.rotations \in 0..Len(Times)
  BY DEF LogTyped
<1>3. /\ worker.old \in Seq(DOMAIN logDir.old) /\ worker.file \in BOOLEAN
      /\ worker.size \in Nat /\ worker.msg \in Nat
      /\ worker.step \in {"none", "opening", "idle"} \cup InHand
  BY DEF LogTyped
<1> QED BY <1>1, <1>2, <1>3 DEF LogTyped

LEMMA NamesAreTimes ==
  ASSUME spentFiles.rotations \in 0..Len(Times)
  PROVE  /\ Names \subseteq Time /\ IsFiniteSet(Names)
         /\ spentFiles.rotations + 1 <= Len(Times) =>
              LET name == Times[spentFiles.rotations + 1] IN
                /\ name \in Time /\ \A n \in Names : Before(n, name)
<1>1. /\ Times \in Seq(Nat \X Nat) /\ Len(Times) \in Nat /\ DOMAIN Times = 1..Len(Times)
      /\ \A i, j \in DOMAIN Times : i < j => Before(Times[i], Times[j])
      /\ \A i \in 1..Len(Times) : Times[i] \in Time
  BY HashdFilesAssumption DEF Before, Time
<1>2. \A k \in 1..spentFiles.rotations : k \in 1..Len(Times)
  BY <1>1
<1>3. Names \subseteq Time
  BY <1>1, <1>2 DEF Names
<1>4. IsFiniteSet(Names)
  <2> DEFINE R == 1..spentFiles.rotations
             f == [k \in R |-> Times[k]]
  <2>1. IsFiniteSet(R)
    BY SMTT(20), <1>1, FS_Interval
  <2>2. f \in Surjection(R, Names)
    BY DEF Surjection, Names
  <2> HIDE DEF R, f
  <2> QED BY <2>1, <2>2, FS_Surjection
<1>5. ASSUME spentFiles.rotations + 1 <= Len(Times)
      PROVE  /\ Times[spentFiles.rotations + 1] \in Time
             /\ \A n \in Names : Before(n, Times[spentFiles.rotations + 1])
  <2>1. spentFiles.rotations + 1 \in 1..Len(Times)
    BY <1>1, <1>5
  <2>2. \A k \in 1..spentFiles.rotations : k < spentFiles.rotations + 1
    BY <1>1
  <2> QED BY <1>1, <1>2, <2>1, <2>2 DEF Names
<1> QED BY <1>3, <1>4, <1>5

(* Where only rd-hashd itself goes on, the log stays as it is.             *)
LEMMA LogStays ==
  ASSUME LogInv, UNCHANGED <<logDir, worker, lines, logged>>,
         spentFiles' \in [starts: Nat, faults: Nat, rotations: 0..Len(Times)],
         spentFiles'.rotations = spentFiles.rotations, spentFiles'.faults = spentFiles.faults,
         hashd'.at \in Running <=> hashd.at \in Running
  PROVE  LogInv'
<1>1. Names' = Names /\ Done' = Done /\ CurLines' = CurLines /\ OnDisk' = OnDisk /\ LinesLeft' = LinesLeft
      /\ TooMany' = TooMany
  BY DEF Names, Done, CurLines, OnDisk, LinesLeft, TooMany
<1>2. LogTyped'
  BY <1>1 DEF LogInv, LogTyped
<1>3. QueueInv' /\ OrderInv' /\ KnownInv'
  BY <1>1 DEF LogInv, QueueInv, OrderInv, KnownInv
<1>4. SizeInv' /\ WholeInv'
  BY <1>1 DEF LogInv, SizeInv, WholeInv
<1> QED BY <1>2, <1>3, <1>4 DEF LogInv

LEMMA NotNoLog == \A s \in Seq(Line) : s # NoLog
<1> SUFFICES ASSUME NoLog \in Seq(Line) PROVE FALSE
  OBVIOUS
<1>1. NoLog[1] \in Line /\ NoLog[1] = 0
  BY DEF NoLog
<1> QED BY <1>1 DEF Line

LEMMA OpenKeepsLog == ASSUME LogInv, FilesTyped, OpenLog PROVE LogInv'
<1> DEFINE c == IF logDir.cur = NoLog THEN <<>> ELSE logDir.cur
<1>1. /\ logDir'.cur = c /\ logDir'.old = logDir.old /\ logDir' = [cur |-> c, old |-> logDir.old]
      /\ worker' = [file |-> TRUE, size |-> Len(c), step |-> "opening", msg |-> 0,
                    old |-> OldestFirst(DOMAIN logDir.old)]
      /\ UNCHANGED <<lines, logged, spentFiles>> /\ hashd'.at \in Running
  <2>1. logDir' = [logDir EXCEPT !.cur = c] /\ logDir = [cur |-> logDir.cur, old |-> logDir.old]
    BY DEF OpenLog, LogInv, LogTyped
  <2>2. hashd'.at \in Running
    BY DEF OpenLog, HashdGoto, Running, FilesTyped, Hashd
  <2> HIDE DEF c
  <2>3. logDir' = [cur |-> c, old |-> logDir.old]
    BY <2>1
  <2> QED BY <2>2, <2>3 DEF OpenLog, c
<1>2. c \in Seq(Line) /\ Len(c) \in Nat /\ c # NoLog /\ ToSet(c) = CurLines
  <2>1. logDir.cur = NoLog \/ logDir.cur \in Seq(Line)
    BY DEF LogInv, LogTyped
  <2>2. c \in Seq(Line) /\ Len(c) \in Nat
    BY <2>1
  <2>3. ToSet(<<>>) = {}
    BY DEF ToSet
  <2> QED BY <2>1, <2>2, <2>3, NotNoLog DEF CurLines
<1>3. worker.step = "none" /\ lines = <<>>
  BY DEF OpenLog, LogInv, LogTyped, HashdAt, Running, QueueInv
<1> DEFINE s == OldestFirst(DOMAIN logDir.old)
<1>4. /\ s \in Seq(DOMAIN logDir.old) /\ ToSet(s) = DOMAIN logDir.old
      /\ \A i, j \in DOMAIN s : i < j => Before(s[i], s[j])
  <2>1. DOMAIN logDir.old \in SUBSET Names /\ Names \subseteq Time /\ IsFiniteSet(Names)
    BY LogParts, NamesAreTimes DEF LogInv
  <2> QED BY <2>1, NamesSorted, FS_Subset
<1> HIDE DEF s, c
<1>5. /\ worker'.step = "opening" /\ worker'.old = s /\ worker'.file /\ worker'.size = Len(c)
      /\ worker'.msg = 0
  BY <1>1 DEF s
<1>6. Done' = Done /\ CurLines' = CurLines /\ OnDisk' = OnDisk /\ LinesLeft' = LinesLeft /\ Names' = Names
  <2>1. Done' = Done
    BY <1>1, <1>3, <1>5 DEF Done, InHand
  <2>2. CurLines' = CurLines
    BY <1>1, <1>2 DEF CurLines
  <2>3. OnDisk' = OnDisk /\ Names' = Names
    BY <1>1 DEF OnDisk, Names
  <2>4. LinesLeft = (UNION {ToSet(logDir.old[n]) : n \in OnDisk}) \cup CurLines
    BY DEF LinesLeft, CurLines
  <2>5. LinesLeft' = (UNION {ToSet(logDir'.old[n]) : n \in OnDisk'}) \cup CurLines'
    BY DEF LinesLeft, CurLines
  <2> QED BY <1>1, <2>1, <2>2, <2>3, <2>4, <2>5
<1>7. LogTyped'
  <2>1. worker' \in [file: BOOLEAN, size: Nat, old: Seq(DOMAIN logDir.old),
                     step: {"none", "opening", "idle"} \cup InHand, msg: Nat]
    BY <1>1, <1>2, <1>4 DEF s
  <2>2. logDir' = [cur |-> logDir'.cur, old |-> logDir'.old]
    BY <1>1
  <2> QED BY <1>1, <1>2, <1>5, <1>6, <2>1, <2>2 DEF LogInv, LogTyped
<1>8. QueueInv'
  BY <1>1, <1>3, <1>5, <1>6 DEF LogInv, QueueInv, InHand
<1>9. OrderInv'
  BY <1>1, <1>6 DEF LogInv, OrderInv
<1>10. KnownInv'
  BY <1>1, <1>4, <1>5, <1>6 DEF KnownInv, OnDisk
<1>11. SizeInv'
  <2>1. Len(c) = IF logDir.cur = NoLog THEN 0 ELSE Len(logDir.cur)
    BY DEF c
  <2>2. spentFiles.rotations * UnitLines + Len(c) <= Done
    BY <2>1 DEF LogInv, SizeInv
  <2>3. spentFiles'.rotations * UnitLines + Len(logDir'.cur) <= Done'
    BY <1>1, <1>6, <2>2
  <2> QED BY <1>1, <1>2, <1>5, <2>3 DEF SizeInv
<1>12. WholeInv'
  BY <1>1, <1>5, <1>6 DEF LogInv, WholeInv
<1> QED BY <1>7, <1>8, <1>9, <1>10, <1>11, <1>12 DEF LogInv

LEMMA LinesAreNumbers ==
  ASSUME LogTyped
  PROVE  /\ CurLines \subseteq Line
         /\ \A n \in DOMAIN logDir.old : ToSet(logDir.old[n]) \subseteq Line
         /\ LinesLeft = (UNION {ToSet(logDir.old[n]) : n \in OnDisk}) \cup CurLines
         /\ OnDisk \subseteq DOMAIN logDir.old
<1>1. \A s \in Seq(Line) : ToSet(s) \subseteq Line
  BY DEF ToSet
<1>2. logDir.cur = NoLog \/ logDir.cur \in Seq(Line)
  BY DEF LogTyped
<1> QED BY <1>1, <1>2, LogParts DEF CurLines, LinesLeft, OnDisk

LEMMA LinesLeftAre ==
  /\ \A l : l \in LinesLeft <=> l \in CurLines \/ \E n \in OnDisk : l \in ToSet(logDir.old[n])
  /\ \A l : l \in LinesLeft' <=> l \in CurLines' \/ \E n \in OnDisk' : l \in ToSet(logDir'.old[n])
<1> DEFINE F(n) == ToSet(logDir.old[n])
           G(n) == ToSet(logDir'.old[n])
<1>1. /\ \A l, S, T : l \in (UNION {F(n) : n \in S}) \cup T <=> l \in T \/ \E n \in S : l \in F(n)
      /\ \A l, S, T : l \in (UNION {G(n) : n \in S}) \cup T <=> l \in T \/ \E n \in S : l \in G(n)
  BY Zenon
<1>2. /\ LinesLeft = (UNION {F(n) : n \in OnDisk}) \cup CurLines
      /\ LinesLeft' = (UNION {G(n) : n \in OnDisk'}) \cup CurLines'
  BY DEF LinesLeft, CurLines
<1> HIDE DEF F, G
<1>3. /\ \A l : l \in LinesLeft <=> l \in CurLines \/ \E n \in OnDisk : l \in F(n)
      /\ \A l : l \in LinesLeft' <=> l \in CurLines' \/ \E n \in OnDisk' : l \in G(n)
  BY <1>1, <1>2
<1> QED BY <1>3 DEF F, G

(* The worker goes on, and no line moves.                                  *)
LEMMA OrderStays ==
  ASSUME LogInv, logDir'.old = logDir.old, CurLines' = CurLines,
         logged'.expired = logged.expired, logged'.stuck = logged.stuck, Done' \in Nat, Done' >= Done
  PROVE  OrderInv' /\ LinesLeft' = LinesLeft /\ OnDisk' = OnDisk
<1>1. LogTyped /\ OrderInv /\ Done \in Nat /\ logged.expired \in Nat
  BY LogParts DEF LogInv, QueueInv
<1>2. OnDisk' = OnDisk /\ LinesLeft' = LinesLeft
  <2>1. OnDisk' = OnDisk
    BY DEF OnDisk
  <2>2. LinesLeft' = (UNION {ToSet(logDir'.old[n]) : n \in OnDisk'}) \cup CurLines'
    BY DEF LinesLeft, CurLines
  <2> QED BY <1>1, <2>1, <2>2, LinesAreNumbers
<1>3. \A l \in CurLines : l <= Done'
  <2>1. \A l \in CurLines : l \in Nat /\ l <= Done
    BY <1>1, LinesAreNumbers DEF OrderInv, Line
  <2> QED BY <1>1, <2>1
<1>4. \A n \in DOMAIN logDir.old : \A l \in ToSet(logDir.old[n]) : l <= Done'
  <2>1. \A n \in DOMAIN logDir.old : \A l \in ToSet(logDir.old[n]) : l \in Nat /\ l <= Done
    BY <1>1, LinesAreNumbers DEF OrderInv, Line
  <2> QED BY <1>1, <2>1
<1>5. logged'.expired <= Done'
  BY <1>1 DEF OrderInv
<1> QED BY <1>1, <1>2, <1>3, <1>4, <1>5 DEF OrderInv

Worker1 == [file: BOOLEAN, size: Nat, old: Seq(DOMAIN logDir.old),
            step: {"none", "opening", "idle"} \cup InHand, msg: Nat]

LEMMA WorkerMoves ==
  ASSUME LogInv, UNCHANGED <<logDir, logged>>, worker' \in Worker1, worker'.old = worker.old,
         worker.step # "none", worker'.step # "none",
         lines' \in Seq(Line), Done' = Done, hashd'.at = hashd.at,
         spentFiles' \in [starts: Nat, faults: Nat, rotations: 0..Len(Times)],
         spentFiles'.rotations = spentFiles.rotations
  PROVE  /\ LogTyped' /\ OrderInv' /\ LinesLeft' = LinesLeft
         /\ (worker'.step \in {"idle", "rotate", "create", "write"} => ~TooMany)
              => KnownInv'
         /\ (worker'.file /\ worker'.step \in {"opening", "idle", "rotate", "write"} =>
                  logDir.cur # NoLog /\ worker'.size = Len(logDir.cur))
              => SizeInv'
         /\ (spentFiles'.faults = 0 => /\ spentFiles.faults = 0 /\ worker'.file
                                       /\ (worker'.step \in {"expire", "create"} => logDir.cur = NoLog))
              => WholeInv'
<1>1. Names' = Names /\ CurLines' = CurLines
  BY DEF Names, CurLines
<1>2. LogTyped'
  BY <1>1 DEF LogInv, LogTyped, Worker1
<1>3. Done \in Nat
  BY DEF LogInv, QueueInv
<1>4. OrderInv' /\ LinesLeft' = LinesLeft /\ OnDisk' = OnDisk
  BY <1>1, <1>3, OrderStays
<1>5. ASSUME worker'.step \in {"idle", "rotate", "create", "write"} => ~TooMany
      PROVE  KnownInv'
  BY <1>4, <1>5 DEF LogInv, KnownInv, TooMany
<1>6. ASSUME worker'.file /\ worker'.step \in {"opening", "idle", "rotate", "write"} =>
               logDir.cur # NoLog /\ worker'.size = Len(logDir.cur)
      PROVE  SizeInv'
  BY <1>6 DEF LogInv, SizeInv
<1>7. ASSUME spentFiles'.faults = 0 => /\ spentFiles.faults = 0 /\ worker'.file
                                       /\ worker'.step \in {"expire", "create"} => logDir.cur = NoLog
      PROVE  WholeInv'
  BY <1>4, <1>7 DEF LogInv, WholeInv
<1> QED BY <1>2, <1>4, <1>5, <1>6, <1>7

LEMMA Faulted ==
  ASSUME LogTyped, LogFault
  PROVE  /\ spentFiles' \in [starts: Nat, faults: Nat, rotations: 0..Len(Times)]
         /\ spentFiles'.rotations = spentFiles.rotations /\ spentFiles'.faults # 0
<1>1. spentFiles \in [starts: Nat, faults: Nat, rotations: 0..Len(Times)]
  BY DEF LogTyped
<1>2. spentFiles' = [spentFiles EXCEPT !.faults = spentFiles.faults + 1]
  BY DEF LogFault
<1>3. spentFiles.faults + 1 # 0 /\ spentFiles.faults + 1 \in Nat
  BY <1>1
<1> QED BY <1>1, <1>2, <1>3

LEMMA ReceiveKeepsLog == ASSUME LogInv, Receive PROVE LogInv'
<1>1. /\ worker.step = "idle" /\ lines # <<>> /\ lines \in Seq(Line) /\ worker \in Worker1
      /\ logged.sent \in Nat /\ Len(lines) \in Nat /\ Done \in Nat
  <2>1. logged.sent \in Nat
    BY LogParts, FileSlots DEF LogInv
  <2> QED BY <2>1, LogParts DEF LogInv, LogTyped, Worker1, Receive, WorkerAt, QueueInv
<1>2. /\ Head(lines) \in Line /\ Tail(lines) \in Seq(Line) /\ Len(Tail(lines)) = Len(lines) - 1
      /\ Head(lines) = lines[1] /\ 1 \in DOMAIN lines /\ Len(lines) >= 1
      /\ \A i \in DOMAIN Tail(lines) : Tail(lines)[i] = lines[i + 1] /\ i + 1 \in DOMAIN lines /\ i \in Nat
  BY <1>1
<1>3. /\ worker'.step = "rotate" /\ worker'.msg = Head(lines) /\ worker'.old = worker.old
      /\ worker'.file = worker.file /\ worker'.size = worker.size /\ worker' \in Worker1
  <2>1. worker' = [worker EXCEPT !.step = "rotate", !.msg = Head(lines)]
    BY DEF Receive
  <2>2. Head(lines) \in Nat
    BY <1>2 DEF Line
  <2> QED BY <1>1, <2>1, <2>2 DEF Worker1, InHand
<1>4. /\ UNCHANGED <<logDir, logged, spentFiles>> /\ hashd'.at = hashd.at /\ lines' = Tail(lines)
  BY DEF Receive, HashStill
<1>5. Done' = Done /\ Done = logged.sent - Len(lines)
  BY <1>1, <1>2, <1>3, <1>4 DEF Done, InHand
<1>6. spentFiles' \in [starts: Nat, faults: Nat, rotations: 0..Len(Times)]
  BY <1>4 DEF LogInv, LogTyped
<1>7. LogTyped' /\ OrderInv' /\ KnownInv' /\ SizeInv' /\ WholeInv'
  <2>1. (worker'.step \in {"idle", "rotate", "create", "write"} => ~TooMany) /\ worker.step # "none"
    BY <1>1 DEF LogInv, KnownInv
  <2>2. worker'.file => logDir.cur # NoLog /\ worker'.size = Len(logDir.cur)
    BY <1>1, <1>3 DEF LogInv, SizeInv
  <2>3. spentFiles'.faults = 0 => /\ spentFiles.faults = 0 /\ worker'.file
    BY <1>1, <1>3, <1>4 DEF LogInv, WholeInv
  <2> QED BY <1>2, <1>3, <1>4, <1>5, <1>6, <2>1, <2>2, <2>3, WorkerMoves
<1>8. QueueInv'
  <2>1. \A i \in DOMAIN lines : lines[i] = logged.sent - Len(lines) + i
    BY DEF LogInv, QueueInv
  <2>2. worker'.msg = Done' + 1
    BY <1>1, <1>2, <1>3, <1>5, <2>1
  <2>3. \A i \in DOMAIN lines' : lines'[i] = logged'.sent - Len(lines') + i
    <3> SUFFICES ASSUME NEW i \in DOMAIN Tail(lines)
                 PROVE  Tail(lines)[i] = logged.sent - Len(Tail(lines)) + i
      BY <1>4
    <3>1. Tail(lines)[i] = lines[i + 1] /\ i + 1 \in DOMAIN lines /\ i \in Nat
      BY <1>2
    <3>2. lines[i + 1] = logged.sent - Len(lines) + (i + 1)
      BY <2>1, <3>1
    <3>3. Len(Tail(lines)) = Len(lines) - 1
      BY <1>2
    <3> QED BY <1>1, <3>1, <3>2, <3>3
  <2> QED BY <1>1, <1>3, <1>5, <2>2, <2>3 DEF QueueInv
<1> QED BY <1>7, <1>8 DEF LogInv

(* A step of the worker in the middle of a line, that takes no line.       *)
LEMMA QueueStays ==
  ASSUME LogInv, UNCHANGED <<logged, lines>>, Done' = Done, worker'.msg = worker.msg,
         worker'.step \notin {"none", "opening"},
         worker'.step \in InHand => worker.step \in InHand, worker.step \notin {"none", "opening"}
  PROVE  QueueInv'
BY DEF LogInv, QueueInv

LEMMA RotateKeepsWorker ==
  ASSUME LogInv, Rotate, logDir' = logDir
  PROVE  LogInv'
<1>1. worker.step = "rotate" /\ worker \in Worker1
  BY DEF LogInv, LogTyped, Worker1, Rotate, WorkerAt
<1>2. UNCHANGED <<logDir, logged, lines>> /\ hashd'.at = hashd.at /\ lines' \in Seq(Line)
  BY LogParts DEF Rotate, HashStill, LogInv
<1>3. ASSUME NEW step \in InHand, Worker(step)
      PROVE  /\ worker'.step = step /\ worker'.msg = worker.msg /\ worker'.old = worker.old
             /\ worker'.file = worker.file /\ worker'.size = worker.size /\ worker' \in Worker1
             /\ Done' = Done
  <2>1. /\ worker'.step = step /\ worker'.msg = worker.msg /\ worker'.old = worker.old
        /\ worker'.file = worker.file /\ worker'.size = worker.size /\ worker' \in Worker1
    BY <1>1, <1>3 DEF Worker, Worker1
  <2>2. Done' = Done
    BY <1>1, <1>2, <1>3, <2>1 DEF Done, InHand
  <2> QED BY <2>1, <2>2
<1>4. CASE ~IsFull /\ Worker("write") /\ UNCHANGED spentFiles
  <2>1. /\ worker'.step = "write" /\ worker'.msg = worker.msg /\ worker'.old = worker.old
        /\ worker'.file = worker.file /\ worker'.size = worker.size /\ worker' \in Worker1
        /\ Done' = Done
    BY <1>3, <1>4 DEF InHand
  <2>2. ~TooMany
    BY <1>1 DEF LogInv, KnownInv
  <2>3. worker'.file => logDir.cur # NoLog /\ worker'.size = Len(logDir.cur)
    BY <1>1, <2>1 DEF LogInv, SizeInv
  <2>4. spentFiles'.faults = 0 => spentFiles.faults = 0 /\ worker'.file
    BY <1>1, <1>4, <2>1 DEF LogInv, WholeInv
  <2>5. spentFiles' \in [starts: Nat, faults: Nat, rotations: 0..Len(Times)]
    BY <1>4 DEF LogInv, LogTyped
  <2>6. LogTyped' /\ OrderInv' /\ KnownInv' /\ SizeInv' /\ WholeInv'
    BY <1>1, <1>2, <1>4, <2>1, <2>2, <2>3, <2>4, <2>5, WorkerMoves
  <2>7. QueueInv'
    BY <1>1, <1>2, <2>1, QueueStays DEF InHand
  <2> QED BY <2>6, <2>7 DEF LogInv
<1>5. CASE Worker("expire") /\ LogFault
  <2>1. /\ worker'.step = "expire" /\ worker'.msg = worker.msg /\ worker'.old = worker.old
        /\ worker'.file = worker.file /\ worker'.size = worker.size /\ worker' \in Worker1
        /\ Done' = Done
    BY <1>3, <1>5 DEF InHand
  <2>2. /\ spentFiles' \in [starts: Nat, faults: Nat, rotations: 0..Len(Times)]
        /\ spentFiles'.rotations = spentFiles.rotations /\ spentFiles'.faults # 0
    BY <1>5, Faulted DEF LogInv
  <2>3. LogTyped' /\ OrderInv' /\ KnownInv' /\ SizeInv' /\ WholeInv'
    BY <1>1, <1>2, <2>1, <2>2, WorkerMoves
  <2>4. QueueInv'
    BY <1>1, <1>2, <2>1, QueueStays DEF InHand
  <2> QED BY <2>3, <2>4 DEF LogInv
<1>6. CASE logDir'.old = Archived(Times[spentFiles.rotations + 1]) /\ logDir'.cur = NoLog /\ IsFull
  <2>1. logDir.cur # NoLog
    BY <1>1, <1>6 DEF LogInv, SizeInv, IsFull
  <2> QED BY <1>2, <1>6, <2>1
<1> QED BY <1>4, <1>5, <1>6 DEF Rotate

LEMMA RoomToArchive ==
  ASSUME NEW k \in Nat, NEW u \in Nat \ {0}, NEW l \in Nat, NEW m \in Nat, k * u + l <= m, l >= u
  PROVE  (k + 1) * u <= m /\ k + 1 <= m \div u
<1>1. (k + 1) * u = k * u + u /\ k * u \in Nat
  OBVIOUS
<1>2. (k + 1) * u <= m
  BY <1>1
<1>3. m = (m \div u) * u + (m % u) /\ m % u \in 0..(u - 1) /\ m \div u \in Nat
  OBVIOUS
<1>4. ASSUME k + 1 > m \div u PROVE FALSE
  <2>1. k + 1 >= (m \div u) + 1
    BY <1>3, <1>4
  <2>2. (k + 1) * u >= ((m \div u) + 1) * u
    BY <1>3, <2>1
  <2>3. ((m \div u) + 1) * u = (m \div u) * u + u
    BY <1>3
  <2>4. (m \div u) * u \in Nat /\ (k + 1) * u \in Nat
    BY <1>3
  <2> QED BY <1>2, <1>3, <2>2, <2>3, <2>4
<1> QED BY <1>2, <1>3, <1>4

LEMMA ArchiveKeepsLog ==
  ASSUME LogInv, WorkerAt("rotate"), IsFull, UNCHANGED <<hashd, lines, logged>>,
         NEW name, name = Times[spentFiles.rotations + 1],
         logDir' = [cur |-> NoLog, old |-> Archived(name)],
         worker' = [worker EXCEPT !.old = Append(@, name), !.step = "expire"],
         spentFiles' = [spentFiles EXCEPT !.rotations = @ + 1]
  PROVE  LogInv'
<1>1. /\ worker.step = "rotate" /\ worker \in Worker1 /\ logged.sent \in Nat /\ logged.sent <= MaxLines
      /\ MaxLines \in Nat /\ UnitLines \in Nat \ {0} /\ MaxStarts \in Nat
      /\ spentFiles.rotations \in Nat /\ Done \in Nat /\ Done <= logged.sent /\ Len(lines) \in Nat
      /\ spentFiles \in [starts: Nat, faults: Nat, rotations: 0..Len(Times)]
      /\ spentFiles.rotations \in 0..Len(Times)
  <2>1. Done <= logged.sent
    BY LogParts, FileSlots DEF LogInv, Done
  <2> QED BY <2>1, LogParts, FileSlots DEF LogInv, LogTyped, WorkerAt, Worker1, QueueInv
<1>2. worker.file /\ logDir.cur # NoLog /\ logDir.cur \in Seq(Line) /\ Len(logDir.cur) >= UnitLines
  <2>1. worker.file /\ worker.size >= UnitLines
    BY DEF IsFull
  <2> QED BY <1>1, <2>1 DEF LogInv, LogTyped, SizeInv
<1>3. /\ (spentFiles.rotations + 1) * UnitLines <= Done
      /\ spentFiles.rotations + 1 <= Len(Times)
  <2>1. spentFiles.rotations * UnitLines + Len(logDir.cur) <= Done
    BY <1>2 DEF LogInv, SizeInv
  <2>2. Len(logDir.cur) \in Nat
    BY <1>2
  <2>3. spentFiles.rotations * UnitLines + Len(logDir.cur) <= MaxLines
    <3> DEFINE p == spentFiles.rotations * UnitLines + Len(logDir.cur)
    <3>1. p \in Nat
      <4> DEFINE r == spentFiles.rotations
                 l == Len(logDir.cur)
      <4>1. r \in Nat /\ l \in Nat /\ UnitLines \in Nat
        BY <1>1, <2>2
      <4> HIDE DEF r, l
      <4>2. r * UnitLines + l \in Nat
        BY <4>1
      <4> QED BY <4>2 DEF r, l
    <3>2. p <= Done
      BY <2>1
    <3> HIDE DEF p
    <3>3. p <= MaxLines
      BY <1>1, <3>1, <3>2
    <3> QED BY <3>3 DEF p
  <2>4. /\ (spentFiles.rotations + 1) * UnitLines <= Done
        /\ spentFiles.rotations + 1 <= MaxLines \div UnitLines
    BY <1>1, <1>2, <2>1, <2>2, <2>3, RoomToArchive
  <2>5. Len(Times) >= MaxLines \div UnitLines + MaxStarts /\ Len(Times) \in Nat
    BY HashdFilesAssumption
  <2>6. MaxLines \div UnitLines \in Nat
    <3> DEFINE m == MaxLines
               u == UnitLines
    <3>1. m \in Nat /\ u \in Nat \ {0}
      BY <1>1
    <3> HIDE DEF m, u
    <3>2. m \div u \in Nat
      BY <3>1
    <3> QED BY <3>2 DEF m, u
  <2> QED BY <1>1, <2>4, <2>5, <2>6
<1>4. /\ name \in Time /\ (\A n \in Names : Before(n, name)) /\ name \notin Names
      /\ (\A n \in Names : ~Before(name, n)) /\ ~Before(name, name)
  <2>1. name \in Time /\ (\A n \in Names : Before(n, name)) /\ Names \subseteq Time
    BY <1>1, <1>3, NamesAreTimes
  <2> QED BY <2>1, BeforeOrders
<1>5. /\ spentFiles'.rotations = spentFiles.rotations + 1 /\ spentFiles'.faults = spentFiles.faults
      /\ spentFiles' \in [starts: Nat, faults: Nat, rotations: 0..Len(Times)]
      /\ Names' = Names \cup {name}
  <2>1. spentFiles.rotations + 1 \in 0..Len(Times)
    BY <1>1, <1>3
  <2>2. /\ spentFiles'.rotations = spentFiles.rotations + 1 /\ spentFiles'.faults = spentFiles.faults
        /\ spentFiles' \in [starts: Nat, faults: Nat, rotations: 0..Len(Times)]
    BY <1>1, <2>1
  <2>3. \A k : k \in 1..(spentFiles.rotations + 1) <=> k \in 1..spentFiles.rotations \/ k = spentFiles.rotations + 1
    BY <1>1
  <2> QED BY <2>2, <2>3 DEF Names
<1> DEFINE D == DOMAIN logDir.old
<1>6. /\ logDir'.cur = NoLog /\ logDir'.old = Archived(name) /\ DOMAIN logDir'.old = D \cup {name}
      /\ (\A n \in D : logDir'.old[n] = logDir.old[n]) /\ logDir'.old[name] = logDir.cur
      /\ name \notin D /\ D \subseteq Names
  BY <1>4, LogParts DEF Archived, LogInv
<1>7. /\ worker'.step = "expire" /\ worker'.msg = worker.msg /\ worker'.old = Append(worker.old, name)
      /\ worker'.file = worker.file
      /\ worker' \in [file: BOOLEAN, size: Nat, old: Seq(D \cup {name}),
                      step: {"none", "opening", "idle"} \cup InHand, msg: Nat]
  <2>1. Append(worker.old, name) \in Seq(D \cup {name})
    <3>1. worker.old \in Seq(D)
      BY <1>1 DEF Worker1
    <3> HIDE DEF D
    <3> QED BY <3>1
  <2>2. worker' = [worker EXCEPT !.old = Append(worker.old, name), !.step = "expire"]
    OBVIOUS
  <2> HIDE DEF D
  <2> QED BY <1>1, <2>1, <2>2 DEF Worker1, InHand
<1> HIDE DEF D
<1>8. LogTyped'
  <2>1. Archived(name) \in [D \cup {name} -> Seq(Line)]
    <3>1. \A n \in D : logDir.old[n] \in Seq(Line)
      BY LogParts DEF LogInv, D
    <3> QED BY <1>2, <1>6, <3>1 DEF Archived, D
  <2>2. logged \in [sent: 0..MaxLines, expired: Nat, stuck: SUBSET Names] /\ lines \in Seq(Line)
    BY DEF LogInv, LogTyped
  <2>3. logged' \in [sent: 0..MaxLines, expired: Nat, stuck: SUBSET (Names')]
    BY <1>5, <2>2
  <2>4. hashd.at \in Running
    BY <1>1 DEF LogInv, LogTyped
  <2> QED BY <1>5, <1>6, <1>7, <2>1, <2>2, <2>3, <2>4 DEF LogTyped
<1>9. Done' = Done
  BY <1>1, <1>7 DEF Done, InHand
<1>10. QueueInv'
  BY <1>1, <1>7, <1>9 DEF LogInv, QueueInv, InHand
<1>11. CurLines' = {} /\ ToSet(logDir'.old[name]) = CurLines
  BY <1>2, <1>6 DEF CurLines
<1>12. OrderInv'
  <2>0. OrderInv
    BY DEF LogInv
  <2>1. ASSUME NEW n \in D \cup {name}, NEW l \in ToSet(logDir'.old[n])
        PROVE  /\ l <= Done' /\ (n \notin logged'.stuck => l > logged'.expired)
               /\ \A m \in D \cup {name} : Before(n, m) => \A k \in ToSet(logDir'.old[m]) : l < k
    <3>1. CASE n \in D
      <4>1. l \in ToSet(logDir.old[n])
        BY <1>6, <2>1, <3>1
      <4>2. l <= Done /\ (n \notin logged.stuck => l > logged.expired)
        BY <2>0, <3>1, <4>1 DEF OrderInv, D
      <4>3. ASSUME NEW m \in D, Before(n, m) PROVE \A k \in ToSet(logDir'.old[m]) : l < k
        BY <1>6, <2>0, <3>1, <4>1, <4>3 DEF OrderInv, D
      <4>4. \A k \in ToSet(logDir'.old[name]) : l < k
        BY <1>11, <2>0, <3>1, <4>1 DEF OrderInv, D
      <4> QED BY <1>9, <4>2, <4>3, <4>4
    <3>2. CASE n = name
      <4>1. l \in CurLines
        BY <1>11, <2>1, <3>2
      <4>2. l <= Done /\ l > logged.expired
        BY <2>0, <4>1 DEF OrderInv
      <4>3. \A m \in D \cup {name} : ~Before(n, m)
        BY <1>4, <1>6, <3>2
      <4> QED BY <1>9, <4>2, <4>3
    <3> QED BY <3>1, <3>2
  <2>2. logged'.expired <= Done'
    BY <1>9, <2>0 DEF OrderInv
  <2> QED BY <1>6, <1>11, <2>1, <2>2 DEF OrderInv
<1>13. OnDisk' \subseteq OnDisk \cup {name} /\ OnDisk \subseteq OnDisk'
  BY <1>6 DEF OnDisk, D
<1>14. KnownInv'
  <2>1. /\ worker.old \in Seq(D) /\ Len(worker.old) \in Nat
        /\ \A i, j \in DOMAIN worker.old : i < j => Before(worker.old[i], worker.old[j])
        /\ OnDisk \subseteq ToSet(worker.old)
    BY <1>1, LogParts DEF LogInv, KnownInv, D
  <2>2. ToSet(worker'.old) = ToSet(worker.old) \cup {name}
    BY <1>7, <2>1, ElementsOfNames
  <2>3. /\ DOMAIN worker'.old = 1..(Len(worker.old) + 1)
        /\ \A i \in 1..Len(worker.old) : worker'.old[i] = worker.old[i] /\ worker.old[i] \in Names
        /\ worker'.old[Len(worker.old) + 1] = name
    <3>1. worker.old \in Seq(D \cup {name})
      BY <2>1
    <3> QED BY <1>6, <1>7, <2>1, <3>1
  <2>4. \A i, j \in DOMAIN worker'.old : i < j => Before(worker'.old[i], worker'.old[j])
    <3> SUFFICES ASSUME NEW i \in DOMAIN worker'.old, NEW j \in DOMAIN worker'.old, i < j
                 PROVE  Before(worker'.old[i], worker'.old[j])
      OBVIOUS
    <3>1. i \in 1..Len(worker.old) /\ (j \in 1..Len(worker.old) \/ j = Len(worker.old) + 1)
      BY <2>1, <2>3
    <3>2. CASE j \in 1..Len(worker.old)
      BY <2>1, <2>3, <3>1, <3>2
    <3>3. CASE j = Len(worker.old) + 1
      BY <1>4, <2>3, <3>1, <3>3
    <3> QED BY <3>1, <3>2, <3>3
  <2> QED BY <1>7, <1>13, <2>1, <2>2, <2>4 DEF KnownInv
<1>15. SizeInv'
  <2>1. spentFiles'.rotations * UnitLines + 0 <= Done'
    BY <1>1, <1>3, <1>5, <1>9
  <2> QED BY <1>6, <1>7, <2>1 DEF SizeInv
<1>16. WholeInv'
  <2> SUFFICES ASSUME spentFiles'.faults = 0
               PROVE  /\ logged'.stuck = {} /\ worker'.file /\ logDir'.cur = NoLog
                      /\ (logged'.expired + 1)..Done' \subseteq LinesLeft'
    BY DEF WholeInv
  <2>1. spentFiles.faults = 0 /\ logged.stuck = {}
    BY <1>5 DEF LogInv, WholeInv
  <2>2. OnDisk = D /\ OnDisk' = D \cup {name}
    BY <1>6, <2>1 DEF OnDisk, D
  <2>5. LinesLeft \subseteq LinesLeft'
    <3> SUFFICES ASSUME NEW l \in LinesLeft PROVE \E n \in D \cup {name} : l \in ToSet(logDir'.old[n])
      BY <2>2, LinesLeftAre
    <3>1. CASE l \in CurLines
      BY <1>11, <3>1
    <3>2. ASSUME NEW n \in D, l \in ToSet(logDir.old[n])
          PROVE  n \in D \cup {name} /\ l \in ToSet(logDir'.old[n])
      BY <1>6, <3>2
    <3>3. l \in CurLines \/ \E n \in D : l \in ToSet(logDir.old[n])
      BY <2>2, LinesLeftAre
    <3> QED BY <3>1, <3>2, <3>3
  <2>6. (logged.expired + 1)..Done \subseteq LinesLeft
    BY <2>1 DEF LogInv, WholeInv
  <2> QED BY <1>2, <1>6, <1>7, <1>9, <2>1, <2>5, <2>6
<1> QED BY <1>8, <1>10, <1>12, <1>14, <1>15, <1>16 DEF LogInv

LEMMA RotateKeepsLog == ASSUME LogInv, Rotate PROVE LogInv'
<1>1. CASE logDir' = logDir
  BY <1>1, RotateKeepsWorker
<1>2. CASE logDir' # logDir
  <2>1. WorkerAt("rotate") /\ IsFull /\ UNCHANGED <<hashd, lines, logged>>
    BY <1>2 DEF Rotate, HashStill
  <2> DEFINE name == Times[spentFiles.rotations + 1]
  <2>2. /\ logDir' = [cur |-> NoLog, old |-> Archived(name)]
        /\ worker' = [worker EXCEPT !.old = Append(@, name), !.step = "expire"]
        /\ spentFiles' = [spentFiles EXCEPT !.rotations = @ + 1]
    BY <1>2 DEF Rotate
  <2> QED BY <2>1, <2>2, ArchiveKeepsLog
<1> QED BY <1>1, <1>2

(* An archive that goes is the oldest known, and its lines come before all  *)
(* that are left.                                                          *)
LEMMA ExpireKeepsLog == ASSUME LogInv, Expire PROVE LogInv'
<1> DEFINE D == DOMAIN logDir.old
           name == Head(worker.old)
           s == worker.old
<1>1. /\ worker.step \in {"opening", "expire"} /\ worker \in Worker1 /\ s \in Seq(D) /\ s # <<>>
      /\ worker' = [worker EXCEPT !.old = Tail(s)] /\ UNCHANGED <<hashd, testFiles, lines>>
      /\ D \subseteq Names /\ LogTyped /\ OrderInv /\ Done \in Nat /\ logged.expired \in Nat
      /\ Len(s) \in Nat
  <2>1. /\ worker.step \in {"opening", "expire"} /\ s # <<>> /\ worker' = [worker EXCEPT !.old = Tail(s)]
        /\ UNCHANGED <<hashd, testFiles, lines>>
    BY DEF Expire, HashStill, TooMany
  <2>2. LogTyped /\ OrderInv /\ Done \in Nat
    BY DEF LogInv, QueueInv
  <2>3. worker \in Worker1
    BY <2>2 DEF LogTyped, Worker1
  <2>4. s \in Seq(D) /\ D \subseteq Names /\ logged.expired \in Nat
    BY <2>2, LogParts
  <2>5. Len(s) \in Nat
    BY <2>4
  <2> QED BY <2>1, <2>2, <2>3, <2>4, <2>5
<1>2. /\ \A i, j \in DOMAIN s : i < j => Before(s[i], s[j])
      /\ OnDisk \subseteq ToSet(s)
  BY <1>1 DEF LogInv, KnownInv
<1>3. /\ name \in D /\ Tail(s) \in Seq(ToSet(s)) /\ Len(Tail(s)) = Len(s) - 1
      /\ ToSet(s) = ToSet(Tail(s)) \cup {name}
      /\ \A i \in DOMAIN Tail(s) : Tail(s)[i] = s[i + 1] /\ i + 1 \in DOMAIN s
      /\ name = s[1] /\ 1 \in DOMAIN s /\ DOMAIN Tail(s) = 1..(Len(s) - 1) /\ ToSet(s) \subseteq D
  <2>1. name = s[1] /\ 1 \in DOMAIN s /\ DOMAIN Tail(s) = 1..(Len(s) - 1)
    BY <1>1
  <2> HIDE DEF D
  <2> QED BY <1>1, <2>1, ElementsOfNames
<1>4. \A n \in ToSet(Tail(s)) : n \in D /\ Before(name, n) /\ n # name
  <2> SUFFICES ASSUME NEW i \in DOMAIN Tail(s)
               PROVE  Tail(s)[i] \in D /\ Before(name, Tail(s)[i]) /\ Tail(s)[i] # name
    BY DEF ToSet
  <2>1. Tail(s)[i] = s[i + 1] /\ i + 1 \in DOMAIN s /\ 1 < i + 1
    BY <1>1, <1>3
  <2>2. Before(name, s[i + 1]) /\ s[i + 1] \in D
    BY <1>1, <1>2, <1>3, <2>1
  <2>3. name \in Time /\ s[i + 1] \in Time
    BY <1>1, <1>3, <2>2, LogParts, NamesAreTimes
  <2> QED BY <2>1, <2>2, <2>3, BeforeOrders
<1>5. \A i, j \in DOMAIN Tail(s) : i < j => Before(Tail(s)[i], Tail(s)[j])
  <2> SUFFICES ASSUME NEW i \in DOMAIN Tail(s), NEW j \in DOMAIN Tail(s), i < j
               PROVE  Before(Tail(s)[i], Tail(s)[j])
    OBVIOUS
  <2>1. i + 1 \in DOMAIN s /\ j + 1 \in DOMAIN s /\ i + 1 < j + 1
    BY <1>1, <1>3
  <2> QED BY <1>2, <1>3, <2>1
<1>6. /\ worker'.step = worker.step /\ worker'.msg = worker.msg /\ worker'.old = Tail(s)
      /\ worker'.file = worker.file /\ worker'.size = worker.size
      /\ \A E : Tail(s) \in Seq(E) => worker' \in [file: BOOLEAN, size: Nat, old: Seq(E),
                      step: {"none", "opening", "idle"} \cup InHand, msg: Nat]
  BY <1>1 DEF Worker1
<1>7. Tail(s) \in Seq(D) /\ Tail(s) \in Seq(D \ {name})
  <2>1. Tail(s) \in Seq(ToSet(Tail(s)))
    <3>1. \A q \in Seq(ToSet(s)) : q \in Seq(ToSet(q))
      BY DEF ToSet
    <3> HIDE DEF s
    <3> QED BY <1>3, <3>1
  <2>2. ToSet(Tail(s)) \subseteq D /\ ToSet(Tail(s)) \subseteq D \ {name}
    BY <1>4
  <2> HIDE DEF s, D, name
  <2> QED BY <2>1, <2>2
<1>8. logged.sent' = logged.sent => Done' = Done
  BY <1>1, <1>6 DEF Done
<1> HIDE DEF D, name, s
<1>9. CASE /\ logDir' = [logDir EXCEPT !.old = Restrict(@, DOMAIN @ \ {name})]
           /\ logged' = [logged EXCEPT !.expired = IF name \in logged.stuck THEN @
                                                   ELSE Max({@} \cup ToSet(logDir.old[name]))]
           /\ UNCHANGED spentFiles
  <2>1. /\ logDir' = [cur |-> logDir'.cur, old |-> logDir'.old] /\ logDir'.cur = logDir.cur
        /\ DOMAIN logDir'.old = D \ {name}
        /\ \A n \in D \ {name} : logDir'.old[n] = logDir.old[n]
        /\ logDir'.old \in [D \ {name} -> Seq(Line)]
    <3>1. logDir = [cur |-> logDir.cur, old |-> logDir.old]
      BY <1>1 DEF LogTyped
    <3>2. logDir'.old = Restrict(logDir.old, D \ {name}) /\ logDir'.cur = logDir.cur
          /\ logDir' = [cur |-> logDir.cur, old |-> Restrict(logDir.old, D \ {name})]
      BY <1>9, <3>1 DEF D
    <3>3. \A n \in D : logDir.old[n] \in Seq(Line)
      BY <1>1, LogParts DEF D
    <3> QED BY <3>2, <3>3 DEF Restrict
  <2> DEFINE L == {logged.expired} \cup ToSet(logDir.old[name])
             e == IF name \in logged.stuck THEN logged.expired ELSE Max(L)
  <2>2. Max(L) \in L /\ (\A x \in L : x <= Max(L)) /\ L \subseteq Nat /\ \A x \in L : x <= Done
    <3>1. ToSet(logDir.old[name]) \subseteq Nat
      BY <1>1, <1>3, LinesAreNumbers DEF D, Line
    <3>2. L \in SUBSET Nat /\ L # {} /\ \A x \in L : x <= Done
      BY <1>1, <1>3, <3>1 DEF OrderInv, D
    <3> HIDE DEF L
    <3> QED BY <1>1, <3>2, LargestIs
  <2>3. /\ logged'.expired = e /\ logged'.sent = logged.sent /\ logged'.stuck = logged.stuck
        /\ e \in Nat /\ e >= logged.expired /\ e <= Done
        /\ logged' \in [sent: 0..MaxLines, expired: Nat, stuck: SUBSET Names]
    <3>1. e \in Nat /\ e >= logged.expired /\ e <= Done
      <4>1. logged.expired \in L /\ logged.expired <= Done
        BY <1>1 DEF OrderInv
      <4> HIDE DEF L
      <4>2. Max(L) \in Nat /\ Max(L) >= logged.expired /\ Max(L) <= Done
        BY <1>1, <2>2, <4>1
      <4> QED BY <1>1, <4>1, <4>2
    <3>2. logged' = [logged EXCEPT !.expired = e]
      BY <1>9
    <3>3. logged \in [sent: 0..MaxLines, expired: Nat, stuck: SUBSET Names]
      BY <1>1 DEF LogTyped
    <3> HIDE DEF e
    <3> QED BY <3>1, <3>2, <3>3
  <2>4. Done' = Done /\ CurLines' = CurLines /\ Names' = Names /\ OnDisk' = OnDisk \ {name}
        /\ OnDisk = {n \in D : n \notin logged.stuck}
    BY <1>8, <1>9, <2>1, <2>3 DEF CurLines, Names, OnDisk, D
  <2>5. LogTyped'
    <3>1. worker' \in [file: BOOLEAN, size: Nat, old: Seq(DOMAIN logDir'.old),
                       step: {"none", "opening", "idle"} \cup InHand, msg: Nat]
      BY <1>6, <1>7, <2>1
    <3> QED BY <1>1, <1>6, <1>9, <2>1, <2>3, <2>4, <3>1 DEF LogTyped
  <2>6. QueueInv'
    BY <1>1, <1>6, <2>3, <2>4 DEF LogInv, QueueInv
  <2>7. name \notin logged.stuck => \A l \in ToSet(logDir.old[name]) : l <= e
    BY <2>2
  <2>8. \A l \in CurLines : l > e
    <3>1. \A l \in CurLines : l \in Nat /\ l > logged.expired /\ \A x \in ToSet(logDir.old[name]) : x < l
      BY <1>1, <1>3, LinesAreNumbers DEF OrderInv, D, Line
    <3> QED BY <2>2, <3>1
  <2>9. ASSUME NEW n \in D \ {name}, n \notin logged.stuck, NEW l \in ToSet(logDir.old[n])
        PROVE  l > e
    <3>1. n \in ToSet(Tail(s))
      BY <1>2, <1>3, <2>4, <2>9
    <3>2. Before(name, n)
      BY <1>4, <3>1
    <3>3. l \in Nat /\ l > logged.expired /\ \A x \in ToSet(logDir.old[name]) : x < l
      BY <1>1, <1>3, <2>9, <3>2, LinesAreNumbers DEF OrderInv, D, Line
    <3> QED BY <2>2, <3>3
  <2>10. OrderInv'
    <3>1. \A l \in CurLines : l <= Done
      BY <1>1 DEF OrderInv
    <3>2. ASSUME NEW n \in D \ {name}, NEW l \in ToSet(logDir.old[n])
          PROVE  /\ l <= Done /\ (\A k \in CurLines : l < k)
                 /\ \A m \in D \ {name} : Before(n, m) => \A k \in ToSet(logDir.old[m]) : l < k
      BY <1>1, <3>2 DEF OrderInv, D
    <3> HIDE DEF e
    <3> QED BY <2>1, <2>3, <2>4, <2>8, <2>9, <3>1, <3>2 DEF OrderInv
  <2>11. KnownInv'
    <3>1. OnDisk' \subseteq ToSet(Tail(s))
      BY <1>2, <1>3, <2>4
    <3> QED BY <1>1, <1>5, <1>6, <3>1 DEF KnownInv
  <2>12. SizeInv'
    BY <1>6, <1>9, <2>1, <2>4 DEF LogInv, SizeInv
  <2>13. WholeInv'
    <3> SUFFICES ASSUME spentFiles'.faults = 0
                 PROVE  /\ logged'.stuck = {} /\ (worker'.step # "none" => worker'.file)
                        /\ worker'.step \in {"expire", "create"} => logDir'.cur = NoLog
                        /\ (logged'.expired + 1)..Done' \subseteq LinesLeft'
      BY DEF WholeInv
    <3>1. /\ logged.stuck = {} /\ (worker.step # "none" => worker.file)
          /\ (worker.step \in {"expire", "create"} => logDir.cur = NoLog)
          /\ (logged.expired + 1)..Done \subseteq LinesLeft
      BY <1>9 DEF LogInv, WholeInv
    <3>4. ASSUME NEW l \in (e + 1)..Done PROVE l \in LinesLeft'
      <4>1. l \in (logged.expired + 1)..Done /\ l > e /\ l \in Nat /\ l \in LinesLeft
        BY <1>1, <2>3, <3>1
      <4>2. l \notin ToSet(logDir.old[name])
        <5>1. l \in ToSet(logDir.old[name]) => l <= e
          BY <2>7, <3>1
        <5> HIDE DEF e
        <5> QED BY <2>3, <4>1, <5>1
      <4>3. CASE l \in CurLines
        BY <2>4, <4>3, LinesLeftAre
      <4>4. ASSUME NEW n \in OnDisk, l \in ToSet(logDir.old[n]) PROVE l \in LinesLeft'
        <5>1. n # name /\ n \in OnDisk' /\ logDir'.old[n] = logDir.old[n]
          BY <2>1, <2>4, <4>2, <4>4
        <5>2. l \in ToSet(logDir'.old[n])
          BY <4>4, <5>1
        <5> QED BY <5>1, <5>2, LinesLeftAre
      <4>5. l \in CurLines \/ \E n \in OnDisk : l \in ToSet(logDir.old[n])
        BY <4>1, LinesLeftAre
      <4> QED BY <4>3, <4>4, <4>5
    <3> HIDE DEF e
    <3> QED BY <1>6, <2>1, <2>3, <2>4, <3>1, <3>4
  <2> QED BY <2>5, <2>6, <2>10, <2>11, <2>12, <2>13 DEF LogInv
<1>10. CASE logged' = [logged EXCEPT !.stuck = @ \cup {name}] /\ LogFault /\ UNCHANGED logDir
  <2>1. /\ logged'.expired = logged.expired /\ logged'.sent = logged.sent
        /\ logged'.stuck = logged.stuck \cup {name}
        /\ logged' \in [sent: 0..MaxLines, expired: Nat, stuck: SUBSET Names]
    <3>1. logged \in [sent: 0..MaxLines, expired: Nat, stuck: SUBSET Names] /\ name \in Names
      BY <1>1, <1>3 DEF LogTyped
    <3> QED BY <1>10, <3>1
  <2>2. /\ spentFiles' \in [starts: Nat, faults: Nat, rotations: 0..Len(Times)]
        /\ spentFiles'.rotations = spentFiles.rotations /\ spentFiles'.faults # 0
    BY <1>1, <1>10, Faulted
  <2>3. Done' = Done /\ CurLines' = CurLines /\ Names' = Names /\ OnDisk' = OnDisk \ {name}
    BY <1>8, <1>10, <2>1, <2>2 DEF CurLines, Names, OnDisk
  <2>4. LogTyped'
    <3>1. worker' \in [file: BOOLEAN, size: Nat, old: Seq(DOMAIN logDir.old),
                       step: {"none", "opening", "idle"} \cup InHand, msg: Nat]
      BY <1>6, <1>7 DEF D
    <3> QED BY <1>1, <1>6, <1>10, <2>1, <2>2, <2>3, <3>1 DEF LogTyped
  <2>5. QueueInv'
    BY <1>1, <1>6, <2>1, <2>3 DEF LogInv, QueueInv
  <2>6. OrderInv'
    BY <1>1, <1>10, <2>1, <2>3 DEF OrderInv
  <2>7. KnownInv'
    <3>1. OnDisk' \subseteq ToSet(Tail(s))
      BY <1>2, <1>3, <2>3
    <3> QED BY <1>1, <1>5, <1>6, <3>1 DEF KnownInv
  <2>8. SizeInv' /\ WholeInv'
    BY <1>6, <1>10, <2>2, <2>3 DEF LogInv, SizeInv, WholeInv
  <2> QED BY <2>4, <2>5, <2>6, <2>7, <2>8 DEF LogInv
<1> QED BY <1>9, <1>10 DEF Expire, name

LEMMA ExpiredKeepsLog == ASSUME LogInv, Expired PROVE LogInv'
<1> DEFINE step == IF WorkerAt("opening") THEN "idle" ELSE "create"
<1>1. /\ worker.step \in {"opening", "expire"} /\ ~TooMany /\ worker \in Worker1
      /\ worker' = [worker EXCEPT !.step = step]
      /\ UNCHANGED <<hashd, logDir, lines, logged, spentFiles>>
      /\ logged.sent \in Nat /\ Len(lines) \in Nat /\ lines \in Seq(Line)
      /\ spentFiles \in [starts: Nat, faults: Nat, rotations: 0..Len(Times)]
  <2>1. logged.sent \in Nat
    BY LogParts, FileSlots DEF LogInv
  <2>2. worker' = [worker EXCEPT !.step = step]
    BY DEF Expired, Worker
  <2> QED BY <2>1, <2>2, LogParts DEF LogInv, LogTyped, Worker1, Expired, HashStill
<1>2. /\ worker.step = "opening" => step = "idle"
      /\ worker.step = "expire" => step = "create"
  BY DEF WorkerAt
<1> HIDE DEF step
<1>3. /\ worker'.step = step /\ worker'.msg = worker.msg /\ worker'.old = worker.old
      /\ worker'.file = worker.file /\ worker'.size = worker.size /\ worker' \in Worker1
  BY <1>1, <1>2 DEF Worker1, InHand
<1>4. Done' = Done
  BY <1>1, <1>2, <1>3 DEF Done, InHand
<1>5. worker'.file /\ worker'.step = "idle" => logDir.cur # NoLog /\ worker'.size = Len(logDir.cur)
  BY <1>1, <1>2, <1>3 DEF LogInv, SizeInv
<1>6. spentFiles'.faults = 0 => /\ spentFiles.faults = 0 /\ worker'.file
                                /\ (worker'.step \in {"expire", "create"} => logDir.cur = NoLog)
  BY <1>1, <1>2, <1>3 DEF LogInv, WholeInv
<1>7. LogTyped' /\ OrderInv' /\ KnownInv' /\ SizeInv' /\ WholeInv'
  BY <1>1, <1>2, <1>3, <1>4, <1>5, <1>6, WorkerMoves
<1>8. QueueInv'
  BY <1>1, <1>2, <1>3, <1>4 DEF LogInv, QueueInv, InHand
<1> QED BY <1>7, <1>8 DEF LogInv

LEMMA CreateKeepsLog == ASSUME LogInv, Create PROVE LogInv'
<1>1. /\ worker.step = "create" /\ ~TooMany /\ worker \in Worker1
      /\ UNCHANGED <<hashd, lines, logged>>
      /\ logged.sent \in Nat /\ Len(lines) \in Nat /\ lines \in Seq(Line) /\ Done \in Nat
      /\ spentFiles \in [starts: Nat, faults: Nat, rotations: 0..Len(Times)]
  <2>1. logged.sent \in Nat
    BY LogParts, FileSlots DEF LogInv
  <2> QED BY <2>1, LogParts DEF LogInv, LogTyped, Worker1, Create, WorkerAt, HashStill, QueueInv, KnownInv
<1>2. CASE /\ logDir.cur = NoLog /\ logDir' = [logDir EXCEPT !.cur = <<>>] /\ UNCHANGED spentFiles
           /\ worker' = [worker EXCEPT !.file = TRUE, !.size = 0, !.step = "write"]
  <2>1. /\ logDir' = [cur |-> <<>>, old |-> logDir.old] /\ logDir'.cur = <<>> /\ logDir'.old = logDir.old
    <3>1. logDir = [cur |-> logDir.cur, old |-> logDir.old]
      BY DEF LogInv, LogTyped
    <3> QED BY <1>2, <3>1
  <2>2. /\ worker'.step = "write" /\ worker'.msg = worker.msg /\ worker'.old = worker.old
        /\ worker'.file /\ worker'.size = 0 /\ worker' \in Worker1
    BY <1>1, <1>2 DEF Worker1, InHand
  <2>3. Done' = Done
    BY <1>1, <2>2 DEF Done, InHand
  <2>4. <<>> \in Seq(Line) /\ <<>> # NoLog /\ ToSet(<<>>) = {} /\ Len(<<>>) = 0
    <3>1. <<>> \in Seq(Line) /\ Len(<<>>) = 0
      OBVIOUS
    <3>2. ToSet(<<>>) = {}
      BY DEF ToSet
    <3> QED BY <3>1, <3>2, NotNoLog
  <2>5. CurLines' = CurLines /\ Names' = Names
    BY <1>2, <2>1, <2>4 DEF CurLines, Names
  <2>6. LogTyped'
    <3>1. hashd.at \in Running
      BY <1>1 DEF LogInv, LogTyped
    <3> QED BY <1>1, <1>2, <2>1, <2>2, <2>4, <2>5, <3>1 DEF LogInv, LogTyped, Worker1
  <2>7. OrderInv' /\ LinesLeft' = LinesLeft /\ OnDisk' = OnDisk
    BY <1>1, <2>1, <2>3, <2>5, OrderStays
  <2>8. QueueInv'
    BY <1>1, <2>2, <2>3, QueueStays DEF InHand
  <2>9. KnownInv'
    BY <1>1, <2>2, <2>7 DEF LogInv, KnownInv, TooMany
  <2>10. SizeInv'
    <3>1. spentFiles.rotations * UnitLines + 0 <= Done
      BY <1>2 DEF LogInv, SizeInv
    <3> QED BY <1>2, <2>1, <2>2, <2>3, <2>4, <3>1 DEF SizeInv
  <2>11. WholeInv'
    BY <1>1, <1>2, <2>2, <2>3, <2>7 DEF LogInv, WholeInv
  <2> QED BY <2>6, <2>7, <2>8, <2>9, <2>10, <2>11 DEF LogInv
<1>3. CASE /\ worker' = [worker EXCEPT !.file = FALSE, !.step = "write"] /\ UNCHANGED logDir
           /\ LogFault \/ (logDir.cur # NoLog /\ UNCHANGED spentFiles)
  <2>1. /\ worker'.step = "write" /\ worker'.msg = worker.msg /\ worker'.old = worker.old
        /\ ~worker'.file /\ worker'.size = worker.size /\ worker' \in Worker1
    BY <1>1, <1>3 DEF Worker1, InHand
  <2>2. Done' = Done
    BY <1>1, <2>1 DEF Done, InHand
  <2>3. /\ spentFiles' \in [starts: Nat, faults: Nat, rotations: 0..Len(Times)]
        /\ spentFiles'.rotations = spentFiles.rotations /\ spentFiles'.faults # 0
    <3>1. CASE LogFault
      BY <3>1, Faulted DEF LogInv
    <3>2. CASE logDir.cur # NoLog /\ UNCHANGED spentFiles
      BY <1>1, <3>2 DEF LogInv, WholeInv
    <3> QED BY <1>3, <3>1, <3>2
  <2>4. LogTyped' /\ OrderInv' /\ KnownInv' /\ SizeInv' /\ WholeInv'
    BY <1>1, <1>3, <2>1, <2>2, <2>3, WorkerMoves
  <2>5. QueueInv'
    BY <1>1, <2>1, <2>2, QueueStays DEF InHand
  <2> QED BY <2>4, <2>5 DEF LogInv
<1> QED BY <1>2, <1>3 DEF Create

(* The line in hand is written, or given up: it is the next one.           *)
LEMMA WriteKeepsLog == ASSUME LogInv, WriteLine PROVE LogInv'
<1>1. /\ worker.step = "write" /\ ~TooMany /\ worker \in Worker1
      /\ UNCHANGED <<hashd, lines, logged>> /\ worker.msg = Done + 1
      /\ logged.sent \in Nat /\ Len(lines) \in Nat /\ lines \in Seq(Line) /\ Done \in Nat
      /\ spentFiles \in [starts: Nat, faults: Nat, rotations: 0..Len(Times)]
  <2>1. logged.sent \in Nat
    BY LogParts, FileSlots DEF LogInv
  <2> QED BY <2>1, LogParts
      DEF LogInv, LogTyped, Worker1, WriteLine, WorkerAt, HashStill, QueueInv, KnownInv, InHand
<1>2. ASSUME worker'.step = "idle" PROVE Done' = Done + 1 /\ Done' \in Nat /\ Done' >= Done
  <2>1. Done' = logged.sent - Len(lines) /\ Done = logged.sent - Len(lines) - 1
    BY <1>1, <1>2 DEF Done, InHand
  <2> QED BY <1>1, <2>1
<1>3. ASSUME worker'.step = "idle" PROVE QueueInv'
  BY <1>1, <1>2, <1>3 DEF LogInv, QueueInv, InHand
<1>4. hashd.at \in Running
  BY <1>1 DEF LogInv, LogTyped
<1>5. CASE worker.file /\ Written(TRUE) /\ UNCHANGED spentFiles
           /\ logDir' = [logDir EXCEPT !.cur = Append(@, worker.msg)]
  <2>1. logDir.cur # NoLog /\ logDir.cur \in Seq(Line) /\ worker.size = Len(logDir.cur)
    BY <1>1, <1>5 DEF LogInv, LogTyped, SizeInv
  <2> DEFINE c == Append(logDir.cur, worker.msg)
  <2>2. /\ c \in Seq(Line) /\ Len(c) = Len(logDir.cur) + 1 /\ c # NoLog /\ Len(logDir.cur) \in Nat
        /\ ToSet(c) = CurLines \cup {worker.msg}
    <3>1. worker.msg \in Line
      BY <1>1 DEF Line
    <3>2. c \in Seq(Line) /\ Len(c) = Len(logDir.cur) + 1
      BY <2>1, <3>1
    <3>3. ToSet(c) = ToSet(logDir.cur) \cup {worker.msg}
      BY <2>1, ElementsOfNames
    <3> QED BY <2>1, <3>2, <3>3, NotNoLog DEF CurLines
  <2>3. /\ logDir' = [cur |-> c, old |-> logDir.old] /\ logDir'.cur = c /\ logDir'.old = logDir.old
    <3>1. logDir = [cur |-> logDir.cur, old |-> logDir.old]
      BY DEF LogInv, LogTyped
    <3> QED BY <1>5, <3>1
  <2> HIDE DEF c
  <2>4. /\ worker'.step = "idle" /\ worker'.msg = 0 /\ worker'.old = worker.old
        /\ worker'.file /\ worker'.size = worker.size + 1 /\ worker' \in Worker1
    <3>1. worker' = [worker EXCEPT !.file = TRUE, !.size = worker.size + 1, !.step = "idle", !.msg = 0]
      BY <1>5 DEF Written
    <3>2. worker.size + 1 \in Nat /\ 0 \in Nat
      BY <1>1 DEF Worker1
    <3> QED BY <1>1, <3>1, <3>2 DEF Worker1
  <2>5. CurLines' = CurLines \cup {worker.msg} /\ Names' = Names /\ OnDisk' = OnDisk
    BY <1>1, <1>5, <2>2, <2>3 DEF CurLines, Names, OnDisk
  <2>6. LogTyped'
    BY <1>1, <1>4, <1>5, <2>2, <2>3, <2>4, <2>5 DEF LogInv, LogTyped, Worker1
  <2>7. Done' = worker.msg /\ Done' = Done + 1
    BY <1>1, <1>2, <2>4
  <2>8. OrderInv'
    <3>1. OrderInv /\ LogTyped /\ logged.expired \in Nat
      BY LogParts DEF LogInv
    <3>2. \A l \in CurLines : l <= Done' /\ l > logged.expired
      <4>1. \A l \in CurLines : l \in Nat /\ l <= Done /\ l > logged.expired
        BY <3>1, LinesAreNumbers DEF OrderInv, Line
      <4> QED BY <1>1, <2>7, <4>1
    <3>3. worker.msg <= Done' /\ worker.msg > logged.expired /\ logged.expired <= Done'
      BY <1>1, <2>7, <3>1 DEF OrderInv
    <3>4. ASSUME NEW n \in DOMAIN logDir.old, NEW l \in ToSet(logDir.old[n])
          PROVE  /\ l <= Done' /\ l < worker.msg /\ (n \notin logged.stuck => l > logged.expired)
                 /\ \A k \in CurLines : l < k
                 /\ \A m \in DOMAIN logDir.old : Before(n, m) => \A k \in ToSet(logDir.old[m]) : l < k
      <4>1. l \in Nat /\ l <= Done
        BY <3>1, LinesAreNumbers DEF OrderInv, Line
      <4>2. l <= Done' /\ l < worker.msg
        BY <1>1, <2>7, <4>1
      <4> QED BY <3>1, <4>2 DEF OrderInv
    <3> QED BY <1>1, <2>3, <2>5, <3>2, <3>3, <3>4 DEF OrderInv
  <2>9. KnownInv'
    BY <1>1, <2>4, <2>5 DEF LogInv, KnownInv, TooMany
  <2>10. SizeInv'
    <3>1. spentFiles.rotations * UnitLines + Len(logDir.cur) <= Done
      BY <2>1 DEF LogInv, SizeInv
    <3> DEFINE p == spentFiles.rotations * UnitLines
    <3>2. p \in Nat
      BY <1>1, FileSlots
    <3> HIDE DEF p
    <3>3. p + Len(c) <= Done'
      BY <1>1, <2>2, <2>7, <3>1, <3>2 DEF p
    <3>4. spentFiles'.rotations * UnitLines = p
      BY <1>5 DEF p
    <3>5. worker'.size = Len(c)
      BY <2>1, <2>2, <2>4
    <3> QED BY <2>2, <2>3, <3>3, <3>4, <3>5 DEF SizeInv
  <2>11. WholeInv'
    <3> SUFFICES ASSUME spentFiles.faults = 0
                 PROVE  logged.stuck = {} /\ (logged.expired + 1)..Done' \subseteq LinesLeft'
      BY <1>1, <1>5, <2>4 DEF WholeInv
    <3>1. logged.stuck = {} /\ (logged.expired + 1)..Done \subseteq LinesLeft
      BY DEF LogInv, WholeInv
    <3>2. \A l : l \in LinesLeft' <=> l \in LinesLeft \/ l = worker.msg
      <4>1. \A l : l \in LinesLeft' <=> l \in CurLines' \/ \E n \in OnDisk' : l \in ToSet(logDir'.old[n])
        BY LinesLeftAre
      <4>2. \A l : l \in LinesLeft <=> l \in CurLines \/ \E n \in OnDisk : l \in ToSet(logDir.old[n])
        BY LinesLeftAre
      <4> QED BY <2>3, <2>5, <4>1, <4>2
    <3>3. \A l \in (logged.expired + 1)..Done' : l \in (logged.expired + 1)..Done \/ l = worker.msg
      BY <1>1, <2>7, LogParts DEF LogInv
    <3> QED BY <3>1, <3>2, <3>3
  <2> QED BY <1>3, <2>4, <2>6, <2>8, <2>9, <2>10, <2>11 DEF LogInv
<1>6. CASE /\ UNCHANGED logDir
           /\ (Written(FALSE) /\ LogFault)
              \/ (~worker.file /\ UNCHANGED spentFiles /\ worker' = [worker EXCEPT !.step = "idle", !.msg = 0])
  <2>1. worker'.step = "idle" /\ worker'.old = worker.old /\ ~worker'.file /\ worker' \in Worker1
    <3>1. CASE Written(FALSE)
      <4>1. worker' = [worker EXCEPT !.file = FALSE, !.size = worker.size + 1, !.step = "idle", !.msg = 0]
        BY <3>1 DEF Written
      <4>2. worker.size + 1 \in Nat /\ 0 \in Nat
        BY <1>1 DEF Worker1
      <4> QED BY <1>1, <4>1, <4>2 DEF Worker1
    <3>2. CASE ~worker.file /\ worker' = [worker EXCEPT !.step = "idle", !.msg = 0]
      BY <1>1, <3>2 DEF Worker1
    <3> QED BY <1>6, <3>1, <3>2
  <2>2. /\ spentFiles' \in [starts: Nat, faults: Nat, rotations: 0..Len(Times)]
        /\ spentFiles'.rotations = spentFiles.rotations /\ spentFiles'.faults # 0
    <3>1. CASE LogFault
      BY <3>1, Faulted DEF LogInv
    <3>2. CASE ~worker.file /\ UNCHANGED spentFiles
      BY <1>1, <3>2 DEF LogInv, WholeInv
    <3> QED BY <1>6, <3>1, <3>2
  <2>3. CurLines' = CurLines /\ Names' = Names
    BY <1>6, <2>2 DEF CurLines, Names
  <2>4. LogTyped'
    BY <1>1, <1>4, <1>6, <2>1, <2>2, <2>3 DEF LogInv, LogTyped, Worker1
  <2>5. OrderInv' /\ LinesLeft' = LinesLeft /\ OnDisk' = OnDisk
    BY <1>1, <1>2, <1>6, <2>1, <2>3, OrderStays
  <2>6. KnownInv'
    BY <1>1, <2>1, <2>5 DEF LogInv, KnownInv, TooMany
  <2>7. SizeInv'
    <3> DEFINE p == spentFiles.rotations * UnitLines + (IF logDir.cur = NoLog THEN 0 ELSE Len(logDir.cur))
    <3>1. p <= Done
      BY DEF LogInv, SizeInv
    <3>2. p \in Nat
      <4>1. logDir.cur # NoLog => Len(logDir.cur) \in Nat
        BY DEF LogInv, LogTyped
      <4>2. spentFiles.rotations * UnitLines \in Nat
        BY <1>1, FileSlots
      <4> QED BY <4>1, <4>2
    <3> HIDE DEF p
    <3>3. p <= Done'
      BY <1>1, <1>2, <2>1, <3>1, <3>2
    <3> QED BY <1>6, <2>1, <2>2, <3>3 DEF SizeInv, p
  <2>8. WholeInv'
    BY <2>2 DEF WholeInv
  <2> QED BY <1>3, <2>1, <2>4, <2>5, <2>6, <2>7, <2>8 DEF LogInv
<1> QED BY <1>5, <1>6 DEF WriteLine

LEMMA SendKeepsLog == ASSUME LogInv, SendLine PROVE LogInv'
<1>1. /\ worker.step \notin {"none", "opening"} /\ lines \in Seq(Line) /\ Len(lines) \in Nat
      /\ logged.sent \in Nat /\ logged.sent < MaxLines /\ MaxLines \in Nat /\ Done \in Nat
      /\ logged \in [sent: 0..MaxLines, expired: Nat, stuck: SUBSET Names]
      /\ lines' = Append(lines, logged.sent + 1) /\ logged' = [logged EXCEPT !.sent = logged.sent + 1]
      /\ UNCHANGED <<hashd, logDir, worker, spentFiles>>
  <2>1. logged.sent \in Nat
    BY LogParts, FileSlots DEF LogInv
  <2> QED BY <2>1, LogParts, FileSlots DEF LogInv, LogTyped, SendLine, HashStill, QueueInv
<1>2. /\ logged'.sent = logged.sent + 1 /\ logged'.expired = logged.expired
      /\ logged'.stuck = logged.stuck /\ logged' \in [sent: 0..MaxLines, expired: Nat, stuck: SUBSET Names]
  <2>1. logged.sent + 1 \in 0..MaxLines
    BY <1>1
  <2> QED BY <1>1, <2>1
<1>3. /\ lines' \in Seq(Line) /\ Len(lines') = Len(lines) + 1 /\ DOMAIN lines' = 1..(Len(lines) + 1)
      /\ DOMAIN lines = 1..Len(lines) /\ lines'[Len(lines) + 1] = logged.sent + 1
      /\ \A i \in 1..Len(lines) : lines'[i] = lines[i]
  <2>1. logged.sent + 1 \in Line
    BY <1>1 DEF Line
  <2> QED BY <1>1, <2>1
<1>4. Done' = Done
  BY <1>1, <1>2, <1>3 DEF Done
<1>5. Names' = Names /\ CurLines' = CurLines
  BY <1>1 DEF Names, CurLines
<1>6. OrderInv' /\ LinesLeft' = LinesLeft /\ OnDisk' = OnDisk
  BY <1>1, <1>2, <1>4, <1>5, OrderStays
<1>7. LogTyped'
  BY <1>1, <1>2, <1>3, <1>5 DEF LogInv, LogTyped
<1>8. QueueInv'
  <2>1. \A i \in DOMAIN lines' : lines'[i] = logged'.sent - Len(lines') + i
    <3> SUFFICES ASSUME NEW i \in 1..(Len(lines) + 1)
                 PROVE  lines'[i] = logged'.sent - Len(lines') + i
      BY <1>3
    <3>1. CASE i = Len(lines) + 1
      BY <1>1, <1>2, <1>3, <3>1
    <3>2. CASE i \in 1..Len(lines)
      <4>1. lines[i] = logged.sent - Len(lines) + i
        BY <1>3, <3>2 DEF LogInv, QueueInv
      <4> QED BY <1>1, <1>2, <1>3, <3>2, <4>1
    <3> QED BY <1>1, <3>1, <3>2
  <2> QED BY <1>1, <1>4, <2>1 DEF LogInv, QueueInv
<1>9. KnownInv' /\ SizeInv'
  BY <1>1, <1>4, <1>6 DEF LogInv, KnownInv, SizeInv, TooMany
<1>10. WholeInv'
  BY <1>1, <1>2, <1>4, <1>6 DEF LogInv, WholeInv
<1> QED BY <1>6, <1>7, <1>8, <1>9, <1>10 DEF LogInv

(* The end of a logger, or of its process: what is in the channel is read,  *)
(* or lost.                                                                *)
LEMMA EndKeepsLog == ASSUME LogInv, FilesTyped, JoinWorker \/ Kill PROVE LogInv'
<1>1. /\ worker' = NoWorker /\ lines' = <<>> /\ hashd'.at \notin Running
      /\ UNCHANGED <<logDir, logged>> /\ logged.sent \in Nat /\ lines \in Seq(Line)
      /\ Len(lines) \in Nat /\ Done \in Nat
      /\ spentFiles \in [starts: Nat, faults: Nat, rotations: 0..Len(Times)]
  <2>1. logged.sent \in Nat
    BY LogParts, FileSlots DEF LogInv
  <2>2. hashd'.at = "down"
    BY DEF JoinWorker, Kill, HashdGoto, FilesTyped, Hashd
  <2> QED BY <2>1, <2>2, LogParts DEF LogInv, LogTyped, JoinWorker, Kill, QueueInv, Running
<1>2. /\ spentFiles' \in [starts: Nat, faults: Nat, rotations: 0..Len(Times)]
      /\ spentFiles'.rotations = spentFiles.rotations
      /\ spentFiles'.faults = 0 => spentFiles.faults = 0 /\ WorkerDone
  <2>1. CASE JoinWorker
    BY <1>1, <2>1 DEF JoinWorker
  <2>2. CASE Kill
    BY <2>2, Faulted DEF Kill, LogInv
  <2> QED BY <2>1, <2>2
<1>3. /\ Done' = logged.sent /\ Done <= logged.sent /\ Done' \in Nat /\ Done' >= Done
      /\ WorkerDone => Done' = Done
  <2>1. Done' = logged.sent
    BY <1>1 DEF Done, NoWorker, InHand
  <2>2. Done <= logged.sent
    BY <1>1 DEF Done
  <2>3. WorkerDone => Done = logged.sent
    BY <1>1 DEF Done, WorkerDone, WorkerAt, InHand
  <2> QED BY <1>1, <2>1, <2>2, <2>3
<1>4. Names' = Names /\ CurLines' = CurLines
  BY <1>1, <1>2 DEF Names, CurLines
<1>5. OrderInv' /\ LinesLeft' = LinesLeft /\ OnDisk' = OnDisk
  BY <1>1, <1>3, <1>4, OrderStays
<1>6. LogTyped'
  <2>1. NoWorker \in Worker1
    BY DEF NoWorker, Worker1
  <2>2. NoWorker.step = "none"
    BY DEF NoWorker
  <2>3. worker' \in [file: BOOLEAN, size: Nat, old: Seq(DOMAIN logDir'.old),
                     step: {"none", "opening", "idle"} \cup InHand, msg: Nat]
    BY <1>1, <2>1 DEF Worker1
  <2>4. worker'.step = "none" /\ lines' \in Seq(Line)
    BY <1>1, <2>2
  <2>5. logged' \in [sent: 0..MaxLines, expired: Nat, stuck: SUBSET (Names')]
    BY <1>1, <1>4 DEF LogInv, LogTyped
  <2>6. /\ logDir' = [cur |-> logDir'.cur, old |-> logDir'.old]
        /\ logDir'.cur = NoLog \/ logDir'.cur \in Seq(Line)
        /\ DOMAIN logDir'.old \subseteq Names' /\ logDir'.old \in [DOMAIN logDir'.old -> Seq(Line)]
    BY <1>1, <1>4 DEF LogInv, LogTyped
  <2> QED BY <1>1, <1>2, <2>3, <2>4, <2>5, <2>6 DEF LogTyped
<1>7. QueueInv' /\ KnownInv'
  BY <1>1, <1>3 DEF QueueInv, KnownInv, NoWorker, InHand
<1>8. SizeInv'
  <2> DEFINE p == spentFiles.rotations * UnitLines + (IF logDir.cur = NoLog THEN 0 ELSE Len(logDir.cur))
  <2>1. p <= Done
    BY DEF LogInv, SizeInv
  <2>2. p \in Nat
    <3>1. logDir.cur # NoLog => Len(logDir.cur) \in Nat
      BY DEF LogInv, LogTyped
    <3>2. spentFiles.rotations * UnitLines \in Nat
      BY <1>1, FileSlots
    <3> QED BY <3>1, <3>2
  <2> HIDE DEF p
  <2>3. p <= Done'
    BY <1>1, <1>3, <2>1, <2>2
  <2> QED BY <1>1, <1>2, <2>3 DEF SizeInv, NoWorker, p
<1>9. WholeInv'
  BY <1>1, <1>2, <1>3, <1>5 DEF LogInv, WholeInv, NoWorker
<1> QED BY <1>5, <1>6, <1>7, <1>8, <1>9 DEF LogInv

LEMMA LogKept == FilesTyped /\ LogInv /\ [FilesNext]_fileVars => LogInv'
<1> SUFFICES ASSUME FilesTyped, LogInv, [FilesNext]_fileVars PROVE LogInv'
  OBVIOUS
<1>1. spentFiles \in [starts: Nat, faults: Nat, rotations: 0..Len(Times)]
  BY DEF LogInv, LogTyped
<1>2. CASE StartHashd
  <2>1. hashd'.at \notin Running /\ hashd.at \notin Running
    BY <1>2 DEF StartHashd, HashdAt, Running
  <2>2. /\ spentFiles' \in [starts: Nat, faults: Nat, rotations: 0..Len(Times)]
        /\ spentFiles'.rotations = spentFiles.rotations /\ spentFiles'.faults = spentFiles.faults
    <3>1. spentFiles' = [spentFiles EXCEPT !.starts = spentFiles.starts + 1] /\ spentFiles.starts + 1 \in Nat
      BY <1>1, <1>2 DEF StartHashd
    <3> QED BY <1>1, <3>1
  <2> QED BY <1>2, <2>1, <2>2, LogStays DEF StartHashd, LogStill
<1>3. CASE Clear \/ Setup
  <2>1. UNCHANGED <<logDir, worker, lines, logged, spentFiles>>
    BY <1>3 DEF Clear, Setup, LogStill
  <2>2. hashd'.at \notin Running /\ hashd.at \notin Running
    <3>1. hashd.at \in {"clear", "look", "create", "write"}
      BY <1>3 DEF Clear, Setup, HashdAt
    <3>2. hashd' = hashd \/ hashd' = [hashd EXCEPT !.at = "look"] \/ hashd' = [hashd EXCEPT !.at = "create"]
          \/ hashd' = [hashd EXCEPT !.at = "write"] \/ hashd' = [hashd EXCEPT !.at = "look", !.i = @ + 1]
      BY <1>3 DEF Clear, Setup, HashdGoto, NextTestFile
    <3>3. hashd \in Hashd
      BY DEF FilesTyped
    <3>4. hashd'.at \in {"clear", "look", "create", "write"}
      BY <3>1, <3>2, <3>3 DEF Hashd
    <3> QED BY <3>1, <3>4 DEF Running
  <2> QED BY <1>1, <2>1, <2>2, LogStays
<1>4. CASE OpenLog
  BY <1>4, OpenKeepsLog
<1>5. CASE Receive
  BY <1>5, ReceiveKeepsLog
<1>6. CASE Rotate
  BY <1>6, RotateKeepsLog
<1>7. CASE Expire
  BY <1>7, ExpireKeepsLog
<1>8. CASE Expired
  BY <1>8, ExpiredKeepsLog
<1>9. CASE Create
  BY <1>9, CreateKeepsLog
<1>10. CASE WriteLine
  BY <1>10, WriteKeepsLog
<1>11. CASE SendLine
  BY <1>11, SendKeepsLog
<1>12. CASE DropLogger
  <2>1. hashd.at \in Running /\ hashd'.at \in Running
    BY <1>12 DEF DropLogger, HashdAt, HashdGoto, Running, FilesTyped, Hashd
  <2> QED BY <1>1, <1>12, <2>1, LogStays DEF DropLogger, LogStill
<1>13. CASE JoinWorker \/ Kill
  BY <1>13, EndKeepsLog
<1>14. CASE UNCHANGED fileVars
  BY <1>1, <1>14, LogStays DEF fileVars
<1> QED BY <1>2, <1>3, <1>4, <1>5, <1>6, <1>7, <1>8, <1>9, <1>10, <1>11, <1>12, <1>13, <1>14 DEF FilesNext

LEMMA LogStarts == FilesInit => LogInv
<1> SUFFICES ASSUME FilesInit PROVE LogInv
  OBVIOUS
<1>1. /\ logDir = [cur |-> NoLog, old |-> <<>>] /\ worker = NoWorker /\ lines = <<>>
      /\ logged = [sent |-> 0, expired |-> 0, stuck |-> {}]
      /\ spentFiles = [starts |-> 0, faults |-> 0, rotations |-> 0] /\ hashd.at = "down"
      /\ DOMAIN <<>> = {} /\ worker.step = "none" /\ ~worker.file /\ logDir.cur = NoLog
      /\ DOMAIN logDir.old = {}
  BY DEF FilesInit, NoWorker
<1>2. Done = 0 /\ CurLines = {} /\ OnDisk = {}
  BY <1>1 DEF Done, CurLines, OnDisk, InHand
<1>3. LogTyped
  <2>1. worker \in [file: BOOLEAN, size: Nat, old: Seq(DOMAIN logDir.old),
                    step: {"none", "opening", "idle"} \cup InHand, msg: Nat]
    BY <1>1 DEF NoWorker
  <2>2. logged \in [sent: 0..MaxLines, expired: Nat, stuck: SUBSET Names]
    BY <1>1, FileSlots
  <2>3. spentFiles \in [starts: Nat, faults: Nat, rotations: 0..Len(Times)]
    BY <1>1, HashdFilesAssumption
  <2>4. logDir.old \in [DOMAIN logDir.old -> Seq(Line)]
    BY <1>1
  <2>5. hashd.at \notin Running
    BY <1>1 DEF Running
  <2> QED BY <1>1, <2>1, <2>2, <2>3, <2>4, <2>5 DEF LogTyped
<1>4. QueueInv /\ OrderInv /\ KnownInv
  BY <1>1, <1>2 DEF QueueInv, OrderInv, KnownInv, InHand
<1>5. SizeInv
  <2>1. 0 * UnitLines + 0 <= 0
    BY FileSlots
  <2> QED BY <1>1, <1>2, <2>1 DEF SizeInv
<1>6. WholeInv
  BY <1>1, <1>2 DEF WholeInv
<1> QED BY <1>3, <1>4, <1>5, <1>6 DEF LogInv

LEMMA LogIsKept == LogInv => LogsKept
<1> SUFFICES ASSUME LogInv PROVE LogsKept
  OBVIOUS
<1>1. NrToKeep \in Nat /\ Len(worker.old) \in Nat /\ worker.old \in Seq(DOMAIN logDir.old)
      /\ lines \in Seq(Line) /\ logged.sent \in Nat
  BY LogParts, FileSlots DEF LogInv
<1>2. ASSUME worker.step \in {"idle", "write"} PROVE Cardinality(OnDisk) < Max({NrToKeep, 1})
  <2>1. OnDisk \in SUBSET ToSet(worker.old) /\ ~TooMany
    BY <1>2 DEF LogInv, KnownInv
  <2>2. /\ IsFiniteSet(ToSet(worker.old)) /\ Cardinality(ToSet(worker.old)) <= Len(worker.old)
    BY <1>1, ElementsOfNames
  <2>3. /\ Cardinality(OnDisk) <= Cardinality(ToSet(worker.old))
        /\ Cardinality(OnDisk) \in Nat /\ Cardinality(ToSet(worker.old)) \in Nat
    BY <2>1, <2>2, FS_Subset, FS_CardinalityType
  <2>4. Max({NrToKeep, 1}) \in Nat /\ NrToKeep <= Max({NrToKeep, 1}) /\ 1 <= Max({NrToKeep, 1})
    <3> DEFINE S == {NrToKeep, 1}
    <3>1. S \in SUBSET Nat /\ S # {} /\ (\A x \in S : x <= NrToKeep + 1) /\ NrToKeep + 1 \in Nat
          /\ NrToKeep \in S /\ 1 \in S
      BY <1>1
    <3> HIDE DEF S
    <3>2. Max(S) \in S /\ \A x \in S : x <= Max(S)
      BY <3>1, LargestIs
    <3> QED BY <3>1, <3>2 DEF S
  <2>5. Len(worker.old) = 0 \/ Len(worker.old) < NrToKeep
    BY <1>1, <2>1 DEF TooMany
  <2> QED BY <1>1, <2>2, <2>3, <2>4, <2>5
<1>3. \A l \in LinesLeft : l > logged.expired
  BY LinesLeftAre DEF LogInv, OrderInv, OnDisk
<1>4. ASSUME HashdAt("down"), spentFiles.faults = 0 PROVE (logged.expired + 1)..logged.sent \subseteq LinesLeft
  <2>1. worker.step = "none"
    BY <1>4 DEF LogInv, LogTyped, HashdAt, Running
  <2>2. lines = <<>>
    BY <2>1 DEF LogInv, QueueInv
  <2>3. Done = logged.sent
    BY <1>1, <2>1, <2>2 DEF Done, InHand
  <2> QED BY <1>4, <2>3 DEF LogInv, WholeInv
<1> QED BY <1>2, <1>3, <1>4 DEF LogsKept

(* Whatever is killed, or fails, in between, in this life of rd-hashd and   *)
(* the ones before: it hashes only test files that are whole and of the     *)
(* compressibility that it was told (TestFiles::setup()); and its log keeps *)
(* fewer archives than nr_to_keep, none older than what was expired, and    *)
(* where nothing failed every line that is not expired                      *)
(* (LogWorker::rotate(), expire_old_logs(), Logger::drop()).                *)
THEOREM FilesAreSound == FilesSpec => []FilesSound
<1>1. FilesInit => FilesTyped /\ ReadyInv /\ LogInv
  BY FilesStart, LogStarts
<1>2. FilesTyped /\ ReadyInv /\ LogInv /\ [FilesNext]_fileVars => FilesTyped' /\ ReadyInv' /\ LogInv'
  BY ReadyKept, LogKept
<1>3. FilesTyped /\ ReadyInv /\ LogInv => FilesSound
  BY FilesAreReady, LogIsKept DEF FilesSound
<1> QED BY <1>1, <1>2, <1>3, PTL DEF FilesSpec
=============================================================================
