----------------------------- MODULE HashdBench -----------------------------
(***************************************************************************)
(* The benchmark of rd-hashd (rd-hashd/src/bench.rs): the hash size at     *)
(* which one CPU meets the latency target, the rps that saturates the      *)
(* CPUs, then the memory size that can be kept up at that rps: the first   *)
(* size that saturates is looked for upwards, bisected with the opposite   *)
(* bound verified again, and walked down from.  Each try is a round of     *)
(* converge(), over samples another thread takes every second.             *)
(*                                                                         *)
(* Sizes are in units of 1/320 of the memory.  A try saturates where the   *)
(* rps falls short by .25 on the way up, .1 in the bisection, .075 on the  *)
(* way down; the rps falls as the size grows, so that sat has, for each of *)
(* the three, the first size that does.  A try is late when it is judged   *)
(* by what the machine did at the size before: memory reacts with a delay, *)
(* and a second in which no request completes leaves no sample, so that    *)
(* those of the size before are judged again.                              *)
(***************************************************************************)
EXTENDS Integers, Sequences, SequencesExt

CONSTANTS
    Full, Grain,                        \* the largest size, and how near is near enough
    Saturations,                        \* what sat may be
    Period, MinDur, MaxDur, Converges,  \* of ConvergeCfg
    Rounds,                             \* the tries of the CPU benchmarks
    MaxLate                             \* bound

ASSUME HashdBenchAssumption ==
    /\ {Full, Grain, Period, MinDur, MaxDur, Converges, Rounds} \subseteq Nat \ {0}
    /\ Full % 5 = 0 /\ MinDur <= MaxDur /\ Converges <= Period
    /\ Saturations \subseteq [{"up", "bisect", "refine"} -> Nat \ {0}]
    /\ \A s \in Saturations : s.refine <= s.bisect /\ s.bisect <= s.up
    /\ MaxLate \in Nat

VARIABLES
    benchPhase,     \* what is being benchmarked
    sat,            \* the first sizes that saturate (what is measured)
    tries,          \* the rounds of a CPU benchmark
    pos,            \* the size tried
    left, right,    \* the sizes found to keep up and to saturate, nearest first
    conv,           \* the state of converge()
    before,         \* the size of the samples before
    sampled,        \* there is a sample in hist
    late,           \* tries judged late, bounded
    benchParams     \* --bench-test, mem_frac, and the files they have been saved to

benchRunVars == <<benchPhase, sat, tries, pos, left, right, conv, before, sampled, late, benchParams>>

TestMode == benchParams.test
Cpu == {"single", "cpu"}
Memory == {"up", "bisect", "verify", "refine"}
NewConv == [on |-> TRUE, slots |-> 0, results |-> <<>>, own |-> FALSE]
NoConv == [NewConv EXCEPT !.on = FALSE]

BenchTypeOK ==
    /\ benchPhase \in Cpu \cup Memory \cup {"save", "done", "panicked"}
    /\ sat \in Saturations /\ tries \in 0..Rounds /\ pos \in 0..Full
    /\ left \in Seq(0..Full) /\ right \in Seq(0..Full)
    /\ conv \in [on: BOOLEAN, slots: 0..MaxDur, results: Seq(BOOLEAN), own: BOOLEAN]
    /\ before \in 0..Full /\ sampled \in BOOLEAN /\ late \in 0..MaxLate
    /\ benchParams \in [test: BOOLEAN, frac: 0..Full, args: BOOLEAN, params: BOOLEAN]

BenchRunInit ==
    /\ benchPhase = "single" /\ sat \in Saturations /\ tries = 0 /\ pos = 0
    /\ left = <<>> /\ right = <<>> /\ conv = NewConv /\ before = 0 /\ sampled = FALSE
    /\ late = 0 /\ benchParams \in [test: BOOLEAN, frac: {0}, args: {FALSE}, params: {FALSE}]

Saturates(p) == p >= sat[IF benchPhase = "verify" THEN "bisect" ELSE benchPhase]

(***************************************************************************)
(* converge(): a slot a second.  Up to three samples there is nothing to   *)
(* tell from; the converged slots of the last Period are counted from      *)
(* MinDur on; whoever asked may end the round from Period on.              *)
(***************************************************************************)
NrConverges(rs) == Len(SelectSeq(rs, LAMBDA r : r))
Pushed(rs, r) == SubSeq(<<r>> \o rs, 1, IF Len(rs) < Period THEN Len(rs) + 1 ELSE Period)

Slot ==
    /\ conv.on /\ conv.slots < MaxDur /\ NrConverges(conv.results) < Converges
    /\ \E sample, converged \in BOOLEAN :
          \* Only a machine that falls short completes nothing for a second.
          /\ sample \/ (late < MaxLate /\ (benchPhase \in Cpu \/ pos >= sat.refine))
          /\ converged => conv.slots + 1 >= MinDur
          /\ conv' = [conv EXCEPT !.slots = @ + 1, !.own = @ \/ sample,
                        !.results = IF sampled \/ sample THEN Pushed(@, converged) ELSE @]
          /\ sampled' = (sampled \/ sample)
    /\ UNCHANGED <<benchPhase, sat, tries, pos, left, right, before, late, benchParams>>

\* memio_one_round(): the rps is high, or low, enough to end the round early.
EndsEarly == benchPhase \in Memory /\ conv.slots >= Period
Over == conv.slots = MaxDur \/ NrConverges(conv.results) >= Converges

\* Where nothing has ever completed, the latest sample is taken of none.
ConvergePanics ==
    /\ conv.on /\ Over /\ ~sampled /\ benchPhase' = "panicked" /\ conv' = NoConv
    /\ UNCHANGED <<sat, tries, pos, left, right, before, sampled, late, benchParams>>

Judged(verdict) ==
    /\ conv.on /\ sampled /\ (Over \/ EndsEarly)
    /\ \/ conv.own /\ verdict = Saturates(pos) /\ UNCHANGED late
       \/ late < MaxLate /\ verdict = Saturates(before) /\ late' = late + 1
    /\ before' = (IF conv.own THEN pos ELSE before) /\ UNCHANGED <<sat, sampled>>

(***************************************************************************)
(* bench_cpu(), bench_cpu_saturation(): rounds until the latency is near   *)
(* the target, the last value where it never is.                           *)
(***************************************************************************)
NextUp(p) == IF p = 0 THEN Full \div 5 ELSE IF p < Full THEN p + Full \div 5 ELSE 0

CpuRound ==
    /\ benchPhase \in Cpu /\ conv.on /\ sampled /\ Over
    /\ \E near \in BOOLEAN :
          IF ~near /\ tries + 1 < Rounds
          THEN tries' = tries + 1 /\ UNCHANGED <<benchPhase, pos>>
          ELSE /\ tries' = 0
               /\ benchPhase' = IF benchPhase = "single" THEN "cpu" ELSE "up"
               /\ pos' = IF benchPhase = "single" THEN 0 ELSE NextUp(0)
    /\ conv' = IF benchPhase' = "up" /\ TestMode THEN NoConv ELSE NewConv
    /\ sampled' = (benchPhase' = benchPhase /\ sampled)
    /\ UNCHANGED <<sat, left, right, before, late, benchParams>>

(***************************************************************************)
(* bench_memio_saturation_bisect().                                        *)
(***************************************************************************)
Mid(l, r) == (Head(l) + Head(r)) \div 2

Refined(from) ==
    /\ benchPhase' = "refine" /\ pos' = from /\ benchParams' = [benchParams EXCEPT !.frac = from]

UpRound ==
    /\ benchPhase = "up" /\ conv' = NewConv
    /\ \/ /\ IF TestMode THEN UNCHANGED <<sat, before, sampled, late>> ELSE Judged(TRUE)
          /\ left' = <<0>> /\ right' = <<pos>> /\ pos' = Mid(<<0>>, <<pos>>)
          /\ benchPhase' = "bisect" /\ UNCHANGED benchParams
       \/ /\ ~TestMode /\ Judged(FALSE) /\ pos < Full
          /\ pos' = NextUp(pos) /\ UNCHANGED <<benchPhase, left, right, benchParams>>
       \/ ~TestMode /\ Judged(FALSE) /\ pos = Full /\ Refined(Full) /\ UNCHANGED <<left, right>>
    /\ UNCHANGED tries

Near(l, r) == Head(r) - Head(l) < Grain

\* Mutant: the bound on the other side is not tried again.
NothingOpposite(p, l, r) == 0
Opposite(p, l, r) ==
    IF p = Head(r) THEN IF Len(l) = 1 THEN 0 ELSE Head(l)
    ELSE IF Len(r) = 1 THEN 0 ELSE Head(r)

BisectRound ==
    /\ benchPhase = "bisect" /\ conv' = NewConv
    /\ \E saturated \in BOOLEAN :
          /\ Judged(saturated)
          /\ left' = IF saturated THEN left ELSE <<pos>> \o left
          /\ right' = IF saturated THEN <<pos>> \o right ELSE right
    /\ IF ~TestMode /\ ~Near(left', right')
       THEN pos' = Mid(left', right') /\ UNCHANGED <<benchPhase, benchParams>>
       ELSE IF TestMode \/ Opposite(pos, left', right') = 0
       THEN Refined(Head(right'))
       ELSE /\ pos' = Opposite(pos, left', right')
            /\ benchPhase' = "verify" /\ UNCHANGED benchParams
    /\ UNCHANGED tries

\* The other bound is as it was found, or moves to this side.
VerifyRound ==
    /\ benchPhase = "verify" /\ conv' = NewConv /\ UNCHANGED tries
    /\ LET ofLeft == pos = Head(left) IN
          \/ /\ Judged(~ofLeft) /\ Refined(Head(right)) /\ UNCHANGED <<left, right>>
          \/ /\ Judged(ofLeft)
             /\ IF ofLeft THEN right' = <<pos>> \o Front(right) /\ left' = Tail(left)
                ELSE left' = <<pos>> \o Front(left) /\ right' = Tail(right)
             /\ pos' = Mid(left', right') /\ benchPhase' = "bisect" /\ UNCHANGED benchParams

(***************************************************************************)
(* bench_memio_saturation_refine(): set_mem_pos() stores the size tried    *)
(* where next_refine_pos() takes the size from, so that each step is a     *)
(* fortieth of the size it starts from and the least size .001, one unit   *)
(* here, rather than half of what the bisection found.                     *)
(***************************************************************************)
Step == IF pos < 40 THEN 1 ELSE pos \div 40
MayGoLower == pos >= (IF pos < 4 THEN 1 ELSE pos \div 2) + Step

RefineRound ==
    /\ benchPhase = "refine" /\ UNCHANGED <<left, right, tries>>
    /\ \/ /\ Judged(TRUE) /\ ~TestMode /\ MayGoLower
          /\ pos' = pos - Step /\ conv' = NewConv /\ UNCHANGED <<benchPhase, benchParams>>
       \/ /\ Judged(FALSE) \/ (Judged(TRUE) /\ (TestMode \/ ~MayGoLower))
          /\ benchPhase' = "save" /\ conv' = NoConv /\ UNCHANGED pos
          /\ benchParams' = [benchParams EXCEPT !.frac = pos]

\* run(): the arguments are saved first.
SaveParams ==
    /\ benchPhase = "save"
    /\ \/ ~benchParams.args /\ benchParams' = [benchParams EXCEPT !.args = TRUE]
          /\ UNCHANGED benchPhase
       \/ benchParams.args /\ benchParams' = [benchParams EXCEPT !.params = TRUE]
          /\ benchPhase' = "done"
    /\ UNCHANGED <<sat, tries, pos, left, right, conv, before, sampled, late>>

BenchRunNext ==
    \/ Slot \/ ConvergePanics \/ CpuRound
    \/ UpRound \/ BisectRound \/ VerifyRound \/ RefineRound \/ SaveParams
BenchRunSpec == BenchRunInit /\ [][BenchRunNext]_benchRunVars

(***************************************************************************)
(* What the result is good for.                                            *)
(***************************************************************************)

\* "Memory response can be delayed and we can end up on the wrong side": where
\* no more than one try is judged late, the size that is saved is the largest that
\* is full performance by the threshold of the way down, give or take less than
\* the grain, wherever the other two thresholds put the bisection.
MemoryFound ==
    (benchPhase = "done" /\ ~TestMode) =>
        LET kept == (IF sat.refine > Full THEN Full + 1 ELSE sat.refine) - 1
            frac == benchParams.frac
        IN frac - kept < Grain /\ kept - frac < Grain
=============================================================================
