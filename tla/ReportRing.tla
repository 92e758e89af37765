----------------------------- MODULE ReportRing -----------------------------
(***************************************************************************)
(* The graphs of resctl-demo (report_ring.rs, graph.rs), on top of the     *)
(* report files the agent writes (Reporter).  All the graphs share a ring  *)
(* of the reports of the last retention, of either kind, which whoever     *)
(* draws brings up to date; each keeps bins of `stride' reports of its     *)
(* own, fed with what is new in the ring.                                  *)
(*                                                                         *)
(* A report is its stamp, a bin the sequence of the reports in it.  A      *)
(* worker's fill is one step: it holds the set's mutex throughout, and     *)
(* reads the files in much less than the half second between two of them.  *)
(***************************************************************************)
EXTENDS Reporter, SequencesExt

CONSTANTS
    Strides, Slots, \* bounds: graph_intv() of this graph, and its width
    MaxFills        \* bound: how often it is drawn

ASSUME GraphAssumption == Strides \subseteq Nat \ {0} /\ Slots \in Nat /\ MaxFills \in Nat
\* The epoch is long past.
ASSUME StartAssumption ==
    \A stride \in Strides \cup {0} : StartAt > Ret + RetLong + 4 * Intv + stride

VARIABLES
    ring,       \* the stamps in each ReportRing
    data,       \* this graph's ReportData of each ring
    fills

ringVars == <<ring, data, fills>>
graphVars == <<reporterVars, ringVars>>

NoTip == [at |-> 0, got |-> <<>>]
NoData == [next |-> 0, tip |-> NoTip, bins |-> <<>>, stride |-> 0, slots |-> 0]

GraphInit ==
    ReporterInit /\ ring = [k \in Kinds |-> {}] /\ data = [k \in Kinds |-> NoData] /\ fills = 0
-----------------------------------------------------------------------------
(* ReportRing::update: drop what is older than the retention, aligned to a  *)
(* minute, and load what was written after the newest report it has.        *)
RingStart(k, t) == ((Aligned(k, t) - Retention[k]) \div Intv) * Intv

Loaded(k, t) ==
    LET kept == {s \in ring[k] : s >= RingStart(k, t)}
        from == IF kept = {} THEN RingStart(k, t) ELSE Max(kept) + Interval[k]
    IN  kept \cup {s \in files[k] : from <= s /\ s <= t}

\* The long ring ends where the ring of the seconds starts.
RingEnd(k) == IF k = "sec" THEN clock ELSE clock - Ret - Intv
LoadedAll == [k \in Kinds |-> Loaded(k, RingEnd(k))]
-----------------------------------------------------------------------------
(* ReportData::fill.                                                        *)
StepOf(d, k) == d.stride * Interval[k]
BinOf(d, k, s) == (s \div StepOf(d, k)) * StepOf(d, k)

Consumed(d, k) ==
    [d EXCEPT !.bins = Append(@, d.tip.got), !.tip = [at |-> d.tip.at + StepOf(d, k), got |-> <<>>]]

\* The tip moves to the bin of report s, leaving empty bins where there were none.
Moved(d, k, s) ==
    LET at == BinOf(d, k, s)
        gap == (at - d.tip.at) \div StepOf(d, k)
    IN  IF d.tip.at = 0 THEN [d EXCEPT !.tip.at = at]
        ELSE IF gap <= 0 THEN d
        ELSE [d EXCEPT !.bins = Append(@, d.tip.got) \o [i \in 1..gap - 1 |-> <<>>],
                       !.tip = [at |-> at, got |-> <<>>]]

\* A bin is complete with the last report that belongs in it.
Accumulated(d, k, s) ==
    LET m == Moved(d, k, s)
        got == [m EXCEPT !.tip.got = Append(@, s)]
    IN  IF s % StepOf(d, k) = (d.stride - 1) * Interval[k] THEN Consumed(got, k) ELSE got

Truncated(d) ==
    [d EXCEPT !.bins = SubSeq(@, IF Len(@) > d.slots THEN Len(@) - d.slots + 1 ELSE 1, Len(@))]

\* Mutant: only the change of the width starts over.
ResetKeepStride(d, stride, slots) ==
    IF d.slots # slots THEN [NoData EXCEPT !.stride = stride, !.slots = slots]
                       ELSE [d EXCEPT !.stride = stride]

Reset(d, stride, slots) ==
    IF d.stride # stride \/ d.slots # slots
    THEN [NoData EXCEPT !.stride = stride, !.slots = slots] ELSE d

\* The reports are taken one after the other, up to the newest; what is too old
\* for the slots is not looked at.
Filled(k, stride, slots, src) ==
    LET d == Reset(data[k], stride, slots)
        newest == Max(src)
        next == Max({d.next, BinOf(d, k, newest) - slots * StepOf(d, k)})
        upTo[t \in 0..newest] ==
            IF t = 0 THEN [d EXCEPT !.next = newest + Interval[k]]
            ELSE IF t \in src /\ next <= t THEN Accumulated(upTo[t - 1], k, t) ELSE upTo[t - 1]
    IN  IF src = {} THEN d ELSE Truncated(upTo[newest])

\* The graph asks for Slots columns; minutes are averaged for what the ring of
\* the seconds does not reach.
LongStride(stride) == (stride + Intv - 1) \div Intv
Fill(stride) ==
    /\ fills < MaxFills /\ fills' = fills + 1
    /\ ring' = LoadedAll
    /\ LET span == Slots * stride
           have == Cardinality(ring'["sec"])
           slots == ((span - have) \div Intv) \div LongStride(stride)
       IN  data' = [k \in Kinds |->
                      IF k = "sec" THEN Filled(k, stride, Slots, ring'[k])
                      ELSE IF span > have THEN Filled(k, LongStride(stride), slots, ring'[k])
                      ELSE data[k]]
    /\ UNCHANGED reporterVars

\* Another graph brings the ring up to date.
OtherFill ==
    /\ fills < MaxFills /\ fills' = fills + 1
    /\ ring' = LoadedAll
    /\ UNCHANGED <<reporterVars, data>>

GraphNext ==
    \/ ReporterNext /\ UNCHANGED ringVars
    \/ OtherFill
    \/ \E stride \in Strides : Fill(stride)
-----------------------------------------------------------------------------
(* What is in the ring has no holes: every report file between the oldest   *)
(* and the newest report of the ring is in it, though files appear behind   *)
(* the clock and several graphs load them (ReportRing::update).             *)
RingComplete ==
    \A k \in Kinds : \A s \in files[k] :
        (\E a, b \in ring[k] : a < s /\ s < b) => s \in ring[k]

\* Where the i-th bin begins, and where ReportDataIter draws it.
BinAt(k, i) == data[k].tip.at - (Len(data[k].bins) - i + 1) * StepOf(data[k], k)
DrawnAt(k, i) == data[k].next - (Len(data[k].bins) - i + 1) * StepOf(data[k], k)

(* Every bin of a graph holds the reports of its own span, each once and    *)
(* all that the ring has, whatever the timescale was changed to and however *)
(* the fills of the graphs are interleaved; and it is drawn less than a bin *)
(* away from where it belongs (ReportData::fill, ReportDataIter).           *)
BinsExact ==
    \A k \in Kinds : \A i \in DOMAIN data[k].bins :
        LET bin == data[k].bins[i]
            span == BinAt(k, i)..BinAt(k, i) + StepOf(data[k], k) - 1
        IN  /\ IsInjective(bin)
            /\ ring[k] \cap span \subseteq Range(bin) /\ Range(bin) \subseteq span
            /\ DrawnAt(k, i) - BinAt(k, i) \in 0..StepOf(data[k], k)

GraphExact == RingComplete /\ BinsExact
=============================================================================
