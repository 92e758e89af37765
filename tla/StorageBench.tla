---------------------------- MODULE StorageBench ----------------------------
(***************************************************************************)
(* The storage job of resctl-bench (resctl-bench/src/bench/storage.rs) and *)
(* the memory it measures with (resctl-bench/src/base.rs).  The job makes  *)
(* rd-hashd measure, several times over, how much it can keep in memory    *)
(* beside a balloon that leaves it the share of the memory profile.  The   *)
(* balloon follows from an estimate of the memory that is available; a     *)
(* measurement off its target tells the estimate was wrong, or that others *)
(* on the machine have taken or freed memory since.                        *)
(*                                                                         *)
(* Sizes are in units of 512MB.                                            *)
(***************************************************************************)
EXTENDS Integers, Sequences, SequencesExt

CONSTANTS
    Profiles,                   \* what --mem-profile may be, 0 to disable
    SystemMemory,               \* total_memory()
    Reals,                      \* the memory the others may leave
    ErrPct,                     \* mem_avail_err_max
    StoreLoops, InnerRetries, OuterRetries,
    MaxMoves, MaxStoreFaults    \* bounds

ASSUME StorageAssumption ==
    /\ Profiles \subseteq Nat /\ Reals \subseteq Nat \ {0} /\ SystemMemory \in Nat
    /\ {ErrPct, StoreLoops} \subseteq Nat \ {0}
    /\ {InnerRetries, OuterRetries, MaxMoves, MaxStoreFaults} \subseteq Nat

VARIABLES
    storePc,    \* where the job is
    memory,     \* Base::mem, and mem_initialized
    real,       \* the memory that is available now
    measured,   \* mem_usages, each with the memory it was measured in
    tried,      \* first_try, prev_mem_avail and the retries that are left
    moves, storeFaults

storeVars == <<storePc, memory, real, measured, tried, moves, storeFaults>>

StorageTypeOK ==
    /\ storePc \in {"start", "measure", "bench", "done", "gaveup", "failed"}
    /\ memory \in [profile: Profiles, avail: Nat, share: Nat, target: Nat, known: BOOLEAN]
    /\ real \in Reals
    /\ measured \in Seq([mem: Nat, usage: Nat])
    /\ tried \in [first: BOOLEAN, prev: Nat, inner: 0..InnerRetries, outer: 0..OuterRetries]
    /\ moves \in 0..MaxMoves /\ storeFaults \in 0..MaxStoreFaults

-----------------------------------------------------------------------------
(* The memory profile.                                                     *)

MemShare(profile) ==
    IF profile <= 4 THEN profile ELSE IF profile <= 16 THEN (3 * profile) \div 2
    ELSE 2 * (profile - 8)

Smaller(m, n) == IF m < n THEN m ELSE n
MemTarget(share) == share - Smaller(share \div 8, 2)

\* update_mem_profile(): the share is worked out once.
WithProfile(m) ==
    IF m.profile = 0
      THEN [m EXCEPT !.avail = SystemMemory, !.share = SystemMemory,
                     !.target = MemTarget(SystemMemory)]
      ELSE IF m.known THEN m
      ELSE [m EXCEPT !.share = MemShare(m.profile),
                     !.target = MemTarget(MemShare(m.profile)), !.known = TRUE]

TooSmall(m) == m.profile # 0 /\ m.share > m.avail

\* balloon_size_hashd_bench() is the available memory over the target.
Balloon == IF memory.avail > memory.target THEN memory.avail - memory.target ELSE 0

\* Where what cannot be estimated is not given, it is measured.
Estimated(m) == IF m.avail = 0 THEN [m EXCEPT !.avail = real] ELSE m

\* Mutant: the estimate is kept.
UpdateMemAvailKept(size) == memory' = WithProfile(memory)

\* update_mem_avail()
UpdateMemAvail(size) == memory' = WithProfile([memory EXCEPT !.avail = size])
-----------------------------------------------------------------------------
StorageInit ==
    /\ storePc = "start"
    /\ \E p \in Profiles, a \in Reals \cup {0} :
        memory = [profile |-> p, avail |-> a, share |-> 0, target |-> 0, known |-> FALSE]
    /\ real \in Reals /\ measured = <<>>
    /\ tried = [first |-> TRUE, prev |-> 0, inner |-> InnerRetries, outer |-> OuterRetries]
    /\ moves = 0 /\ storeFaults = 0

StartStorage ==
    /\ storePc = "start"
    /\ memory' = WithProfile(Estimated(memory))
    /\ storePc' = IF TooSmall(memory') THEN "failed" ELSE "measure"
    /\ UNCHANGED <<real, measured, tried, moves, storeFaults>>

StartHashdBench ==
    /\ storePc = "measure"
    /\ storePc' = "bench"
    /\ UNCHANGED <<memory, real, measured, tried, moves, storeFaults>>

\* Starting, waiting or stopping fails, and the job with it.
HashdBenchFails ==
    /\ storePc \in {"measure", "bench"} /\ storeFaults < MaxStoreFaults
    /\ storePc' = "failed" /\ storeFaults' = storeFaults + 1
    /\ UNCHANGED <<memory, real, measured, tried, moves>>

\* Others take or free memory.
MemoryMoves ==
    /\ moves < MaxMoves
    /\ \E r \in Reals \ {real} : real' = r
    /\ moves' = moves + 1
    /\ UNCHANGED <<storePc, memory, measured, tried, storeFaults>>

\* rd-hashd fills what the balloon leaves.
Usage == IF real > Balloon THEN real - Balloon ELSE 0
Off(x, y, whole) == 100 * (x - y) > ErrPct * whole \/ 100 * (y - x) > ErrPct * whole
Agree(x, y, whole) == 100 * (x - y) < ErrPct * whole /\ 100 * (y - x) < ErrPct * whole

MeasuredWell ==
    /\ storePc = "bench" /\ ~Off(Usage, memory.target, memory.target)
    /\ measured' = Append(measured, [mem |-> memory.avail, usage |-> Usage])
    /\ tried' = [tried EXCEPT !.first = FALSE, !.prev = 0]
    /\ storePc' = IF Len(measured') >= StoreLoops THEN "done" ELSE "measure"
    /\ UNCHANGED <<memory, real, moves, storeFaults>>

CurMemAvail == memory.avail + Usage - memory.target

\* A surprise may be passing: the estimate changes when it is the first, when
\* two in a row agree, or when there were enough of them.
Surprised == Agree(CurMemAvail, tried.prev, CurMemAvail)
StartsOver == tried.first \/ Surprised \/ tried.inner = 0

\* Mutant: what was measured with the old estimate is kept.
OuterLoopKept == measured

\* What is measured anew: the outer loop forgets the results so far.
OuterLoop == <<>>

\* process_retry() when it starts over ...
RetryOuter ==
    /\ storePc = "bench" /\ Off(Usage, memory.target, memory.target) /\ StartsOver
    /\ UpdateMemAvail(CurMemAvail)
    /\ \/ TooSmall(memory') /\ storePc' = "failed" /\ UNCHANGED <<measured, tried>>
       \/ /\ ~TooSmall(memory') /\ tried.outer = 0
          /\ storePc' = "gaveup" /\ UNCHANGED <<measured, tried>>
       \/ /\ ~TooSmall(memory') /\ tried.outer > 0
          /\ tried' = [first |-> FALSE, prev |-> CurMemAvail, inner |-> InnerRetries,
                       outer |-> tried.outer - 1]
          /\ measured' = OuterLoop
          /\ storePc' = "measure"
    /\ UNCHANGED <<real, moves, storeFaults>>

\* ... and when it measures once more.
RetryInner ==
    /\ storePc = "bench" /\ Off(Usage, memory.target, memory.target) /\ ~StartsOver
    /\ tried' = [tried EXCEPT !.prev = CurMemAvail, !.inner = @ - 1]
    /\ storePc' = "measure"
    /\ UNCHANGED <<memory, real, measured, moves, storeFaults>>

StorageNext ==
    \/ StartStorage \/ StartHashdBench \/ HashdBenchFails \/ MemoryMoves
    \/ MeasuredWell \/ RetryOuter \/ RetryInner
-----------------------------------------------------------------------------
\* What is recorded was measured with one and the same estimate of the memory,
\* which is the recorded one, each near the target.
RecordedTogether ==
    storePc = "done" =>
        /\ Len(measured) = StoreLoops
        /\ \A i \in DOMAIN measured :
            /\ measured[i].mem = memory.avail
            /\ ~Off(measured[i].usage, memory.target, memory.target)

\* "available memory keeps fluctuating": the job only says so when the memory
\* has changed as often as it may, the estimate at the start aside.
FluctuatedIndeed ==
    storePc = "gaveup" /\ memory.profile # 0 => moves >= OuterRetries

\* What the storage job says of the memory, with its record or without one.
StorageSound == RecordedTogether /\ FluctuatedIndeed
=============================================================================
