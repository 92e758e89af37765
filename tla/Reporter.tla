------------------------------ MODULE Reporter ------------------------------
(***************************************************************************)
(* The agent's report thread (rd-agent/src/report.rs): every second it     *)
(* takes a report under the runner's lock, writes it to a file named after *)
(* the second, averages it into one of a longer interval, and removes the  *)
(* files whose retention is over.  The runner's thread (cmd.rs) shares the *)
(* lock with it, starts it, and joins it when the agent exits.             *)
(*                                                                         *)
(* The clock counts seconds; a step of the thread may take any number.     *)
(***************************************************************************)
EXTENDS Integers, FiniteSets, Functions

CONSTANTS
    Intv,           \* interval of the long reports, 60 in the code
    Ret, RetLong,   \* rep_retention and rep_1min_retention
    Retries,        \* BCC_RETRIES
    StartAt, MaxTime,           \* bounds: the clock
    MaxFaults, MaxRestarts      \* bounds: failed readings; agents after the first

ASSUME IntervalAssumption == Intv \in Nat \ {0} /\ {Ret, RetLong} \subseteq Nat \ {0}
ASSUME ClockAssumption == {StartAt, MaxTime} \subseteq Nat /\ StartAt > Ret + RetLong
ASSUME BoundAssumption == {Retries, MaxFaults, MaxRestarts} \subseteq Nat

VARIABLES
    clock,
    lock,       \* who holds Runner::data: "runner" or "none"
    rpc,        \* the runner's thread: "loop", "join", "gone"
    exiting,    \* prog_exiting()
    term,       \* the term channel is closed
    pc,         \* the report thread
    now,        \* when it started or woke up
    nextAt,     \* run_inner()'s next_at
    due,        \* ReportFile::next_at of the two files
    acc,        \* when the reports in the long file's sums were taken
    files,      \* stamps of the report files of each directory
    held,       \* the samples each long file was written from
    latest,     \* what each directory's symbolic link points to
    written,    \* stamps committed so far
    leaked,     \* stamps that were to be removed by a tick that gave up
    retries, faults, restarts

threads == <<lock, rpc, exiting, term>>
disk == <<files, held, latest, written, leaked>>
own == <<pc, now, nextAt, due, acc, retries>>
reporterVars == <<clock, threads, disk, own, faults, restarts>>

Kinds == {"sec", "long"}
TickAt == [k \in Kinds |-> IF k = "sec" THEN "tickSec" ELSE "tickLong"]
ExpireAt == [k \in Kinds |-> IF k = "sec" THEN "expireSec" ELSE "expireLong"]
Interval == [k \in Kinds |-> IF k = "sec" THEN 1 ELSE Intv]
Retention == [k \in Kinds |-> IF k = "sec" THEN Ret ELSE RetLong]
Aligned(k, t) == (t \div Interval[k]) * Interval[k]
Times == 0..StartAt + MaxTime + Intv

ReporterTypeOK ==
    /\ clock \in Times /\ lock \in {"runner", "none"} /\ rpc \in {"loop", "join", "gone"}
    /\ exiting \in BOOLEAN /\ term \in BOOLEAN
    /\ pc \in {"none", "select", "base", "done"} \cup Range(TickAt) \cup Range(ExpireAt)
    /\ now \in Times /\ nextAt \in Times /\ due \in [Kinds -> Times]
    /\ acc \subseteq Times /\ files \in [Kinds -> SUBSET Times]
    /\ held \in [Times -> SUBSET Times] /\ latest \in [Kinds -> Times]
    /\ written \in [Kinds -> SUBSET Times] /\ leaked \in [Kinds -> SUBSET Times]
    /\ retries \in 0..Retries /\ faults \in 0..MaxFaults /\ restarts \in 0..MaxRestarts

ReporterInit ==
    /\ clock = StartAt
    /\ lock = "runner" /\ rpc = "loop" /\ exiting = FALSE /\ term = FALSE
    /\ pc = "none" /\ now = StartAt /\ nextAt = StartAt
    /\ due = [k \in Kinds |-> StartAt] /\ acc = {}
    /\ files = [k \in Kinds |-> {}] /\ held = [t \in Times |-> {}]
    /\ latest = [k \in Kinds |-> 0]
    /\ written = [k \in Kinds |-> {}] /\ leaked = [k \in Kinds |-> {}]
    /\ retries = Retries /\ faults = 0 /\ restarts = 0

Tick ==
    /\ clock < StartAt + MaxTime
    /\ clock' = clock + 1
    /\ UNCHANGED <<threads, disk, own, faults, restarts>>
-----------------------------------------------------------------------------
(* The runner's thread.                                                    *)

\* It lets go of the lock to sleep, and takes it again.
RunnerUnlock ==
    /\ rpc = "loop" /\ lock = "runner" /\ ~exiting
    /\ lock' = "none"
    /\ UNCHANGED <<clock, rpc, exiting, term, disk, own, faults, restarts>>

RunnerLock ==
    /\ rpc = "loop" /\ lock = "none" /\ pc # "none"
    /\ lock' = "runner"
    /\ UNCHANGED <<clock, rpc, exiting, term, disk, own, faults, restarts>>

\* Reporter::new() between the two: old files are removed, and the thread is
\* started.
StartReporter ==
    /\ rpc = "loop" /\ lock = "none" /\ pc = "none"
    /\ pc' = "select"
    /\ now' = clock /\ nextAt' = clock + 1
    /\ due' = [k \in Kinds |-> Aligned(k, clock) + Interval[k]]
    /\ files' = [k \in Kinds |-> {s \in files[k] : s >= clock - Retention[k]}]
    /\ leaked' = [k \in Kinds |-> {}]
    /\ UNCHANGED <<clock, threads, acc, held, latest, written, retries, faults, restarts>>

\* Mutant: the reporter is dropped while the runner's data is still locked.
RunnerExitLocked ==
    /\ rpc = "loop" /\ lock = "runner" /\ exiting
    /\ rpc' = "join" /\ term' = TRUE
    /\ UNCHANGED <<clock, lock, exiting, disk, own, faults, restarts>>

\* The guard of the lock goes out of scope before the reporter, whose drop
\* closes the term channel and joins the thread.
RunnerExit ==
    /\ rpc = "loop" /\ lock = "runner" /\ exiting
    /\ lock' = "none"
    /\ rpc' = "join" /\ term' = TRUE
    /\ UNCHANGED <<clock, exiting, disk, own, faults, restarts>>

RunnerJoined ==
    /\ rpc = "join" /\ pc \in {"none", "done"}
    /\ rpc' = "gone"
    /\ UNCHANGED <<clock, lock, exiting, term, disk, own, faults, restarts>>

SetExiting ==
    /\ ~exiting /\ exiting' = TRUE
    /\ UNCHANGED <<clock, lock, rpc, term, disk, own, faults, restarts>>

\* Another agent, after this one has exited or was killed.
AgentStarts ==
    /\ restarts < MaxRestarts /\ restarts' = restarts + 1
    /\ lock' = "runner" /\ rpc' = "loop" /\ exiting' = FALSE /\ term' = FALSE
    /\ pc' = "none" /\ acc' = {} /\ retries' = Retries
    /\ UNCHANGED <<clock, disk, now, nextAt, due, faults>>
-----------------------------------------------------------------------------
(* The report thread.                                                      *)

\* iolat's reader ends: it is started again BCC_RETRIES times, then the thread
\* panics, which makes the agent exit.
IoLatEnds ==
    /\ pc = "select" /\ faults < MaxFaults
    /\ faults' = faults + 1
    /\ IF retries > 0 /\ ~exiting
       THEN retries' = retries - 1 /\ UNCHANGED <<pc, exiting>>
       ELSE pc' = "done" /\ exiting' = TRUE /\ UNCHANGED retries
    /\ UNCHANGED <<clock, lock, rpc, term, disk, now, nextAt, due, acc, restarts>>

Terminate ==
    /\ pc = "select" /\ term
    /\ pc' = "done"
    /\ UNCHANGED <<clock, threads, disk, now, nextAt, due, acc, retries, faults, restarts>>

Wake ==
    /\ pc = "select" /\ clock >= nextAt
    /\ now' = clock
    /\ pc' = "base"
    /\ UNCHANGED <<clock, threads, disk, nextAt, due, acc, retries, faults, restarts>>

\* base_report() under the lock; if it fails, this second is tried again.
BaseReport ==
    /\ pc = "base" /\ lock = "none"
    /\ \/ pc' = TickAt["sec"] /\ acc' = acc \cup {now} /\ UNCHANGED faults
       \/ faults < MaxFaults /\ faults' = faults + 1 /\ pc' = "select" /\ UNCHANGED acc
    /\ UNCHANGED <<clock, threads, disk, now, nextAt, due, retries, restarts>>

AfterTick(k) ==
    IF k = "sec" THEN pc' = TickAt["long"] /\ UNCHANGED nextAt
                 ELSE pc' = "select" /\ nextAt' = clock + 1

NotYet(k) ==
    /\ pc = TickAt[k] /\ now < due[k]
    /\ AfterTick(k)
    /\ UNCHANGED <<clock, threads, disk, now, due, acc, retries, faults, restarts>>

\* Mutant: only what expires in one interval is removed.
ExpiringOnce(k, wasAt) == {s \in Times : s + Retention[k] = wasAt}

\* What expires between the last report and this one.
Expiring(k, wasAt) == {s \in Times : wasAt <= s + Retention[k] /\ s + Retention[k] < now}

\* The usages are read under the lock again.  If that fails the report is given
\* up, with the sums and with the removal of what expires.
Summarize(k) ==
    /\ pc = TickAt[k] /\ now >= due[k] /\ lock = "none"
    /\ acc' = IF k = "long" THEN {} ELSE acc
    /\ \/ /\ files' = [files EXCEPT ![k] = @ \cup {Aligned(k, now)}]
          /\ written' = [written EXCEPT ![k] = @ \cup {Aligned(k, now)}]
          /\ latest' = [latest EXCEPT ![k] = Aligned(k, now)]
          /\ held' = IF k = "long" THEN [held EXCEPT ![Aligned(k, now)] = acc] ELSE held
          /\ pc' = ExpireAt[k]
          /\ UNCHANGED <<due, nextAt, leaked, faults>>
       \/ /\ faults < MaxFaults /\ faults' = faults + 1
          /\ due' = [due EXCEPT ![k] = Aligned(k, now) + Interval[k]]
          /\ leaked' = [leaked EXCEPT ![k] = @ \cup Expiring(k, due[k] - Interval[k])]
          /\ AfterTick(k)
          /\ UNCHANGED <<files, written, latest, held>>
    /\ UNCHANGED <<clock, threads, now, retries, restarts>>

\* was_at and next_at are taken at the start of the tick; only this uses them.
Expire(k) ==
    /\ pc = ExpireAt[k]
    /\ files' = [files EXCEPT ![k] = @ \ Expiring(k, due[k] - Interval[k])]
    /\ due' = [due EXCEPT ![k] = Aligned(k, now) + Interval[k]]
    /\ AfterTick(k)
    /\ UNCHANGED <<clock, threads, held, latest, written, leaked, now, acc, retries, faults, restarts>>

ReportThread ==
    Terminate \/ Wake \/ BaseReport \/ \E k \in Kinds : NotYet(k) \/ Summarize(k) \/ Expire(k)
RunnerThread == RunnerUnlock \/ RunnerLock \/ StartReporter \/ RunnerExit \/ RunnerJoined

ReporterNext ==
    Tick \/ RunnerThread \/ SetExiting \/ AgentStarts \/ IoLatEnds \/ ReportThread

\* The lock is fair enough that the report thread gets it once it is free often
\* enough (the runner sleeps 100ms without it).
ReporterFairness == WF_reporterVars(RunnerThread) /\ SF_reporterVars(ReportThread)
-----------------------------------------------------------------------------
(* After a report exactly the files within the retention are there, however *)
(* many seconds were skipped and in whichever agent they were written: none *)
(* is removed early, and none is left, except what a report that was given  *)
(* up part way leaves behind until the agent starts again                   *)
(* (ReportFile::tick, clear_old_report_files).                              *)
Kept(k) == {s \in written[k] : s >= now - Retention[k]}
RetentionKept ==
    \A k \in Kinds :
        /\ pc \notin {"none", "done"} => Kept(k) \subseteq files[k]
        /\ pc \notin {"none", ExpireAt[k]} => \A s \in files[k] : s >= latest[k] - Retention[k] \/ s \in leaked[k]

(* The agent exits once it is told to: neither thread waits for the other   *)
(* (the order of drops in Runner::run).                                     *)
AgentExits == exiting ~> (rpc = "gone" \/ ~exiting)
=============================================================================
