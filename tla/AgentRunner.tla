---------------------------- MODULE AgentRunner ----------------------------
(***************************************************************************)
(* The rd-agent runner (rd-agent/src/cmd.rs with bench.rs and the parts of *)
(* main.rs, slices.rs, oomd.rs, sideloader.rs and side.rs it calls): one   *)
(* thread that every 100ms reloads the configuration files users edit,     *)
(* applies the command file, starts and collects benchmarks, and otherwise *)
(* keeps the requested workloads running.                                  *)
(*                                                                         *)
(* The runner holds its lock from the reload to the end of                 *)
(* check_completions, so the reporter thread never sees the states between *)
(* those calls; users, systemd and the clock move at any time.             *)
(***************************************************************************)
EXTENDS Integers, FiniteSets

CONSTANTS
    Cmds,           \* contents users may write to cmd.json
    BenchEdits,     \* contents users may write to bench.json
    SliceEdits,     \* contents users may write to slices.json
    OomdEdits,      \* contents users may write to oomd.json
    Garbage,        \* a file content that does not parse
    InitDisks,      \* the files the agent may first be started with
    SeqMax,         \* u64::MAX at the model's width
    ForceRunning,   \* cfg.force_running
    EnforceIo,      \* cfg.enforce.io
    EnforceOomd,    \* cfg.enforce.oomd
    EnforceAll,     \* cfg.enforce.all()
    Faults,         \* the failures the environment may inject
    MaxEdits,       \* bound: edits by users
    MaxStarts       \* bound: agent instances

Files == {"cmd", "bench", "slice", "oomd"}
Benches == {"hashd", "iocost"}
Seqs == 0..SeqMax
Off == [disabled |-> TRUE, rev |-> 0]   \* no oomd daemon is running

CmdType == [seq : Nat, hashdSeq : Seqs, iocostSeq : Seqs, benchBalloon : Nat,
            hashd : SUBSET STRING, sysloads : SUBSET STRING,
            sideloads : SUBSET STRING, balloon : Nat, headroom : Nat]
BenchType == [hashdSeq : Seqs, iocostSeq : Seqs]
SliceType == [off : SUBSET {"cpu", "mem", "io"}, rev : Nat]
OomdType == [disabled : BOOLEAN, rev : Nat]

MemType == [cmd : CmdType, bench : BenchType, slice : SliceType, oomd : OomdType]

ASSUME CmdsAssumption == Cmds \subseteq CmdType
ASSUME EditsAssumption ==
    /\ BenchEdits \subseteq BenchType
    /\ SliceEdits \subseteq SliceType
    /\ OomdEdits \subseteq OomdType
ASSUME InitDisksAssumption == InitDisks \subseteq MemType
ASSUME GarbageAssumption ==
    Garbage \notin CmdType \cup BenchType \cup SliceType \cup OomdType
ASSUME SeqMaxAssumption == SeqMax \in Nat \ {0}
ASSUME EnforceAssumption ==
    /\ {ForceRunning, EnforceIo, EnforceOomd, EnforceAll} \subseteq BOOLEAN
    /\ EnforceAll => EnforceIo /\ EnforceOomd
ASSUME FaultsAssumption ==
    Faults \subseteq {"exit", "panic", "ack", "knobs", "iocost_new", "iocost_start",
                      "hashd_start", "loads", "refresh", "result", "save", "apply",
                      "bench", "slices", "garbage"}
ASSUME BoundsAssumption == MaxEdits \in Nat /\ MaxStarts \in Nat

VARIABLES
    pc,          \* where the runner thread is
    state,       \* RunnerData::state
    mem,         \* the data of the loaded files (SysObjs)
    forceApply,  \* RunnerData::force_apply
    cmdPending,  \* Runner::run's cmd_pending
    ack,         \* cmd_seq in cmd-ack.json
    svc,         \* the transient services of the two benchmarks
    hashds,      \* the rd-hashd instances running
    sysloads,    \* sysloads running and owned by the side runner
    sideloads,   \* sideloads running and owned by the side runner
    dropping,    \* removed side workloads not stopped yet
    balloon,     \* size of the memory balloon, 0 for none
    oomd,        \* the configuration the oomd daemon runs with, or Off
    sideloader,  \* whether the sideloader daemon is up
    iocost,      \* the kernel's io.cost: enabled, and whose parameters
    slices,      \* the slice configuration last applied to the cgroups
    disk,        \* contents of the configuration files
    age,         \* per file: loaded, or modified and young, or settled
    edits,       \* edits so far
    starts       \* agent instances so far

work == <<hashds, sysloads, sideloads, dropping>>
control == <<oomd, sideloader, iocost, slices>>
files == <<disk, age, edits>>
vars == <<pc, state, mem, forceApply, cmdPending, ack, svc, work, balloon,
          control, files, starts>>

Fault(f) == f \in Faults
BenchState(b) == IF b = "hashd" THEN "BenchHashd" ELSE "BenchIoCost"
InBench == state \in {BenchState(b) : b \in Benches}

Disabled(ctrl, knobs) == ctrl \in knobs.off
ControlsDisabled(knobs) == knobs.off # {}

HashdWanted == mem.cmd.hashdSeq > mem.bench.hashdSeq
IoCostWanted == mem.cmd.iocostSeq > mem.bench.iocostSeq
-----------------------------------------------------------------------------
(* What the calls into bench.rs, slices.rs, oomd.rs and sideloader.rs do.  *)

\* bench::iocost_on_off
IoCostOnOff(enable, io) == IF EnforceIo THEN [io EXCEPT !.on = enable] ELSE io

\* bench::apply_iocost: only the default parameters come with enable=1.
ApplyIoCost(bench, io) ==
    IF ~EnforceIo THEN io
    ELSE IF bench.iocostSeq = 0 THEN IoCostOnOff(TRUE, io)
    ELSE [io EXCEPT !.params = bench.iocostSeq]

\* Mutant: apply_slices leaves io.cost alone.
ApplySlicesNoIo(knobs, io) == io

\* The tail of slices::apply_slices: io.cost follows disable_seqs.io.
ApplySlicesIo(knobs, io) == IoCostOnOff(~Disabled("io", knobs), io)

\* Oomd::apply: restarted with the loaded configuration, unless disabled.
OomdApply(knobs) == IF knobs.disabled THEN Off ELSE knobs
-----------------------------------------------------------------------------
Init ==
    /\ pc = "down"
    /\ state = "Idle"
    /\ disk \in InitDisks
    /\ mem = disk
    /\ forceApply = FALSE
    /\ cmdPending = FALSE
    /\ ack = 0
    /\ svc = [b \in Benches |-> "None"]
    /\ hashds = {} /\ sysloads = {} /\ sideloads = {} /\ dropping = {}
    /\ balloon = 0
    /\ oomd = Off
    /\ sideloader = FALSE
    /\ iocost = [on |-> FALSE, params |-> 0]
    /\ slices = disk.slice
    /\ age = [f \in Files |-> "settled"]
    /\ edits = 0
    /\ starts = 0

\* main(): load the files, configure the system, enter Runner::run.  A file
\* that does not parse keeps the agent from starting.
Start ==
    /\ pc = "down"
    /\ starts < MaxStarts
    /\ \A f \in Files : disk[f] # Garbage
    /\ starts' = starts + 1
    /\ mem' = disk
    /\ age' = [f \in Files |-> "loaded"]
    /\ ack' = 0
    /\ iocost' = ApplySlicesIo(disk.slice, ApplyIoCost(disk.bench, iocost))
    /\ slices' = disk.slice
    /\ oomd' = IF EnforceOomd THEN OomdApply(disk.oomd) ELSE Off
    /\ sideloader' = (EnforceAll /\ ~ControlsDisabled(disk.slice))
    /\ pc' = "apply"
    /\ cmdPending' = TRUE
    /\ UNCHANGED <<state, forceApply, svc, work, balloon, disk, edits>>

\* Every owned service is stopped when the runner's data is dropped, whether
\* run() returned or panicked; io.cost goes back to what the system had.
Teardown ==
    /\ pc' = "down"
    /\ state' = "Idle"
    /\ forceApply' = FALSE
    /\ cmdPending' = FALSE
    /\ svc' = [b \in Benches |-> "None"]
    /\ hashds' = {} /\ sysloads' = {} /\ sideloads' = {} /\ dropping' = {}
    /\ balloon' = 0
    /\ oomd' = Off
    /\ sideloader' = FALSE
    /\ iocost' = [on |-> FALSE, params |-> 0]
    /\ UNCHANGED <<mem, ack, slices, files, starts>>

Exit == Fault("exit") /\ pc = "apply" /\ Teardown

\* Failing to start hashd, the balloon, oomd or the sideloader is a panic!().
Panic == Fault("panic") /\ pc \in {"apply", "repeat", "reload"} /\ Teardown
-----------------------------------------------------------------------------
(* apply_cmd: one call, chosen by the state it finds.                      *)

\* Mutant: become_idle without side_runner.stop().
BecomeIdleKeepSide ==
    /\ state' = "Idle"
    /\ svc' = [b \in Benches |-> "None"]
    /\ hashds' = {}
    /\ UNCHANGED <<sysloads, sideloads, dropping>>

BecomeIdle ==
    /\ state' = "Idle"
    /\ svc' = [b \in Benches |-> "None"]
    /\ hashds' = {}
    /\ sysloads' = {}
    /\ UNCHANGED <<sideloads, dropping>>

\* run() calls apply_cmd when a command is pending or the runner is idle, and
\* again while it returns true.  The ack comes first, whatever follows.
ApplyCmd ==
    /\ \/ pc = "apply" /\ (cmdPending \/ state = "Idle")
       \/ pc = "repeat"
    /\ cmdPending' = FALSE
    /\ ack' \in {mem.cmd.seq} \cup (IF Fault("ack") THEN {ack} ELSE {})
    /\ UNCHANGED <<mem, files, starts>>

SkipApply ==
    /\ pc = "apply"
    /\ ~cmdPending
    /\ state # "Idle"
    /\ pc' = "check"
    /\ UNCHANGED <<state, mem, forceApply, cmdPending, ack, svc, work, balloon,
                   control, files, starts>>

\* Setting swappiness or zswap failed: apply_cmd returns before the state match.
KnobsFail ==
    /\ Fault("knobs")
    /\ ApplyCmd
    /\ pc' = "check"
    /\ UNCHANGED <<state, forceApply, svc, work, balloon, control>>

\* bench::start_iocost_bench turns io.cost off first.
StartIoCostBench ==
    /\ state = "Idle" /\ IoCostWanted
    /\ ApplyCmd
    /\ iocost' = IoCostOnOff(FALSE, iocost)
    /\ svc' = [svc EXCEPT !["iocost"] = "Running"]
    /\ state' = "BenchIoCost"
    /\ forceApply' = TRUE
    /\ pc' = "check"
    /\ UNCHANGED <<work, balloon, oomd, sideloader, slices>>

\* ... and back on only if it is start() that failed.
StartIoCostBenchFail ==
    /\ state = "Idle" /\ IoCostWanted
    /\ ApplyCmd
    /\ \E on \in (IF Fault("iocost_new") THEN {FALSE} ELSE {})
                 \cup (IF Fault("iocost_start") THEN {TRUE} ELSE {}) :
            iocost' = IoCostOnOff(on, iocost)
    /\ pc' = "check"
    /\ UNCHANGED <<state, forceApply, svc, work, balloon, oomd, sideloader, slices>>

\* What precedes the start of the hashd benchmark is not undone by its failure.
PrepareHashdBench ==
    /\ state = "Idle" /\ ~IoCostWanted /\ HashdWanted
    /\ mem.bench.iocostSeq > 0 \/ ForceRunning
    /\ ApplyCmd
    /\ balloon' = mem.cmd.benchBalloon
    /\ oomd' = Off
    /\ pc' = "check"
    /\ UNCHANGED <<work, sideloader, iocost, slices>>

StartHashdBench ==
    /\ PrepareHashdBench
    /\ svc' = [svc EXCEPT !["hashd"] = "Running"]
    /\ state' = "BenchHashd"
    /\ forceApply' = TRUE

StartHashdBenchFail ==
    /\ Fault("hashd_start")
    /\ PrepareHashdBench
    /\ UNCHANGED <<svc, state, forceApply>>

\* "iocost benchmark must be run before hashd benchmark" and "hashd benchmark
\* hasn't been run yet, staying idle".
StayIdle ==
    /\ state = "Idle" /\ ~IoCostWanted /\ ~ForceRunning
    /\ IF HashdWanted THEN mem.bench.iocostSeq = 0 ELSE mem.bench.hashdSeq = 0
    /\ ApplyCmd
    /\ pc' = "check"
    /\ UNCHANGED <<state, forceApply, svc, work, balloon, control>>

BecomeRunning ==
    /\ state = "Idle" /\ ~IoCostWanted /\ ~HashdWanted
    /\ mem.bench.hashdSeq > 0 \/ ForceRunning
    /\ ApplyCmd
    /\ state' = "Running"
    /\ pc' = "repeat"
    /\ UNCHANGED <<forceApply, svc, work, balloon, control>>

YieldToBench ==
    /\ state = "Running" /\ (IoCostWanted \/ HashdWanted)
    /\ ApplyCmd
    /\ BecomeIdle
    /\ pc' = "check"
    /\ UNCHANGED <<forceApply, balloon, control>>

\* SideRunner::apply_sysloads and apply_sideloads stop at the first invalid
\* entry, in hash order: any part of what is missing may have been started.
Applied(cur, target) ==
    IF Fault("loads") THEN {(cur \cap target) \cup s : s \in SUBSET target}
                      ELSE {target}

ApplyWorkloads ==
    /\ state = "Running" /\ ~IoCostWanted /\ ~HashdWanted
    /\ ApplyCmd
    /\ hashds' = mem.cmd.hashd
    /\ sysloads' \in Applied(sysloads, mem.cmd.sysloads)
    /\ sideloads' \in Applied(sideloads, mem.cmd.sideloads)
    /\ dropping' = (sysloads \ mem.cmd.sysloads) \cup (sideloads \ mem.cmd.sideloads)
    /\ balloon' = mem.cmd.balloon
    /\ pc' = "check"
    /\ UNCHANGED <<state, forceApply, svc, control>>

\* Mutant: a withdrawn hashd benchmark runs on.
CancelIoCostOnly ==
    /\ \/ state = "BenchHashd" /\ ~HashdWanted /\ UNCHANGED <<state, svc, work>>
       \/ state = "BenchIoCost" /\ ~IoCostWanted /\ BecomeIdle
    /\ ApplyCmd
    /\ pc' = "check"
    /\ UNCHANGED <<forceApply, balloon, control>>

CancelBench ==
    /\ \/ state = "BenchHashd" /\ ~HashdWanted
       \/ state = "BenchIoCost" /\ ~IoCostWanted
    /\ ApplyCmd
    /\ BecomeIdle
    /\ pc' = "check"
    /\ UNCHANGED <<forceApply, balloon, control>>

KeepBench ==
    /\ \/ state = "BenchHashd" /\ HashdWanted
       \/ state = "BenchIoCost" /\ IoCostWanted
    /\ ApplyCmd
    /\ pc' = "check"
    /\ UNCHANGED <<state, forceApply, svc, work, balloon, control>>
-----------------------------------------------------------------------------
(* check_completions.                                                      *)

CheckCompletions ==
    /\ pc = "check"
    /\ pc' = "unlocked"
    /\ UNCHANGED <<cmdPending, ack, edits, starts>>

\* Not benchmarking, still running, or systemd could not be asked.
NothingCompleted ==
    /\ CheckCompletions
    /\ \/ ~InBench
       \/ \E b \in Benches : state = BenchState(b) /\ svc[b] = "Running"
       \/ Fault("refresh")
    /\ UNCHANGED <<state, mem, forceApply, svc, work, balloon, control, disk, age>>

\* Mutant: hashd_seq is left alone.
RecordedSeqForgotten(b) ==
    IF b = "iocost" THEN mem.cmd.iocostSeq ELSE mem.bench.hashdSeq

\* bench::update_hashd and update_iocost: the sequence becomes the command's;
\* u64::MAX asks for one more than the last.
RecordedSeq(b) ==
    IF b = "iocost" THEN mem.cmd.iocostSeq
    ELSE IF mem.cmd.hashdSeq = SeqMax THEN (mem.bench.hashdSeq + 1) % (SeqMax + 1)
    ELSE mem.cmd.hashdSeq

Recorded(b) ==
    IF b = "hashd" THEN [mem.bench EXCEPT !.hashdSeq = RecordedSeq(b)]
                   ELSE [mem.bench EXCEPT !.iocostSeq = RecordedSeq(b)]

\* Mutant: any benchmark that stopped running counts as finished.
FinishedOrFailed(b) ==
    /\ CheckCompletions
    /\ state = BenchState(b)
    /\ svc[b] # "Running"

Finished(b) ==
    /\ CheckCompletions
    /\ state = BenchState(b)
    /\ svc[b] = "Exited"

SaveBench(bench) ==
    /\ disk' = [disk EXCEPT !.bench = bench]
    /\ age' = [age EXCEPT !["bench"] = "young"]

FinishBench(b) ==
    /\ Finished(b)
    /\ mem' = [mem EXCEPT !.bench = Recorded(b)]
    /\ SaveBench(Recorded(b))
    /\ iocost' = IF b = "iocost" THEN ApplyIoCost(Recorded(b), iocost) ELSE iocost
    /\ BecomeIdle
    /\ UNCHANGED <<forceApply, balloon, oomd, sideloader, slices>>

\* The result cannot be read: nothing is recorded, the next call retries.
LoadResultFail(b) ==
    /\ Fault("result")
    /\ Finished(b)
    /\ UNCHANGED <<state, mem, forceApply, svc, work, balloon, control, disk, age>>

\* Copying hashd A's files to B (update_hashd) or saving bench.json failed:
\* the loaded data has the new sequence, the file does not.
SaveResultFail(b) ==
    /\ Fault("save")
    /\ Finished(b)
    /\ mem' = [mem EXCEPT !.bench = Recorded(b)]
    /\ UNCHANGED <<state, forceApply, svc, work, balloon, control, disk, age>>

\* apply_iocost failed after the save: recorded, yet still in BenchIoCost.
ApplyResultFail ==
    /\ Fault("apply")
    /\ Finished("iocost")
    /\ mem' = [mem EXCEPT !.bench = Recorded("iocost")]
    /\ SaveBench(Recorded("iocost"))
    /\ UNCHANGED <<state, forceApply, svc, work, balloon, control>>

\* Any other unit state: back to idle, where the request is still pending.
BenchLost(b) ==
    /\ CheckCompletions
    /\ state = BenchState(b)
    /\ svc[b] = "Failed"
    /\ BecomeIdle
    /\ UNCHANGED <<mem, forceApply, balloon, control, disk, age>>

\* run(): the lock is released, the removed side workloads are dropped, and
\* 100ms later the lock is taken again.
DropRemoved ==
    /\ pc = "unlocked"
    /\ pc' = "reload"
    /\ dropping' = {}
    /\ UNCHANGED <<state, mem, forceApply, cmdPending, ack, svc, hashds, sysloads,
                   sideloads, balloon, control, files, starts>>
-----------------------------------------------------------------------------
(* maybe_reload.                                                           *)

\* The files JsonConfigFile::maybe_reload looks at: benchmarks own the others.
Reloadable == IF InBench THEN {"cmd"} ELSE Files
Changed == {f \in Reloadable : age[f] = "settled"}
Parsed == {f \in Changed : disk[f] # Garbage}

\* Mutant: without force_apply.
ReUnforced(f) == f \in Parsed

\* re_bench, re_slice, re_oomd, re_cmd; force_apply stands in for a change.
Re(f) == f \in Parsed \/ (f # "cmd" /\ ~InBench /\ forceApply)

Fresh(f) == IF f \in Parsed THEN disk[f] ELSE mem[f]
Reloaded == [cmd |-> Fresh("cmd"), bench |-> Fresh("bench"),
             slice |-> Fresh("slice"), oomd |-> Fresh("oomd")]

\* Mutant: a slices.json change alone is not applied.
SlicesAppliedWithBench == {Re("bench")}

\* Whether apply_slices is called, and gets through.
SlicesApplied ==
    IF Re("bench") \/ Re("slice")
    THEN {TRUE} \cup (IF Fault("slices") THEN {FALSE} ELSE {})
    ELSE {FALSE}

Pending == cmdPending \/ Re("bench") \/ Re("cmd") \/ Re("slice")

MaybeReload ==
    /\ pc = "reload"
    /\ pc' = "apply"
    /\ LET new == Reloaded
           headroomChanged == new.cmd.headroom # mem.cmd.headroom
           off == ControlsDisabled(new.slice)
           io == IF Re("bench") THEN ApplyIoCost(new.bench, iocost) ELSE iocost
       IN
       /\ mem' = new
       /\ \E applied \in SlicesApplied :
            /\ slices' = IF applied THEN new.slice ELSE slices
            /\ iocost' = IF applied THEN ApplySlicesIo(new.slice, io) ELSE io
       /\ oomd' = IF (Re("bench") \/ Re("oomd")) /\ EnforceOomd
                  THEN OomdApply(new.oomd) ELSE oomd
       /\ sideloader' =
            \/ EnforceAll /\ (headroomChanged \/ (Re("slice") /\ ~off))
            \/ sideloader /\ ~(Re("slice") /\ off)
       /\ cmdPending' = Pending
    /\ age' = [f \in Files |-> IF f \in Changed THEN "loaded" ELSE age[f]]
    /\ forceApply' = (InBench /\ forceApply)
    /\ UNCHANGED <<state, ack, svc, work, balloon, disk, edits, starts>>
-----------------------------------------------------------------------------
(* The environment.                                                        *)

Edit(f, content) ==
    /\ edits < MaxEdits
    /\ edits' = edits + 1
    /\ disk' = [disk EXCEPT ![f] = content]
    /\ age' = [age EXCEPT ![f] = "young"]
    /\ UNCHANGED <<pc, state, mem, forceApply, cmdPending, ack, svc, work, balloon,
                   control, starts>>

UserEdits ==
    \/ \E c \in Cmds : Edit("cmd", c)
    \/ \E b \in BenchEdits : Edit("bench", b)
    \/ \E s \in SliceEdits : Edit("slice", s)
    \/ \E o \in OomdEdits : Edit("oomd", o)
    \/ Fault("garbage") /\ \E f \in Files : Edit(f, Garbage)

\* 10ms pass since the file's last modification.
Settle(f) ==
    /\ age[f] = "young"
    /\ age' = [age EXCEPT ![f] = "settled"]
    /\ UNCHANGED <<pc, state, mem, forceApply, cmdPending, ack, svc, work, balloon,
                   control, disk, edits, starts>>

BenchExits(b) ==
    /\ svc[b] = "Running"
    /\ svc' = [svc EXCEPT ![b] = "Exited"]
    /\ UNCHANGED <<pc, state, mem, forceApply, cmdPending, ack, work, balloon,
                   control, files, starts>>

BenchFails(b) ==
    /\ Fault("bench")
    /\ svc[b] = "Running"
    /\ svc' = [svc EXCEPT ![b] = "Failed"]
    /\ UNCHANGED <<pc, state, mem, forceApply, cmdPending, ack, work, balloon,
                   control, files, starts>>
-----------------------------------------------------------------------------
Apply ==
    \/ SkipApply \/ KnobsFail
    \/ StartIoCostBench \/ StartIoCostBenchFail
    \/ StartHashdBench \/ StartHashdBenchFail
    \/ StayIdle \/ BecomeRunning \/ YieldToBench \/ ApplyWorkloads
    \/ CancelBench \/ KeepBench

Check ==
    \/ NothingCompleted \/ ApplyResultFail
    \/ \E b \in Benches :
        FinishBench(b) \/ LoadResultFail(b) \/ SaveResultFail(b) \/ BenchLost(b)

Runner == Apply \/ Check \/ DropRemoved \/ MaybeReload

Environment ==
    \/ UserEdits
    \/ \E f \in Files : Settle(f)
    \/ \E b \in Benches : BenchExits(b) \/ BenchFails(b)

Next == Start \/ Exit \/ Panic \/ Runner \/ Environment

Spec == Init /\ [][Next]_vars

\* The runner's loop never stops while the agent is up, time passes, and a
\* benchmark runs for a bounded time.
Fairness ==
    /\ WF_vars(Start)
    /\ WF_vars(Runner)
    /\ \A f \in Files : WF_vars(Settle(f))
    /\ \A b \in Benches : WF_vars(BenchExits(b) \/ BenchFails(b))

FairSpec == Spec /\ Fairness
-----------------------------------------------------------------------------
(* Properties.                                                             *)

TypeOK ==
    /\ pc \in {"down", "apply", "repeat", "check", "unlocked", "reload"}
    /\ state \in {"Idle", "Running", "BenchHashd", "BenchIoCost"}
    /\ mem \in MemType
    /\ forceApply \in BOOLEAN /\ cmdPending \in BOOLEAN
    /\ ack \in Nat
    /\ svc \in [Benches -> {"None", "Running", "Exited", "Failed"}]
    /\ hashds \subseteq STRING /\ sysloads \subseteq STRING
    /\ sideloads \subseteq STRING /\ dropping \subseteq STRING
    /\ balloon \in Nat
    /\ oomd \in OomdType
    /\ sideloader \in BOOLEAN
    /\ iocost \in [on : BOOLEAN, params : Seqs]
    /\ slices \in SliceType
    /\ disk \in [cmd : CmdType \cup {Garbage}, bench : BenchType \cup {Garbage},
                slice : SliceType \cup {Garbage}, oomd : OomdType \cup {Garbage}]
    /\ age \in [Files -> {"loaded", "young", "settled"}]
    /\ edits \in Nat /\ starts \in Nat

\* The inductive forms of the invariants below.  Removed side workloads are
\* dropped before the next reload, and only Running removes any.
ExclusiveInv ==
    /\ \A b \in Benches : svc[b] # "None" <=> state = BenchState(b)
    /\ state # "Running" => hashds = {} /\ sysloads = {} /\ dropping = {}
    /\ pc \notin {"check", "unlocked"} => dropping = {}
    /\ pc = "down" => state = "Idle"

\* force_apply is set throughout a benchmark and, once idle, until the reload
\* that precedes the next apply_cmd.
ForceInv ==
    /\ InBench => forceApply
    /\ state = "Running" => ~forceApply
    /\ pc \in {"apply", "repeat"} /\ ~InBench => ~forceApply
    /\ pc = "down" => state = "Idle" /\ ~forceApply

\* Io.cost and oomd are as configured, or force_apply will make them so.
ToBeApplied == pc = "down" \/ (state = "Idle" /\ forceApply)
IoCostInv ==
    EnforceIo => /\ state = "BenchIoCost" => ~iocost.on
                 /\ \/ ToBeApplied
                    \/ state = "BenchIoCost"
                    \/ iocost.on <=> ~Disabled("io", mem.slice)
OomdInv ==
    EnforceOomd => /\ state = "BenchHashd" => oomd = Off
                   /\ \/ ToBeApplied
                      \/ state = "BenchHashd"
                      \/ oomd = OomdApply(mem.oomd)

\* A benchmark has the machine to itself: its service exists exactly in its
\* state, and outside Running no rd-hashd and no sysload is running or still
\* being stopped (become_idle and the order of run()'s loop).
BenchExclusive ==
    /\ \A b \in Benches : svc[b] # "None" <=> state = BenchState(b)
    /\ state # "Running" => hashds = {} /\ sysloads = {}
    /\ InBench => dropping = {}

\* While the iocost benchmark measures the device io.cost is off; while hashd
\* is benchmarked and while workloads run it is as disable_seqs.io says, though
\* completions, cancellations and failures leave it off on the way.
IoCostFollowsKnobs ==
    EnforceIo =>
        /\ state = "BenchIoCost" => ~iocost.on
        /\ state \in {"Running", "BenchHashd"} =>
                (iocost.on <=> ~Disabled("io", mem.slice))

\* Whenever workloads run, oomd runs with the loaded configuration unless that
\* disables it: the hashd benchmark, which stops oomd, always brings it back.
OomdGuards ==
    EnforceOomd => /\ state = "Running" => oomd = OomdApply(mem.oomd)
                   /\ state = "BenchHashd" => oomd = Off

\* A result is recorded only for a request that still stands: "Setting it to a
\* number equal to or lower than cancels if currently running."
RecordsOnlyWanted ==
    [][pc = "check" => /\ mem'.bench.hashdSeq # mem.bench.hashdSeq => HashdWanted
                       /\ mem'.bench.iocostSeq # mem.bench.iocostSeq => IoCostWanted]_vars

\* "While a benchmark is running, all other workloads are stopped."
AllWorkloadsStoppedDuringBench ==
    InBench => hashds = {} /\ sysloads = {} /\ sideloads = {}

\* The benchmark life cycle the runner implements.
PerBench(ofHashd, ofIoCost) ==
    [s \in {BenchState(b) : b \in Benches} |->
        IF s = BenchState("hashd") THEN ofHashd ELSE ofIoCost]
Lifecycle ==
    INSTANCE BenchLifecycle WITH
        Benchmarks <- {BenchState(b) : b \in Benches},
        mode <- state,
        workloads <- hashds \cup sysloads,
        done <- InBench /\ \E b \in Benches : svc[b] = "Exited",
        results <- PerBench(mem.bench.hashdSeq, mem.bench.iocostSeq),
        command <- [seq |-> mem.cmd.seq,
                    bench |-> PerBench(mem.cmd.hashdSeq, mem.cmd.iocostSeq),
                    loads |-> mem.cmd.hashd \cup mem.cmd.sysloads],
        acked <- ack

\* The runner, with every fault, takes only the steps BenchLifecycle allows.
ImplementsLifecycle == Lifecycle!Spec

Up == pc # "down"

\* So is a request for the hashd benchmark, once there is an iocost result.
HashdServed == Up /\ HashdWanted ~> ~HashdWanted \/ mem.bench.iocostSeq = 0

\* Once left alone outside benchmarks, slices.json and oomd.json are in effect,
\* whatever was written to them while a benchmark ran.
ConfigEffective ==
    <>[](Up /\ ~InBench) =>
        /\ \A s \in SliceEdits : <>[](disk.slice = s) => <>[](slices = s)
        /\ \A o \in OomdEdits : <>[](disk.oomd = o) => <>[](oomd = OomdApply(o))
=============================================================================
