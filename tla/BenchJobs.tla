----------------------------- MODULE BenchJobs -----------------------------
(* The jobs of resctl-bench and its result file: a command line of jobs is *)
(* linked to the entries of the file, each job is run, recalled or         *)
(* continued from its last checkpoint, jobs run the jobs they depend on    *)
(* nested, and every completion rewrites the whole file.  The program may  *)
(* fail or the system crash anywhere, and the user starts again.           *)
(*                                                                         *)
(* A job is [kind, id, runs, ignore, apply, commit]; only iocost-qos has   *)
(* runs, the QoS configurations it goes through, the first with io.cost    *)
(* off, and ignore-min-perf.  A record is [base, runs, inc]: for the       *)
(* params jobs base is what was measured, for iocost-qos the parameters it *)
(* ran against, its finished runs (0: skipped) and its checkpoints.  A run *)
(* with its minimum raised to what the device can do is negative.          *)
EXTENDS Integers, Sequences, SequencesExt, FiniteSets

CONSTANTS
    CmdLines,      \* the command lines: sequences of jobs
    Others,        \* for each of them what else may be run on the file: <<mode, line>>
    JobIds,        \* the ids jobs are told apart by
    Models,        \* what iocost-params may find: configurations too slow to run, or to be raised
    MaxOthers,     \* bound: how often one of Others is run
    MaxCrashes,    \* bound: crashes
    MaxFails       \* bound: benchmarks that fail

Kinds == {"iocost-params", "hashd-params", "iocost-qos", "iocost-tune"}
Unset == 1000000   \* u64::MAX: not updated by this invocation

Specs == [kind : Kinds, id : JobIds, runs : Seq(Nat \ {0}), ignore : BOOLEAN, apply : BOOLEAN,
          commit : BOOLEAN]

ASSUME BenchJobsAssumption ==
    /\ "none" \in JobIds   \* the id of a job that is given none
    /\ {MaxOthers, MaxCrashes, MaxFails} \subseteq Nat
    /\ Models \in Seq([slow : SUBSET (Nat \ {0, 1}), raised : SUBSET (Nat \ {0, 1})])
    /\ Models # <<>>
    /\ CmdLines \subseteq Seq(Specs)
    /\ \A line \in CmdLines : Others[line] \subseteq {"run", "study", "solve"} \X Seq(Specs)
    /\ \A line \in CmdLines \cup {o[2] : o \in UNION {Others[l] : l \in CmdLines}} : \A i \in DOMAIN line :
          line[i].kind = "iocost-qos" => line[i].runs # <<>> /\ line[i].runs[1] = 1

VARIABLES
    goal,      \* the command line the user wants completed
    file,      \* the result file: its entries [spec, rec, res]
    torn,      \* it has been truncated and not been written
    demo,      \* the knobs in the bench file of resctl-demo
    mode,      \* "down", "run", "study" or "solve"
    entries,   \* JobCtxs: the entries of the file and of this invocation
    unlinked,  \* the jobs of the command line still to be linked
    pending,   \* the jobs of the command line still to be run
    frames,    \* the running job and, after it, the jobs nested in it
    knobs,     \* Base::bench_knobs: [iocost, hashd], 0 if unknown
    saved,     \* Base::saved_bench_knobs
    updates,   \* UPDATE_SEQ
    counts     \* [measured, others, crashes, fails]

jobVars == <<goal, file, torn, demo, mode, entries, unlinked, pending, frames, knobs,
             saved, updates, counts>>

aside == <<goal, file, torn, demo, mode, unlinked, pending, knobs, saved, updates>>

NoRec == [base |-> -1, runs |-> <<>>, inc |-> <<>>]
TuneRec == [base |-> 0, runs |-> <<0>>, inc |-> <<>>]
NoKnobs == [iocost |-> 0, hashd |-> 0]
Incremental(kind) == kind = "iocost-qos"
Params(kind) == kind \in {"iocost-params", "hashd-params"}
KnobOf(kind) == IF kind = "iocost-params" THEN "iocost" ELSE "hashd"

Studying == mode \in {"study", "solve"}
Top == Last(frames)
Outer == Front(frames)
Mine == CHOOSE i \in DOMAIN entries : entries[i].uid = Top.uid
Stored == entries[Mine]

-----------------------------------------------------------------------------
(* Linking                                                                 *)

Compatible(a, b) == a.kind = b.kind /\ a.id = b.id /\ a.runs = b.runs

(* The entries of the file an unlinked job may continue.                   *)
\* Mutant: an entry that is already linked is linked again.
MatchingUsed(es, s) ==
    {i \in DOMAIN es : /\ es[i].spec.kind = s.kind /\ es[i].spec.id = s.id
                       /\ Incremental(s.kind) \/ Compatible(es[i].spec, s)}

Matching(es, s) ==
    {i \in DOMAIN es : /\ ~es[i].used
                       /\ es[i].spec.kind = s.kind /\ es[i].spec.id = s.id
                       /\ Incremental(s.kind) \/ Compatible(es[i].spec, s)}

NewUid(es) == Len(es) + 1

LinkedTo(es, s) ==
    IF Matching(es, s) = {} THEN NewUid(es) ELSE es[Min(Matching(es, s))].uid

Linked(es, s) ==
    IF Matching(es, s) = {}
    THEN Append(es, [spec |-> s, rec |-> NoRec, res |-> FALSE, uid |-> NewUid(es),
                     used |-> TRUE, seq |-> Unset])
    ELSE [es EXCEPT ![Min(Matching(es, s))].used = TRUE]

Loaded == [i \in DOMAIN file |->
              [spec |-> file[i].spec, rec |-> file[i].rec, res |-> file[i].res,
               uid |-> i, used |-> FALSE, seq |-> Unset]]

Frame(job) == [uid |-> job.uid, spec |-> job.spec, pc |-> "pre", rec |-> NoRec,
               res |-> FALSE, prev |-> NoRec, runs |-> <<>>, next |-> 1,
               nested |-> FALSE, studied |-> FALSE, revert |-> FALSE]

(* The job the running one looks for: the nearest entry of the kind before *)
(* it, if this invocation has completed it.                                *)
FindDone(kind) ==
    LET before == {i \in 1..(Mine - 1) : entries[i].spec.kind = kind}
    IN  IF before = {} THEN {}
        ELSE {i \in {Max(before)} : entries[i].seq # Unset}

-----------------------------------------------------------------------------
(* The file                                                                *)

Entry(e) == [spec |-> e.spec, rec |-> e.rec, res |-> e.res]

\* Mutant: only what this command line has linked is written back.
SavedLinked(es) ==
    LET mine == SelectSeq(es, LAMBDA e : e.used) IN [i \in DOMAIN mine |-> Entry(mine[i])]

SaveResults(es) == [i \in DOMAIN es |-> Entry(es[i])]

(* Entries in the order this invocation completed them, the others last:   *)
(* a stable sort, where an entry goes behind the ones ahead of it.         *)
Ahead(es, d) ==
    {c \in DOMAIN es : es[c].seq < es[d].seq \/ (es[c].seq = es[d].seq /\ c < d)}

SortedBySeq(es) ==
    LET place == [d \in DOMAIN es |-> Cardinality(Ahead(es, d)) + 1]
    IN  [i \in DOMAIN es |-> es[CHOOSE d \in DOMAIN es : place[d] = i]]

Save(es) == entries' = es /\ file' = SaveResults(es) /\ UNCHANGED torn

Down == /\ mode' = "down" /\ entries' = <<>> /\ unlinked' = <<>> /\ pending' = <<>> /\ frames' = <<>>
        /\ knobs' = NoKnobs /\ saved' = NoKnobs /\ updates' = 1

SetTop(f) == frames' = Append(Outer, f)
Goto(pc) == SetTop([Top EXCEPT !.pc = pc])

(* main() -> panic!() or exit: only the files remain.                      *)
GiveUp == Down /\ UNCHANGED <<goal, file, torn, demo>>

Benchmark(ok) ==
    IF ok THEN UNCHANGED counts
    ELSE counts.fails < MaxFails /\ counts' = [counts EXCEPT !.fails = @ + 1]

-----------------------------------------------------------------------------
JobsInit ==
    /\ goal \in CmdLines
    /\ file = <<>> /\ torn = FALSE /\ demo = NoKnobs
    /\ mode = "down" /\ entries = <<>> /\ unlinked = <<>> /\ pending = <<>> /\ frames = <<>>
    /\ knobs = NoKnobs /\ saved = NoKnobs /\ updates = 1
    /\ counts = [measured |-> 0, others |-> 0, crashes |-> 0, fails |-> 0]

(* Base::new(): the parameters committed so far; a study starts from none. *)
NewBase(m) == IF m = "run" THEN demo ELSE NoKnobs

(* Program::main(), do_run(): the result file is loaded and the whole      *)
(* command line is linked before anything is run, one job after the other. *)
(* A file that does not parse ends it.                                     *)
Launch(m, line) ==
    /\ mode = "down" /\ ~torn
    /\ entries' = Loaded /\ unlinked' = line
    /\ mode' = m
    /\ knobs' = NewBase(m) /\ saved' = NewBase(m)
    /\ updates' = 1
    /\ UNCHANGED <<goal, file, torn, demo, pending, frames>>

LaunchGoal ==
    /\ \E i \in DOMAIN goal :
          ~\E j \in DOMAIN file : /\ file[j].spec.kind = goal[i].kind
                                  /\ file[j].spec.id = goal[i].id /\ file[j].res
    /\ Launch("run", goal) /\ UNCHANGED counts

LaunchOther ==
    /\ counts.others < MaxOthers
    /\ counts' = [counts EXCEPT !.others = @ + 1]
    /\ \E o \in Others[goal] : Launch(o[1], o[2])

(* A file that was truncated is of no use but to be removed.               *)
RemoveFile ==
    /\ torn /\ torn' = FALSE
    /\ UNCHANGED <<goal, file, demo, mode, entries, unlinked, pending, frames, knobs, saved, updates,
                   counts>>

LinkNext ==
    /\ unlinked # <<>>
    /\ LET s == Head(unlinked)
       IN  /\ entries' = Linked(entries, s)
           /\ pending' = Append(pending, [spec |-> s, uid |-> LinkedTo(entries, s)])
    /\ unlinked' = Tail(unlinked)
    /\ UNCHANGED <<goal, file, torn, demo, mode, frames, knobs, saved, updates, counts>>

(* RunCtx::run_jctx() for the next job of the command line.                *)
NextJob ==
    /\ mode # "down" /\ unlinked = <<>> /\ frames = <<>> /\ pending # <<>>
    /\ frames' = <<Frame(Head(pending))>> /\ pending' = Tail(pending)
    /\ UNCHANGED <<goal, file, torn, demo, mode, entries, unlinked, knobs, saved, updates, counts>>

AllRun ==
    /\ mode # "down" /\ unlinked = <<>> /\ frames = <<>> /\ pending = <<>>
    /\ GiveUp /\ UNCHANGED counts

(* run_nested_job_spec(): link it and run it before the running job goes on.*)
RunNested(s, f) ==
    /\ entries' = Linked(entries, s)
    /\ frames' = Outer \o <<f, Frame([spec |-> s, uid |-> LinkedTo(entries, s)])>>
    /\ UNCHANGED <<aside, counts>>

At(pc) == mode # "down" /\ frames # <<>> /\ Top.pc = pc

IocostParams == [kind |-> "iocost-params", id |-> "none", runs |-> <<>>, ignore |-> FALSE,
                 apply |-> TRUE, commit |-> TRUE]
DflQos == [kind |-> "iocost-qos", id |-> "none", runs |-> <<1, 2>>, ignore |-> FALSE,
           apply |-> FALSE, commit |-> FALSE]

(* Job::pre_run(): only iocost-tune has one.                               *)
NoPreRun ==
    /\ At("pre") /\ (Top.spec.kind # "iocost-tune" \/ mode = "solve")
    /\ Goto("run")
    /\ UNCHANGED <<aside, entries, counts>>

FindQos ==
    /\ At("pre") /\ Top.spec.kind = "iocost-tune" /\ mode # "solve"
    /\ \E i \in FindDone("iocost-qos") :
          SetTop([Top EXCEPT !.pc = "run", !.prev = entries[i].rec,
                             !.studied = entries[i].res])
    /\ UNCHANGED <<aside, entries, counts>>

RunQos ==
    /\ At("pre") /\ Top.spec.kind = "iocost-tune" /\ mode # "solve"
    /\ FindDone("iocost-qos") = {} /\ ~Top.nested
    /\ RunNested(DflQos, [Top EXCEPT !.nested = TRUE])

(* The nested run has completed and still is not found.                    *)
QosNotFound ==
    /\ At("pre") /\ Top.spec.kind = "iocost-tune" /\ mode # "solve"
    /\ FindDone("iocost-qos") = {} /\ Top.nested
    /\ GiveUp /\ UNCHANGED counts

-----------------------------------------------------------------------------
(* JobCtx::run(), up to the record                                         *)

HasRec == Stored.rec # NoRec
Recalls == Studying \/ (HasRec /\ ~Incremental(Top.spec.kind))

(* A completed job is not run again, only studied.                         *)
Recall ==
    /\ At("run") /\ Recalls
    /\ \/ /\ HasRec
          /\ SetTop([Top EXCEPT !.pc = "study", !.rec = Stored.rec, !.res = Stored.res])
          /\ UNCHANGED <<aside, entries>>
       \/ ~HasRec /\ GiveUp
    /\ UNCHANGED counts

(* What is measured has a number of its own, which tells what it finds.    *)
ModelOf(base) == Models[(base % Len(Models)) + 1]

RunParams ==
    /\ At("run") /\ ~Recalls /\ Params(Top.spec.kind)
    /\ \/ \E found \in 1..Len(Models) :
          /\ counts' = [counts EXCEPT !.measured = @ + found]
          /\ SetTop([Top EXCEPT !.pc = "study",
                                !.rec = [NoRec EXCEPT !.base = counts.measured + found]])
          /\ UNCHANGED <<aside, entries>>
       \/ Benchmark(FALSE) /\ GiveUp

RunTune ==
    /\ At("run") /\ ~Recalls /\ Top.spec.kind = "iocost-tune"
    /\ SetTop([Top EXCEPT !.pc = "study", !.rec = TuneRec])
    /\ UNCHANGED <<aside, entries, counts>>

(* IoCostQoSJob::run() needs io.cost parameters.                           *)
QosParams ==
    /\ At("run") /\ ~Recalls /\ Top.spec.kind = "iocost-qos" /\ knobs.iocost = 0
    /\ RunNested(IocostParams, [Top EXCEPT !.revert = TRUE])

(* skip_or_adj(), by the parameters there are now and not by the record's. *)
Slow(s, base) == IF s.ignore THEN {} ELSE ModelOf(base).slow
Raised(s, base) == IF s.ignore THEN {} ELSE ModelOf(base).raised \ Slow(s, base)

(* What a job can find in a record that was loaded: it compares fields that *)
(* are not stored, so that a run whose minimum was raised is never found.  *)
RunsOf(rec) == {r \in Range(rec.runs) \cup Range(rec.inc) : r > 0}

FreshRec == [base |-> knobs.iocost, runs |-> <<>>, inc |-> <<>>]

PrevRec == IF HasRec THEN Stored.rec ELSE FreshRec

\* Mutant: a record that has only checkpoints is taken for another machine's.
MatchesComplete(rec) ==
    \/ ~HasRec
    \/ rec.runs # <<>> /\ rec.runs[1] # 0 /\ rec.base = knobs.iocost

PrevMatches(rec) ==
    \/ ~HasRec
    \/ /\ (rec.runs # <<>> /\ rec.runs[1] # 0) \/ rec.inc # <<>>
       /\ rec.base = knobs.iocost

ToRun(s, rec) ==
    {i \in DOMAIN s.runs : /\ s.runs[i] \notin Slow(s, knobs.iocost)
                           /\ s.runs[i] \notin RunsOf(rec) \ Raised(s, knobs.iocost)}

(* What is missing is run if the parameters are the ones of the record, or *)
(* nothing of the record is of use.                                        *)
QosStart ==
    /\ At("run") /\ ~Recalls /\ Top.spec.kind = "iocost-qos" /\ knobs.iocost # 0
    /\ LET missing == ToRun(Top.spec, PrevRec)
           go == missing = {} \/ PrevMatches(PrevRec)
                   \/ Cardinality(missing) = Len(Top.spec.runs)
       IN  \/ /\ go
              /\ SetTop([Top EXCEPT !.pc = "runs", !.revert = TRUE, !.prev = PrevRec])
              /\ UNCHANGED <<aside, entries>>
           \/ ~go /\ GiveUp
    /\ UNCHANGED counts

AtRun == At("runs") /\ Top.next <= Len(Top.spec.runs)
Run == Top.spec.runs[Top.next]
Push(r) == [Top EXCEPT !.runs = Append(@, r), !.next = @ + 1]

(* find_matching_rec_run(): one that was raised is found among the runs    *)
(* made this time.                                                         *)
Target == IF Run \in Raised(Top.spec, knobs.iocost) THEN 0 - Run ELSE Run
Found == Run \notin Slow(Top.spec, knobs.iocost) /\ Target \in RunsOf(Top.prev) \cup Range(Top.runs)
Missing == Run \notin Slow(Top.spec, knobs.iocost) /\ ~Found

QosKeep ==
    /\ AtRun
    /\ \/ Found /\ SetTop(Push(Target))
       \/ Run \in Slow(Top.spec, knobs.iocost) /\ SetTop(Push(0))
    /\ UNCHANGED <<aside, entries, counts>>

(* One storage and protection set, and the checkpoint after it:            *)
(* update_incremental_record().                                            *)
QosRun ==
    /\ AtRun /\ Missing
    /\ LET rec == [Top.prev EXCEPT !.inc = Append(@, Target)]
       IN  /\ SetTop([Push(Target) EXCEPT !.prev = rec])
           /\ Save([entries EXCEPT ![Mine].rec = rec])
    /\ UNCHANGED <<goal, demo, mode, unlinked, pending, knobs, saved, updates, counts>>

(* A failing set ends the program.                                         *)
QosFails ==
    /\ AtRun /\ Missing
    /\ Benchmark(FALSE) /\ GiveUp

(* With allow-fail it is noted as skipped, and then run once more: nothing *)
(* leaves the loop but a success, an exit or a set that ran with other     *)
(* parameters than asked for.                                              *)
QosSkips ==
    /\ AtRun /\ Missing
    /\ Benchmark(FALSE) /\ SetTop([Top EXCEPT !.runs = Append(@, 0)])
    /\ UNCHANGED <<aside, entries>>

QosDone ==
    /\ At("runs") /\ Top.next > Len(Top.spec.runs)
    /\ SetTop([Top EXCEPT !.pc = "study",
                          !.rec = [base |-> knobs.iocost, inc |-> <<>>,
                                   runs |-> SubSeq(Top.runs, 1, Len(Top.spec.runs))]])
    /\ UNCHANGED <<aside, entries, counts>>

-----------------------------------------------------------------------------
(* JobCtx::run(), from the record on, and what run_jctx() does after it    *)

(* Job::study() and solve(): iocost-tune needs the result of iocost-qos, a *)
(* solve the stored result of the study.                                   *)
Studied(ok) ==
    CASE mode = "solve" -> Top.res
      [] Top.spec.kind = "iocost-tune" -> Top.studied /\ ok
      [] OTHER -> ok

Applies == mode # "solve" /\ Params(Top.spec.kind) /\ (Top.spec.apply \/ Top.spec.commit)

(* apply_hashd_knobs() and apply_iocost_knobs(); a commit is also saved.   *)
Applied == IF Applies THEN [knobs EXCEPT ![KnobOf(Top.spec.kind)] = Top.rec.base] ELSE knobs
Committed == IF Applies /\ Top.spec.commit /\ mode = "run" THEN Applied ELSE demo

Updated(ok) ==
    LET e == [entries EXCEPT ![Mine].spec = Top.spec, ![Mine].rec = Top.rec,
                             ![Mine].res = Top.res \/ Studied(ok), ![Mine].seq = updates]
    IN  IF Studying THEN e ELSE SortedBySeq(e)

(* The job is over: saved whatever the study says, and the knobs reverted  *)
(* to those the program started with if the job asked for it.              *)
Conclude(ok) ==
    \E es \in {Updated(ok)} :
        /\ demo' = Committed
        /\ file' = SaveResults(es)
        /\ IF Studied(ok)
           THEN /\ entries' = es /\ updates' = updates + 1 /\ frames' = Outer
                /\ knobs' = (IF Top.revert THEN saved ELSE Applied)
                /\ UNCHANGED <<mode, unlinked, pending, saved>>
           ELSE Down

Study ==
    /\ At("study")
    /\ \E ok \in BOOLEAN :
          /\ Params(Top.spec.kind) => ok
          /\ Benchmark(ok)
          /\ Conclude(ok)
    /\ UNCHANGED <<goal, torn>>

-----------------------------------------------------------------------------
Crash ==
    /\ mode # "down" /\ counts.crashes < MaxCrashes
    /\ counts' = [counts EXCEPT !.crashes = @ + 1]
    /\ GiveUp

(* The system crashes, or there is no space left, after save_results() has *)
(* truncated the file and before it has written all of it.                 *)
CrashInSave ==
    /\ counts.crashes < MaxCrashes
    /\ \/ AtRun /\ Missing /\ UNCHANGED demo
       \/ At("study") /\ demo' = Committed
    /\ counts' = [counts EXCEPT !.crashes = @ + 1]
    /\ Down /\ file' = <<>> /\ torn' = TRUE /\ UNCHANGED goal

Steps ==
    \/ LinkNext \/ NextJob \/ AllRun \/ NoPreRun \/ FindQos \/ RunQos \/ QosNotFound
    \/ Recall \/ RunParams \/ RunTune
    \/ QosParams \/ QosStart \/ QosKeep \/ QosRun \/ QosDone
    \/ Study

JobsNext == LaunchGoal \/ LaunchOther \/ RemoveFile \/ Steps \/ QosFails \/ Crash \/ CrashInSave

JobsSpec ==
    /\ JobsInit /\ [][JobsNext]_jobVars
    /\ WF_jobVars(LaunchGoal) /\ WF_jobVars(RemoveFile) /\ WF_jobVars(Steps)

\* with the allow-fail property of iocost-qos
AllowFailSpec == JobsInit /\ [][JobsNext \/ QosSkips]_jobVars

-----------------------------------------------------------------------------
JobsTypeOK ==
    /\ mode \in {"down", "run", "study", "solve"} /\ torn \in BOOLEAN
    /\ torn => mode = "down" /\ file = <<>>
    /\ demo \in [{"iocost", "hashd"} -> Nat] /\ knobs \in [{"iocost", "hashd"} -> Nat]
    /\ \A i \in DOMAIN entries : entries[i].spec.kind \in Kinds
    /\ \A i \in DOMAIN frames : frames[i].pc \in {"pre", "run", "runs", "study"}
    /\ mode = "down" => entries = <<>> /\ pending = <<>> /\ frames = <<>>

(* Every job of the command line and every running job owns one entry, and *)
(* no two own the same: what one saves is never overwritten by another.    *)
JobsOwnEntries ==
    LET jobs == pending \o frames
    IN  /\ \A i \in DOMAIN jobs : \E e \in DOMAIN entries :
              entries[e].uid = jobs[i].uid /\ entries[e].used
        /\ \A i, j \in DOMAIN jobs : i # j => jobs[i].uid # jobs[j].uid
        /\ \A d, e \in DOMAIN entries : d # e => entries[d].uid # entries[e].uid

(* Forward progress: nothing in the result file is lost, in whatever order *)
(* jobs complete, fail, nest or start over.  An entry keeps what it has    *)
(* measured and its result, where iocost-qos has to study again when it is *)
(* run again; and each configuration it still asks for stays measured, by  *)
(* the old run or a new one, where it is not too slow by the parameters    *)
(* there are now.                                                          *)
Measured(rec) ==
    LET all == Range(rec.runs) \cup Range(rec.inc) IN all \cup {0 - r : r \in all}

Kept(old, new) ==
    /\ old.spec.kind = new.spec.kind /\ old.spec.id = new.spec.id
    /\ old.rec # NoRec => new.rec # NoRec
    /\ Params(old.spec.kind) => old.rec = NoRec \/ new.rec = old.rec
    /\ old.res => new.res \/ Incremental(old.spec.kind)
    /\ \A r \in Range(new.spec.runs) \ Slow(new.spec, new.rec.base) :
          r \in Measured(old.rec) => r \in Measured(new.rec)

(* It is all lost when the system crashes while the file is being written, *)
(* and by nothing else.                                                    *)
NothingForgotten ==
    [][torn' \/ \A i \in DOMAIN file : \E j \in DOMAIN file' : Kept(file[i], file'[j])]_file

(* A job of the command line has its result.                               *)
Done(i) == \E j \in DOMAIN file : /\ file[j].spec.kind = goal[i].kind
                                  /\ file[j].spec.id = goal[i].id /\ file[j].res
AllDone == \A i \in DOMAIN goal : Done(i)

(* The file has QoS runs of other parameters than the ones committed,      *)
(* which iocost-qos neither uses nor removes.                              *)
OtherParams ==
    \E j \in DOMAIN file : /\ file[j].spec.kind = "iocost-qos" /\ file[j].rec # NoRec
                           /\ file[j].rec.base # demo.iocost

(* A run that has succeeded and been checkpointed is in the record of the  *)
(* job when it is complete: allow-fail skips the sets that failed, and no  *)
(* others.                                                                 *)
OnlyFailuresSkipped ==
    \A i \in DOMAIN frames :
        frames[i].spec.kind = "iocost-qos" /\ frames[i].pc = "study" /\ ~Studying =>
            \A r \in RunsOf(frames[i].prev) :
                r \in {frames[i].spec.runs[k] : k \in DOMAIN frames[i].spec.runs} =>
                    r \in RunsOf(frames[i].rec)
=============================================================================
