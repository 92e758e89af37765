----------------------------- MODULE HashdFiles -----------------------------
(***************************************************************************)
(* The files of rd-hashd: the test files it reads (rd-hashd/testfiles.rs), *)
(* made before it starts to hash, and the log its workers write, rotated   *)
(* and expired by a thread of its own (rd-hashd/logger.rs).  rd-hashd may  *)
(* be killed at any step and is started again, with another size or        *)
(* compressibility, on what its last life has left behind; between the     *)
(* phases of a benchmark it gives up its logger and makes a new one.       *)
(* Sizes are counted in lines; lines are numbered in the order sent.       *)
(***************************************************************************)
EXTENDS Naturals, Sequences, SequencesExt, FiniteSets, FiniteSetsExt, Functions

CONSTANTS
    Comps, NrTestFiles,     \* compressibilities, and the most files there may be
    UnitLines, NrToKeep,    \* unit_size, nr_to_keep
    Times,                  \* seconds and microseconds of the rotations
    LogCapacity, MaxLines, MaxStarts, MaxLogFaults      \* bounds

ASSUME HashdFilesAssumption ==
    /\ {NrTestFiles, UnitLines, LogCapacity} \subseteq Nat \ {0}
    /\ {NrToKeep, MaxLines, MaxStarts, MaxLogFaults} \subseteq Nat
    /\ Times \in Seq(Nat \X Nat) /\ Len(Times) >= MaxLines \div UnitLines + MaxStarts
    /\ \A i, j \in DOMAIN Times : i < j =>
          \/ Times[i][1] < Times[j][1]
          \/ Times[i][1] = Times[j][1] /\ Times[i][2] < Times[j][2]

VARIABLES
    testFiles,      \* the test files: whether whole, and their compressibility
    hashd,          \* what the process is at, its arguments and the test file it is at
    logDir,         \* the log that is written, NoLog or its lines, and the old ones
    worker,         \* LogWorker: file, size, old_logs, and the step and line it is at
    lines,          \* the channel
    logged,         \* lines sent, the last expired, archives that failed to go (ghost)
    spentFiles      \* starts, faults and rotations, bounded

fileVars == <<testFiles, hashd, logDir, worker, lines, logged, spentFiles>>

NoFile == [whole |-> FALSE, comp |-> "none"]
NoLog == <<0>>
NoWorker == [file |-> FALSE, size |-> 0, old |-> <<>>, step |-> "none", msg |-> 0]
Running == {"logging", "closing"}

FilesTypeOK ==
    /\ testFiles \in [0..(NrTestFiles - 1) -> [whole: BOOLEAN, comp: Comps \cup {"none"}]]
    /\ hashd.at \in {"down", "clear", "look", "create", "write", "logging", "closing"}
    /\ worker.step \in {"none", "opening", "idle", "rotate", "expire", "create", "write"}
    /\ Len(lines) <= LogCapacity /\ logged.sent \in 0..MaxLines
    /\ DOMAIN logDir.old \subseteq ToSet(Times)

FilesInit ==
    /\ testFiles = [i \in 0..(NrTestFiles - 1) |-> NoFile]
    /\ hashd = [at |-> "down", nr |-> 1, comp |-> CHOOSE c \in Comps : TRUE, i |-> 0]
    /\ logDir = [cur |-> NoLog, old |-> <<>>] /\ worker = NoWorker /\ lines = <<>>
    /\ logged = [sent |-> 0, expired |-> 0, stuck |-> {}]
    /\ spentFiles = [starts |-> 0, faults |-> 0, rotations |-> 0]

(***************************************************************************)
(* main(): the test files.                                                 *)
(***************************************************************************)
LogStill == UNCHANGED <<logDir, worker, lines, logged>>
HashdAt(step) == hashd.at = step
HashdGoto(step) == hashd' = [hashd EXCEPT !.at = step]

StartHashd ==
    /\ HashdAt("down") /\ spentFiles.starts < MaxStarts
    /\ spentFiles' = [spentFiles EXCEPT !.starts = @ + 1]
    /\ \E nr \in 1..NrTestFiles, c \in Comps, clear \in BOOLEAN :
          hashd' = [at |-> IF clear THEN "clear" ELSE "look", nr |-> nr, comp |-> c, i |-> 0]
    /\ LogStill /\ UNCHANGED testFiles

\* TestFiles::clear(), a file at a time
Clear ==
    /\ HashdAt("clear")
    /\ \/ \E i \in DOMAIN testFiles :
             testFiles[i] # NoFile /\ testFiles' = [testFiles EXCEPT ![i] = NoFile] /\ UNCHANGED hashd
       \/ Range(testFiles) = {NoFile} /\ HashdGoto("look") /\ UNCHANGED testFiles
    /\ LogStill /\ UNCHANGED spentFiles

\* Mutant: the size is not looked at.
UsableOfAnySize(f) == f.comp = hashd.comp
Usable(f) == f.whole /\ f.comp = hashd.comp

\* TestFiles::setup(): a file is kept, removed, created and written.
NextTestFile == hashd' = [hashd EXCEPT !.at = "look", !.i = @ + 1]
SetTestFile(f) == testFiles' = [testFiles EXCEPT ![hashd.i] = f]
Setup ==
    /\ hashd.i < hashd.nr /\ LogStill /\ UNCHANGED spentFiles
    /\ LET f == testFiles[hashd.i] IN
          \/ HashdAt("look") /\ Usable(f) /\ NextTestFile /\ UNCHANGED testFiles
          \/ HashdAt("look") /\ ~Usable(f) /\ HashdGoto("create") /\ SetTestFile(NoFile)
          \/ HashdAt("create") /\ HashdGoto("write") /\ SetTestFile([NoFile EXCEPT !.comp = hashd.comp])
          \/ HashdAt("write") /\ NextTestFile /\ SetTestFile([f EXCEPT !.whole = TRUE])

(***************************************************************************)
(* LogWorker::new(): the log of the last life is gone on with, the old     *)
(* ones are those found, in the order of the time in their names.          *)
(***************************************************************************)
\* Mutant: names are compared as text, in which 10 microseconds come before 9.
TextBefore(a, b) == a[1] < b[1] \/ (a[1] = b[1] /\ a[2] > b[2])
Before(a, b) == a[1] < b[1] \/ (a[1] = b[1] /\ a[2] < b[2])
OldestFirst(names) ==
    CHOOSE s \in SetToSeqs(names) : \A i, j \in DOMAIN s : i < j => Before(s[i], s[j])

OpenLog ==
    /\ HashdAt("look") /\ hashd.i = hashd.nr /\ HashdGoto("logging")
    /\ LET cur == IF logDir.cur = NoLog THEN <<>> ELSE logDir.cur IN
          /\ logDir' = [logDir EXCEPT !.cur = cur]
          /\ worker' = [file |-> TRUE, size |-> Len(cur), step |-> "opening", msg |-> 0,
                        old |-> OldestFirst(DOMAIN logDir.old)]
    /\ UNCHANGED <<testFiles, lines, logged, spentFiles>>

(***************************************************************************)
(* LogWorker::log(), rotate() and expire_old_logs().                       *)
(***************************************************************************)
WorkerAt(step) == worker.step = step
Worker(step) == worker' = [worker EXCEPT !.step = step]
HashStill == UNCHANGED <<testFiles, hashd>>
LogFault == spentFiles.faults < MaxLogFaults /\ spentFiles' = [spentFiles EXCEPT !.faults = @ + 1]

Receive ==
    /\ WorkerAt("idle") /\ lines # <<>>
    /\ worker' = [worker EXCEPT !.step = "rotate", !.msg = Head(lines)] /\ lines' = Tail(lines)
    /\ HashStill /\ UNCHANGED <<logDir, logged, spentFiles>>

IsFull == worker.file /\ worker.size >= UnitLines
Archived(name) == [n \in DOMAIN logDir.old \cup {name} |->
                      IF n = name THEN logDir.cur ELSE logDir.old[n]]
Rotate ==
    /\ WorkerAt("rotate") /\ HashStill /\ UNCHANGED <<lines, logged>>
    /\ \/ ~IsFull /\ Worker("write") /\ UNCHANGED <<logDir, spentFiles>>
       \/ IsFull /\ Worker("expire") /\ LogFault /\ UNCHANGED logDir
       \/ /\ IsFull
          /\ LET name == Times[spentFiles.rotations + 1] IN
                /\ logDir' = [cur |-> NoLog, old |-> Archived(name)]
                /\ worker' = [worker EXCEPT !.old = Append(@, name), !.step = "expire"]
          /\ spentFiles' = [spentFiles EXCEPT !.rotations = @ + 1]

TooMany == worker.old # <<>> /\ Len(worker.old) >= NrToKeep
Expire ==
    /\ worker.step \in {"opening", "expire"} /\ TooMany /\ HashStill /\ UNCHANGED lines
    /\ worker' = [worker EXCEPT !.old = Tail(@)]
    /\ LET name == Head(worker.old) IN
          \/ /\ logDir' = [logDir EXCEPT !.old = Restrict(@, DOMAIN @ \ {name})]
             /\ logged' = [logged EXCEPT !.expired = IF name \in logged.stuck THEN @
                                                     ELSE Max({@} \cup ToSet(logDir.old[name]))]
             /\ UNCHANGED spentFiles
          \/ /\ logged' = [logged EXCEPT !.stuck = @ \cup {name}]
             /\ LogFault /\ UNCHANGED logDir
Expired ==
    /\ worker.step \in {"opening", "expire"} /\ ~TooMany
    /\ Worker(IF WorkerAt("opening") THEN "idle" ELSE "create")
    /\ HashStill /\ UNCHANGED <<logDir, lines, logged, spentFiles>>

\* With the old log still in place there is no new one, and no more logging.
Create ==
    /\ WorkerAt("create") /\ HashStill /\ UNCHANGED <<lines, logged>>
    /\ \/ /\ logDir.cur = NoLog /\ logDir' = [logDir EXCEPT !.cur = <<>>] /\ UNCHANGED spentFiles
          /\ worker' = [worker EXCEPT !.file = TRUE, !.size = 0, !.step = "write"]
       \/ /\ logDir.cur = NoLog /\ LogFault /\ UNCHANGED logDir
          /\ worker' = [worker EXCEPT !.file = FALSE, !.step = "write"]
       \/ /\ logDir.cur # NoLog /\ UNCHANGED <<logDir, spentFiles>>
          /\ worker' = [worker EXCEPT !.file = FALSE, !.step = "write"]

Written(file) == worker' = [worker EXCEPT !.file = file, !.size = @ + 1, !.step = "idle", !.msg = 0]
WriteLine ==
    /\ WorkerAt("write") /\ HashStill /\ UNCHANGED <<lines, logged>>
    /\ \/ /\ worker.file /\ Written(TRUE) /\ UNCHANGED spentFiles
          /\ logDir' = [logDir EXCEPT !.cur = Append(@, worker.msg)]
       \/ worker.file /\ Written(FALSE) /\ LogFault /\ UNCHANGED logDir
       \/ /\ ~worker.file /\ UNCHANGED <<logDir, spentFiles>>
          /\ worker' = [worker EXCEPT !.step = "idle", !.msg = 0]

(***************************************************************************)
(* The threads that log, and the end of a logger: Logger::drop() waits for *)
(* the worker, which first reads the channel to its end.                   *)
(***************************************************************************)
SendLine ==
    /\ HashdAt("logging") /\ worker.step \notin {"none", "opening"}
    /\ Len(lines) < LogCapacity /\ logged.sent < MaxLines
    /\ lines' = Append(lines, logged.sent + 1) /\ logged' = [logged EXCEPT !.sent = @ + 1]
    /\ HashStill /\ UNCHANGED <<logDir, worker, spentFiles>>

DropLogger ==
    /\ HashdAt("logging") /\ worker.step \notin {"none", "opening"} /\ HashdGoto("closing")
    /\ LogStill /\ UNCHANGED <<testFiles, spentFiles>>

WorkerDone == WorkerAt("idle") /\ lines = <<>>
JoinWorker ==
    /\ HashdAt("closing") /\ WorkerDone /\ HashdGoto("down") /\ worker' = NoWorker /\ lines' = <<>>
    /\ UNCHANGED <<testFiles, logDir, logged, spentFiles>>

Kill ==
    /\ ~HashdAt("down") /\ LogFault /\ HashdGoto("down") /\ worker' = NoWorker /\ lines' = <<>>
    /\ UNCHANGED <<testFiles, logDir, logged>>

FilesNext ==
    \/ StartHashd \/ Clear \/ Setup \/ OpenLog
    \/ Receive \/ Rotate \/ Expire \/ Expired \/ Create \/ WriteLine
    \/ SendLine \/ DropLogger \/ JoinWorker \/ Kill
FilesSpec == FilesInit /\ [][FilesNext]_fileVars

(***************************************************************************)
(* What the files are good for.                                            *)
(***************************************************************************)

\* Whatever was interrupted before, and whatever it was for, rd-hashd reads only
\* test files that are whole and of the compressibility it was told.
FilesReady ==
    hashd.at \in Running =>
        \A i \in 0..(hashd.nr - 1) : testFiles[i] = [whole |-> TRUE, comp |-> hashd.comp]

\* The retention of the log: not counting archives that could not be removed,
\* there are fewer than nr_to_keep, what has been expired is older than all that
\* is left, in this life and the ones before it, and a logger that is dropped
\* has written all it was sent, where nothing failed.
OnDisk == {n \in DOMAIN logDir.old : n \notin logged.stuck}
LinesLeft == (UNION {ToSet(logDir.old[n]) : n \in OnDisk})
             \cup (IF logDir.cur = NoLog THEN {} ELSE ToSet(logDir.cur))
LogsKept ==
    /\ worker.step \in {"idle", "write"} => Cardinality(OnDisk) < Max({NrToKeep, 1})
    /\ \A l \in LinesLeft : l > logged.expired
    /\ HashdAt("down") /\ spentFiles.faults = 0 => (logged.expired + 1)..logged.sent \subseteq LinesLeft

\* Both, of a directory of rd-hashd that outlives it.
FilesSound == FilesReady /\ LogsKept
=============================================================================
