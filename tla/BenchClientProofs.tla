------------------------- MODULE BenchClientProofs -------------------------
(***************************************************************************)
(* Theorems about BenchClient, for every set of benchmarks, every choice of*)
(* faults and any number of agents and calls.                              *)
(*                                                                         *)
(* The inductive invariant IInv has three layers.  The first says what the *)
(* client's copies of the files may differ from the files in while its     *)
(* agent starts (ComingUp) and when it works (InTouch, AtBarrier).  The    *)
(* second says that nothing happens to a benchmark the job is not in the   *)
(* middle of: its number in cmd.json, in the agent and in bench.json agree *)
(* and neither a report nor a copy of one shows it (Quiet).  The third     *)
(* follows the one benchmark a job is in the middle of, from the request   *)
(* to the end of its unit: what number and which call it was asked for by  *)
(* (Request, Withdrawn), and what the report, the result and the client's  *)
(* copies of the two may show, given that the report is written and read   *)
(* before the result (Shown, Beginning, Running).                          *)
(***************************************************************************)
EXTENDS BenchClient, TLAPS

-----------------------------------------------------------------------------
(* Types.  The records carry more fields than TypeOK looks at.             *)

Cmds == [inst : Nat, cmd_seq : Nat, bench : [Kinds -> Nat], args : Nat,
         hashd : BOOLEAN]
Acks == [inst : Nat, cmd_seq : Nat]
Reports == [inst : Nat, state : States, hashd : BOOLEAN]
Results == [inst : Nat, seq : [Kinds -> Nat], by : [Kinds -> Nat]]
Files == [index : [inst : Nat], cmd : Cmds, ack : Acks, report : Reports,
          bench : Results]

Calm == {"ready", "barrier", "hashdOn", "hashdOff", "svc"}
Asked == {"begin", "result", "done", "cut"}
Began == {"result", "done", "cut", "end"}
Busy == Asked \cup {"end"}
Working == Calm \cup Busy

Mains == [pc : Working \cup {"down", "up", "stop", "drop", "join"},
          kind : Kinds \cup {"none"}, want : Nat,
          next : {"none", "ready", "hashdOn", "hashdOff"},
          req : Nat, calls : Nat, svc : BOOLEAN]
Agents == [life : {"off", "spawned", "reset", "loaded", "up", "dead"},
           cmd : Cmds, unread : BOOLEAN, pending : BOOLEAN, acked : BOOLEAN,
           state : States, unit : {"none", "running", "exited"}, run : Nat,
           hashd : BOOLEAN]

FilesTyped == disk \in Files /\ cl \in Files
SetsTyped == /\ young \subseteq FileNames /\ unread \subseteq FileNames
             /\ have \subseteq FileNames
             /\ svcs \subseteq Kinds \cup {"hashdA"}
PartiesTyped == /\ main \in Mains /\ agent \in Agents /\ minder \in MinderStates
                /\ inst \in Nat \ {0}

-----------------------------------------------------------------------------
(* What the job did not ask for is nowhere, and what runs it has asked for. *)

OnlyAsked ==
    /\ agent.unit = "running" => agent.state \in svcs
    /\ \A k \in Kinds \ svcs : /\ disk.cmd.bench[k] = 0
                               /\ cl.cmd.bench[k] = 0
                               /\ agent.cmd.bench[k] = 0
    /\ "hashdA" \notin svcs => /\ ~disk.cmd.hashd /\ ~cl.cmd.hashd
                               /\ ~agent.cmd.hashd /\ ~agent.hashd
KindKept ==
    /\ main.kind \in svcs \cup {"none"}
    /\ main.pc \in Busy \cup {"svc"} => main.kind \in Kinds
    /\ main.pc = "barrier" => main.next # "none"
Lives ==
    /\ main.pc = "down" => /\ agent.life = "off" /\ agent.unit # "running"
                           /\ ~agent.hashd /\ minder = Gone
    /\ main.pc = "join" => agent.life \in {"off", "dead"}
    /\ main.pc \in Working => agent.life \in {"up", "dead"}
    /\ main.pc = "up" => agent.life # "off"

-----------------------------------------------------------------------------
(* What the client has of the files.                                       *)

Coherent ==
    /\ have # {} => "index" \in have
    /\ "index" \notin unread => \A f \in have \ unread : cl[f] = disk[f]
    /\ disk.bench.inst > 0
    /\ \A k \in Kinds : cl.bench.seq[k] <= disk.bench.seq[k]

Numbered ==
    /\ disk.report.inst <= inst /\ cl.report.inst <= inst
    /\ agent.life \in {"spawned", "reset", "loaded"} =>
          disk.report.inst < inst /\ cl.report.inst < inst

Reported == agent.life = "up" \/ disk.report.inst = inst

ComingUp == main.pc = "up" =>
    /\ agent.life \in {"reset", "loaded", "up"} \/ Reported => disk.index.inst = inst
    /\ agent.life = "reset" => disk.cmd.inst = 0
    /\ agent.life \in {"loaded", "up"} =>
          agent.cmd = DefaultCmd(inst) /\ agent.state \notin Kinds
    /\ agent.life \in {"loaded", "up"} \/ Reported =>
          disk.cmd = DefaultCmd(inst) /\ disk.ack = DefaultAck(inst)
    /\ agent.life \in {"reset", "loaded", "up"} \/ Reported => "index" \in have \/ "index" \in unread
    /\ Reported => young \subseteq {"report"}
    /\ disk.report.inst = inst => disk.report.state \notin Kinds
    /\ (Reported /\ Refreshing) \/ cl.report.inst = inst =>
          {"index", "cmd", "ack"} \subseteq have \ unread
    /\ cl.report.inst = inst =>
          /\ disk.report.inst = inst /\ "report" \in have
          /\ minder.pc = "bench" \/ "bench" \in have \ unread

-----------------------------------------------------------------------------
(* A working client and its agent.                                         *)

InTouch == main.pc \in Working =>
    /\ "index" \notin unread /\ have = FileNames
    /\ cl.cmd = disk.cmd /\ disk.report.inst = inst
    /\ cl.ack.cmd_seq <= disk.ack.cmd_seq
    /\ agent.life = "up" =>
          /\ agent.unread \/ agent.cmd = disk.cmd
          /\ agent.cmd.cmd_seq <= disk.cmd.cmd_seq
          /\ disk.ack.cmd_seq <= agent.cmd.cmd_seq
AtBarrier == main.pc = "barrier" =>
    /\ main.want = disk.cmd.cmd_seq
    /\ agent.life = "up" /\ agent.cmd # disk.cmd => agent.cmd.cmd_seq < main.want

AgentSound ==
    /\ agent.life \in {"spawned", "reset"} => agent.state = "Idle"
    /\ Alive /\ agent.state \in Kinds =>
          /\ ~agent.hashd /\ agent.unit # "none"
          /\ ~agent.pending => agent.cmd.bench[agent.state] > disk.bench.seq[agent.state]

-----------------------------------------------------------------------------
(* The benchmarks.                                                         *)

Quiet(k) ==
    /\ disk.cmd.bench[k] <= disk.bench.seq[k]
    /\ Alive => agent.cmd.bench[k] <= disk.bench.seq[k] /\ agent.state # k
    /\ disk.report.state # k /\ cl.report.state # k
    /\ cl.bench.seq[k] = disk.bench.seq[k]

OthersQuiet ==
    /\ main.pc \in Calm => \A k \in Kinds : Quiet(k)
    /\ main.pc \in Busy => \A k \in Kinds \ {main.kind} : Quiet(k)

(* The number asked for. *)
Number == disk.cmd.bench[main.kind]
Seq == disk.bench.seq[main.kind]
Lagging == cl.bench.seq[main.kind] # Seq

Request == main.pc \in Asked =>
    /\ Seq \in {Number - 1, Number} /\ disk.cmd.args = main.req
    /\ main.pc = "begin" => main.want = Number
    /\ Seq = Number => disk.bench.by[main.kind] = main.req
    /\ cl.bench.seq[main.kind] = Number => cl.bench.by[main.kind] = main.req
    /\ main.pc = "done" => cl.bench.seq[main.kind] = Number
    /\ Alive /\ agent.cmd.bench[main.kind] > Seq =>
          agent.cmd.bench[main.kind] = Number /\ agent.cmd.args = main.req
    /\ Alive /\ agent.state = main.kind =>
          agent.cmd.bench[main.kind] = Number /\ Seq = Number - 1 /\ agent.run = main.req

Withdrawn == main.pc = "end" => disk.cmd.bench[main.kind] <= Seq

Shown == main.pc \in Busy =>
    /\ Alive /\ agent.state = main.kind /\ disk.report.state = main.kind =>
          disk.report = [inst |-> inst, state |-> main.kind, hashd |-> FALSE]
    /\ Lagging /\ disk.report.state # main.kind /\ "bench" \in young => "report" \in young

Beginning == main.pc = "begin" =>
    /\ Alive /\ agent.state # main.kind
          /\ main.kind \in {cl.report.state, disk.report.state} => Seq = Number
    /\ Alive /\ agent.state = main.kind =>
          /\ cl.report.state = main.kind => disk.report.state = main.kind
          /\ agent.unit = "exited" =>
                /\ disk.report.state = main.kind
                /\ "report" \notin young
                /\ minder.pc = "bench" => cl.report.state = main.kind
    /\ disk.report.state = main.kind /\ Seq = Number /\ cl.report.state # main.kind =>
          /\ minder.pc # "bench" /\ "report" \notin young
          /\ cl.bench.seq[main.kind] # Number

Running == main.pc \in Began =>
    /\ Alive /\ agent.state # main.kind =>
          agent.cmd.bench[main.kind] <= Seq /\ Number <= Seq
    /\ Alive /\ agent.state = main.kind =>
          disk.report.state = main.kind /\ cl.report.state = main.kind
    /\ disk.report.state = main.kind => cl.report.state = main.kind
    /\ Lagging => \/ cl.report.state = main.kind
                  \/ minder.pc = "bench" /\ "bench" \notin young

BenchInv == OthersQuiet /\ Request /\ Withdrawn /\ Shown /\ Beginning /\ Running
-----------------------------------------------------------------------------
(* What a refresh may do to the client's copies.                           *)

LEMMA ConstantsTyped ==
    /\ Zeros \in [Kinds -> Nat] /\ NoResults \in Results /\ NoReport \in Reports
    /\ \A i \in Nat : DefaultCmd(i) \in Cmds /\ DefaultAck(i) \in Acks
    /\ NoFiles \in Files /\ AgentOff \in Agents /\ Idle \in Mains
    /\ Asleep \in MinderStates /\ Gone \in MinderStates
    /\ \A last \in BOOLEAN : /\ [pc |-> "last", last |-> last] \in MinderStates
                             /\ [pc |-> "report", last |-> last] \in MinderStates
                             /\ [pc |-> "bench", last |-> last] \in MinderStates
<1>1. Zeros \in [Kinds -> Nat]
  BY DEF Zeros
<1>2. NoResults \in Results /\ NoReport \in Reports
  BY <1>1 DEF NoResults, Results, NoReport, Reports, States
<1>3. \A i \in Nat : DefaultCmd(i) \in Cmds /\ DefaultAck(i) \in Acks
  BY <1>1 DEF DefaultCmd, Cmds, DefaultAck, Acks
<1>4. NoFiles \in Files
  BY <1>2, <1>3 DEF NoFiles, Files
<1>5. AgentOff \in Agents
  BY <1>3 DEF AgentOff, Agents, States
<1>6. Idle \in Mains
  BY DEF Idle, Mains, Working, Calm, Busy, Began, Asked
<1>7. Asleep \in MinderStates /\ Gone \in MinderStates
  BY DEF Asleep, Gone, MinderStates
<1>8. \A last \in BOOLEAN : /\ [pc |-> "last", last |-> last] \in MinderStates
                            /\ [pc |-> "report", last |-> last] \in MinderStates
                            /\ [pc |-> "bench", last |-> last] \in MinderStates
  BY DEF MinderStates
<1> QED
  BY <1>1, <1>2, <1>3, <1>4, <1>5, <1>6, <1>7, <1>8

(* A refresh copies whole files, or forgets them with the old index.       *)
LEMMA RefreshedFields ==
    ASSUME FilesTyped, SetsTyped, NEW files \in SUBSET FileNames, RefreshOne(files)
    PROVE  /\ cl'.index \in {cl.index, disk.index}
           /\ cl'.cmd \in {cl.cmd, disk.cmd, DefaultCmd(0)}
           /\ cl'.ack \in {cl.ack, disk.ack, DefaultAck(0)}
           /\ cl'.report \in {cl.report, disk.report, NoReport}
           /\ cl'.bench \in {cl.bench, disk.bench, NoResults}
           /\ cl' \in Files
           /\ have' \subseteq FileNames /\ unread' \subseteq unread
           /\ unread' \subseteq FileNames
<1> DEFINE renewed == "index" \in files /\ Loadable("index", have)
           kept == IF renewed THEN [NoFiles EXCEPT !.index = disk.index] ELSE cl
           paths == IF renewed THEN {"index"} ELSE have
           new == {f \in files \ {"index"} : "index" \in paths /\ Loadable(f, paths)}
<1>1. /\ cl' = [f \in FileNames |-> IF f \in new THEN disk[f] ELSE kept[f]]
      /\ have' = paths \cup new
      /\ unread' = unread \ (IF renewed THEN new \cup {"index"} ELSE new)
  BY Zenon DEF RefreshOne
<1>2. have' \subseteq FileNames /\ unread' \subseteq unread /\ unread' \subseteq FileNames
  BY <1>1 DEF SetsTyped, FileNames
<1>3. kept \in Files /\ kept.index \in {cl.index, disk.index}
      /\ kept.cmd \in {cl.cmd, DefaultCmd(0)} /\ kept.ack \in {cl.ack, DefaultAck(0)}
      /\ kept.report \in {cl.report, NoReport} /\ kept.bench \in {cl.bench, NoResults}
  BY ConstantsTyped DEF FilesTyped, Files, NoFiles
<1> HIDE DEF kept, new
<1>4. /\ cl'["index"] \in {disk.index, kept.index} /\ cl'["cmd"] \in {disk.cmd, kept.cmd}
      /\ cl'["ack"] \in {disk.ack, kept.ack} /\ cl'["report"] \in {disk.report, kept.report}
      /\ cl'["bench"] \in {disk.bench, kept.bench}
  BY <1>1 DEF FileNames
<1>5. \A f \in FileNames : cl'[f] \in {disk[f], kept[f]}
  BY <1>1
<1>6. cl' \in Files
  BY <1>1, <1>3, <1>4 DEF FileNames, FilesTyped, Files
<1> QED
  BY <1>2, <1>3, <1>4, <1>6 DEF Files

(* A client whose index is read loads just the files it may load.          *)
LEMMA RefreshedInTouch ==
    ASSUME FilesTyped, SetsTyped, NEW files \in SUBSET FileNames, RefreshOne(files),
           "index" \in have \ unread
    PROVE  LET new == {f \in files \ {"index"} : Loadable(f, have)}
           IN  /\ cl'.index = cl.index
               /\ cl'.cmd = IF "cmd" \in new THEN disk.cmd ELSE cl.cmd
               /\ cl'.ack = IF "ack" \in new THEN disk.ack ELSE cl.ack
               /\ cl'.report = IF "report" \in new THEN disk.report ELSE cl.report
               /\ cl'.bench = IF "bench" \in new THEN disk.bench ELSE cl.bench
               /\ have' = have \cup new /\ unread' = unread \ new
<1>1. ~Loadable("index", have)
  BY DEF Loadable
<1> DEFINE new == {f \in files \ {"index"} : Loadable(f, have)}
<1>2. /\ cl' = [f \in FileNames |-> IF f \in new THEN disk[f] ELSE cl[f]]
      /\ have' = have \cup new /\ unread' = unread \ new
  BY <1>1 DEF RefreshOne
<1>3. "index" \notin new
  OBVIOUS
<1> HIDE DEF new
<1>4. /\ cl'["index"] = cl.index
      /\ cl'["cmd"] = IF "cmd" \in new THEN disk.cmd ELSE cl.cmd
      /\ cl'["ack"] = IF "ack" \in new THEN disk.ack ELSE cl.ack
      /\ cl'["report"] = IF "report" \in new THEN disk.report ELSE cl.report
      /\ cl'["bench"] = IF "bench" \in new THEN disk.bench ELSE cl.bench
  BY <1>2, <1>3 DEF FileNames
<1> QED
  BY <1>2, <1>4 DEF new

(* What a save changes, once the path of cmd.json is known.                *)
LEMMA SavedFields ==
    ASSUME FilesTyped, SetsTyped, PartiesTyped, NEW cmd \in Cmds, SaveCmd(cmd)
    PROVE  /\ cl' \in Files /\ cl'.cmd = cmd
           /\ cl'.index = cl.index /\ cl'.ack = cl.ack
           /\ cl'.report = cl.report /\ cl'.bench = cl.bench
           /\ disk' \in Files /\ disk'.cmd \in {disk.cmd, cmd}
           /\ "cmd" \in have => disk'.cmd = cmd
           /\ disk'.index = disk.index /\ disk'.ack = disk.ack
           /\ disk'.report = disk.report /\ disk'.bench = disk.bench
           /\ agent' \in Agents /\ agent' \in {agent, [agent EXCEPT !.unread = Alive]}
           /\ "cmd" \in have => agent' = [agent EXCEPT !.unread = Alive]
           /\ young' \subseteq young \cup {"cmd"} /\ young \subseteq young'
           /\ unread' \subseteq unread \cup {"cmd"} /\ unread \subseteq unread'
           /\ young' \subseteq FileNames /\ unread' \subseteq FileNames
           /\ have' = have
<1>1. cl' = [cl EXCEPT !.cmd = cmd] /\ have' = have
  BY DEF SaveCmd
<1>2. Alive \in BOOLEAN
  BY DEF Alive
<1>3. CASE "cmd" \in have
  <2>1. /\ disk' = [disk EXCEPT !.cmd = cmd] /\ young' = young \cup {"cmd"}
        /\ unread' = unread \cup {"cmd"} /\ agent' = [agent EXCEPT !.unread = Alive]
    BY <1>3 DEF SaveCmd
  <2>2. [agent EXCEPT !.unread = Alive] \in Agents
    BY <1>2 DEF PartiesTyped, Agents
  <2> QED
    BY <1>1, <2>1, <2>2 DEF FilesTyped, Files, SetsTyped, FileNames
<1>4. CASE "cmd" \notin have
  <2>1. UNCHANGED <<disk, young, unread, agent>>
    BY <1>4 DEF SaveCmd
  <2> QED
    BY <1>1, <1>4, <2>1 DEF FilesTyped, Files, SetsTyped, PartiesTyped
<1> QED
  BY <1>3, <1>4

(* The commands every call of the client saves are well formed.            *)
LEMMA CommandsChanged ==
    ASSUME NEW c \in Cmds, NEW n \in Nat, NEW b \in BOOLEAN, NEW k \in Kinds, NEW m \in Nat
    PROVE  /\ [c EXCEPT !.cmd_seq = n, !.hashd = b] \in Cmds
           /\ [c EXCEPT !.bench[k] = n, !.args = m] \in Cmds
           /\ [c EXCEPT !.cmd_seq = n, !.bench[k] = m] \in Cmds
<1>1. [c EXCEPT !.cmd_seq = n, !.hashd = b] \in Cmds
  BY DEF Cmds
<1>2. [c.bench EXCEPT ![k] = n] \in [Kinds -> Nat] /\ [c.bench EXCEPT ![k] = m] \in [Kinds -> Nat]
  BY DEF Cmds
<1>3. [c EXCEPT !.bench = [c.bench EXCEPT ![k] = n], !.args = m] \in Cmds
  BY <1>2 DEF Cmds
<1>4. [c EXCEPT !.cmd_seq = n, !.bench = [c.bench EXCEPT ![k] = m]] \in Cmds
  BY <1>2 DEF Cmds
<1> QED
  BY <1>1, <1>3, <1>4

(* What each call saves.                                                   *)
LEMMA ConfigureSaves ==
    ASSUME FilesTyped, NEW initFns \in BOOLEAN, Configure(initFns)
    PROVE  \E seq \in Nat : /\ seq > cl.cmd.cmd_seq
                            /\ [cl.cmd EXCEPT !.cmd_seq = seq] \in Cmds
                            /\ SaveCmd([cl.cmd EXCEPT !.cmd_seq = seq])
                            /\ main' = IF initFns THEN [main EXCEPT !.pc = "barrier",
                                                      !.want = seq, !.next = "ready"]
                                       ELSE [main EXCEPT !.pc = "ready"]
<1>1. cl.cmd \in Cmds
  BY DEF FilesTyped, Files
<1>2. \A seq \in Nat : [cl.cmd EXCEPT !.cmd_seq = seq] \in Cmds
  BY <1>1 DEF Cmds
<1> DEFINE seq == cl.cmd.cmd_seq + (IF initFns THEN 3 ELSE 1)
<1>3. seq \in Nat /\ seq > cl.cmd.cmd_seq
  BY <1>1 DEF Cmds
<1>4. SaveCmd([cl.cmd EXCEPT !.cmd_seq = seq])
      /\ main' = IF initFns THEN [main EXCEPT !.pc = "barrier", !.want = seq, !.next = "ready"]
                 ELSE [main EXCEPT !.pc = "ready"]
  BY DEF Configure
<1> QED
  BY <1>2, <1>3, <1>4

LEMMA StartBenchSaves ==
    ASSUME FilesTyped, PartiesTyped, NEW k \in Kinds, StartBench(k)
    PROVE  LET cmd == [cl.cmd EXCEPT !.bench[k] = cl.bench.seq[k] + 1,
                                     !.args = main.calls + 1]
           IN  cmd \in Cmds /\ SaveCmd(cmd)
<1>1. cl.cmd \in Cmds /\ cl.bench \in Results /\ main \in Mains
  BY DEF FilesTyped, Files, PartiesTyped
<1>2. cl.bench.seq[k] + 1 \in Nat /\ main.calls + 1 \in Nat
  BY SMTT(20), <1>1 DEF Results, Mains
<1> QED
  BY <1>1, <1>2, CommandsChanged DEF StartBench

LEMMA StopBenchSaves ==
    ASSUME FilesTyped, KindKept, StopBench
    PROVE  LET cmd == [cl.cmd EXCEPT !.cmd_seq = cl.cmd.cmd_seq + 1,
                                     !.bench[main.kind] = cl.bench.seq[main.kind]]
           IN  cmd \in Cmds /\ SaveCmd(cmd)
<1>1. cl.cmd \in Cmds /\ cl.bench \in Results
  BY DEF FilesTyped, Files
<1>2. main.kind \in Kinds
  BY DEF KindKept, StopBench, Busy, Began, Asked
<1>3. cl.bench.seq[main.kind] \in Nat /\ cl.cmd.cmd_seq + 1 \in Nat
  BY <1>1, <1>2 DEF Results, Cmds
<1> QED
  BY <1>1, <1>2, <1>3, CommandsChanged DEF StopBench

LEMMA SwitchHashdSaves ==
    ASSUME FilesTyped, NEW on \in BOOLEAN, SwitchHashd(on)
    PROVE  LET cmd == [cl.cmd EXCEPT !.cmd_seq = cl.cmd.cmd_seq + 2, !.hashd = on]
           IN  cmd \in Cmds /\ SaveCmd(cmd)
<1>1. cl.cmd \in Cmds
  BY DEF FilesTyped, Files
<1>2. cl.cmd.cmd_seq + 2 \in Nat
  BY <1>1 DEF Cmds
<1>3. [cl.cmd EXCEPT !.cmd_seq = cl.cmd.cmd_seq + 2, !.hashd = on] \in Cmds
  BY <1>1, <1>2 DEF Cmds
<1> QED
  BY <1>3 DEF SwitchHashd

(* A call of the client leaves everything well formed.                      *)
LEMMA SavesTyped ==
    ASSUME FilesTyped, SetsTyped, PartiesTyped, KindKept,
           \/ \E initFns \in BOOLEAN : Configure(initFns)
           \/ \E k \in Kinds : StartBench(k)
           \/ StopBench \/ StartHashd \/ StopHashd
    PROVE  /\ FilesTyped' /\ agent' \in Agents
           /\ young' \subseteq FileNames /\ unread' \subseteq FileNames /\ have' = have
<1>1. PICK cmd \in Cmds : SaveCmd(cmd)
  BY ConfigureSaves, StartBenchSaves, StopBenchSaves, SwitchHashdSaves
     DEF StartHashd, StopHashd
<1> QED
  BY <1>1, SavedFields DEF FilesTyped

(* What the agent writes.                                                  *)
LEMMA WrittenFields ==
    ASSUME FilesTyped, NEW f \in {"ack", "report", "bench"}, NEW c, Write(f, c)
    PROVE  /\ disk'.index = disk.index /\ disk'.cmd = disk.cmd
           /\ disk'.ack = IF f = "ack" THEN c ELSE disk.ack
           /\ disk'.report = IF f = "report" THEN c ELSE disk.report
           /\ disk'.bench = IF f = "bench" THEN c ELSE disk.bench
           /\ young' = young \cup {f} /\ unread' = unread \cup {f}
<1>1. /\ disk' = [disk EXCEPT ![f] = c] /\ young' = young \cup {f}
      /\ unread' = unread \cup {f}
  BY DEF Write
<1>2. CASE f = "ack"
  BY <1>1, <1>2 DEF FilesTyped, Files
<1>3. CASE f = "report"
  BY <1>1, <1>3 DEF FilesTyped, Files
<1>4. CASE f = "bench"
  BY <1>1, <1>4 DEF FilesTyped, Files
<1> QED
  BY <1>2, <1>3, <1>4

LEMMA AckWritten ==
    ASSUME FilesTyped, SetsTyped, PartiesTyped, AgentAck
    PROVE  /\ Alive /\ agent' = [agent EXCEPT !.acked = TRUE]
           /\ disk'.index = disk.index /\ disk'.cmd = disk.cmd
           /\ disk'.report = disk.report /\ disk'.bench = disk.bench
           /\ disk'.ack = [inst |-> inst, cmd_seq |-> agent.cmd.cmd_seq]
           /\ \/ disk'.ack # disk.ack /\ young' = young \cup {"ack"} /\ unread' = unread \cup {"ack"}
              \/ disk'.ack = disk.ack /\ young' = young /\ unread' = unread
<1> DEFINE ack == [inst |-> inst, cmd_seq |-> agent.cmd.cmd_seq]
<1>1. Alive /\ agent' = [agent EXCEPT !.acked = TRUE]
  BY DEF AgentAck
<1>2. CASE disk.ack = ack
  BY <1>1, <1>2 DEF AgentAck
<1>3. CASE disk.ack # ack
  <2>1. Write("ack", ack)
    BY <1>3 DEF AgentAck
  <2> QED
    BY <1>1, <1>3, <2>1, WrittenFields
<1> QED
  BY <1>2, <1>3

LEMMA ReportWritten ==
    ASSUME FilesTyped, SetsTyped, PartiesTyped, AgentReport
    PROVE  /\ agent.life = "up" /\ disk'.index = disk.index /\ disk'.cmd = disk.cmd
           /\ disk'.ack = disk.ack /\ disk'.bench = disk.bench
           /\ disk'.report = [inst |-> inst, state |-> agent.state, hashd |-> agent.hashd]
           /\ disk'.report # disk.report
           /\ young' = young \cup {"report"} /\ unread' = unread \cup {"report"}
<1> DEFINE report == [inst |-> inst, state |-> agent.state, hashd |-> agent.hashd]
<1>1. agent.life = "up" /\ report # disk.report /\ Write("report", report)
  BY DEF AgentReport
<1> QED
  BY <1>1, WrittenFields

LEMMA ResultWritten ==
    ASSUME FilesTyped, SetsTyped, PartiesTyped, AgentComplete
    PROVE  /\ Alive /\ ~agent.pending /\ ~agent.acked
           /\ agent.state \in Kinds /\ agent.unit # "running"
           /\ agent' = [agent EXCEPT !.state = "Idle", !.unit = "none", !.run = 0]
           /\ disk'.index = disk.index /\ disk'.cmd = disk.cmd
           /\ disk'.ack = disk.ack /\ disk'.report = disk.report
           /\ agent.unit # "exited" =>
                 disk'.bench = disk.bench /\ young' = young /\ unread' = unread
           /\ agent.unit = "exited" =>
                 /\ disk'.bench = [disk.bench EXCEPT !.seq[agent.state] = agent.cmd.bench[agent.state],
                                                     !.by[agent.state] = agent.run]
                 /\ young' = young \cup {"bench"} /\ unread' = unread \cup {"bench"}
<1>1. /\ Alive /\ ~agent.pending /\ ~agent.acked
      /\ agent.state \in Kinds /\ agent.unit # "running"
      /\ agent' = [agent EXCEPT !.state = "Idle", !.unit = "none", !.run = 0]
  BY DEF AgentComplete
<1>2. CASE agent.unit # "exited"
  BY <1>1, <1>2 DEF AgentComplete
<1>3. CASE agent.unit = "exited"
  <2> DEFINE results == [disk.bench EXCEPT !.seq[agent.state] = agent.cmd.bench[agent.state],
                                           !.by[agent.state] = agent.run]
  <2>1. Write("bench", results)
    BY <1>3 DEF AgentComplete
  <2> HIDE DEF results
  <2>2. /\ disk'.index = disk.index /\ disk'.cmd = disk.cmd
        /\ disk'.ack = disk.ack /\ disk'.report = disk.report
        /\ disk'.bench = results
        /\ young' = young \cup {"bench"} /\ unread' = unread \cup {"bench"}
    BY <2>1, WrittenFields
  <2> QED
    BY <1>1, <1>3, <2>2 DEF results
<1> QED
  BY <1>2, <1>3

(* What the agent becomes when it applies its commands.                    *)
LEMMA Applied ==
    ASSUME PartiesTyped, AgentApply
    PROVE  /\ Alive /\ agent'.life = agent.life /\ agent'.cmd = agent.cmd
           /\ agent'.unread = agent.unread /\ ~agent'.pending /\ ~agent'.acked
           /\ \/ /\ Requested # {} /\ agent.state = "Idle"
                 /\ agent'.state = Preferred /\ agent'.unit = "running"
                 /\ agent'.run = agent.cmd.args /\ agent'.hashd = FALSE
              \/ /\ Requested = {} /\ agent.state \in {"Idle", "Running"}
                 /\ agent'.state = "Running" /\ agent'.unit = "none"
                 /\ agent'.hashd = agent.cmd.hashd
              \/ /\ agent.state \in Requested /\ agent'.state = agent.state
                 /\ agent'.unit = agent.unit /\ agent'.run = agent.run
                 /\ agent'.hashd = agent.hashd
              \/ /\ agent.state \notin Requested /\ agent'.state = "Idle"
                 /\ agent'.unit = "none" /\ agent'.hashd = FALSE
<1> DEFINE kept == [agent EXCEPT !.pending = FALSE, !.acked = FALSE]
           idle == [kept EXCEPT !.state = "Idle", !.unit = "none",
                                !.run = 0, !.hashd = FALSE]
<1>1. /\ kept.life = agent.life /\ kept.cmd = agent.cmd /\ kept.unread = agent.unread
      /\ ~kept.pending /\ ~kept.acked /\ kept.state = agent.state
      /\ kept.unit = agent.unit /\ kept.run = agent.run /\ kept.hashd = agent.hashd
      /\ DOMAIN kept = DOMAIN agent
  BY DEF PartiesTyped, Agents
<1>2. /\ idle.life = agent.life /\ idle.cmd = agent.cmd /\ idle.unread = agent.unread
      /\ ~idle.pending /\ ~idle.acked /\ idle.state = "Idle"
      /\ idle.unit = "none" /\ idle.run = 0 /\ idle.hashd = FALSE
      /\ DOMAIN idle = DOMAIN agent
  BY DEF PartiesTyped, Agents
<1>3. Alive
  BY DEF AgentApply
<1>4. CASE agent.state = "Idle" /\ Requested # {}
  <2>0. agent.state \notin Requested
    BY <1>4, KindsAssumption DEF Requested
  <2>1. agent' = [idle EXCEPT !.state = Preferred, !.unit = "running",
                              !.run = agent.cmd.args]
    BY <1>4, <2>0, Zenon DEF AgentApply
  <2> HIDE DEF idle
  <2> QED
    BY <1>2, <1>3, <1>4, <2>1 DEF PartiesTyped, Agents
<1>5. CASE agent.state \in {"Idle", "Running"} /\ Requested = {}
  <2>1. agent' = [idle EXCEPT !.state = "Running", !.hashd = agent.cmd.hashd]
    BY <1>5, Zenon DEF AgentApply
  <2> HIDE DEF idle
  <2> QED
    BY <1>2, <1>3, <1>5, <2>1 DEF PartiesTyped, Agents
<1>6. CASE agent.state \in Requested
  <2>1. agent.state \notin {"Idle", "Running"}
    BY <1>6, KindsAssumption DEF Requested
  <2>2. agent' = kept
    BY <1>6, <2>1, Zenon DEF AgentApply
  <2> HIDE DEF kept
  <2> QED
    BY <1>1, <1>3, <1>6, <2>2
<1>7. CASE /\ ~(agent.state = "Idle" /\ Requested # {})
           /\ ~(agent.state \in {"Idle", "Running"} /\ Requested = {})
           /\ agent.state \notin Requested
  <2>1. agent' = idle
    BY <1>7, Zenon DEF AgentApply
  <2> HIDE DEF idle
  <2> QED
    BY <1>2, <1>3, <1>7, <2>1
<1> QED
  BY <1>4, <1>5, <1>6, <1>7

-----------------------------------------------------------------------------
(* Types.                                                                  *)

LEMMA FilesTypedStep ==
    ASSUME FilesTyped, SetsTyped, PartiesTyped, KindKept,
           Next
    PROVE  FilesTyped'
<1>f. ASSUME UNCHANGED <<disk, cl>> PROVE FilesTyped'
  BY <1>f DEF FilesTyped
<1>1. CASE MinderTick
  BY <1>1, RefreshedFields DEF MinderTick, RefreshCommands, RefreshPart,
     FileNames, FilesTyped, clientVars, minderVars
<1>2. CASE MinderLastRefresh
  BY <1>2, RefreshedFields DEF MinderLastRefresh, RefreshCommands,
     RefreshPart, FileNames, FilesTyped, clientVars, minderVars
<1>3. ASSUME NEW last \in BOOLEAN, MinderReport(last) PROVE FilesTyped'
  BY <1>3, RefreshedFields DEF MinderReport, RefreshCommands, RefreshPart,
     FileNames, FilesTyped, clientVars, minderVars
<1>4. ASSUME NEW last \in BOOLEAN, MinderBench(last) PROVE FilesTyped'
  BY <1>4, RefreshedFields DEF MinderBench, RefreshCommands, RefreshPart,
     FileNames, FilesTyped, clientVars, minderVars
<1>5. ASSUME NEW initFns \in BOOLEAN, Configure(initFns) PROVE FilesTyped'
  BY <1>5, SavesTyped
<1>6. ASSUME NEW k \in Kinds, StartBench(k) PROVE FilesTyped'
  BY <1>6, SavesTyped
<1>7. CASE StopBench
  BY <1>7, SavesTyped
<1>8. CASE StartHashd
  BY <1>8, SavesTyped
<1>9. CASE StopHashd
  BY <1>9, SavesTyped
<1>10. CASE AgentReset
  <2>1. disk' = [disk EXCEPT !.index = [disk.index EXCEPT !.inst = inst],
                                !.cmd = DefaultCmd(0)] /\ cl' = cl
    BY <1>10 DEF AgentReset
  <2> QED
    BY <2>1, ConstantsTyped DEF FilesTyped, Files, PartiesTyped
<1>11. CASE AgentLoad
  BY <1>11, ConstantsTyped DEF AgentLoad, FilesTyped, Files, PartiesTyped,
     clientVars, minderVars
<1>12. CASE AgentAck
  <2>1. PICK c \in Acks : disk' \in {disk, [disk EXCEPT !.ack = c]}
    <3>1. [inst |-> inst, cmd_seq |-> agent.cmd.cmd_seq] \in Acks
      BY DEF PartiesTyped, Agents, Cmds, Acks
    <3> QED
      BY <1>12, <3>1 DEF AgentAck, Write
  <2> QED
    BY <1>12, <2>1 DEF AgentAck, FilesTyped, Files, clientVars, minderVars
<1>13. CASE AgentComplete
  <2>1. PICK c \in Results : disk' \in {disk, [disk EXCEPT !.bench = c]}
    <3>1. [disk.bench EXCEPT !.seq[agent.state] = agent.cmd.bench[agent.state],
                           !.by[agent.state] = agent.run] \in Results
      BY <1>13 DEF AgentComplete, PartiesTyped, FilesTyped, Files, Agents,
         Cmds, Results
    <3> QED
      BY <1>13, <3>1 DEF AgentComplete, Write
  <2> QED
    BY <1>13, <2>1 DEF AgentComplete, FilesTyped, Files, clientVars, minderVars
<1>14. CASE AgentReport
  <2>1. PICK c \in Reports : disk' \in {disk, [disk EXCEPT !.report = c]}
    <3>1. [inst |-> inst, state |-> agent.state, hashd |-> agent.hashd] \in Reports
      BY DEF PartiesTyped, Agents, Reports
    <3> QED
      BY <1>14, <3>1 DEF AgentReport, Write
  <2> QED
    BY <1>14, <2>1 DEF AgentReport, FilesTyped, Files, clientVars, minderVars
<1>15. CASE StartAgent \/ WaitAgain \/ BarrierPassed \/ BenchBegan \/
           ResultArrived \/ BenchEnded \/ HashdSwitched \/ WaitFails \/
           CutShort \/ StopSvc \/ Finish \/ TakeAgent \/ DropAgent \/
           JoinMinder \/ HalfSecond \/ AgentReload \/ AgentApply \/ BenchExits
           \/ AgentDies \/ Settle
  BY <1>f, <1>15 DEF StartAgent, clientVars, minderVars, WaitAgain, GiveUp,
     BarrierPassed, BenchBegan, ResultArrived, BenchEnded, HashdSwitched,
     WaitFails, CutShort, StopSvc, Finish, TakeAgent, DropAgent, JoinMinder,
     HalfSecond, AgentReload, AgentApply, BenchExits, AgentDies, Settle
<1> QED
  BY <1>1, <1>2, <1>3, <1>4, <1>5, <1>6, <1>7, <1>8, <1>9, <1>10, <1>11,
     <1>12, <1>13, <1>14, <1>15 DEF Next, Minder, Main, Agent, System, Wait,
     StopAgent

LEMMA SetsTypedStep ==
    ASSUME FilesTyped, SetsTyped, PartiesTyped, KindKept,
           Next
    PROVE  SetsTyped'
<1>f. ASSUME UNCHANGED <<young, unread, have, svcs>> PROVE SetsTyped'
  BY <1>f DEF SetsTyped
<1>1. CASE MinderTick
  BY <1>1, RefreshedFields DEF MinderTick, RefreshCommands, RefreshPart,
     FileNames, SetsTyped, clientVars, minderVars
<1>2. CASE MinderLastRefresh
  BY <1>2, RefreshedFields DEF MinderLastRefresh, RefreshCommands,
     RefreshPart, FileNames, SetsTyped, clientVars, minderVars
<1>3. ASSUME NEW last \in BOOLEAN, MinderReport(last) PROVE SetsTyped'
  BY <1>3, RefreshedFields DEF MinderReport, RefreshCommands, RefreshPart,
     FileNames, SetsTyped, clientVars, minderVars
<1>4. ASSUME NEW last \in BOOLEAN, MinderBench(last) PROVE SetsTyped'
  BY <1>4, RefreshedFields DEF MinderBench, RefreshCommands, RefreshPart,
     FileNames, SetsTyped, clientVars, minderVars
<1>5. ASSUME NEW initFns \in BOOLEAN, Configure(initFns) PROVE SetsTyped'
  BY <1>5, SavesTyped DEF Configure, SetsTyped, clientVars, minderVars
<1>6. ASSUME NEW k \in Kinds, StartBench(k) PROVE SetsTyped'
  BY <1>6, SavesTyped DEF StartBench, SetsTyped, clientVars, minderVars
<1>7. CASE StopBench
  BY <1>7, SavesTyped DEF StopBench, SetsTyped, clientVars, minderVars
<1>8. CASE StartHashd
  BY <1>8, SavesTyped DEF StartHashd, SwitchHashd, SetsTyped, clientVars,
     minderVars
<1>9. CASE StopHashd
  BY <1>9, SavesTyped DEF StopHashd, SwitchHashd, SetsTyped, clientVars,
     minderVars
<1>10. CASE AgentReset
  BY <1>10 DEF AgentReset, Write, SetsTyped, FileNames, clientVars, minderVars
<1>11. CASE AgentLoad
  BY <1>11 DEF AgentLoad, Write, SetsTyped, FileNames, clientVars, minderVars
<1>12. CASE AgentAck
  BY <1>12 DEF AgentAck, Write, SetsTyped, FileNames, clientVars, minderVars
<1>13. CASE AgentComplete
  BY <1>13 DEF AgentComplete, Write, SetsTyped, FileNames, clientVars,
     minderVars
<1>14. CASE AgentReport
  BY <1>14 DEF AgentReport, Write, SetsTyped, FileNames, clientVars,
     minderVars
<1>15. CASE Settle
  BY <1>15 DEF Settle, Write, SetsTyped, FileNames, clientVars, minderVars
<1>16. CASE StartAgent \/ WaitAgain \/ BarrierPassed \/ BenchBegan \/
           ResultArrived \/ BenchEnded \/ HashdSwitched \/ WaitFails \/
           CutShort \/ StopSvc \/ Finish \/ TakeAgent \/ DropAgent \/
           JoinMinder \/ HalfSecond \/ AgentReload \/ AgentApply \/ BenchExits
           \/ AgentDies
  BY <1>f, <1>16 DEF StartAgent, clientVars, minderVars, WaitAgain, GiveUp,
     BarrierPassed, BenchBegan, ResultArrived, BenchEnded, HashdSwitched,
     WaitFails, CutShort, StopSvc, Finish, TakeAgent, DropAgent, JoinMinder,
     HalfSecond, AgentReload, AgentApply, BenchExits, AgentDies
<1> QED
  BY <1>1, <1>2, <1>3, <1>4, <1>5, <1>6, <1>7, <1>8, <1>9, <1>10, <1>11,
     <1>12, <1>13, <1>14, <1>15, <1>16 DEF Next, Minder, Main, Agent, System,
     Wait, StopAgent

LEMMA PartiesTypedStep ==
    ASSUME FilesTyped, SetsTyped, PartiesTyped, KindKept,
           Next
    PROVE  PartiesTyped'
<1>f. ASSUME UNCHANGED <<main, agent, minder, inst>> PROVE PartiesTyped'
  BY <1>f DEF PartiesTyped
<1>1. CASE MinderTick
  <2>1. minder' \in MinderStates
    BY <1>1, TRUE \in BOOLEAN, FALSE \in BOOLEAN, ConstantsTyped, Zenon DEF
       MinderTick, RefreshCommands
  <2>2. UNCHANGED <<main, agent, inst>>
    BY <1>1 DEF MinderTick
  <2> QED
    BY <2>1, <2>2 DEF PartiesTyped
<1>2. CASE MinderLastRefresh
  <2>1. minder' \in MinderStates
    BY <1>2, TRUE \in BOOLEAN, FALSE \in BOOLEAN, ConstantsTyped, Zenon DEF
       MinderLastRefresh, RefreshCommands
  <2>2. UNCHANGED <<main, agent, inst>>
    BY <1>2 DEF MinderLastRefresh
  <2> QED
    BY <2>1, <2>2 DEF PartiesTyped
<1>3. ASSUME NEW last \in BOOLEAN, MinderReport(last) PROVE PartiesTyped'
  <2>1. minder' \in MinderStates
    BY <1>3, TRUE \in BOOLEAN, FALSE \in BOOLEAN, ConstantsTyped, Zenon DEF
       MinderReport, RefreshCommands
  <2>2. UNCHANGED <<main, agent, inst>>
    BY <1>3 DEF MinderReport
  <2> QED
    BY <2>1, <2>2 DEF PartiesTyped
<1>4. ASSUME NEW last \in BOOLEAN, MinderBench(last) PROVE PartiesTyped'
  <2>1. minder' \in MinderStates
    BY <1>4, TRUE \in BOOLEAN, FALSE \in BOOLEAN, ConstantsTyped, Zenon DEF
       MinderBench, RefreshCommands
  <2>2. UNCHANGED <<main, agent, inst>>
    BY <1>4 DEF MinderBench
  <2> QED
    BY <2>1, <2>2 DEF PartiesTyped
<1>5. CASE StartAgent
  <2>1. main' \in Mains
    BY <1>5 DEF StartAgent, PartiesTyped, Mains, Working, Calm, Busy, Began,
       Asked
  <2>2. agent' \in Agents
    BY <1>5, ConstantsTyped DEF StartAgent, PartiesTyped, Agents, AgentOff
  <2> QED
    BY <1>5, <2>1, <2>2, ConstantsTyped DEF StartAgent, PartiesTyped
<1>6. CASE WaitAgain
  BY <1>6, ConstantsTyped DEF WaitAgain, GiveUp, PartiesTyped, Mains, Working,
     Calm, Busy, Began, Asked, Satisfied, Look, clientVars, minderVars
<1>7. ASSUME NEW initFns \in BOOLEAN, Configure(initFns) PROVE PartiesTyped'
  <2>0. PICK seq \in Nat : main' = IF initFns THEN [main EXCEPT !.pc = "barrier",
                                                    !.want = seq, !.next = "ready"]
                            ELSE [main EXCEPT !.pc = "ready"]
    BY <1>7, ConfigureSaves
  <2>1. main' \in Mains
    BY <2>0 DEF PartiesTyped, Mains, Working, Calm
  <2> QED
    BY <1>7, <2>1, SavesTyped DEF Configure, PartiesTyped, clientVars,
       minderVars
<1>8. CASE BarrierPassed
  <2>1. main.next \in {"ready", "hashdOn", "hashdOff"}
    BY <1>8 DEF BarrierPassed, Satisfied, Look, KindKept, PartiesTyped, Mains
  <2> QED
    BY <1>8, <2>1 DEF BarrierPassed, PartiesTyped, Mains, Working, Calm, Busy,
       Began, Asked, clientVars, minderVars
<1>9. CASE BenchBegan
  BY <1>9, ConstantsTyped DEF BenchBegan, PartiesTyped, Mains, Working, Calm,
     Busy, Began, Asked, Satisfied, Look, clientVars, minderVars
<1>10. CASE ResultArrived
  BY <1>10, ConstantsTyped DEF ResultArrived, PartiesTyped, Mains, Working,
     Calm, Busy, Began, Asked, Satisfied, Look, clientVars, minderVars
<1>11. CASE BenchEnded
  BY <1>11, ConstantsTyped DEF BenchEnded, PartiesTyped, Mains, Working, Calm,
     Busy, Began, Asked, Satisfied, Look, clientVars, minderVars
<1>12. CASE HashdSwitched
  BY <1>12, ConstantsTyped DEF HashdSwitched, PartiesTyped, Mains, Working,
     Calm, Busy, Began, Asked, Satisfied, Look, clientVars, minderVars
<1>13. CASE WaitFails
  BY <1>13, ConstantsTyped DEF WaitFails, GiveUp, PartiesTyped, Mains,
     Working, Calm, Busy, Began, Asked, Satisfied, Look, clientVars,
     minderVars
<1>14. CASE CutShort
  BY <1>14, ConstantsTyped DEF CutShort, PartiesTyped, Mains, Working, Calm,
     Busy, Began, Asked, Satisfied, Look, clientVars, minderVars
<1>15. ASSUME NEW k \in Kinds, StartBench(k) PROVE PartiesTyped'
  <2>1. main' \in Mains
    <3>1. cl.bench.seq[k] + 1 \in Nat /\ main.calls + 1 \in Nat
      BY DEF FilesTyped, Files, Results, Cmds, PartiesTyped, Mains
    <3>2. PICK n \in Nat, m \in Nat : main' = [main EXCEPT !.pc = "begin", !.kind = k,
                        !.req = m, !.want = n, !.calls = m]
      BY <1>15, <3>1 DEF StartBench
    <3> QED
      BY <1>15, <3>2 DEF PartiesTyped, Mains, Working, Calm, Busy, Began, Asked
  <2> QED
    BY <1>15, <2>1, SavesTyped DEF StartBench, PartiesTyped, clientVars,
       minderVars
<1>16. CASE StopBench
  <2>1. main' \in Mains
    BY <1>16 DEF StopBench, PartiesTyped, Mains, Working, Calm, Busy, Began,
       Asked
  <2> QED
    BY <1>16, <2>1, SavesTyped DEF StopBench, PartiesTyped, clientVars,
       minderVars
<1>17. CASE StopSvc
  <2>1. agent' \in Agents
    BY <1>17, ConstantsTyped DEF StopSvc, PartiesTyped, Agents, AgentOff
  <2>2. main' \in Mains
    BY <1>17 DEF StopSvc, PartiesTyped, Mains, Working, Calm, Busy, Began,
       Asked
  <2> QED
    BY <1>17, <2>1, <2>2 DEF StopSvc, PartiesTyped, clientVars, minderVars
<1>18. CASE StartHashd
  <2>1. main' \in Mains
    <3>1. cl.cmd.cmd_seq + 2 \in Nat /\ main.calls + 1 \in Nat /\ main.calls \in Nat
      BY DEF FilesTyped, Files, Results, Cmds, PartiesTyped, Mains
    <3>2. PICK n \in Nat, m \in Nat : main' = [main EXCEPT !.pc = "barrier", !.want = n,
                        !.next = "hashdOn", !.calls = m]
      BY <1>18, <3>1 DEF StartHashd, SwitchHashd
    <3> QED
      BY <1>18, <3>2 DEF PartiesTyped, Mains, Working, Calm, Busy, Began, Asked
  <2> QED
    BY <1>18, <2>1, SavesTyped DEF StartHashd, SwitchHashd, PartiesTyped,
       clientVars, minderVars
<1>19. CASE StopHashd
  <2>1. main' \in Mains
    <3>1. cl.cmd.cmd_seq + 2 \in Nat /\ main.calls + 1 \in Nat /\ main.calls \in Nat
      BY DEF FilesTyped, Files, Results, Cmds, PartiesTyped, Mains
    <3>2. PICK n \in Nat, m \in Nat : main' = [main EXCEPT !.pc = "barrier", !.want = n,
                        !.next = "hashdOff", !.calls = m]
      BY <1>19, <3>1 DEF StopHashd, SwitchHashd
    <3> QED
      BY <1>19, <3>2 DEF PartiesTyped, Mains, Working, Calm, Busy, Began, Asked
  <2> QED
    BY <1>19, <2>1, SavesTyped DEF StopHashd, SwitchHashd, PartiesTyped,
       clientVars, minderVars
<1>20. CASE Finish
  BY <1>20, ConstantsTyped DEF Finish, GiveUp, PartiesTyped, Mains, Working,
     Calm, Busy, Began, Asked, Satisfied, Look, clientVars, minderVars
<1>21. CASE TakeAgent
  BY <1>21, ConstantsTyped DEF TakeAgent, PartiesTyped, Mains, Working, Calm,
     Busy, Began, Asked, Satisfied, Look, clientVars, minderVars
<1>22. CASE DropAgent
  <2>1. agent' \in Agents
    BY <1>22, ConstantsTyped DEF DropAgent, PartiesTyped, Agents, AgentOff
  <2>2. main' \in Mains
    BY <1>22 DEF DropAgent, PartiesTyped, Mains, Working, Calm, Busy, Began,
       Asked
  <2> QED
    BY <1>22, <2>1, <2>2 DEF DropAgent, PartiesTyped, clientVars, minderVars
<1>23. CASE JoinMinder
  <2>0. PICK unit \in {"running", "none"}, on \in BOOLEAN :
           agent' = [AgentOff EXCEPT !.unit = unit, !.hashd = on]
    <3>1. (agent.hashd /\ "hashdA" \notin svcs) \in BOOLEAN
      OBVIOUS
    <3>2. (IF agent.unit = "running" /\ agent.state \notin svcs THEN "running" ELSE "none")
             \in {"running", "none"}
      OBVIOUS
    <3> QED
      BY <1>23, <3>1, <3>2 DEF JoinMinder
  <2>1. agent' \in Agents
    BY <2>0, ConstantsTyped DEF Agents
  <2>2. main' \in Mains
    BY <1>23 DEF JoinMinder, PartiesTyped, Mains, Working, Calm, Busy, Began,
       Asked
  <2> QED
    BY <1>23, <2>1, <2>2 DEF JoinMinder, PartiesTyped, clientVars, minderVars
<1>24. CASE AgentReset
  <2>1. agent' \in Agents
    BY <1>24, ConstantsTyped DEF AgentReset, PartiesTyped, FilesTyped, Files,
       Agents
  <2> QED
    BY <1>24, <2>1 DEF AgentReset, PartiesTyped, clientVars, minderVars
<1>25. CASE AgentLoad
  <2>1. agent' \in Agents
    BY <1>25, ConstantsTyped DEF AgentLoad, PartiesTyped, FilesTyped, Files,
       Agents
  <2> QED
    BY <1>25, <2>1 DEF AgentLoad, PartiesTyped, clientVars, minderVars
<1>26. CASE HalfSecond
  <2>1. agent' \in Agents
    BY <1>26, ConstantsTyped DEF HalfSecond, PartiesTyped, FilesTyped, Files,
       Agents
  <2> QED
    BY <1>26, <2>1 DEF HalfSecond, PartiesTyped, clientVars, minderVars
<1>27. CASE AgentReload
  <2>1. agent' \in Agents
    BY <1>27, ConstantsTyped DEF AgentReload, PartiesTyped, FilesTyped, Files,
       Agents
  <2> QED
    BY <1>27, <2>1 DEF AgentReload, PartiesTyped, clientVars, minderVars
<1>28. CASE AgentAck
  <2>1. agent' \in Agents
    BY <1>28, ConstantsTyped DEF AgentAck, PartiesTyped, FilesTyped, Files,
       Agents
  <2> QED
    BY <1>28, <2>1 DEF AgentAck, PartiesTyped, clientVars, minderVars
<1>29. CASE AgentApply
  <2> DEFINE kept == [agent EXCEPT !.pending = FALSE, !.acked = FALSE]
             idle == [kept EXCEPT !.state = "Idle", !.unit = "none",
                                  !.run = 0, !.hashd = FALSE]
  <2>1. kept \in Agents /\ idle \in Agents
    BY DEF PartiesTyped, Agents, States
  <2>2. Requested # {} => Preferred \in Kinds
    BY KindsAssumption DEF Requested, Preferred
  <2>3. agent.cmd.args \in Nat /\ agent.cmd.hashd \in BOOLEAN
    BY DEF PartiesTyped, Agents, Cmds
  <2>4. Requested # {} => [idle EXCEPT !.state = Preferred, !.unit = "running",
                                        !.run = agent.cmd.args] \in Agents
    BY <2>1, <2>2, <2>3 DEF Agents, States
  <2>5. [idle EXCEPT !.state = "Running", !.hashd = agent.cmd.hashd] \in Agents
    BY <2>1, <2>3 DEF Agents, States
  <2>6. agent' \in Agents
    BY <1>29, <2>1, <2>4, <2>5 DEF AgentApply
  <2> QED
    BY <1>29, <2>6 DEF AgentApply, PartiesTyped, clientVars, minderVars
<1>30. CASE AgentComplete
  <2>1. agent' \in Agents
    BY <1>30, ConstantsTyped DEF AgentComplete, PartiesTyped, FilesTyped,
       Files, Agents, States
  <2> QED
    BY <1>30, <2>1 DEF AgentComplete, PartiesTyped, clientVars, minderVars
<1>31. CASE AgentReport
  BY <1>f, <1>31 DEF AgentReport, clientVars, minderVars
<1>32. CASE BenchExits
  <2>1. agent' \in Agents
    BY <1>32, ConstantsTyped DEF BenchExits, PartiesTyped, FilesTyped, Files,
       Agents
  <2> QED
    BY <1>32, <2>1 DEF BenchExits, PartiesTyped, clientVars, minderVars
<1>33. CASE AgentDies
  <2>1. agent' \in Agents
    BY <1>33, ConstantsTyped DEF AgentDies, PartiesTyped, FilesTyped, Files,
       Agents, AgentOff
  <2> QED
    BY <1>33, <2>1 DEF AgentDies, PartiesTyped, clientVars, minderVars
<1>34. CASE Settle
  BY <1>f, <1>34 DEF Settle, clientVars, minderVars
<1> QED
  BY <1>1, <1>2, <1>3, <1>4, <1>5, <1>6, <1>7, <1>8, <1>9, <1>10, <1>11,
     <1>12, <1>13, <1>14, <1>15, <1>16, <1>17, <1>18, <1>19, <1>20, <1>21,
     <1>22, <1>23, <1>24, <1>25, <1>26, <1>27, <1>28, <1>29, <1>30, <1>31,
     <1>32, <1>33, <1>34 DEF Next, Minder, Main, Agent, System, Wait,
     StopAgent

-----------------------------------------------------------------------------
(* What the job has asked for, and the agent's life.                       *)

LEMMA KindKeptStep ==
    ASSUME FilesTyped, SetsTyped, PartiesTyped, KindKept, Lives,
           Next
    PROVE  KindKept'
<1>f. ASSUME UNCHANGED <<main, svcs>> PROVE KindKept'
  BY <1>f DEF KindKept
<1>1. CASE StartAgent
  BY <1>1 DEF StartAgent, KindKept, PartiesTyped, Mains, clientVars,
     minderVars, Working, Calm, Busy, Began, Asked
<1>2. CASE WaitAgain
  BY <1>2 DEF WaitAgain, GiveUp, KindKept, PartiesTyped, Mains, Satisfied,
     Look, SetsTyped, clientVars, minderVars, Working, Calm, Busy, Began,
     Asked, Waits
<1>3. ASSUME NEW initFns \in BOOLEAN, Configure(initFns) PROVE KindKept'
  BY <1>3 DEF Configure, KindKept, PartiesTyped, Mains, Satisfied, Look,
     SetsTyped, clientVars, minderVars, Working, Calm, Busy, Began, Asked,
     Waits
<1>4. CASE BarrierPassed
  BY <1>4 DEF BarrierPassed, KindKept, PartiesTyped, Mains, Satisfied, Look,
     SetsTyped, clientVars, minderVars, Working, Calm, Busy, Began, Asked,
     Waits
<1>5. CASE BenchBegan
  BY <1>5 DEF BenchBegan, KindKept, PartiesTyped, Mains, Satisfied, Look,
     SetsTyped, clientVars, minderVars, Working, Calm, Busy, Began, Asked,
     Waits
<1>6. CASE ResultArrived
  BY <1>6 DEF ResultArrived, KindKept, PartiesTyped, Mains, Satisfied, Look,
     SetsTyped, clientVars, minderVars, Working, Calm, Busy, Began, Asked,
     Waits
<1>7. CASE BenchEnded
  BY <1>7 DEF BenchEnded, KindKept, PartiesTyped, Mains, Satisfied, Look,
     SetsTyped, clientVars, minderVars, Working, Calm, Busy, Began, Asked,
     Waits
<1>8. CASE HashdSwitched
  BY <1>8 DEF HashdSwitched, KindKept, PartiesTyped, Mains, Satisfied, Look,
     SetsTyped, clientVars, minderVars, Working, Calm, Busy, Began, Asked,
     Waits
<1>9. CASE WaitFails
  BY <1>9 DEF WaitFails, GiveUp, KindKept, PartiesTyped, Mains, Satisfied,
     Look, SetsTyped, clientVars, minderVars, Working, Calm, Busy, Began,
     Asked, Waits
<1>10. CASE CutShort
  BY <1>10 DEF CutShort, KindKept, PartiesTyped, Mains, Satisfied, Look,
     SetsTyped, clientVars, minderVars, Working, Calm, Busy, Began, Asked,
     Waits
<1>11. ASSUME NEW k \in Kinds, StartBench(k) PROVE KindKept'
  BY <1>11 DEF StartBench, KindKept, PartiesTyped, Mains, Satisfied, Look,
     SetsTyped, clientVars, minderVars, Working, Calm, Busy, Began, Asked,
     Waits
<1>12. CASE StopBench
  BY <1>12 DEF StopBench, KindKept, PartiesTyped, Mains, Satisfied, Look,
     SetsTyped, clientVars, minderVars, Working, Calm, Busy, Began, Asked,
     Waits
<1>13. CASE StopSvc
  BY <1>13 DEF StopSvc, KindKept, PartiesTyped, Mains, Satisfied, Look,
     SetsTyped, clientVars, minderVars, Working, Calm, Busy, Began, Asked,
     Waits
<1>14. CASE StartHashd
  BY <1>14 DEF StartHashd, SwitchHashd, KindKept, PartiesTyped, Mains,
     Satisfied, Look, SetsTyped, clientVars, minderVars, Working, Calm, Busy,
     Began, Asked, Waits
<1>15. CASE StopHashd
  BY <1>15 DEF StopHashd, SwitchHashd, KindKept, PartiesTyped, Mains,
     Satisfied, Look, SetsTyped, clientVars, minderVars, Working, Calm, Busy,
     Began, Asked, Waits
<1>16. CASE Finish
  BY <1>16 DEF Finish, GiveUp, KindKept, PartiesTyped, Mains, Satisfied, Look,
     SetsTyped, clientVars, minderVars, Working, Calm, Busy, Began, Asked,
     Waits
<1>17. CASE TakeAgent
  BY <1>17 DEF TakeAgent, KindKept, PartiesTyped, Mains, Satisfied, Look,
     SetsTyped, clientVars, minderVars, Working, Calm, Busy, Began, Asked,
     Waits
<1>18. CASE DropAgent
  BY <1>18 DEF DropAgent, KindKept, PartiesTyped, Mains, Satisfied, Look,
     SetsTyped, clientVars, minderVars, Working, Calm, Busy, Began, Asked,
     Waits
<1>19. CASE JoinMinder
  BY <1>19 DEF JoinMinder, KindKept, PartiesTyped, Mains, Satisfied, Look,
     SetsTyped, clientVars, minderVars, Working, Calm, Busy, Began, Asked,
     Waits
<1>20. CASE MinderTick \/ MinderLastRefresh \/
           (\E last \in BOOLEAN : MinderReport(last)) \/
           (\E last \in BOOLEAN : MinderBench(last)) \/ AgentReset \/
           AgentLoad \/ HalfSecond \/ AgentReload \/ AgentAck \/ AgentApply \/
           AgentComplete \/ AgentReport \/ BenchExits \/ AgentDies \/ Settle
  BY <1>f, <1>20 DEF MinderTick, clientVars, minderVars, MinderLastRefresh,
     MinderReport, MinderBench, AgentReset, AgentLoad, HalfSecond,
     AgentReload, AgentAck, AgentApply, AgentComplete, AgentReport,
     BenchExits, AgentDies, Settle
<1> QED
  BY <1>1, <1>2, <1>3, <1>4, <1>5, <1>6, <1>7, <1>8, <1>9, <1>10, <1>11,
     <1>12, <1>13, <1>14, <1>15, <1>16, <1>17, <1>18, <1>19, <1>20 DEF Next,
     Minder, Main, Agent, System, Wait, StopAgent

LEMMA LivesStep ==
    ASSUME FilesTyped, SetsTyped, PartiesTyped, KindKept, Lives, Numbered, OnlyAsked,
           Next
    PROVE  Lives'
<1>f. ASSUME UNCHANGED <<main, agent, minder>> PROVE Lives'
  BY <1>f DEF Lives
<1>1. CASE MinderTick
  BY <1>1 DEF MinderTick, RefreshCommands, Lives, PartiesTyped, Mains, Asleep,
     Gone
<1>2. CASE MinderLastRefresh
  BY <1>2 DEF MinderLastRefresh, RefreshCommands, Lives, PartiesTyped, Mains,
     Asleep, Gone
<1>3. ASSUME NEW last \in BOOLEAN, MinderReport(last) PROVE Lives'
  BY <1>3 DEF MinderReport, RefreshCommands, Lives, PartiesTyped, Mains,
     Asleep, Gone
<1>4. ASSUME NEW last \in BOOLEAN, MinderBench(last) PROVE Lives'
  BY <1>4 DEF MinderBench, RefreshCommands, Lives, PartiesTyped, Mains,
     Asleep, Gone
<1>5. CASE StartAgent
  BY <1>5 DEF StartAgent, Lives, PartiesTyped, Mains, Agents, Alive,
     Satisfied, Look, clientVars, minderVars, Working, Calm, Busy, Began,
     Asked, AgentOff, Waits
<1>6. CASE WaitAgain
  BY <1>6 DEF WaitAgain, GiveUp, Lives, PartiesTyped, Mains, Agents, Alive,
     Satisfied, Look, clientVars, minderVars, Working, Calm, Busy, Began,
     Asked, AgentOff, Waits
<1>7. ASSUME NEW initFns \in BOOLEAN, Configure(initFns) PROVE Lives'
  <2>1. PICK seq \in Nat : main' = IF initFns THEN [main EXCEPT !.pc = "barrier",
                                    !.want = seq, !.next = "ready"]
                            ELSE [main EXCEPT !.pc = "ready"]
    BY <1>7, ConfigureSaves
  <2>2. main.pc = "up" /\ cl.report.inst = inst
    BY <1>7 DEF Configure, Satisfied, Look, Holds, CameUp
  <2>3. agent.life \in {"up", "dead"}
    BY <2>2 DEF Lives, Numbered, PartiesTyped, Agents
  <2>4. agent'.life = agent.life /\ minder' = minder
    BY <1>7 DEF Configure, SaveCmd, minderVars, PartiesTyped, Agents
  <2> QED
    BY <2>1, <2>2, <2>3, <2>4 DEF Lives, PartiesTyped, Mains, Working, Calm,
       Busy, Began, Asked
<1>8. CASE BarrierPassed
  BY <1>8 DEF BarrierPassed, Lives, PartiesTyped, Mains, Agents, Alive,
     Satisfied, Look, clientVars, minderVars, Working, Calm, Busy, Began,
     Asked, AgentOff, Waits
<1>9. CASE BenchBegan
  BY <1>9 DEF BenchBegan, Lives, PartiesTyped, Mains, Agents, Alive,
     Satisfied, Look, clientVars, minderVars, Working, Calm, Busy, Began,
     Asked, AgentOff, Waits
<1>10. CASE ResultArrived
  BY <1>10 DEF ResultArrived, Lives, PartiesTyped, Mains, Agents, Alive,
     Satisfied, Look, clientVars, minderVars, Working, Calm, Busy, Began,
     Asked, AgentOff, Waits
<1>11. CASE BenchEnded
  BY <1>11 DEF BenchEnded, Lives, PartiesTyped, Mains, Agents, Alive,
     Satisfied, Look, clientVars, minderVars, Working, Calm, Busy, Began,
     Asked, AgentOff, Waits
<1>12. CASE HashdSwitched
  BY <1>12 DEF HashdSwitched, Lives, PartiesTyped, Mains, Agents, Alive,
     Satisfied, Look, clientVars, minderVars, Working, Calm, Busy, Began,
     Asked, AgentOff, Waits
<1>13. CASE WaitFails
  BY <1>13 DEF WaitFails, GiveUp, Lives, PartiesTyped, Mains, Agents, Alive,
     Satisfied, Look, clientVars, minderVars, Working, Calm, Busy, Began,
     Asked, AgentOff, Waits
<1>14. CASE CutShort
  BY <1>14 DEF CutShort, Lives, PartiesTyped, Mains, Agents, Alive, Satisfied,
     Look, clientVars, minderVars, Working, Calm, Busy, Began, Asked,
     AgentOff, Waits
<1>15. ASSUME NEW k \in Kinds, StartBench(k) PROVE Lives'
  BY <1>15, SavesTyped DEF StartBench, Lives, SaveCmd, PartiesTyped, Mains,
     Agents, Satisfied, Look, clientVars, minderVars, Working, Calm, Busy,
     Began, Asked
<1>16. CASE StopBench
  BY <1>16, SavesTyped DEF StopBench, Lives, SaveCmd, PartiesTyped, Mains,
     Agents, Satisfied, Look, clientVars, minderVars, Working, Calm, Busy,
     Began, Asked
<1>17. CASE StopSvc
  BY <1>17 DEF StopSvc, Lives, PartiesTyped, Mains, Agents, Alive, Satisfied,
     Look, clientVars, minderVars, Working, Calm, Busy, Began, Asked,
     AgentOff, Waits
<1>18. CASE StartHashd
  BY <1>18, SavesTyped DEF StartHashd, SwitchHashd, Lives, SaveCmd,
     PartiesTyped, Mains, Agents, Satisfied, Look, clientVars, minderVars,
     Working, Calm, Busy, Began, Asked
<1>19. CASE StopHashd
  BY <1>19, SavesTyped DEF StopHashd, SwitchHashd, Lives, SaveCmd,
     PartiesTyped, Mains, Agents, Satisfied, Look, clientVars, minderVars,
     Working, Calm, Busy, Began, Asked
<1>20. CASE Finish
  BY <1>20 DEF Finish, GiveUp, Lives, PartiesTyped, Mains, Agents, Alive,
     Satisfied, Look, clientVars, minderVars, Working, Calm, Busy, Began,
     Asked, AgentOff, Waits
<1>21. CASE TakeAgent
  BY <1>21 DEF TakeAgent, Lives, PartiesTyped, Mains, Agents, Alive,
     Satisfied, Look, clientVars, minderVars, Working, Calm, Busy, Began,
     Asked, AgentOff, Waits
<1>22. CASE DropAgent
  BY <1>22 DEF DropAgent, Lives, PartiesTyped, Mains, Agents, Alive,
     Satisfied, Look, clientVars, minderVars, Working, Calm, Busy, Began,
     Asked, AgentOff, Waits
<1>23. CASE JoinMinder
  <2>1. main' = [main EXCEPT !.pc = "down", !.kind = "none", !.req = 0,
                          !.want = 0, !.next = "none"] /\ minder' = Gone
    BY <1>23 DEF JoinMinder, minderVars
  <2>2. /\ agent'.life = "off"
        /\ agent'.unit = IF agent.unit = "running" /\ agent.state \notin svcs
                            THEN "running" ELSE "none"
        /\ agent'.hashd = (agent.hashd /\ "hashdA" \notin svcs)
    BY <1>23 DEF JoinMinder, AgentOff
  <2>3. agent'.unit = "none" /\ ~agent'.hashd
    BY <2>2 DEF OnlyAsked
  <2> QED
    BY <2>1, <2>2, <2>3 DEF Lives, PartiesTyped, Mains, Working, Calm, Busy,
       Began, Asked
<1>24. CASE AgentReset
  BY <1>24 DEF AgentReset, Lives, PartiesTyped, Mains, Agents, Alive,
     Satisfied, Look, clientVars, minderVars, Working, Calm, Busy, Began,
     Asked, AgentOff, Waits
<1>25. CASE AgentLoad
  BY <1>25 DEF AgentLoad, Lives, PartiesTyped, Mains, Agents, Alive,
     Satisfied, Look, clientVars, minderVars, Working, Calm, Busy, Began,
     Asked, AgentOff, Waits
<1>26. CASE HalfSecond
  BY <1>26 DEF HalfSecond, Lives, PartiesTyped, Mains, Agents, Alive,
     Satisfied, Look, clientVars, minderVars, Working, Calm, Busy, Began,
     Asked, AgentOff, Waits
<1>27. CASE AgentReload
  BY <1>27 DEF AgentReload, Lives, PartiesTyped, Mains, Agents, Alive,
     Satisfied, Look, clientVars, minderVars, Working, Calm, Busy, Began,
     Asked, AgentOff, Waits
<1>28. CASE AgentAck
  BY <1>28 DEF AgentAck, Lives, PartiesTyped, Mains, Agents, Alive, Satisfied,
     Look, clientVars, minderVars, Working, Calm, Busy, Began, Asked,
     AgentOff, Waits
<1>29. CASE AgentApply
  BY <1>29 DEF AgentApply, Lives, PartiesTyped, Mains, Agents, Alive,
     Satisfied, Look, clientVars, minderVars, Working, Calm, Busy, Began,
     Asked, AgentOff, Waits
<1>30. CASE AgentComplete
  BY <1>30 DEF AgentComplete, Lives, PartiesTyped, Mains, Agents, Alive,
     Satisfied, Look, clientVars, minderVars, Working, Calm, Busy, Began,
     Asked, AgentOff, Waits
<1>31. CASE AgentReport
  BY <1>f, <1>31 DEF AgentReport, clientVars, minderVars
<1>32. CASE BenchExits
  BY <1>32 DEF BenchExits, Lives, PartiesTyped, Mains, Agents, Alive,
     Satisfied, Look, clientVars, minderVars, Working, Calm, Busy, Began,
     Asked, AgentOff, Waits
<1>33. CASE AgentDies
  BY <1>33 DEF AgentDies, Lives, PartiesTyped, Mains, Agents, Alive,
     Satisfied, Look, clientVars, minderVars, Working, Calm, Busy, Began,
     Asked, AgentOff, Waits
<1>34. CASE Settle
  BY <1>f, <1>34 DEF Settle, clientVars, minderVars
<1> QED
  BY <1>1, <1>2, <1>3, <1>4, <1>5, <1>6, <1>7, <1>8, <1>9, <1>10, <1>11,
     <1>12, <1>13, <1>14, <1>15, <1>16, <1>17, <1>18, <1>19, <1>20, <1>21,
     <1>22, <1>23, <1>24, <1>25, <1>26, <1>27, <1>28, <1>29, <1>30, <1>31,
     <1>32, <1>33, <1>34 DEF Next, Minder, Main, Agent, System, Wait,
     StopAgent

LEMMA OnlyAskedStep ==
    ASSUME FilesTyped, SetsTyped, PartiesTyped, KindKept, Lives, OnlyAsked,
           Next
    PROVE  OnlyAsked'
<1>f. ASSUME UNCHANGED <<disk, cl, agent, svcs>> PROVE OnlyAsked'
  BY <1>f DEF OnlyAsked
<1>1. CASE MinderTick
  BY <1>1, RefreshedFields DEF MinderTick, RefreshCommands, RefreshPart,
     FileNames, OnlyAsked, DefaultCmd, Zeros, clientVars, minderVars
<1>2. CASE MinderLastRefresh
  BY <1>2, RefreshedFields DEF MinderLastRefresh, RefreshCommands,
     RefreshPart, FileNames, OnlyAsked, DefaultCmd, Zeros, clientVars,
     minderVars
<1>3. ASSUME NEW last \in BOOLEAN, MinderReport(last) PROVE OnlyAsked'
  BY <1>3, RefreshedFields DEF MinderReport, RefreshCommands, RefreshPart,
     FileNames, OnlyAsked, DefaultCmd, Zeros, clientVars, minderVars
<1>4. ASSUME NEW last \in BOOLEAN, MinderBench(last) PROVE OnlyAsked'
  BY <1>4, RefreshedFields DEF MinderBench, RefreshCommands, RefreshPart,
     FileNames, OnlyAsked, DefaultCmd, Zeros, clientVars, minderVars
<1>5. CASE StartAgent
  BY <1>5 DEF StartAgent, OnlyAsked, PartiesTyped, Agents, AgentOff,
     DefaultCmd, Zeros, Lives, clientVars, minderVars
<1>6. ASSUME NEW initFns \in BOOLEAN, Configure(initFns) PROVE OnlyAsked'
  <2>1. PICK seq \in Nat : /\ [cl.cmd EXCEPT !.cmd_seq = seq] \in Cmds
                             /\ SaveCmd([cl.cmd EXCEPT !.cmd_seq = seq])
    BY <1>6, ConfigureSaves
  <2> DEFINE cmd == [cl.cmd EXCEPT !.cmd_seq = seq]
  <2>2. cmd \in Cmds /\ SaveCmd(cmd)
    BY <2>1
  <2>3. cmd.bench = cl.cmd.bench /\ cmd.hashd = cl.cmd.hashd
    BY DEF FilesTyped, Files, Cmds
  <2>4. svcs' = svcs
    BY <1>6 DEF Configure
  <2> HIDE DEF cmd
  <2> QED
    BY <2>2, <2>3, <2>4, SavedFields DEF OnlyAsked, PartiesTyped, Agents
<1>7. ASSUME NEW k \in Kinds, StartBench(k) PROVE OnlyAsked'
  <2> DEFINE cmd == [cl.cmd EXCEPT !.bench[k] = cl.bench.seq[k] + 1,
                                  !.args = main.calls + 1]
  <2>1. cmd \in Cmds /\ SaveCmd(cmd)
    BY <1>7, StartBenchSaves
  <2>2. svcs' = svcs \cup {k}
    BY <1>7 DEF StartBench, clientVars, minderVars
  <2>3. /\ \A j \in Kinds \ {k} : cmd.bench[j] = cl.cmd.bench[j]
        /\ cmd.hashd = cl.cmd.hashd
    BY DEF FilesTyped, Files, Cmds
  <2> HIDE DEF cmd
  <2> QED
    BY <2>1, <2>2, <2>3, SavedFields DEF OnlyAsked, PartiesTyped, Agents
<1>8. CASE StopBench
  <2> DEFINE cmd == [cl.cmd EXCEPT !.cmd_seq = cl.cmd.cmd_seq + 1,
                       !.bench[main.kind] = cl.bench.seq[main.kind]]
  <2>1. cmd \in Cmds /\ SaveCmd(cmd)
    BY <1>8, StopBenchSaves
  <2>2. svcs' = svcs /\ main.kind \in svcs
    BY <1>8, KindsAssumption DEF StopBench, KindKept, Busy, Began, Asked,
       PartiesTyped, Mains, clientVars, minderVars
  <2>3. /\ \A j \in Kinds \ {main.kind} : cmd.bench[j] = cl.cmd.bench[j]
        /\ cmd.hashd = cl.cmd.hashd
    BY DEF FilesTyped, Files, Cmds
  <2> HIDE DEF cmd
  <2> QED
    BY <2>1, <2>2, <2>3, SavedFields DEF OnlyAsked, PartiesTyped, Agents
<1>9. CASE StopSvc
  BY <1>9 DEF StopSvc, OnlyAsked, PartiesTyped, Agents, AgentOff, DefaultCmd,
     Zeros, Lives, clientVars, minderVars
<1>10. CASE StartHashd
  <2> DEFINE cmd == [cl.cmd EXCEPT !.cmd_seq = cl.cmd.cmd_seq + 2, !.hashd = TRUE]
  <2>1. cmd \in Cmds /\ SaveCmd(cmd)
    BY <1>10, SwitchHashdSaves DEF StartHashd
  <2>2. svcs' = svcs \cup {"hashdA"}
    BY <1>10 DEF StartHashd, SwitchHashd, clientVars, minderVars
  <2>3. cmd.bench = cl.cmd.bench /\ cmd.hashd = TRUE
    BY DEF FilesTyped, Files, Cmds
  <2> HIDE DEF cmd
  <2> QED
    BY <2>1, <2>2, <2>3, SavedFields DEF OnlyAsked, PartiesTyped, Agents
<1>11. CASE StopHashd
  <2> DEFINE cmd == [cl.cmd EXCEPT !.cmd_seq = cl.cmd.cmd_seq + 2, !.hashd = FALSE]
  <2>1. cmd \in Cmds /\ SaveCmd(cmd)
    BY <1>11, SwitchHashdSaves DEF StopHashd
  <2>2. svcs' = svcs
    BY <1>11 DEF StopHashd, SwitchHashd, clientVars, minderVars
  <2>3. cmd.bench = cl.cmd.bench /\ cmd.hashd = FALSE
    BY DEF FilesTyped, Files, Cmds
  <2> HIDE DEF cmd
  <2> QED
    BY <2>1, <2>2, <2>3, SavedFields DEF OnlyAsked, PartiesTyped, Agents
<1>12. CASE DropAgent
  BY <1>12 DEF DropAgent, OnlyAsked, PartiesTyped, Agents, AgentOff,
     DefaultCmd, Zeros, Lives, clientVars, minderVars
<1>13. CASE JoinMinder
  BY <1>13 DEF JoinMinder, OnlyAsked, PartiesTyped, Agents, AgentOff,
     DefaultCmd, Zeros, Lives, clientVars, minderVars
<1>14. CASE AgentReset
  BY <1>14 DEF AgentReset, OnlyAsked, PartiesTyped, Agents, AgentOff,
     DefaultCmd, Zeros, Lives, clientVars, minderVars
<1>15. CASE AgentLoad
  BY <1>15 DEF AgentLoad, OnlyAsked, PartiesTyped, Agents, AgentOff,
     DefaultCmd, Zeros, Lives, clientVars, minderVars
<1>16. CASE HalfSecond
  BY <1>16 DEF HalfSecond, OnlyAsked, PartiesTyped, Agents, AgentOff,
     DefaultCmd, Zeros, Lives, clientVars, minderVars
<1>17. CASE AgentReload
  BY <1>17 DEF AgentReload, OnlyAsked, PartiesTyped, Agents, AgentOff,
     DefaultCmd, Zeros, Lives, clientVars, minderVars
<1>18. CASE AgentAck
  <2>1. cl' = cl /\ svcs' = svcs
    BY <1>18 DEF AgentAck
  <2> QED
    BY <2>1, <1>18, AckWritten DEF OnlyAsked, PartiesTyped, Agents
<1>19. CASE AgentApply
  <2>1. disk' = disk /\ cl' = cl /\ svcs' = svcs
    BY <1>19 DEF AgentApply, clientVars
  <2>2. Requested # {} => Preferred \in svcs
    <3>1. Requested \subseteq svcs
      BY DEF OnlyAsked, Requested, FilesTyped, Files, Results
    <3>2. Requested # {} => Preferred \in Requested
      BY KindsAssumption DEF Requested, Preferred
    <3> QED
      BY <3>1, <3>2
  <2>3. agent'.cmd = agent.cmd
    BY <1>19, Applied
  <2>4. agent'.unit = "running" => agent'.state \in svcs
    BY <1>19, <2>2, Applied DEF OnlyAsked
  <2>5. "hashdA" \notin svcs => ~agent'.hashd
    BY <1>19, Applied DEF OnlyAsked
  <2> QED
    BY <2>1, <2>3, <2>4, <2>5 DEF OnlyAsked
<1>20. CASE AgentComplete
  <2>1. cl' = cl /\ svcs' = svcs
    BY <1>20 DEF AgentComplete
  <2>2. agent'.unit = "none" /\ agent'.cmd = agent.cmd /\ agent'.hashd = agent.hashd
        /\ disk'.cmd = disk.cmd
    BY <1>20, ResultWritten DEF PartiesTyped, Agents
  <2> QED
    BY <2>1, <2>2 DEF OnlyAsked, PartiesTyped, Agents
<1>21. CASE AgentReport
  <2>1. cl' = cl /\ svcs' = svcs /\ agent' = agent
    BY <1>21 DEF AgentReport
  <2> QED
    BY <2>1, <1>21, ReportWritten DEF OnlyAsked, PartiesTyped, Agents
<1>22. CASE BenchExits
  BY <1>22 DEF BenchExits, OnlyAsked, PartiesTyped, Agents, AgentOff,
     DefaultCmd, Zeros, Lives, clientVars, minderVars
<1>23. CASE AgentDies
  BY <1>23 DEF AgentDies, OnlyAsked, PartiesTyped, Agents, AgentOff,
     DefaultCmd, Zeros, Lives, clientVars, minderVars
<1>24. CASE WaitAgain \/ BarrierPassed \/ BenchBegan \/ ResultArrived \/
           BenchEnded \/ HashdSwitched \/ WaitFails \/ CutShort \/ Finish \/
           TakeAgent \/ Settle
  BY <1>f, <1>24 DEF WaitAgain, GiveUp, clientVars, minderVars, BarrierPassed,
     BenchBegan, ResultArrived, BenchEnded, HashdSwitched, WaitFails,
     CutShort, Finish, TakeAgent, Settle
<1> QED
  BY <1>1, <1>2, <1>3, <1>4, <1>5, <1>6, <1>7, <1>8, <1>9, <1>10, <1>11,
     <1>12, <1>13, <1>14, <1>15, <1>16, <1>17, <1>18, <1>19, <1>20, <1>21,
     <1>22, <1>23, <1>24 DEF Next, Minder, Main, Agent, System, Wait,
     StopAgent

-----------------------------------------------------------------------------
(* The client's copies.                                                    *)

LEMMA RefreshedCoherent ==
    ASSUME FilesTyped, SetsTyped, Coherent, NEW files \in SUBSET FileNames, RefreshOne(files)
    PROVE  /\ have' # {} => "index" \in have'
           /\ "index" \notin unread' => \A f \in have' \ unread' : cl'[f] = disk[f]
           /\ \A k \in Kinds : cl'.bench.seq[k] <= disk.bench.seq[k]
<1> DEFINE renewed == "index" \in files /\ Loadable("index", have)
           kept == IF renewed THEN [NoFiles EXCEPT !.index = disk.index] ELSE cl
           paths == IF renewed THEN {"index"} ELSE have
           new == {f \in files \ {"index"} : "index" \in paths /\ Loadable(f, paths)}
<1>1. /\ cl' = [f \in FileNames |-> IF f \in new THEN disk[f] ELSE kept[f]]
      /\ have' = paths \cup new
      /\ unread' = unread \ (IF renewed THEN new \cup {"index"} ELSE new)
  BY Zenon DEF RefreshOne
<1>2. have' # {} => "index" \in have'
  BY <1>1 DEF Coherent
<1>3. \A f \in new : cl'[f] = disk[f]
  BY <1>1
<1>4. new \subseteq FileNames \ {"index"}
  OBVIOUS
<1>5. ASSUME renewed PROVE "index" \notin unread' => \A f \in have' \ unread' : cl'[f] = disk[f]
  <2>1. kept["index"] = disk.index
    BY <1>5 DEF NoFiles
  <2> HIDE DEF new, kept
  <2>2. cl'["index"] = disk["index"]
    BY <1>1, <1>4, <2>1 DEF FileNames, FilesTyped, Files
  <2> QED
    BY <1>1, <1>3, <1>5, <2>2
<1>6. ASSUME ~renewed
      PROVE "index" \notin unread' => \A f \in have' \ unread' : cl'[f] = disk[f]
  <2>1. kept = cl /\ paths = have
    BY <1>6
  <2> HIDE DEF new, kept, renewed
  <2>2. \A f \in FileNames \ new : cl'[f] = cl[f]
    BY <1>1, <2>1
  <2>3. "index" \notin unread' => "index" \notin unread
    BY <1>1, <1>4, <1>6
  <2>4. ASSUME NEW f \in have' \ unread', "index" \notin unread' PROVE cl'[f] = disk[f]
    <3>1. CASE f \in new
      BY <3>1, <1>3
    <3>2. CASE f \notin new
      BY <3>2, <1>1, <1>6, <2>1, <2>2, <2>3, <2>4 DEF Coherent, SetsTyped
    <3> QED
      BY <3>1, <3>2
  <2> QED
    BY <2>4
<1>7. \A k \in Kinds : cl'.bench.seq[k] <= disk.bench.seq[k]
  <2> HIDE DEF new, kept, renewed
  <2>1. cl'.bench \in {cl.bench, disk.bench, NoResults}
    BY RefreshedFields
  <2>2. \A k \in Kinds : /\ cl.bench.seq[k] <= disk.bench.seq[k]
                         /\ disk.bench.seq[k] \in Nat /\ NoResults.seq[k] = 0
    BY DEF Coherent, FilesTyped, Files, Results, NoResults, Zeros
  <2> QED
    BY <2>1, <2>2
<1> QED
  BY <1>2, <1>5, <1>6, <1>7

LEMMA CoherentStep ==
    ASSUME FilesTyped, SetsTyped, PartiesTyped, KindKept, AgentSound, Coherent,
           Next
    PROVE  Coherent'
<1>f. ASSUME UNCHANGED <<disk, cl, have, unread>> PROVE Coherent'
  BY <1>f DEF Coherent
<1>1. CASE MinderTick
  <2>1. CASE RefreshOne({"index", "cmd", "ack"})
    BY <1>1, <2>1, RefreshedCoherent DEF MinderTick, Coherent, FileNames
  <2>2. CASE UNCHANGED <<cl, have, unread>>
    BY <1>1, <1>f, <2>2 DEF MinderTick
  <2> QED
    BY <1>1, <2>1, <2>2 DEF MinderTick, RefreshCommands
<1>2. CASE MinderLastRefresh
  BY <1>2, RefreshedCoherent DEF MinderLastRefresh, RefreshCommands,
     RefreshPart, Coherent, FileNames
<1>3. ASSUME NEW last \in BOOLEAN, MinderReport(last) PROVE Coherent'
  BY <1>3, RefreshedCoherent DEF MinderReport, RefreshCommands, RefreshPart,
     Coherent, FileNames
<1>4. ASSUME NEW last \in BOOLEAN, MinderBench(last) PROVE Coherent'
  BY <1>4, RefreshedCoherent DEF MinderBench, RefreshCommands, RefreshPart,
     Coherent, FileNames
<1>5. ASSUME NEW initFns \in BOOLEAN, Configure(initFns) PROVE Coherent'
  <2>1. PICK cmd \in Cmds : SaveCmd(cmd)
    BY <1>5, ConfigureSaves
  <2>2. CASE "cmd" \in have
    <3>1. /\ cl' = [cl EXCEPT !.cmd = cmd] /\ disk' = [disk EXCEPT !.cmd = cmd]
          /\ have' = have /\ unread' = unread \cup {"cmd"}
      BY <2>1, <2>2 DEF SaveCmd
    <3>2. \A f \in FileNames \ {"cmd"} : cl'[f] = cl[f] /\ disk'[f] = disk[f]
      BY <3>1 DEF FilesTyped, Files, FileNames
    <3>3. cl'.bench = cl.bench /\ disk'.bench = disk.bench
      BY <3>1 DEF FilesTyped, Files
    <3> QED
      BY <3>1, <3>2, <3>3 DEF Coherent, SetsTyped
  <2>3. CASE "cmd" \notin have
    <3>1. /\ cl' = [cl EXCEPT !.cmd = cmd] /\ have' = have
          /\ UNCHANGED <<disk, unread>>
      BY <2>1, <2>3 DEF SaveCmd
    <3>2. \A f \in FileNames \ {"cmd"} : cl'[f] = cl[f]
      BY <3>1 DEF FilesTyped, Files, FileNames
    <3>3. cl'.bench = cl.bench
      BY <3>1 DEF FilesTyped, Files
    <3> QED
      BY <2>3, <3>1, <3>2, <3>3 DEF Coherent, SetsTyped
  <2> QED
    BY <2>2, <2>3
<1>6. ASSUME NEW k \in Kinds, StartBench(k) PROVE Coherent'
  <2>1. PICK cmd \in Cmds : SaveCmd(cmd)
    BY <1>6, StartBenchSaves
  <2>2. CASE "cmd" \in have
    <3>1. /\ cl' = [cl EXCEPT !.cmd = cmd] /\ disk' = [disk EXCEPT !.cmd = cmd]
          /\ have' = have /\ unread' = unread \cup {"cmd"}
      BY <2>1, <2>2 DEF SaveCmd
    <3>2. \A f \in FileNames \ {"cmd"} : cl'[f] = cl[f] /\ disk'[f] = disk[f]
      BY <3>1 DEF FilesTyped, Files, FileNames
    <3>3. cl'.bench = cl.bench /\ disk'.bench = disk.bench
      BY <3>1 DEF FilesTyped, Files
    <3> QED
      BY <3>1, <3>2, <3>3 DEF Coherent, SetsTyped
  <2>3. CASE "cmd" \notin have
    <3>1. /\ cl' = [cl EXCEPT !.cmd = cmd] /\ have' = have
          /\ UNCHANGED <<disk, unread>>
      BY <2>1, <2>3 DEF SaveCmd
    <3>2. \A f \in FileNames \ {"cmd"} : cl'[f] = cl[f]
      BY <3>1 DEF FilesTyped, Files, FileNames
    <3>3. cl'.bench = cl.bench
      BY <3>1 DEF FilesTyped, Files
    <3> QED
      BY <2>3, <3>1, <3>2, <3>3 DEF Coherent, SetsTyped
  <2> QED
    BY <2>2, <2>3
<1>7. CASE StopBench
  <2>1. PICK cmd \in Cmds : SaveCmd(cmd)
    BY <1>7, StopBenchSaves
  <2>2. CASE "cmd" \in have
    <3>1. /\ cl' = [cl EXCEPT !.cmd = cmd] /\ disk' = [disk EXCEPT !.cmd = cmd]
          /\ have' = have /\ unread' = unread \cup {"cmd"}
      BY <2>1, <2>2 DEF SaveCmd
    <3>2. \A f \in FileNames \ {"cmd"} : cl'[f] = cl[f] /\ disk'[f] = disk[f]
      BY <3>1 DEF FilesTyped, Files, FileNames
    <3>3. cl'.bench = cl.bench /\ disk'.bench = disk.bench
      BY <3>1 DEF FilesTyped, Files
    <3> QED
      BY <3>1, <3>2, <3>3 DEF Coherent, SetsTyped
  <2>3. CASE "cmd" \notin have
    <3>1. /\ cl' = [cl EXCEPT !.cmd = cmd] /\ have' = have
          /\ UNCHANGED <<disk, unread>>
      BY <2>1, <2>3 DEF SaveCmd
    <3>2. \A f \in FileNames \ {"cmd"} : cl'[f] = cl[f]
      BY <3>1 DEF FilesTyped, Files, FileNames
    <3>3. cl'.bench = cl.bench
      BY <3>1 DEF FilesTyped, Files
    <3> QED
      BY <2>3, <3>1, <3>2, <3>3 DEF Coherent, SetsTyped
  <2> QED
    BY <2>2, <2>3
<1>8. CASE StartHashd
  <2>1. PICK cmd \in Cmds : SaveCmd(cmd)
    BY <1>8, SwitchHashdSaves DEF StartHashd
  <2>2. CASE "cmd" \in have
    <3>1. /\ cl' = [cl EXCEPT !.cmd = cmd] /\ disk' = [disk EXCEPT !.cmd = cmd]
          /\ have' = have /\ unread' = unread \cup {"cmd"}
      BY <2>1, <2>2 DEF SaveCmd
    <3>2. \A f \in FileNames \ {"cmd"} : cl'[f] = cl[f] /\ disk'[f] = disk[f]
      BY <3>1 DEF FilesTyped, Files, FileNames
    <3>3. cl'.bench = cl.bench /\ disk'.bench = disk.bench
      BY <3>1 DEF FilesTyped, Files
    <3> QED
      BY <3>1, <3>2, <3>3 DEF Coherent, SetsTyped
  <2>3. CASE "cmd" \notin have
    <3>1. /\ cl' = [cl EXCEPT !.cmd = cmd] /\ have' = have
          /\ UNCHANGED <<disk, unread>>
      BY <2>1, <2>3 DEF SaveCmd
    <3>2. \A f \in FileNames \ {"cmd"} : cl'[f] = cl[f]
      BY <3>1 DEF FilesTyped, Files, FileNames
    <3>3. cl'.bench = cl.bench
      BY <3>1 DEF FilesTyped, Files
    <3> QED
      BY <2>3, <3>1, <3>2, <3>3 DEF Coherent, SetsTyped
  <2> QED
    BY <2>2, <2>3
<1>9. CASE StopHashd
  <2>1. PICK cmd \in Cmds : SaveCmd(cmd)
    BY <1>9, SwitchHashdSaves DEF StopHashd
  <2>2. CASE "cmd" \in have
    <3>1. /\ cl' = [cl EXCEPT !.cmd = cmd] /\ disk' = [disk EXCEPT !.cmd = cmd]
          /\ have' = have /\ unread' = unread \cup {"cmd"}
      BY <2>1, <2>2 DEF SaveCmd
    <3>2. \A f \in FileNames \ {"cmd"} : cl'[f] = cl[f] /\ disk'[f] = disk[f]
      BY <3>1 DEF FilesTyped, Files, FileNames
    <3>3. cl'.bench = cl.bench /\ disk'.bench = disk.bench
      BY <3>1 DEF FilesTyped, Files
    <3> QED
      BY <3>1, <3>2, <3>3 DEF Coherent, SetsTyped
  <2>3. CASE "cmd" \notin have
    <3>1. /\ cl' = [cl EXCEPT !.cmd = cmd] /\ have' = have
          /\ UNCHANGED <<disk, unread>>
      BY <2>1, <2>3 DEF SaveCmd
    <3>2. \A f \in FileNames \ {"cmd"} : cl'[f] = cl[f]
      BY <3>1 DEF FilesTyped, Files, FileNames
    <3>3. cl'.bench = cl.bench
      BY <3>1 DEF FilesTyped, Files
    <3> QED
      BY <2>3, <3>1, <3>2, <3>3 DEF Coherent, SetsTyped
  <2> QED
    BY <2>2, <2>3
<1>10. CASE AgentReset
  <2>1. "index" \in unread' /\ have' = have /\ disk'.bench = disk.bench /\ cl' = cl
    BY <1>10 DEF AgentReset, FilesTyped, Files
  <2> QED
    BY <2>1 DEF Coherent
<1>11. CASE AgentLoad
  <2>1. cl' = cl /\ have' = have /\ unread' = unread \cup {"cmd", "ack"}
        /\ disk'.bench = disk.bench
    BY <1>11 DEF AgentLoad, FilesTyped, Files
  <2>2. \A f \in FileNames \ {"cmd", "ack"} : disk'[f] = disk[f]
    BY <1>11 DEF AgentLoad, FilesTyped, Files, FileNames
  <2> QED
    BY <2>1, <2>2 DEF Coherent, SetsTyped
<1>12. CASE AgentAck
  <2>1. cl' = cl /\ have' = have
    BY <1>12 DEF AgentAck
  <2>2. CASE UNCHANGED <<disk, unread>>
    BY <2>1, <2>2 DEF Coherent
  <2>3. ASSUME NEW c, Write("ack", c) PROVE Coherent'
    <3>1. \A f \in FileNames \ {"ack"} : disk'[f] = disk[f]
      BY <2>3 DEF Write, FilesTyped, Files, FileNames
    <3>2. unread' = unread \cup {"ack"}
      BY <2>3 DEF Write
    <3>3. disk'.bench = disk.bench
      BY <1>12, <2>3, WrittenFields
    <3> QED
      BY <2>1, <3>1, <3>2, <3>3 DEF Coherent, SetsTyped
  <2> QED
    BY <1>12, <2>2, <2>3 DEF AgentAck
<1>13. CASE AgentComplete
  <2>1. cl' = cl /\ have' = have
    BY <1>13 DEF AgentComplete
  <2>2. CASE UNCHANGED <<disk, unread>>
    BY <2>1, <2>2 DEF Coherent
  <2>3. CASE agent.unit = "exited"
    <3>1. \A f \in FileNames \ {"bench"} : disk'[f] = disk[f]
      BY <1>13, <2>3 DEF AgentComplete, Write, FilesTyped, Files, FileNames
    <3>2. unread' = unread \cup {"bench"}
      BY <1>13, <2>3, ResultWritten
    <3>3. disk'.bench.inst = disk.bench.inst
          /\ disk'.bench.seq = [disk.bench.seq EXCEPT ![agent.state] = agent.cmd.bench[agent.state]]
      BY <1>13, <2>3, ResultWritten DEF FilesTyped, Files, Results
    <3>4. agent.state \in Kinds /\ agent.cmd.bench[agent.state] > disk.bench.seq[agent.state]
      BY <1>13, ResultWritten DEF AgentSound
    <3>5. \A k \in Kinds : /\ disk.bench.seq[k] \in Nat /\ cl.bench.seq[k] \in Nat
                           /\ agent.cmd.bench[k] \in Nat
      BY DEF FilesTyped, Files, Results, PartiesTyped, Agents, Cmds
    <3>6. \A k \in Kinds : cl.bench.seq[k] <= disk'.bench.seq[k]
      BY <3>3, <3>4, <3>5 DEF Coherent, FilesTyped, Files, Results
    <3> QED
      BY <2>1, <3>1, <3>2, <3>3, <3>6 DEF Coherent, SetsTyped
  <2> QED
    BY <1>13, <2>2, <2>3 DEF AgentComplete
<1>14. CASE AgentReport
  <2>1. cl' = cl /\ have' = have
    BY <1>14 DEF AgentReport
  <2>2. CASE UNCHANGED <<disk, unread>>
    BY <2>1, <2>2 DEF Coherent
  <2>3. ASSUME NEW c, Write("report", c) PROVE Coherent'
    <3>1. \A f \in FileNames \ {"report"} : disk'[f] = disk[f]
      BY <2>3 DEF Write, FilesTyped, Files, FileNames
    <3>2. unread' = unread \cup {"report"}
      BY <2>3 DEF Write
    <3>3. disk'.bench = disk.bench
      BY <1>14, <2>3, WrittenFields
    <3> QED
      BY <2>1, <3>1, <3>2, <3>3 DEF Coherent, SetsTyped
  <2> QED
    BY <1>14, <2>2, <2>3 DEF AgentReport
<1>15. CASE StartAgent \/ WaitAgain \/ BarrierPassed \/ BenchBegan \/
           ResultArrived \/ BenchEnded \/ HashdSwitched \/ WaitFails \/
           CutShort \/ StopSvc \/ Finish \/ TakeAgent \/ DropAgent \/
           JoinMinder \/ HalfSecond \/ AgentReload \/ AgentApply \/ BenchExits
           \/ AgentDies \/ Settle
  BY <1>f, <1>15 DEF StartAgent, clientVars, minderVars, WaitAgain, GiveUp,
     BarrierPassed, BenchBegan, ResultArrived, BenchEnded, HashdSwitched,
     WaitFails, CutShort, StopSvc, Finish, TakeAgent, DropAgent, JoinMinder,
     HalfSecond, AgentReload, AgentApply, BenchExits, AgentDies, Settle
<1> QED
  BY <1>1, <1>2, <1>3, <1>4, <1>5, <1>6, <1>7, <1>8, <1>9, <1>10, <1>11,
     <1>12, <1>13, <1>14, <1>15 DEF Next, Minder, Main, Agent, System, Wait,
     StopAgent

LEMMA NumberedStep ==
    ASSUME FilesTyped, SetsTyped, PartiesTyped, KindKept, Lives, Numbered,
           Next
    PROVE  Numbered'
<1>f. ASSUME UNCHANGED <<disk, cl, agent, inst>> PROVE Numbered'
  BY <1>f DEF Numbered
<1>1. CASE MinderTick
  BY <1>1, RefreshedFields DEF MinderTick, RefreshCommands, RefreshPart,
     FileNames, Numbered, NoReport, PartiesTyped, clientVars, minderVars
<1>2. CASE MinderLastRefresh
  BY <1>2, RefreshedFields DEF MinderLastRefresh, RefreshCommands,
     RefreshPart, FileNames, Numbered, NoReport, PartiesTyped, clientVars,
     minderVars
<1>3. ASSUME NEW last \in BOOLEAN, MinderReport(last) PROVE Numbered'
  BY <1>3, RefreshedFields DEF MinderReport, RefreshCommands, RefreshPart,
     FileNames, Numbered, NoReport, PartiesTyped, clientVars, minderVars
<1>4. ASSUME NEW last \in BOOLEAN, MinderBench(last) PROVE Numbered'
  BY <1>4, RefreshedFields DEF MinderBench, RefreshCommands, RefreshPart,
     FileNames, Numbered, NoReport, PartiesTyped, clientVars, minderVars
<1>5. CASE StartAgent
  BY <1>5 DEF StartAgent, Numbered, PartiesTyped, FilesTyped, Files, Reports,
     Agents, AgentOff, clientVars, minderVars
<1>6. ASSUME NEW initFns \in BOOLEAN, Configure(initFns) PROVE Numbered'
  <2>1. PICK cmd \in Cmds : SaveCmd(cmd)
    BY <1>6, ConfigureSaves
  <2>2. inst' = inst
    BY <1>6 DEF Configure
  <2>3. agent'.life = agent.life
    BY <2>1, SavedFields DEF PartiesTyped, Agents
  <2> QED
    BY <2>1, <2>2, <2>3, SavedFields DEF Numbered
<1>7. ASSUME NEW k \in Kinds, StartBench(k) PROVE Numbered'
  <2>1. PICK cmd \in Cmds : SaveCmd(cmd)
    BY <1>7, StartBenchSaves
  <2>2. inst' = inst
    BY <1>7 DEF StartBench
  <2>3. agent'.life = agent.life
    BY <2>1, SavedFields DEF PartiesTyped, Agents
  <2> QED
    BY <2>1, <2>2, <2>3, SavedFields DEF Numbered
<1>8. CASE StopBench
  <2>1. PICK cmd \in Cmds : SaveCmd(cmd)
    BY <1>8, StopBenchSaves
  <2>2. inst' = inst
    BY <1>8 DEF StopBench
  <2>3. agent'.life = agent.life
    BY <2>1, SavedFields DEF PartiesTyped, Agents
  <2> QED
    BY <2>1, <2>2, <2>3, SavedFields DEF Numbered
<1>9. CASE StopSvc
  BY <1>9 DEF StopSvc, Numbered, PartiesTyped, FilesTyped, Files, Reports,
     Agents, AgentOff, clientVars, minderVars
<1>10. CASE StartHashd
  <2>1. PICK cmd \in Cmds : SaveCmd(cmd)
    BY <1>10, SwitchHashdSaves DEF StartHashd
  <2>2. inst' = inst
    BY <1>10 DEF StartHashd, SwitchHashd
  <2>3. agent'.life = agent.life
    BY <2>1, SavedFields DEF PartiesTyped, Agents
  <2> QED
    BY <2>1, <2>2, <2>3, SavedFields DEF Numbered
<1>11. CASE StopHashd
  <2>1. PICK cmd \in Cmds : SaveCmd(cmd)
    BY <1>11, SwitchHashdSaves DEF StopHashd
  <2>2. inst' = inst
    BY <1>11 DEF StopHashd, SwitchHashd
  <2>3. agent'.life = agent.life
    BY <2>1, SavedFields DEF PartiesTyped, Agents
  <2> QED
    BY <2>1, <2>2, <2>3, SavedFields DEF Numbered
<1>12. CASE DropAgent
  BY <1>12 DEF DropAgent, Numbered, PartiesTyped, FilesTyped, Files, Reports,
     Agents, AgentOff, clientVars, minderVars
<1>13. CASE JoinMinder
  BY <1>13 DEF JoinMinder, Numbered, PartiesTyped, FilesTyped, Files, Reports,
     Agents, AgentOff, clientVars, minderVars
<1>14. CASE AgentReset
  BY <1>14 DEF AgentReset, Numbered, PartiesTyped, FilesTyped, Files, Reports,
     Agents, AgentOff, clientVars, minderVars
<1>15. CASE AgentLoad
  BY <1>15 DEF AgentLoad, Numbered, PartiesTyped, FilesTyped, Files, Reports,
     Agents, AgentOff, clientVars, minderVars
<1>16. CASE HalfSecond
  BY <1>16 DEF HalfSecond, Numbered, PartiesTyped, FilesTyped, Files, Reports,
     Agents, AgentOff, clientVars, minderVars
<1>17. CASE AgentReload
  BY <1>17 DEF AgentReload, Numbered, PartiesTyped, FilesTyped, Files,
     Reports, Agents, AgentOff, clientVars, minderVars
<1>18. CASE AgentAck
  <2>1. cl' = cl /\ inst' = inst
    BY <1>18 DEF AgentAck
  <2>2. agent'.life = agent.life
    BY <1>18 DEF AgentAck, PartiesTyped, Agents
  <2> QED
    BY <1>18, <2>1, <2>2, AckWritten DEF Numbered, PartiesTyped
<1>19. CASE AgentApply
  BY <1>19, Applied DEF AgentApply, Numbered, clientVars, minderVars
<1>20. CASE AgentComplete
  <2>1. cl' = cl /\ inst' = inst
    BY <1>20 DEF AgentComplete
  <2>2. agent'.life = agent.life
    BY <1>20 DEF AgentComplete, PartiesTyped, Agents
  <2> QED
    BY <1>20, <2>1, <2>2, ResultWritten DEF Numbered, PartiesTyped
<1>21. CASE AgentReport
  <2>1. cl' = cl /\ inst' = inst
    BY <1>21 DEF AgentReport
  <2>2. agent'.life = agent.life
    BY <1>21 DEF AgentReport, PartiesTyped, Agents
  <2> QED
    BY <1>21, <2>1, <2>2, ReportWritten DEF Numbered, PartiesTyped
<1>22. CASE BenchExits
  BY <1>22 DEF BenchExits, Numbered, PartiesTyped, FilesTyped, Files, Reports,
     Agents, AgentOff, clientVars, minderVars
<1>23. CASE AgentDies
  BY <1>23 DEF AgentDies, Numbered, PartiesTyped, FilesTyped, Files, Reports,
     Agents, AgentOff, clientVars, minderVars
<1>24. CASE WaitAgain \/ BarrierPassed \/ BenchBegan \/ ResultArrived \/
           BenchEnded \/ HashdSwitched \/ WaitFails \/ CutShort \/ Finish \/
           TakeAgent \/ Settle
  BY <1>f, <1>24 DEF WaitAgain, GiveUp, clientVars, minderVars, BarrierPassed,
     BenchBegan, ResultArrived, BenchEnded, HashdSwitched, WaitFails,
     CutShort, Finish, TakeAgent, Settle
<1> QED
  BY <1>1, <1>2, <1>3, <1>4, <1>5, <1>6, <1>7, <1>8, <1>9, <1>10, <1>11,
     <1>12, <1>13, <1>14, <1>15, <1>16, <1>17, <1>18, <1>19, <1>20, <1>21,
     <1>22, <1>23, <1>24 DEF Next, Minder, Main, Agent, System, Wait,
     StopAgent

LEMMA AgentSoundStep ==
    ASSUME FilesTyped, SetsTyped, PartiesTyped, KindKept, Lives, AgentSound,
           Next
    PROVE  AgentSound'
<1>f. ASSUME UNCHANGED <<disk, agent>> PROVE AgentSound'
  BY <1>f DEF AgentSound, Alive
<1>1. CASE StartAgent
  BY <1>1, KindsAssumption DEF StartAgent, AgentSound, Alive, PartiesTyped,
     Agents, AgentOff, clientVars, minderVars
<1>2. ASSUME NEW initFns \in BOOLEAN, Configure(initFns) PROVE AgentSound'
  <2>1. PICK cmd \in Cmds : SaveCmd(cmd)
    BY <1>2, ConfigureSaves
  <2>2. disk'.bench = disk.bench
    BY <2>1, SavedFields
  <2> QED
    BY <2>1, <2>2, SavedFields DEF AgentSound, Alive, PartiesTyped, Agents
<1>3. ASSUME NEW k \in Kinds, StartBench(k) PROVE AgentSound'
  <2>1. PICK cmd \in Cmds : SaveCmd(cmd)
    BY <1>3, StartBenchSaves
  <2>2. disk'.bench = disk.bench
    BY <2>1, SavedFields
  <2> QED
    BY <2>1, <2>2, SavedFields DEF AgentSound, Alive, PartiesTyped, Agents
<1>4. CASE StopBench
  <2>1. PICK cmd \in Cmds : SaveCmd(cmd)
    BY <1>4, StopBenchSaves
  <2>2. disk'.bench = disk.bench
    BY <2>1, SavedFields
  <2> QED
    BY <2>1, <2>2, SavedFields DEF AgentSound, Alive, PartiesTyped, Agents
<1>5. CASE StopSvc
  BY <1>5, KindsAssumption DEF StopSvc, AgentSound, Alive, PartiesTyped,
     Agents, AgentOff, clientVars, minderVars
<1>6. CASE StartHashd
  <2>1. PICK cmd \in Cmds : SaveCmd(cmd)
    BY <1>6, SwitchHashdSaves DEF StartHashd
  <2>2. disk'.bench = disk.bench
    BY <2>1, SavedFields
  <2> QED
    BY <2>1, <2>2, SavedFields DEF AgentSound, Alive, PartiesTyped, Agents
<1>7. CASE StopHashd
  <2>1. PICK cmd \in Cmds : SaveCmd(cmd)
    BY <1>7, SwitchHashdSaves DEF StopHashd
  <2>2. disk'.bench = disk.bench
    BY <2>1, SavedFields
  <2> QED
    BY <2>1, <2>2, SavedFields DEF AgentSound, Alive, PartiesTyped, Agents
<1>8. CASE DropAgent
  BY <1>8, KindsAssumption DEF DropAgent, AgentSound, Alive, PartiesTyped,
     Agents, AgentOff, clientVars, minderVars
<1>9. CASE JoinMinder
  BY <1>9, KindsAssumption DEF JoinMinder, AgentSound, Alive, PartiesTyped,
     Agents, AgentOff, clientVars, minderVars
<1>10. CASE AgentReset
  <2>1. disk'.bench = disk.bench /\ agent'.life = "reset" /\ agent'.state = agent.state
    BY <1>10 DEF AgentReset, PartiesTyped, Agents, FilesTyped, Files
  <2> QED
    BY <1>10, <2>1 DEF AgentReset, AgentSound, Alive
<1>11. CASE AgentLoad
  <2>1. agent'.life = "loaded" /\ agent'.state = agent.state
    BY <1>11 DEF AgentLoad, PartiesTyped, Agents
  <2> QED
    BY <1>11, <2>1, KindsAssumption DEF AgentLoad, AgentSound, Alive
<1>12. CASE HalfSecond
  BY <1>12, KindsAssumption DEF HalfSecond, AgentSound, Alive, PartiesTyped,
     Agents, AgentOff, clientVars, minderVars
<1>13. CASE AgentReload
  BY <1>13, KindsAssumption DEF AgentReload, AgentSound, Alive, PartiesTyped,
     Agents, AgentOff, clientVars, minderVars
<1>14. CASE AgentAck
  <2>1. agent' \in {agent, [agent EXCEPT !.acked = TRUE]}
    BY <1>14 DEF AgentAck
  <2> QED
    BY <1>14, <2>1, AckWritten DEF AgentSound, Alive, PartiesTyped, Agents
<1>15. CASE AgentApply
  <2>1. disk' = disk
    BY <1>15 DEF AgentApply
  <2>2. \A k \in Requested : k \in Kinds /\ agent.cmd.bench[k] > disk.bench.seq[k]
    BY DEF Requested
  <2>3. Requested # {} => Preferred \in Requested
    BY KindsAssumption DEF Requested, Preferred
  <2> QED
    BY <1>15, <2>1, <2>2, <2>3, KindsAssumption, Applied DEF AgentSound, Alive
<1>16. CASE AgentComplete
  <2>1. agent'.life = agent.life /\ agent'.state = "Idle"
    BY <1>16 DEF AgentComplete, PartiesTyped, Agents
  <2> QED
    BY <1>16, <2>1, KindsAssumption, ResultWritten DEF AgentSound, Alive
<1>17. CASE AgentReport
  <2>1. agent' \in {agent, [agent EXCEPT !.acked = TRUE]}
    BY <1>17 DEF AgentReport
  <2> QED
    BY <1>17, <2>1, ReportWritten DEF AgentSound, Alive, PartiesTyped, Agents
<1>18. CASE BenchExits
  BY <1>18, KindsAssumption DEF BenchExits, AgentSound, Alive, PartiesTyped,
     Agents, AgentOff, clientVars, minderVars
<1>19. CASE AgentDies
  BY <1>19, KindsAssumption DEF AgentDies, AgentSound, Alive, PartiesTyped,
     Agents, AgentOff, clientVars, minderVars
<1>20. CASE MinderTick \/ MinderLastRefresh \/
           (\E last \in BOOLEAN : MinderReport(last)) \/
           (\E last \in BOOLEAN : MinderBench(last)) \/ WaitAgain \/
           BarrierPassed \/ BenchBegan \/ ResultArrived \/ BenchEnded \/
           HashdSwitched \/ WaitFails \/ CutShort \/ Finish \/ TakeAgent \/
           Settle
  BY <1>f, <1>20 DEF MinderTick, clientVars, minderVars, MinderLastRefresh,
     MinderReport, MinderBench, WaitAgain, GiveUp, BarrierPassed, BenchBegan,
     ResultArrived, BenchEnded, HashdSwitched, WaitFails, CutShort, Finish,
     TakeAgent, Settle
<1> QED
  BY <1>1, <1>2, <1>3, <1>4, <1>5, <1>6, <1>7, <1>8, <1>9, <1>10, <1>11,
     <1>12, <1>13, <1>14, <1>15, <1>16, <1>17, <1>18, <1>19, <1>20 DEF Next,
     Minder, Main, Agent, System, Wait, StopAgent

(* Only what is asked for is loaded, and the index stays known.             *)
LEMMA RefreshedOnly ==
    ASSUME FilesTyped, SetsTyped, NEW files \in SUBSET FileNames, RefreshOne(files)
    PROVE  /\ "report" \notin files => cl'.report \in {cl.report, NoReport}
           /\ "index" \in have \cup unread => "index" \in have' \cup unread'
<1> DEFINE renewed == "index" \in files /\ Loadable("index", have)
           kept == IF renewed THEN [NoFiles EXCEPT !.index = disk.index] ELSE cl
           paths == IF renewed THEN {"index"} ELSE have
           new == {f \in files \ {"index"} : "index" \in paths /\ Loadable(f, paths)}
<1>1. /\ cl' = [f \in FileNames |-> IF f \in new THEN disk[f] ELSE kept[f]]
      /\ have' = paths \cup new
      /\ unread' = unread \ (IF renewed THEN new \cup {"index"} ELSE new)
  BY Zenon DEF RefreshOne
<1>2. kept.report \in {cl.report, NoReport}
  BY DEF NoFiles
<1>3. "report" \notin files => "report" \notin new
  OBVIOUS
<1>4. "index" \notin new
  OBVIOUS
<1> HIDE DEF new, kept
<1>5. "report" \notin new => cl'["report"] = kept.report
  BY <1>1 DEF FileNames
<1>6. cl' \in Files
  BY RefreshedFields
<1>7. "report" \notin files => cl'.report \in {cl.report, NoReport}
  BY <1>2, <1>3, <1>5, <1>6 DEF Files
<1>8. "index" \in have \cup unread => "index" \in have' \cup unread'
  BY <1>1, <1>4
<1> QED
  BY <1>7, <1>8

(* With files that have settled a refresh leaves nothing to be loaded.      *)
LEMMA RefreshedFully ==
    ASSUME FilesTyped, SetsTyped, RefreshOne({"index", "cmd", "ack"}),
           disk.index.inst > 0, disk.cmd.inst > 0, disk.ack.inst > 0,
           young \subseteq {"report"}, "index" \in have \cup unread
    PROVE  {"index", "cmd", "ack"} \subseteq have' \ unread'
<1> DEFINE files == {"index", "cmd", "ack"}
<1>1. CASE "index" \in have \ unread
  <2> DEFINE new == {f \in files \ {"index"} : Loadable(f, have)}
  <2>1. files \in SUBSET FileNames
    BY DEF FileNames
  <2>2. have' = have \cup new /\ unread' = unread \ new
    BY <1>1, <2>1, RefreshedInTouch
  <2>3. "cmd" \in new \/ "cmd" \in have \ unread
    BY DEF Loadable
  <2>4. "ack" \in new \/ "ack" \in have \ unread
    BY DEF Loadable
  <2>5. "index" \notin new
    OBVIOUS
  <2> HIDE DEF new
  <2> QED
    BY <1>1, <2>2, <2>3, <2>4, <2>5
<1>2. CASE "index" \notin have \ unread
  <2> DEFINE new == {f \in files \ {"index"} : "index" \in {"index"} /\ Loadable(f, {"index"})}
  <2>1. Loadable("index", have)
    BY <1>2 DEF Loadable
  <2>2. have' = {"index"} \cup new /\ unread' = unread \ (new \cup {"index"})
    BY <2>1 DEF RefreshOne
  <2>3. "cmd" \in new /\ "ack" \in new
    BY DEF Loadable
  <2> HIDE DEF new
  <2> QED
    BY <2>2, <2>3
<1> QED
  BY <1>1, <1>2

(* The start of an agent, until the client has its first report.           *)
LEMMA ComingUpStep ==
    ASSUME FilesTyped, SetsTyped, PartiesTyped, KindKept, Lives, AgentSound, Coherent,
           Numbered, ComingUp,
           Next
    PROVE  ComingUp'
<1>f. ASSUME UNCHANGED <<disk, young, unread, cl, have, main, minder, agent, inst>> PROVE ComingUp'
  BY <1>f DEF ComingUp, Reported, Refreshing
<1>1. CASE MinderTick
  <2> SUFFICES ASSUME main'.pc = "up" PROVE ComingUp'
    BY DEF ComingUp
  <2>1. UNCHANGED <<disk, young, main, inst, agent>>
    BY <1>1 DEF MinderTick
  <2>2. CASE RefreshOne({"index", "cmd", "ack"}) /\ minder'.pc = "report"
    <3>1. {"index", "cmd", "ack"} \in SUBSET FileNames
      BY DEF FileNames
    <3>2. "index" \in have \cup unread => "index" \in have' \cup unread'
      BY <2>2, <3>1, RefreshedOnly
    <3>3. cl'.report \in {cl.report, NoReport}
      BY <2>2, <3>1, RefreshedOnly
    <3>4. Reported => {"index", "cmd", "ack"} \subseteq have' \ unread'
      <4> SUFFICES ASSUME Reported PROVE {"index", "cmd", "ack"} \subseteq have' \ unread'
        OBVIOUS
      <4>1. /\ disk.index.inst > 0 /\ disk.cmd.inst > 0 /\ disk.ack.inst > 0
            /\ young \subseteq {"report"} /\ "index" \in have \cup unread
        BY <2>1 DEF ComingUp, DefaultCmd, DefaultAck, PartiesTyped
      <4> QED
        BY <2>2, <4>1, RefreshedFully
    <3>5. cl'.report.inst = inst => cl.report = cl'.report /\ Reported
      BY <2>1, <3>3 DEF NoReport, PartiesTyped, ComingUp, Reported
    <3>6. cl'.report.inst = inst =>
           /\ "report" \in have'
           /\ "bench" \in have' \ unread' \/ minder.pc = "bench"
      <4> SUFFICES ASSUME cl'.report.inst = inst
                   PROVE  "report" \in have' /\ ("bench" \in have' \ unread' \/ minder.pc = "bench")
        OBVIOUS
      <4>1. /\ "index" \in have \ unread /\ "report" \in have
            /\ "bench" \in have \ unread \/ minder.pc = "bench"
        BY <2>1, <3>5 DEF ComingUp
      <4>2. have \subseteq have' /\ unread' \subseteq unread
        BY <2>2, <3>1, <4>1, RefreshedInTouch
      <4> QED
        BY <4>1, <4>2
    <3>7. minder.pc # "bench"
      BY <1>1 DEF MinderTick, Asleep
    <3> QED
      BY <2>1, <2>2, <3>2, <3>4, <3>5, <3>6, <3>7 DEF ComingUp, Reported
  <2>3. CASE UNCHANGED <<cl, have, unread>> /\ minder'.pc = "last"
    BY <1>1, <2>1, <2>3 DEF MinderTick, Asleep, ComingUp, Reported, Refreshing
  <2> QED
    BY <1>1, <2>2, <2>3 DEF MinderTick, RefreshCommands
<1>2. CASE MinderLastRefresh
  <2> SUFFICES ASSUME main'.pc = "up" PROVE ComingUp'
    BY DEF ComingUp
  <2>1. UNCHANGED <<disk, young, main, inst, agent>>
    BY <1>2 DEF MinderLastRefresh
  <2>2. CASE RefreshOne({"index", "cmd", "ack"}) /\ minder'.pc = "report"
    <3>1. {"index", "cmd", "ack"} \in SUBSET FileNames
      BY DEF FileNames
    <3>2. "index" \in have \cup unread => "index" \in have' \cup unread'
      BY <2>2, <3>1, RefreshedOnly
    <3>3. cl'.report \in {cl.report, NoReport}
      BY <2>2, <3>1, RefreshedOnly
    <3>4. Reported => {"index", "cmd", "ack"} \subseteq have' \ unread'
      <4> SUFFICES ASSUME Reported PROVE {"index", "cmd", "ack"} \subseteq have' \ unread'
        OBVIOUS
      <4>1. /\ disk.index.inst > 0 /\ disk.cmd.inst > 0 /\ disk.ack.inst > 0
            /\ young \subseteq {"report"} /\ "index" \in have \cup unread
        BY <2>1 DEF ComingUp, DefaultCmd, DefaultAck, PartiesTyped
      <4> QED
        BY <2>2, <4>1, RefreshedFully
    <3>5. cl'.report.inst = inst => cl.report = cl'.report /\ Reported
      BY <2>1, <3>3 DEF NoReport, PartiesTyped, ComingUp, Reported
    <3>6. cl'.report.inst = inst =>
           /\ "report" \in have'
           /\ "bench" \in have' \ unread' \/ minder.pc = "bench"
      <4> SUFFICES ASSUME cl'.report.inst = inst
                   PROVE  "report" \in have' /\ ("bench" \in have' \ unread' \/ minder.pc = "bench")
        OBVIOUS
      <4>1. /\ "index" \in have \ unread /\ "report" \in have
            /\ "bench" \in have \ unread \/ minder.pc = "bench"
        BY <2>1, <3>5 DEF ComingUp
      <4>2. have \subseteq have' /\ unread' \subseteq unread
        BY <2>2, <3>1, <4>1, RefreshedInTouch
      <4> QED
        BY <4>1, <4>2
    <3>7. minder.pc # "bench"
      BY <1>2 DEF MinderLastRefresh, Asleep
    <3> QED
      BY <2>1, <2>2, <3>2, <3>4, <3>5, <3>6, <3>7 DEF ComingUp, Reported
  <2> QED
    BY <1>2, <2>2 DEF MinderLastRefresh, RefreshCommands
<1>3. ASSUME NEW last \in BOOLEAN, MinderReport(last) PROVE ComingUp'
  <2> SUFFICES ASSUME main'.pc = "up" PROVE ComingUp'
    BY DEF ComingUp
  <2>1. UNCHANGED <<disk, young, main, inst, agent>>
    BY <1>3 DEF MinderReport
  <2>2. RefreshOne({"report"}) /\ {"report"} \in SUBSET FileNames /\ minder.pc = "report"
    BY <1>3 DEF MinderReport, RefreshPart, FileNames
  <2>3. "index" \in have \cup unread => "index" \in have' \cup unread'
    BY <2>2, RefreshedOnly
  <2>4. CASE ~Reported
    <3>1. cl'.report.inst # inst
      <4>1. cl'.report \in {cl.report, disk.report, NoReport}
        BY <2>2, RefreshedFields
      <4> QED
        BY <2>1, <2>4, <4>1 DEF NoReport, PartiesTyped, ComingUp, Reported
    <3> QED
      BY <2>1, <2>3, <2>4, <3>1 DEF ComingUp, Reported
  <2>5. CASE Reported
    <3>1. {"index", "cmd", "ack"} \subseteq have \ unread
      BY <2>1, <2>2, <2>5 DEF ComingUp, Refreshing
    <3>2. /\ have' = have \cup {f \in {"report"} \ {"index"} : Loadable(f, have)}
          /\ unread' = unread \ {f \in {"report"} \ {"index"} : Loadable(f, have)}
          /\ cl'.report = IF "report" \in {f \in {"report"} \ {"index"} : Loadable(f, have)}
                             THEN disk.report ELSE cl.report
      BY <2>2, <3>1, RefreshedInTouch
    <3>3. have \subseteq have' /\ unread' \subseteq unread
      BY <3>2
    <3>4. cl'.report.inst = inst => /\ "report" \in have' /\ disk.report.inst = inst
      BY <2>1, <3>2 DEF ComingUp
    <3>5. minder'.pc = "bench"
      BY <1>3 DEF MinderReport
    <3> QED
      BY <2>1, <2>3, <2>5, <3>1, <3>3, <3>4, <3>5 DEF ComingUp, Reported
  <2> QED
    BY <2>4, <2>5
<1>4. ASSUME NEW last \in BOOLEAN, MinderBench(last) PROVE ComingUp'
  <2> SUFFICES ASSUME main'.pc = "up" PROVE ComingUp'
    BY DEF ComingUp
  <2>1. UNCHANGED <<disk, young, main, inst, agent>>
    BY <1>4 DEF MinderBench
  <2>2. RefreshOne({"bench"}) /\ {"bench"} \in SUBSET FileNames /\ minder.pc = "bench"
    BY <1>4 DEF MinderBench, RefreshPart, FileNames
  <2>3. "index" \in have \cup unread => "index" \in have' \cup unread'
    BY <2>2, RefreshedOnly
  <2>4. CASE ~Reported
    <3>1. cl'.report.inst # inst
      <4>1. cl'.report \in {cl.report, disk.report, NoReport}
        BY <2>2, RefreshedFields
      <4> QED
        BY <2>1, <2>4, <4>1 DEF NoReport, PartiesTyped, ComingUp, Reported
    <3> QED
      BY <2>1, <2>3, <2>4, <3>1 DEF ComingUp, Reported
  <2>5. CASE Reported
    <3>1. {"index", "cmd", "ack"} \subseteq have \ unread
      BY <2>1, <2>2, <2>5 DEF ComingUp, Refreshing
    <3>2. /\ have' = have \cup {f \in {"bench"} \ {"index"} : Loadable(f, have)}
          /\ unread' = unread \ {f \in {"bench"} \ {"index"} : Loadable(f, have)}
          /\ cl'.report = cl.report
      BY <2>2, <3>1, RefreshedInTouch
    <3>3. have \subseteq have' /\ unread' \subseteq unread
      BY <3>2
    <3>4. disk.bench.inst > 0 /\ "bench" \notin young
      BY <2>1, <2>5 DEF Coherent, ComingUp
    <3>5. "bench" \in have' \ unread'
      BY <3>2, <3>4 DEF Loadable
    <3> QED
      BY <2>1, <2>3, <2>5, <3>1, <3>2, <3>3, <3>5 DEF ComingUp, Reported
  <2> QED
    BY <2>4, <2>5
<1>5. CASE StartAgent
  <2>1. agent'.life = "spawned" /\ inst' = inst + 1 /\ UNCHANGED <<disk, cl>>
    BY <1>5 DEF StartAgent, AgentOff, clientVars
  <2>2. disk.report.inst # inst + 1 /\ cl.report.inst # inst + 1
    BY DEF Numbered, PartiesTyped, FilesTyped, Files, Reports
  <2> QED
    BY <2>1, <2>2 DEF ComingUp, Reported
<1>6. CASE WaitAgain
  <2>1. CASE UNCHANGED main
    BY <1>6, <1>f, <2>1 DEF WaitAgain, clientVars, minderVars
  <2>2. CASE GiveUp
    BY <2>2 DEF GiveUp, ComingUp, PartiesTyped, Mains
  <2> QED
    BY <1>6, <2>1, <2>2 DEF WaitAgain
<1>7. ASSUME NEW initFns \in BOOLEAN, Configure(initFns) PROVE ComingUp'
  BY <1>7, ConfigureSaves DEF ComingUp, PartiesTyped, Mains
<1>8. CASE BarrierPassed
  BY <1>8 DEF BarrierPassed, KindKept, ComingUp, PartiesTyped, Mains,
     Satisfied, Look
<1>9. CASE BenchBegan
  BY <1>9 DEF BenchBegan, ComingUp, PartiesTyped, Mains, Satisfied, Look,
     Waits, Working, Calm, Busy, Began, Asked
<1>10. CASE ResultArrived
  BY <1>10 DEF ResultArrived, ComingUp, PartiesTyped, Mains, Satisfied, Look,
     Waits, Working, Calm, Busy, Began, Asked
<1>11. CASE BenchEnded
  BY <1>11 DEF BenchEnded, ComingUp, PartiesTyped, Mains, Satisfied, Look,
     Waits, Working, Calm, Busy, Began, Asked
<1>12. CASE HashdSwitched
  BY <1>12 DEF HashdSwitched, ComingUp, PartiesTyped, Mains, Satisfied, Look,
     Waits, Working, Calm, Busy, Began, Asked
<1>13. CASE WaitFails
  BY <1>13 DEF WaitFails, GiveUp, ComingUp, PartiesTyped, Mains, Satisfied,
     Look, Waits, Working, Calm, Busy, Began, Asked
<1>14. CASE CutShort
  BY <1>14 DEF CutShort, ComingUp, PartiesTyped, Mains, Satisfied, Look,
     Waits, Working, Calm, Busy, Began, Asked
<1>15. ASSUME NEW k \in Kinds, StartBench(k) PROVE ComingUp'
  BY <1>15 DEF StartBench, ComingUp, PartiesTyped, Mains, Satisfied, Look,
     Waits, Working, Calm, Busy, Began, Asked
<1>16. CASE StopBench
  BY <1>16 DEF StopBench, ComingUp, PartiesTyped, Mains, Satisfied, Look,
     Waits, Working, Calm, Busy, Began, Asked
<1>17. CASE StopSvc
  BY <1>17 DEF StopSvc, ComingUp, PartiesTyped, Mains
<1>18. CASE StartHashd
  BY <1>18 DEF StartHashd, SwitchHashd, ComingUp, PartiesTyped, Mains,
     Satisfied, Look, Waits, Working, Calm, Busy, Began, Asked
<1>19. CASE StopHashd
  BY <1>19 DEF StopHashd, SwitchHashd, ComingUp, PartiesTyped, Mains,
     Satisfied, Look, Waits, Working, Calm, Busy, Began, Asked
<1>20. CASE Finish
  BY <1>20 DEF Finish, GiveUp, ComingUp, PartiesTyped, Mains, Satisfied, Look,
     Waits, Working, Calm, Busy, Began, Asked
<1>21. CASE TakeAgent
  BY <1>21 DEF TakeAgent, ComingUp, PartiesTyped, Mains, Satisfied, Look,
     Waits, Working, Calm, Busy, Began, Asked
<1>22. CASE DropAgent
  BY <1>22 DEF DropAgent, ComingUp, PartiesTyped, Mains
<1>23. CASE JoinMinder
  BY <1>23 DEF JoinMinder, ComingUp, PartiesTyped, Mains
<1>24. CASE AgentReset
  <2>1. /\ disk'.index.inst = inst /\ disk'.cmd.inst = 0 /\ disk'.report = disk.report
        /\ agent'.life = "reset" /\ "index" \in unread'
        /\ UNCHANGED <<cl, inst>>
    BY <1>24 DEF AgentReset, DefaultCmd, PartiesTyped, Agents, FilesTyped,
       Files
  <2>2. disk.report.inst # inst /\ cl.report.inst # inst
    BY <1>24 DEF AgentReset, Numbered, PartiesTyped, FilesTyped, Files, Reports
  <2> QED
    BY <2>1, <2>2 DEF ComingUp, Reported
<1>25. CASE AgentLoad
  <2>1. /\ disk'.index = disk.index /\ disk'.report = disk.report
        /\ disk'.cmd = DefaultCmd(inst) /\ disk'.ack = DefaultAck(inst)
        /\ agent'.life = "loaded" /\ agent'.cmd = DefaultCmd(inst) /\ agent'.state = agent.state
        /\ unread \subseteq unread' /\ UNCHANGED <<cl, inst, have, main>>
    BY <1>25 DEF AgentLoad, PartiesTyped, Agents, FilesTyped, Files
  <2>2. disk.report.inst # inst /\ cl.report.inst # inst /\ agent.state \notin Kinds
    BY <1>25, KindsAssumption DEF AgentLoad, AgentSound, Numbered,
       PartiesTyped, FilesTyped, Files, Reports
  <2> QED
    BY <1>25, <2>1, <2>2 DEF AgentLoad, ComingUp, Reported
<1>26. CASE HalfSecond
  <2>1. /\ agent'.life = "up" /\ agent'.cmd = agent.cmd /\ agent'.state = agent.state
        /\ agent.life = "loaded" /\ young = {} /\ ~Refreshing
        /\ UNCHANGED <<disk, young, unread, cl, have, main, minder, inst>>
    BY <1>26 DEF HalfSecond, PartiesTyped, Agents, clientVars, minderVars
  <2> QED
    BY <2>1 DEF ComingUp, Reported, Refreshing
<1>27. CASE AgentReload
  <2>1. /\ agent'.life = agent.life /\ agent'.cmd = disk.cmd /\ agent'.state = agent.state
        /\ agent.life \in {"loaded", "up"}
        /\ UNCHANGED <<disk, young, unread, cl, have, main, minder, inst>>
    BY <1>27 DEF AgentReload, Alive, PartiesTyped, Agents, clientVars,
       minderVars
  <2> QED
    BY <2>1 DEF ComingUp, Reported, Refreshing
<1>28. CASE AgentAck
  <2>1. UNCHANGED <<cl, have, main, minder, inst>>
    BY <1>28 DEF AgentAck, minderVars
  <2>2. CASE main.pc = "up"
    <3>1. disk.ack = [inst |-> inst, cmd_seq |-> agent.cmd.cmd_seq]
      BY <1>28, <2>2, AckWritten DEF Alive, ComingUp, DefaultCmd, DefaultAck
    <3>2. UNCHANGED <<disk, young, unread>> /\ agent' = [agent EXCEPT !.acked = TRUE]
      BY <1>28, <3>1 DEF AgentAck
    <3> QED
      BY <2>1, <2>2, <3>2 DEF ComingUp, Reported, Refreshing, PartiesTyped,
         Agents
  <2> QED
    BY <2>1, <2>2 DEF ComingUp
<1>29. CASE AgentApply
  <2>1. UNCHANGED <<disk, young, unread, cl, have, main, minder, inst>>
    BY <1>29 DEF AgentApply, clientVars, minderVars
  <2>2. CASE main.pc = "up"
    <3>1. Requested = {}
      BY <1>29, <2>2, Applied DEF Requested, Alive, ComingUp, DefaultCmd,
         Zeros, FilesTyped, Files, Results
    <3>2. agent'.life = agent.life /\ agent'.cmd = agent.cmd /\ agent'.state \notin Kinds
      BY <1>29, <3>1, KindsAssumption, Applied
    <3> QED
      BY <2>1, <2>2, <3>2 DEF ComingUp, Reported, Refreshing
  <2> QED
    BY <2>1, <2>2 DEF ComingUp
<1>30. CASE AgentComplete
  <2>1. main.pc # "up"
    BY <1>30, ResultWritten DEF Alive, ComingUp
  <2> QED
    BY <1>30, <2>1 DEF AgentComplete, ComingUp
<1>31. CASE AgentReport
  <2>1. /\ UNCHANGED <<cl, have, main, minder, inst, agent>> /\ agent.life = "up"
        /\ UNCHANGED <<disk.index, disk.cmd, disk.ack>>
        /\ disk'.report.inst = inst /\ disk'.report.state = agent.state
        /\ young' = young \cup {"report"} /\ unread' = unread \cup {"report"}
    BY <1>31, ReportWritten DEF AgentReport, minderVars
  <2> QED
    BY <2>1 DEF ComingUp, Reported, Refreshing
<1>32. CASE BenchExits
  BY <1>32 DEF BenchExits, ComingUp, Reported, Refreshing, PartiesTyped,
     Agents, clientVars, minderVars
<1>33. CASE AgentDies
  <2>1. /\ agent'.life = "dead"
        /\ UNCHANGED <<disk, young, unread, cl, have, main, minder, inst>>
    BY <1>33 DEF AgentDies, clientVars, minderVars
  <2> QED
    BY <2>1 DEF ComingUp, Reported, Refreshing
<1>34. CASE Settle
  BY <1>34 DEF Settle, ComingUp, Reported, Refreshing, clientVars, minderVars
<1> QED
  BY <1>1, <1>2, <1>3, <1>4, <1>5, <1>6, <1>7, <1>8, <1>9, <1>10, <1>11,
     <1>12, <1>13, <1>14, <1>15, <1>16, <1>17, <1>18, <1>19, <1>20, <1>21,
     <1>22, <1>23, <1>24, <1>25, <1>26, <1>27, <1>28, <1>29, <1>30, <1>31,
     <1>32, <1>33, <1>34 DEF Next, Minder, Main, Agent, System, Wait,
     StopAgent

(* A working client's commands and their acknowledgement.                  *)
LEMMA InTouchStep ==
    ASSUME FilesTyped, SetsTyped, PartiesTyped, KindKept, Lives, Coherent,
           ComingUp, InTouch,
           Next
    PROVE  InTouch'
<1>f. ASSUME UNCHANGED <<disk, unread, cl, have, main, agent, inst>> PROVE InTouch'
  BY <1>f DEF InTouch
<1>1. CASE MinderTick
  <2> SUFFICES ASSUME main.pc \in Working PROVE InTouch'
    BY <1>1 DEF MinderTick, InTouch
  <2>1. UNCHANGED <<disk, main, inst, agent>>
    BY <1>1 DEF MinderTick
  <2>2. "index" \in have \ unread /\ have = FileNames
    BY DEF InTouch, FileNames
  <2>3. ASSUME NEW files \in SUBSET FileNames, RefreshOne(files) PROVE InTouch'
    <3>1. /\ cl'.cmd \in {disk.cmd, cl.cmd} /\ cl'.ack \in {disk.ack, cl.ack}
          /\ have \subseteq have' /\ unread' \subseteq unread
      BY <2>2, <2>3, RefreshedInTouch
    <3>2. have' = FileNames
      BY <2>2, <2>3, <3>1, RefreshedFields
    <3> QED
      BY <2>1, <3>1, <3>2 DEF InTouch, FilesTyped, Files, Acks
  <2>4. CASE UNCHANGED <<cl, have, unread>>
    BY <2>1, <2>4 DEF InTouch
  <2> QED
    BY <1>1, <2>3, <2>4 DEF MinderTick, RefreshCommands, FileNames
<1>2. CASE MinderLastRefresh
  <2> SUFFICES ASSUME main.pc \in Working PROVE InTouch'
    BY <1>2 DEF MinderLastRefresh, InTouch
  <2>1. UNCHANGED <<disk, main, inst, agent>>
    BY <1>2 DEF MinderLastRefresh
  <2>2. "index" \in have \ unread /\ have = FileNames
    BY DEF InTouch, FileNames
  <2>3. ASSUME NEW files \in SUBSET FileNames, RefreshOne(files) PROVE InTouch'
    <3>1. /\ cl'.cmd \in {disk.cmd, cl.cmd} /\ cl'.ack \in {disk.ack, cl.ack}
          /\ have \subseteq have' /\ unread' \subseteq unread
      BY <2>2, <2>3, RefreshedInTouch
    <3>2. have' = FileNames
      BY <2>2, <2>3, <3>1, RefreshedFields
    <3> QED
      BY <2>1, <3>1, <3>2 DEF InTouch, FilesTyped, Files, Acks
  <2> QED
    BY <1>2, <2>3 DEF MinderLastRefresh, RefreshCommands, RefreshPart,
       FileNames
<1>3. ASSUME NEW last \in BOOLEAN, MinderReport(last) PROVE InTouch'
  <2> SUFFICES ASSUME main.pc \in Working PROVE InTouch'
    BY <1>3 DEF MinderReport, InTouch
  <2>1. UNCHANGED <<disk, main, inst, agent>>
    BY <1>3 DEF MinderReport
  <2>2. "index" \in have \ unread /\ have = FileNames
    BY DEF InTouch, FileNames
  <2>3. ASSUME NEW files \in SUBSET FileNames, RefreshOne(files) PROVE InTouch'
    <3>1. /\ cl'.cmd \in {disk.cmd, cl.cmd} /\ cl'.ack \in {disk.ack, cl.ack}
          /\ have \subseteq have' /\ unread' \subseteq unread
      BY <2>2, <2>3, RefreshedInTouch
    <3>2. have' = FileNames
      BY <2>2, <2>3, <3>1, RefreshedFields
    <3> QED
      BY <2>1, <3>1, <3>2 DEF InTouch, FilesTyped, Files, Acks
  <2> QED
    BY <1>3, <2>3 DEF MinderReport, RefreshCommands, RefreshPart, FileNames
<1>4. ASSUME NEW last \in BOOLEAN, MinderBench(last) PROVE InTouch'
  <2> SUFFICES ASSUME main.pc \in Working PROVE InTouch'
    BY <1>4 DEF MinderBench, InTouch
  <2>1. UNCHANGED <<disk, main, inst, agent>>
    BY <1>4 DEF MinderBench
  <2>2. "index" \in have \ unread /\ have = FileNames
    BY DEF InTouch, FileNames
  <2>3. ASSUME NEW files \in SUBSET FileNames, RefreshOne(files) PROVE InTouch'
    <3>1. /\ cl'.cmd \in {disk.cmd, cl.cmd} /\ cl'.ack \in {disk.ack, cl.ack}
          /\ have \subseteq have' /\ unread' \subseteq unread
      BY <2>2, <2>3, RefreshedInTouch
    <3>2. have' = FileNames
      BY <2>2, <2>3, <3>1, RefreshedFields
    <3> QED
      BY <2>1, <3>1, <3>2 DEF InTouch, FilesTyped, Files, Acks
  <2> QED
    BY <1>4, <2>3 DEF MinderBench, RefreshCommands, RefreshPart, FileNames
<1>5. CASE StartAgent
  BY <1>5 DEF StartAgent, InTouch, PartiesTyped, Mains, Working, Calm, Busy,
     Began, Asked
<1>6. CASE WaitAgain
  BY <1>6 DEF WaitAgain, GiveUp, InTouch, PartiesTyped, Mains, Satisfied,
     Look, Waits, clientVars, minderVars, Working, Calm, Busy, Began, Asked
<1>7. ASSUME NEW initFns \in BOOLEAN, Configure(initFns) PROVE InTouch'
  <2>1. main.pc = "up" /\ cl.report.inst = inst /\ ~Refreshing
    BY <1>7 DEF Configure, Satisfied, Look, Holds, CameUp
  <2>2. /\ {"index", "cmd", "ack"} \subseteq have \ unread /\ disk.report.inst = inst
        /\ "report" \in have /\ "bench" \in have
        /\ disk.cmd = DefaultCmd(inst) /\ disk.ack = DefaultAck(inst)
        /\ agent.life = "up" => agent.cmd = DefaultCmd(inst)
    BY <2>1 DEF ComingUp, Reported, Refreshing
  <2>3. have = FileNames
    BY <2>2 DEF SetsTyped, FileNames
  <2>4. cl.cmd = disk.cmd /\ cl.ack = disk.ack
    <3>1. cl["cmd"] = disk["cmd"] /\ cl["ack"] = disk["ack"]
      BY <2>2 DEF Coherent
    <3> QED
      BY <3>1 DEF FilesTyped, Files
  <2>5. PICK seq \in Nat : /\ seq > cl.cmd.cmd_seq
                          /\ [cl.cmd EXCEPT !.cmd_seq = seq] \in Cmds
                          /\ SaveCmd([cl.cmd EXCEPT !.cmd_seq = seq])
    BY <1>7, ConfigureSaves
  <2> DEFINE cmd == [cl.cmd EXCEPT !.cmd_seq = seq]
  <2>6. cmd \in Cmds /\ SaveCmd(cmd) /\ cmd.cmd_seq = seq
    BY <2>5 DEF Cmds
  <2> HIDE DEF cmd
  <2>7. /\ cl'.cmd = cmd /\ disk'.cmd = cmd /\ have' = have /\ UNCHANGED <<disk.report, disk.ack, cl.ack>>
        /\ agent' = [agent EXCEPT !.unread = Alive]
        /\ unread' \subseteq unread \cup {"cmd"}
    BY <2>2, <2>6, SavedFields
  <2>8. agent'.life = agent.life /\ agent'.cmd = agent.cmd /\ (agent.life = "up" => agent'.unread)
    BY <2>7 DEF PartiesTyped, Agents, Alive
  <2>9. inst' = inst
    BY <1>7 DEF Configure
  <2> QED
    BY <2>2, <2>3, <2>4, <2>5, <2>6, <2>7, <2>8, <2>9 DEF InTouch, DefaultCmd,
       DefaultAck
<1>8. CASE BarrierPassed
  BY <1>8 DEF BarrierPassed, InTouch, KindKept, PartiesTyped, Mains,
     Satisfied, Look, clientVars, minderVars, Working, Calm, Busy, Began,
     Asked
<1>9. CASE BenchBegan
  BY <1>9 DEF BenchBegan, InTouch, PartiesTyped, Mains, Satisfied, Look,
     clientVars, minderVars, Working, Calm, Busy, Began, Asked
<1>10. CASE ResultArrived
  BY <1>10 DEF ResultArrived, InTouch, PartiesTyped, Mains, Satisfied, Look,
     clientVars, minderVars, Working, Calm, Busy, Began, Asked
<1>11. CASE BenchEnded
  BY <1>11 DEF BenchEnded, InTouch, PartiesTyped, Mains, Satisfied, Look,
     clientVars, minderVars, Working, Calm, Busy, Began, Asked
<1>12. CASE HashdSwitched
  BY <1>12 DEF HashdSwitched, InTouch, PartiesTyped, Mains, Satisfied, Look,
     clientVars, minderVars, Working, Calm, Busy, Began, Asked
<1>13. CASE WaitFails
  BY <1>13 DEF WaitFails, GiveUp, InTouch, PartiesTyped, Mains, Satisfied,
     Look, Waits, clientVars, minderVars, Working, Calm, Busy, Began, Asked
<1>14. CASE CutShort
  BY <1>14 DEF CutShort, InTouch, PartiesTyped, Mains, Satisfied, Look,
     clientVars, minderVars, Working, Calm, Busy, Began, Asked
<1>15. ASSUME NEW k \in Kinds, StartBench(k) PROVE InTouch'
  <2>0. main.pc \in Working /\ inst' = inst
    BY <1>15 DEF StartBench, Working, Calm, Busy, Began, Asked
  <2> DEFINE cmd == [cl.cmd EXCEPT !.bench[k] = cl.bench.seq[k] + 1,
                                  !.args = main.calls + 1]
  <2>1. cmd \in Cmds /\ SaveCmd(cmd) /\ cmd.cmd_seq >= cl.cmd.cmd_seq
    <3>1. cmd \in Cmds /\ SaveCmd(cmd)
      BY <1>15, StartBenchSaves
    <3>2. cmd.cmd_seq = cl.cmd.cmd_seq
      BY DEF FilesTyped, Files, Cmds
    <3> HIDE DEF cmd
    <3> QED
      BY <3>1, <3>2 DEF FilesTyped, Files, Cmds
  <2> HIDE DEF cmd
  <2>2. "cmd" \in have
    BY <2>0 DEF InTouch, FileNames
  <2>3. /\ cl'.cmd = cmd /\ disk'.cmd = cmd /\ have' = have /\ UNCHANGED <<disk.report, disk.ack, cl.ack>>
        /\ agent' = [agent EXCEPT !.unread = Alive]
        /\ unread' \subseteq unread \cup {"cmd"}
    BY <2>1, <2>2, SavedFields
  <2>4. agent'.life = agent.life /\ agent'.cmd = agent.cmd /\ (agent.life = "up" => agent'.unread)
    BY <2>3 DEF PartiesTyped, Agents, Alive
  <2>5. agent.cmd.cmd_seq \in Nat /\ disk.cmd.cmd_seq \in Nat /\ cmd.cmd_seq \in Nat
    BY <2>1 DEF PartiesTyped, Agents, FilesTyped, Files, Cmds
  <2> QED
    BY <2>0, <2>1, <2>3, <2>4, <2>5 DEF InTouch
<1>16. CASE StopBench
  <2>0. main.pc \in Working /\ inst' = inst
    BY <1>16 DEF StopBench, Working, Calm, Busy, Began, Asked
  <2> DEFINE cmd == [cl.cmd EXCEPT !.cmd_seq = cl.cmd.cmd_seq + 1,
                       !.bench[main.kind] = cl.bench.seq[main.kind]]
  <2>1. cmd \in Cmds /\ SaveCmd(cmd) /\ cmd.cmd_seq >= cl.cmd.cmd_seq
    <3>1. cmd \in Cmds /\ SaveCmd(cmd)
      BY <1>16, StopBenchSaves
    <3>2. cmd.cmd_seq = cl.cmd.cmd_seq + 1
      BY DEF FilesTyped, Files, Cmds
    <3> HIDE DEF cmd
    <3> QED
      BY <3>1, <3>2 DEF FilesTyped, Files, Cmds
  <2> HIDE DEF cmd
  <2>2. "cmd" \in have
    BY <2>0 DEF InTouch, FileNames
  <2>3. /\ cl'.cmd = cmd /\ disk'.cmd = cmd /\ have' = have /\ UNCHANGED <<disk.report, disk.ack, cl.ack>>
        /\ agent' = [agent EXCEPT !.unread = Alive]
        /\ unread' \subseteq unread \cup {"cmd"}
    BY <2>1, <2>2, SavedFields
  <2>4. agent'.life = agent.life /\ agent'.cmd = agent.cmd /\ (agent.life = "up" => agent'.unread)
    BY <2>3 DEF PartiesTyped, Agents, Alive
  <2>5. agent.cmd.cmd_seq \in Nat /\ disk.cmd.cmd_seq \in Nat /\ cmd.cmd_seq \in Nat
    BY <2>1 DEF PartiesTyped, Agents, FilesTyped, Files, Cmds
  <2> QED
    BY <2>0, <2>1, <2>3, <2>4, <2>5 DEF InTouch
<1>17. CASE StopSvc
  BY <1>17 DEF StopSvc, InTouch, PartiesTyped, Agents, Mains, clientVars,
     minderVars, Working, Calm, Busy, Began, Asked
<1>18. CASE StartHashd
  <2>0. main.pc \in Working /\ inst' = inst
    BY <1>18 DEF StartHashd, SwitchHashd, Working, Calm, Busy, Began, Asked
  <2> DEFINE cmd == [cl.cmd EXCEPT !.cmd_seq = cl.cmd.cmd_seq + 2, !.hashd = TRUE]
  <2>1. cmd \in Cmds /\ SaveCmd(cmd) /\ cmd.cmd_seq >= cl.cmd.cmd_seq
    <3>1. cmd \in Cmds /\ SaveCmd(cmd)
      BY <1>18, SwitchHashdSaves DEF StartHashd
    <3>2. cmd.cmd_seq = cl.cmd.cmd_seq + 2
      BY DEF FilesTyped, Files, Cmds
    <3> HIDE DEF cmd
    <3> QED
      BY <3>1, <3>2 DEF FilesTyped, Files, Cmds
  <2> HIDE DEF cmd
  <2>2. "cmd" \in have
    BY <2>0 DEF InTouch, FileNames
  <2>3. /\ cl'.cmd = cmd /\ disk'.cmd = cmd /\ have' = have /\ UNCHANGED <<disk.report, disk.ack, cl.ack>>
        /\ agent' = [agent EXCEPT !.unread = Alive]
        /\ unread' \subseteq unread \cup {"cmd"}
    BY <2>1, <2>2, SavedFields
  <2>4. agent'.life = agent.life /\ agent'.cmd = agent.cmd /\ (agent.life = "up" => agent'.unread)
    BY <2>3 DEF PartiesTyped, Agents, Alive
  <2>5. agent.cmd.cmd_seq \in Nat /\ disk.cmd.cmd_seq \in Nat /\ cmd.cmd_seq \in Nat
    BY <2>1 DEF PartiesTyped, Agents, FilesTyped, Files, Cmds
  <2> QED
    BY <2>0, <2>1, <2>3, <2>4, <2>5 DEF InTouch
<1>19. CASE StopHashd
  <2>0. main.pc \in Working /\ inst' = inst
    BY <1>19 DEF StopHashd, SwitchHashd, Working, Calm, Busy, Began, Asked
  <2> DEFINE cmd == [cl.cmd EXCEPT !.cmd_seq = cl.cmd.cmd_seq + 2, !.hashd = FALSE]
  <2>1. cmd \in Cmds /\ SaveCmd(cmd) /\ cmd.cmd_seq >= cl.cmd.cmd_seq
    <3>1. cmd \in Cmds /\ SaveCmd(cmd)
      BY <1>19, SwitchHashdSaves DEF StopHashd
    <3>2. cmd.cmd_seq = cl.cmd.cmd_seq + 2
      BY DEF FilesTyped, Files, Cmds
    <3> HIDE DEF cmd
    <3> QED
      BY <3>1, <3>2 DEF FilesTyped, Files, Cmds
  <2> HIDE DEF cmd
  <2>2. "cmd" \in have
    BY <2>0 DEF InTouch, FileNames
  <2>3. /\ cl'.cmd = cmd /\ disk'.cmd = cmd /\ have' = have /\ UNCHANGED <<disk.report, disk.ack, cl.ack>>
        /\ agent' = [agent EXCEPT !.unread = Alive]
        /\ unread' \subseteq unread \cup {"cmd"}
    BY <2>1, <2>2, SavedFields
  <2>4. agent'.life = agent.life /\ agent'.cmd = agent.cmd /\ (agent.life = "up" => agent'.unread)
    BY <2>3 DEF PartiesTyped, Agents, Alive
  <2>5. agent.cmd.cmd_seq \in Nat /\ disk.cmd.cmd_seq \in Nat /\ cmd.cmd_seq \in Nat
    BY <2>1 DEF PartiesTyped, Agents, FilesTyped, Files, Cmds
  <2> QED
    BY <2>0, <2>1, <2>3, <2>4, <2>5 DEF InTouch
<1>20. CASE Finish
  BY <1>20 DEF Finish, GiveUp, InTouch, PartiesTyped, Mains, Satisfied, Look,
     Waits, clientVars, minderVars, Working, Calm, Busy, Began, Asked
<1>21. CASE TakeAgent
  BY <1>21 DEF TakeAgent, InTouch, PartiesTyped, Mains, Satisfied, Look,
     Waits, clientVars, minderVars, Working, Calm, Busy, Began, Asked
<1>22. CASE DropAgent
  BY <1>22 DEF DropAgent, InTouch, PartiesTyped, Mains, Working, Calm, Busy,
     Began, Asked
<1>23. CASE JoinMinder
  BY <1>23 DEF JoinMinder, InTouch, PartiesTyped, Mains, Working, Calm, Busy,
     Began, Asked
<1>24. CASE AgentReset
  BY <1>24 DEF AgentReset, InTouch, Lives, PartiesTyped, Mains, clientVars
<1>25. CASE AgentLoad
  BY <1>25 DEF AgentLoad, InTouch, Lives, PartiesTyped, Mains, clientVars
<1>26. CASE HalfSecond
  BY <1>26 DEF HalfSecond, InTouch, Lives, PartiesTyped, Mains, clientVars
<1>27. CASE AgentReload
  <2>1. /\ UNCHANGED <<disk, unread, main, cl, have, inst>>
        /\ agent'.life = agent.life /\ agent'.cmd = disk.cmd
    BY <1>27 DEF AgentReload, clientVars, PartiesTyped, Agents
  <2> QED
    BY <2>1 DEF InTouch, FilesTyped, Files, Cmds, Acks, PartiesTyped, Agents
<1>28. CASE AgentAck
  <2>1. UNCHANGED <<main, cl, have, inst>>
    BY <1>28 DEF AgentAck
  <2>2. /\ agent'.life = agent.life /\ agent'.cmd = agent.cmd /\ agent'.unread = agent.unread
        /\ UNCHANGED <<disk.cmd, disk.report>> /\ disk'.ack.cmd_seq = agent.cmd.cmd_seq
        /\ unread' \subseteq unread \cup {"ack"}
    BY <1>28, AckWritten DEF PartiesTyped, Agents
  <2>3. main.pc \in Working => agent.life = "up"
    BY <1>28, AckWritten DEF Lives, Alive
  <2> QED
    BY <2>1, <2>2, <2>3 DEF InTouch, FilesTyped, Files, Cmds, Acks,
       PartiesTyped, Agents
<1>29. CASE AgentApply
  BY <1>29, Applied DEF AgentApply, InTouch, clientVars
<1>30. CASE AgentComplete
  <2>1. UNCHANGED <<main, cl, have, inst>>
    BY <1>30 DEF AgentComplete
  <2>2. /\ agent'.life = agent.life /\ agent'.cmd = agent.cmd /\ agent'.unread = agent.unread
        /\ UNCHANGED <<disk.cmd, disk.report, disk.ack>>
        /\ unread' \subseteq unread \cup {"bench"}
    BY <1>30, ResultWritten DEF PartiesTyped, Agents
  <2> QED
    BY <2>1, <2>2 DEF InTouch
<1>31. CASE AgentReport
  <2>1. UNCHANGED <<main, cl, have, inst>> /\ agent' = agent
    BY <1>31 DEF AgentReport
  <2>2. /\ UNCHANGED <<disk.cmd, disk.ack>> /\ disk'.report.inst = inst
        /\ unread' \subseteq unread \cup {"report"}
    BY <1>31, ReportWritten
  <2> QED
    BY <2>1, <2>2 DEF InTouch
<1>32. CASE BenchExits
  BY <1>32 DEF BenchExits, InTouch, PartiesTyped, Agents, Mains, clientVars,
     minderVars, Working, Calm, Busy, Began, Asked
<1>33. CASE AgentDies
  BY <1>33 DEF AgentDies, InTouch, AgentOff, clientVars, minderVars
<1>34. CASE Settle
  BY <1>f, <1>34 DEF Settle, clientVars, minderVars
<1> QED
  BY <1>1, <1>2, <1>3, <1>4, <1>5, <1>6, <1>7, <1>8, <1>9, <1>10, <1>11,
     <1>12, <1>13, <1>14, <1>15, <1>16, <1>17, <1>18, <1>19, <1>20, <1>21,
     <1>22, <1>23, <1>24, <1>25, <1>26, <1>27, <1>28, <1>29, <1>30, <1>31,
     <1>32, <1>33, <1>34 DEF Next, Minder, Main, Agent, System, Wait,
     StopAgent

LEMMA AtBarrierStep ==
    ASSUME FilesTyped, SetsTyped, PartiesTyped, KindKept, Lives, Coherent,
           ComingUp, InTouch, AtBarrier,
           Next
    PROVE  AtBarrier'
<1>f. ASSUME UNCHANGED <<disk, main, agent>> PROVE AtBarrier'
  BY <1>f DEF AtBarrier
<1>1. CASE StartAgent
  BY <1>1 DEF StartAgent, AtBarrier, PartiesTyped, Mains, Agents, Satisfied,
     Look, Waits, clientVars, minderVars
<1>2. CASE WaitAgain
  BY <1>2 DEF WaitAgain, GiveUp, AtBarrier, PartiesTyped, Mains, Agents,
     Satisfied, Look, Waits, clientVars, minderVars
<1>3. ASSUME NEW initFns \in BOOLEAN, Configure(initFns) PROVE AtBarrier'
  <2> SUFFICES ASSUME main'.pc = "barrier" PROVE AtBarrier'
    BY DEF AtBarrier
  <2>1. main.pc = "up" /\ cl.report.inst = inst /\ ~Refreshing
    BY <1>3 DEF Configure, Satisfied, Look, Holds, CameUp
  <2>2. /\ "cmd" \in have \ unread /\ "index" \notin unread
        /\ disk.cmd = DefaultCmd(inst)
        /\ agent.life = "up" => agent.cmd = DefaultCmd(inst)
    BY <2>1 DEF ComingUp, Reported, Refreshing
  <2>4. cl.cmd = disk.cmd
    <3>1. cl["cmd"] = disk["cmd"]
      BY <2>2 DEF Coherent
    <3> QED
      BY <3>1 DEF FilesTyped, Files
  <2>5. PICK seq \in Nat : /\ seq > cl.cmd.cmd_seq
                          /\ [cl.cmd EXCEPT !.cmd_seq = seq] \in Cmds
                          /\ SaveCmd([cl.cmd EXCEPT !.cmd_seq = seq])
                          /\ main' = IF initFns THEN [main EXCEPT !.pc = "barrier",
                                                    !.want = seq, !.next = "ready"]
                                     ELSE [main EXCEPT !.pc = "ready"]
    BY <1>3, ConfigureSaves
  <2>6. main'.want = seq
    BY <2>5 DEF PartiesTyped, Mains
  <2> DEFINE cmd == [cl.cmd EXCEPT !.cmd_seq = seq]
  <2>7. cmd \in Cmds /\ SaveCmd(cmd) /\ cmd.cmd_seq = seq
    BY <2>5 DEF Cmds, FilesTyped, Files
  <2> HIDE DEF cmd
  <2>8. disk'.cmd = cmd /\ agent' = [agent EXCEPT !.unread = Alive]
    BY <2>2, <2>7, SavedFields
  <2>9. agent'.life = agent.life /\ agent'.cmd = agent.cmd
    BY <2>8 DEF PartiesTyped, Agents
  <2> QED
    BY <2>2, <2>4, <2>5, <2>6, <2>7, <2>8, <2>9 DEF AtBarrier, DefaultCmd
<1>4. CASE BarrierPassed
  BY <1>4 DEF BarrierPassed, AtBarrier, KindKept, PartiesTyped, Mains,
     Satisfied, Look
<1>5. CASE BenchBegan
  BY <1>5 DEF BenchBegan, AtBarrier, PartiesTyped, Mains, Agents, Satisfied,
     Look, Waits, clientVars, minderVars
<1>6. CASE ResultArrived
  BY <1>6 DEF ResultArrived, AtBarrier, PartiesTyped, Mains, Agents,
     Satisfied, Look, Waits, clientVars, minderVars
<1>7. CASE BenchEnded
  BY <1>7 DEF BenchEnded, AtBarrier, PartiesTyped, Mains, Agents, Satisfied,
     Look, Waits, clientVars, minderVars
<1>8. CASE HashdSwitched
  BY <1>8 DEF HashdSwitched, AtBarrier, PartiesTyped, Mains, Agents,
     Satisfied, Look, Waits, clientVars, minderVars
<1>9. CASE WaitFails
  BY <1>9 DEF WaitFails, GiveUp, AtBarrier, PartiesTyped, Mains, Agents,
     Satisfied, Look, Waits, clientVars, minderVars
<1>10. CASE CutShort
  BY <1>10 DEF CutShort, AtBarrier, PartiesTyped, Mains, Agents, Satisfied,
     Look, Waits, clientVars, minderVars
<1>11. ASSUME NEW k \in Kinds, StartBench(k) PROVE AtBarrier'
  BY <1>11 DEF StartBench, AtBarrier, PartiesTyped, Mains, Agents, Satisfied,
     Look, Waits, clientVars, minderVars
<1>12. CASE StopBench
  BY <1>12 DEF StopBench, AtBarrier, PartiesTyped, Mains, Agents, Satisfied,
     Look, Waits, clientVars, minderVars
<1>13. CASE StopSvc
  BY <1>13 DEF StopSvc, AtBarrier, PartiesTyped, Mains, Agents, Satisfied,
     Look, Waits, clientVars, minderVars
<1>14. CASE StartHashd
  <2>0. main.pc \in Working /\ main'.want = cl.cmd.cmd_seq + 2
    BY <1>14 DEF StartHashd, SwitchHashd, PartiesTyped, Mains, Working, Calm,
       Busy, Began, Asked
  <2> DEFINE cmd == [cl.cmd EXCEPT !.cmd_seq = cl.cmd.cmd_seq + 2, !.hashd = TRUE]
  <2>1. cmd \in Cmds /\ SaveCmd(cmd) /\ cmd.cmd_seq = cl.cmd.cmd_seq + 2
    BY <1>14, SwitchHashdSaves DEF StartHashd, FilesTyped, Files, Cmds
  <2> HIDE DEF cmd
  <2>2. disk'.cmd = cmd /\ agent' = [agent EXCEPT !.unread = Alive]
    BY <2>0, <2>1, SavedFields DEF InTouch, FileNames
  <2>3. agent'.life = agent.life /\ agent'.cmd = agent.cmd
    BY <2>2 DEF PartiesTyped, Agents
  <2>4. agent.cmd.cmd_seq \in Nat /\ disk.cmd.cmd_seq \in Nat
    BY DEF PartiesTyped, Agents, FilesTyped, Files, Cmds
  <2> QED
    BY <2>0, <2>1, <2>2, <2>3, <2>4 DEF InTouch, AtBarrier
<1>15. CASE StopHashd
  <2>0. main.pc \in Working /\ main'.want = cl.cmd.cmd_seq + 2
    BY <1>15 DEF StopHashd, SwitchHashd, PartiesTyped, Mains, Working, Calm,
       Busy, Began, Asked
  <2> DEFINE cmd == [cl.cmd EXCEPT !.cmd_seq = cl.cmd.cmd_seq + 2, !.hashd = FALSE]
  <2>1. cmd \in Cmds /\ SaveCmd(cmd) /\ cmd.cmd_seq = cl.cmd.cmd_seq + 2
    BY <1>15, SwitchHashdSaves DEF StopHashd, FilesTyped, Files, Cmds
  <2> HIDE DEF cmd
  <2>2. disk'.cmd = cmd /\ agent' = [agent EXCEPT !.unread = Alive]
    BY <2>0, <2>1, SavedFields DEF InTouch, FileNames
  <2>3. agent'.life = agent.life /\ agent'.cmd = agent.cmd
    BY <2>2 DEF PartiesTyped, Agents
  <2>4. agent.cmd.cmd_seq \in Nat /\ disk.cmd.cmd_seq \in Nat
    BY DEF PartiesTyped, Agents, FilesTyped, Files, Cmds
  <2> QED
    BY <2>0, <2>1, <2>2, <2>3, <2>4 DEF InTouch, AtBarrier
<1>16. CASE Finish
  BY <1>16 DEF Finish, GiveUp, AtBarrier, PartiesTyped, Mains, Agents,
     Satisfied, Look, Waits, clientVars, minderVars
<1>17. CASE TakeAgent
  BY <1>17 DEF TakeAgent, AtBarrier, PartiesTyped, Mains, Agents, Satisfied,
     Look, Waits, clientVars, minderVars
<1>18. CASE DropAgent
  BY <1>18 DEF DropAgent, AtBarrier, PartiesTyped, Mains, Agents, Satisfied,
     Look, Waits, clientVars, minderVars
<1>19. CASE JoinMinder
  BY <1>19 DEF JoinMinder, AtBarrier, PartiesTyped, Mains, Agents, Satisfied,
     Look, Waits, clientVars, minderVars
<1>20. CASE AgentReset
  BY <1>20 DEF AgentReset, AtBarrier, Lives, Working, Calm, Busy, Began, Asked
<1>21. CASE AgentLoad
  BY <1>21 DEF AgentLoad, AtBarrier, Lives, Working, Calm, Busy, Began, Asked
<1>22. CASE HalfSecond
  BY <1>22 DEF HalfSecond, AtBarrier, Lives, Working, Calm, Busy, Began, Asked
<1>23. CASE AgentReload
  BY <1>23 DEF AgentReload, AtBarrier, PartiesTyped, Mains, Agents, Satisfied,
     Look, Waits, clientVars, minderVars
<1>24. CASE AgentAck
  <2>1. main' = main /\ agent'.life = agent.life /\ agent'.cmd = agent.cmd
    BY <1>24 DEF AgentAck, PartiesTyped, Agents
  <2> QED
    BY <1>24, <2>1, AckWritten DEF AtBarrier
<1>25. CASE AgentApply
  BY <1>25, Applied DEF AgentApply, AtBarrier
<1>26. CASE AgentComplete
  <2>1. main' = main /\ agent'.life = agent.life /\ agent'.cmd = agent.cmd
    BY <1>26 DEF AgentComplete, PartiesTyped, Agents
  <2> QED
    BY <1>26, <2>1, ResultWritten DEF AtBarrier
<1>27. CASE AgentReport
  <2>1. main' = main /\ agent' = agent
    BY <1>27 DEF AgentReport
  <2> QED
    BY <1>27, <2>1, ReportWritten DEF AtBarrier
<1>28. CASE BenchExits
  BY <1>28 DEF BenchExits, AtBarrier, PartiesTyped, Mains, Agents, Satisfied,
     Look, Waits, clientVars, minderVars
<1>29. CASE AgentDies
  BY <1>29 DEF AgentDies, AgentOff, AtBarrier
<1>30. CASE MinderTick \/ MinderLastRefresh \/
           (\E last \in BOOLEAN : MinderReport(last)) \/
           (\E last \in BOOLEAN : MinderBench(last)) \/ Settle
  BY <1>f, <1>30 DEF MinderTick, clientVars, minderVars, MinderLastRefresh,
     MinderReport, MinderBench, Settle
<1> QED
  BY <1>1, <1>2, <1>3, <1>4, <1>5, <1>6, <1>7, <1>8, <1>9, <1>10, <1>11,
     <1>12, <1>13, <1>14, <1>15, <1>16, <1>17, <1>18, <1>19, <1>20, <1>21,
     <1>22, <1>23, <1>24, <1>25, <1>26, <1>27, <1>28, <1>29, <1>30 DEF Next,
     Minder, Main, Agent, System, Wait, StopAgent

(* A working client loads what it asks for, and its index stays.            *)
LEMMA WorkingRefresh ==
    ASSUME FilesTyped, SetsTyped, PartiesTyped, Coherent, InTouch, main.pc \in Working
    PROVE  /\ RefreshOne({"index", "cmd", "ack"}) => UNCHANGED <<cl.report, cl.bench>>
           /\ RefreshOne({"report"}) =>
                 /\ UNCHANGED cl.bench /\ cl'.report \in {cl.report, disk.report}
                 /\ "report" \in young \/ cl'.report = disk.report
                 /\ "report" \in young => cl'.report = cl.report
           /\ RefreshOne({"bench"}) =>
                 /\ UNCHANGED cl.report /\ cl'.bench \in {cl.bench, disk.bench}
                 /\ "bench" \in young \/ cl'.bench = disk.bench
<1>1. "index" \in have \ unread /\ have = FileNames
  BY DEF InTouch, FileNames
<1>2. RefreshOne({"index", "cmd", "ack"}) => UNCHANGED <<cl.report, cl.bench>>
  <2>1. {"index", "cmd", "ack"} \in SUBSET FileNames
    BY DEF FileNames
  <2> QED
    BY <1>1, <2>1, RefreshedInTouch
<1>3. ASSUME RefreshOne({"report"})
      PROVE  /\ UNCHANGED cl.bench /\ cl'.report \in {cl.report, disk.report}
             /\ "report" \in young \/ cl'.report = disk.report
             /\ "report" \in young => cl'.report = cl.report
  <2> DEFINE new == {f \in {"report"} \ {"index"} : Loadable(f, have)}
  <2>1. {"report"} \in SUBSET FileNames
    BY DEF FileNames
  <2>2. UNCHANGED cl.bench /\ cl'.report = IF "report" \in new THEN disk.report ELSE cl.report
    BY <1>1, <1>3, <2>1, RefreshedInTouch
  <2>3. "report" \in new => "report" \notin young
    BY <1>1 DEF Loadable, FileNames
  <2>4. "report" \notin new /\ "report" \notin young => cl.report = disk.report
    <3> SUFFICES ASSUME "report" \notin new, "report" \notin young PROVE cl.report = disk.report
      OBVIOUS
    <3>1. "report" \notin unread
      BY <1>1 DEF Loadable, InTouch, PartiesTyped
    <3>2. cl["report"] = disk["report"]
      BY <1>1, <3>1 DEF Coherent, FileNames
    <3> QED
      BY <3>2 DEF FilesTyped, Files
  <2> HIDE DEF new
  <2> QED
    BY <2>2, <2>3, <2>4
<1>4. ASSUME RefreshOne({"bench"})
      PROVE  /\ UNCHANGED cl.report /\ cl'.bench \in {cl.bench, disk.bench}
             /\ "bench" \in young \/ cl'.bench = disk.bench
  <2> DEFINE new == {f \in {"bench"} \ {"index"} : Loadable(f, have)}
  <2>1. {"bench"} \in SUBSET FileNames
    BY DEF FileNames
  <2>2. UNCHANGED cl.report /\ cl'.bench = IF "bench" \in new THEN disk.bench ELSE cl.bench
    BY <1>1, <1>4, <2>1, RefreshedInTouch
  <2>3. "bench" \notin new /\ "bench" \notin young => cl.bench = disk.bench
    <3> SUFFICES ASSUME "bench" \notin new, "bench" \notin young PROVE cl.bench = disk.bench
      OBVIOUS
    <3>1. "bench" \notin unread
      BY <1>1 DEF Loadable, Coherent
    <3>2. cl["bench"] = disk["bench"]
      BY <1>1, <3>1 DEF Coherent, FileNames
    <3> QED
      BY <3>2 DEF FilesTyped, Files
  <2> HIDE DEF new
  <2> QED
    BY <2>2, <2>3
<1> QED
  BY <1>2, <1>3, <1>4

(* The four calls a working client makes, and the first one.                *)
LEMMA WorkingSaves ==
    ASSUME FilesTyped, SetsTyped, PartiesTyped, InTouch, main.pc \in Working,
           NEW cmd \in Cmds, SaveCmd(cmd)
    PROVE  /\ cl'.cmd = cmd /\ disk'.cmd = cmd
           /\ UNCHANGED <<disk.report, disk.bench, cl.report, cl.bench>>
           /\ agent'.life = agent.life /\ agent'.cmd = agent.cmd
           /\ agent'.state = agent.state /\ agent'.unit = agent.unit
           /\ agent'.run = agent.run /\ Alive' = Alive
           /\ "report" \in young' <=> "report" \in young
           /\ "bench" \in young' <=> "bench" \in young
<1>1. "cmd" \in have
  BY DEF InTouch, FileNames
<1>2. /\ cl'.cmd = cmd /\ disk'.cmd = cmd
      /\ UNCHANGED <<disk.report, disk.bench, cl.report, cl.bench>>
      /\ agent' = [agent EXCEPT !.unread = Alive]
      /\ young' \subseteq young \cup {"cmd"} /\ young \subseteq young'
  BY <1>1, SavedFields
<1> QED
  BY <1>2 DEF PartiesTyped, Agents, Alive

(* All benchmark numbers are natural numbers.                              *)
LEMMA NumbersTyped ==
    ASSUME FilesTyped, PartiesTyped
    PROVE  \A k \in Kinds : /\ disk.cmd.bench[k] \in Nat /\ cl.cmd.bench[k] \in Nat
                            /\ agent.cmd.bench[k] \in Nat /\ disk.bench.seq[k] \in Nat
                            /\ cl.bench.seq[k] \in Nat
BY DEF FilesTyped, Files, Results, Cmds, PartiesTyped, Agents

(* A result is recorded under the number and the call of its request.      *)
LEMMA ResultNumbers ==
    ASSUME FilesTyped, SetsTyped, PartiesTyped, AgentSound, AgentComplete
    PROVE  /\ agent.unit = "exited"
           /\ \A j \in Kinds :
                 /\ disk'.bench.seq[j] = IF j = agent.state THEN agent.cmd.bench[j]
                                         ELSE disk.bench.seq[j]
                 /\ disk'.bench.by[j] = IF j = agent.state THEN agent.run
                                        ELSE disk.bench.by[j]
<1>1. agent.unit = "exited"
  BY ResultWritten DEF AgentSound, PartiesTyped, Agents
<1>2. disk'.bench = [disk.bench EXCEPT !.seq[agent.state] = agent.cmd.bench[agent.state],
                                       !.by[agent.state] = agent.run]
  BY <1>1, ResultWritten
<1>3. disk.bench \in Results
  BY DEF FilesTyped, Files
<1>4. /\ disk'.bench.seq = [disk.bench.seq EXCEPT ![agent.state] = agent.cmd.bench[agent.state]]
      /\ disk'.bench.by = [disk.bench.by EXCEPT ![agent.state] = agent.run]
  BY <1>2, <1>3 DEF Results
<1>5. disk.bench.seq \in [Kinds -> Nat] /\ disk.bench.by \in [Kinds -> Nat]
  BY <1>3 DEF Results
<1> QED
  BY <1>1, <1>4, <1>5

-----------------------------------------------------------------------------
(* The benchmarks.  No step but a request for it wakes a quiet one.        *)

LEMMA QuietStep ==
    ASSUME FilesTyped, SetsTyped, PartiesTyped, KindKept, Lives, Coherent,
           InTouch, AgentSound, main.pc \in Working,
           NEW j \in Kinds, Quiet(j), ~StartBench(j), Next
    PROVE  Quiet(j)'
<1>f. ASSUME UNCHANGED <<disk, cl, agent>> PROVE Quiet(j)'
  BY <1>f DEF Quiet, Alive
<1>1. CASE MinderTick
  <2>1. UNCHANGED <<disk, agent>>
    BY <1>1 DEF MinderTick
  <2>2. UNCHANGED <<cl.report, cl.bench>>
    BY <1>1, WorkingRefresh DEF MinderTick, RefreshCommands
  <2> QED
    BY <2>1, <2>2 DEF Quiet, Alive
<1>2. CASE MinderLastRefresh
  <2>1. UNCHANGED <<disk, agent>>
    BY <1>2 DEF MinderLastRefresh
  <2>2. cl'.report \in {cl.report, disk.report} /\ cl'.bench \in {cl.bench, disk.bench}
    BY <1>2, WorkingRefresh DEF MinderLastRefresh, RefreshCommands, RefreshPart
  <2> QED
    BY <2>1, <2>2, NumbersTyped DEF Quiet, Alive
<1>3. ASSUME NEW last \in BOOLEAN, MinderReport(last) PROVE Quiet(j)'
  <2>1. UNCHANGED <<disk, agent>>
    BY <1>3 DEF MinderReport
  <2>2. cl'.report \in {cl.report, disk.report} /\ cl'.bench \in {cl.bench, disk.bench}
    BY <1>3, WorkingRefresh DEF MinderReport, RefreshCommands, RefreshPart
  <2> QED
    BY <2>1, <2>2, NumbersTyped DEF Quiet, Alive
<1>4. ASSUME NEW last \in BOOLEAN, MinderBench(last) PROVE Quiet(j)'
  <2>1. UNCHANGED <<disk, agent>>
    BY <1>4 DEF MinderBench
  <2>2. cl'.report \in {cl.report, disk.report} /\ cl'.bench \in {cl.bench, disk.bench}
    BY <1>4, WorkingRefresh DEF MinderBench, RefreshCommands, RefreshPart
  <2> QED
    BY <2>1, <2>2, NumbersTyped DEF Quiet, Alive
<1>5. CASE StartAgent
  BY <1>5 DEF StartAgent, Working, Calm, Busy, Began, Asked
<1>6. ASSUME NEW initFns \in BOOLEAN, Configure(initFns) PROVE Quiet(j)'
  BY <1>6 DEF Configure, Satisfied, Look, Working, Calm, Busy, Began, Asked
<1>7. ASSUME NEW k \in Kinds, StartBench(k) PROVE Quiet(j)'
  <2> DEFINE cmd == [cl.cmd EXCEPT !.bench[k] = cl.bench.seq[k] + 1,
                                  !.args = main.calls + 1]
  <2>1. cmd \in Cmds /\ SaveCmd(cmd)
    BY <1>7, StartBenchSaves
  <2>2. cmd.bench[j] = cl.cmd.bench[j]
    BY <1>7 DEF FilesTyped, Files, Cmds
  <2> HIDE DEF cmd
  <2> QED
    BY <2>1, <2>2, WorkingSaves DEF Quiet, InTouch
<1>8. CASE StopBench
  <2> DEFINE cmd == [cl.cmd EXCEPT !.cmd_seq = cl.cmd.cmd_seq + 1,
                       !.bench[main.kind] = cl.bench.seq[main.kind]]
  <2>1. cmd \in Cmds /\ SaveCmd(cmd)
    BY <1>8, StopBenchSaves
  <2>2. cmd.bench[j] \in {cl.cmd.bench[j], cl.bench.seq[j]}
    BY DEF FilesTyped, Files, Cmds
  <2> HIDE DEF cmd
  <2> QED
    BY <2>1, <2>2, WorkingSaves DEF Quiet, InTouch, Coherent
<1>9. CASE StopSvc
  BY <1>9, KindsAssumption DEF StopSvc, Quiet, Alive, PartiesTyped, Agents,
     clientVars, minderVars
<1>10. CASE StartHashd
  <2> DEFINE cmd == [cl.cmd EXCEPT !.cmd_seq = cl.cmd.cmd_seq + 2, !.hashd = TRUE]
  <2>1. cmd \in Cmds /\ SaveCmd(cmd)
    BY <1>10, SwitchHashdSaves DEF StartHashd
  <2>2. cmd.bench = cl.cmd.bench
    BY DEF FilesTyped, Files, Cmds
  <2> HIDE DEF cmd
  <2> QED
    BY <2>1, <2>2, WorkingSaves DEF Quiet, InTouch
<1>11. CASE StopHashd
  <2> DEFINE cmd == [cl.cmd EXCEPT !.cmd_seq = cl.cmd.cmd_seq + 2, !.hashd = FALSE]
  <2>1. cmd \in Cmds /\ SaveCmd(cmd)
    BY <1>11, SwitchHashdSaves DEF StopHashd
  <2>2. cmd.bench = cl.cmd.bench
    BY DEF FilesTyped, Files, Cmds
  <2> HIDE DEF cmd
  <2> QED
    BY <2>1, <2>2, WorkingSaves DEF Quiet, InTouch
<1>12. CASE DropAgent
  BY <1>12 DEF DropAgent, Working, Calm, Busy, Began, Asked
<1>13. CASE JoinMinder
  BY <1>13 DEF JoinMinder, Working, Calm, Busy, Began, Asked
<1>14. CASE AgentReset
  BY <1>14 DEF AgentReset, Lives
<1>15. CASE AgentLoad
  BY <1>15 DEF AgentLoad, Lives
<1>16. CASE HalfSecond
  BY <1>16 DEF HalfSecond, Lives
<1>17. CASE AgentReload
  BY <1>17, KindsAssumption DEF AgentReload, Quiet, Alive, PartiesTyped,
     Agents, clientVars, minderVars
<1>18. CASE AgentAck
  <2>1. UNCHANGED cl /\ agent'.life = agent.life /\ agent'.cmd = agent.cmd
        /\ agent'.state = agent.state
    BY <1>18 DEF AgentAck, PartiesTyped, Agents
  <2> QED
    BY <1>18, <2>1, AckWritten DEF Quiet, Alive
<1>19. CASE AgentApply
  <2>1. UNCHANGED <<disk, cl>> /\ Alive
    BY <1>19 DEF AgentApply, clientVars
  <2>2. j \notin Requested
    BY <2>1, NumbersTyped DEF Requested, Quiet
  <2>3. Requested # {} => Preferred \in Requested
    BY KindsAssumption DEF Requested, Preferred
  <2> QED
    BY <1>19, <2>1, <2>2, <2>3, KindsAssumption, Applied DEF Quiet, Alive
<1>20. CASE AgentComplete
  <2>1. UNCHANGED cl /\ agent'.life = agent.life /\ agent'.cmd = agent.cmd
        /\ agent'.state = "Idle"
    BY <1>20 DEF AgentComplete, PartiesTyped, Agents
  <2>2. UNCHANGED <<disk.cmd, disk.report>> /\ agent.state # j
    BY <1>20, ResultWritten DEF Quiet
  <2>3. disk'.bench.seq[j] = disk.bench.seq[j]
    BY <1>20, <2>2, ResultNumbers
  <2> QED
    BY <2>1, <2>2, <2>3, KindsAssumption DEF Quiet, Alive
<1>21. CASE AgentReport
  <2>1. UNCHANGED <<cl, agent>>
    BY <1>21 DEF AgentReport
  <2> QED
    BY <1>21, <2>1, ReportWritten DEF Quiet, Alive
<1>22. CASE BenchExits
  BY <1>22, KindsAssumption DEF BenchExits, Quiet, Alive, PartiesTyped,
     Agents, clientVars, minderVars
<1>23. CASE AgentDies
  BY <1>23, KindsAssumption DEF AgentDies, Quiet, Alive, PartiesTyped, Agents,
     clientVars, minderVars
<1>24. CASE WaitAgain \/ BarrierPassed \/ BenchBegan \/ ResultArrived \/
           BenchEnded \/ HashdSwitched \/ WaitFails \/ CutShort \/ Finish \/
           TakeAgent \/ Settle
  BY <1>f, <1>24 DEF WaitAgain, GiveUp, clientVars, minderVars, BarrierPassed,
     BenchBegan, ResultArrived, BenchEnded, HashdSwitched, WaitFails,
     CutShort, Finish, TakeAgent, Settle
<1> QED
  BY <1>1, <1>2, <1>3, <1>4, <1>5, <1>6, <1>7, <1>8, <1>9, <1>10, <1>11,
     <1>12, <1>13, <1>14, <1>15, <1>16, <1>17, <1>18, <1>19, <1>20, <1>21,
     <1>22, <1>23, <1>24 DEF Next, Minder, Main, Agent, System, Wait,
     StopAgent

LEMMA OthersQuietStep ==
    ASSUME FilesTyped, SetsTyped, PartiesTyped, KindKept, Lives, Coherent, ComingUp,
           InTouch, AgentSound, OthersQuiet, Withdrawn, Running,
           Next
    PROVE  OthersQuiet'
<1>q. ASSUME main.pc \in Busy, main'.pc \in Busy, main'.kind = main.kind
      PROVE  OthersQuiet'
  <2>1. \A k \in Kinds : ~StartBench(k)
    BY <1>q DEF StartBench, Busy, Began, Asked
  <2>2. main.pc \in Working /\ main.pc \notin Calm /\ main'.pc \notin Calm
    BY <1>q DEF Working, Busy, Began, Asked, Calm
  <2>3. \A k \in Kinds \ {main.kind} : Quiet(k)'
    BY <1>q, <2>1, <2>2, QuietStep DEF OthersQuiet
  <2> QED
    BY <1>q, <2>2, <2>3 DEF OthersQuiet
<1>c. ASSUME main.pc \in Calm, main'.pc \in Calm PROVE OthersQuiet'
  <2>1. \A k \in Kinds : ~StartBench(k)
    BY <1>c DEF StartBench, Calm, PartiesTyped, Mains
  <2>2. main.pc \in Working /\ main'.pc \notin Busy
    BY <1>c DEF Working, Busy, Began, Asked, Calm
  <2>3. \A k \in Kinds : Quiet(k)'
    BY <1>c, <2>1, <2>2, QuietStep DEF OthersQuiet
  <2> QED
    BY <2>2, <2>3 DEF OthersQuiet
<1>u. ASSUME main'.pc \notin Working PROVE OthersQuiet'
  BY <1>u DEF OthersQuiet, Working
<1>s. ASSUME UNCHANGED main PROVE OthersQuiet'
  BY <1>q, <1>c, <1>u, <1>s DEF Working
<1>f. ASSUME UNCHANGED <<disk, cl, main, agent>> PROVE OthersQuiet'
  BY <1>f DEF OthersQuiet, Quiet, Alive
<1>1. CASE MinderTick
  BY <1>s, <1>1 DEF MinderTick
<1>2. CASE MinderLastRefresh
  BY <1>s, <1>2 DEF MinderLastRefresh
<1>3. ASSUME NEW last \in BOOLEAN, MinderReport(last) PROVE OthersQuiet'
  BY <1>s, <1>3 DEF MinderReport
<1>4. ASSUME NEW last \in BOOLEAN, MinderBench(last) PROVE OthersQuiet'
  BY <1>s, <1>4 DEF MinderBench
<1>5. CASE StartAgent
  BY <1>u, <1>5 DEF StartAgent, PartiesTyped, Mains, Working, Calm, Busy,
     Began, Asked
<1>6. CASE WaitAgain
  BY <1>s, <1>u, <1>6 DEF WaitAgain, GiveUp, PartiesTyped, Mains, Working,
     Calm, Busy, Began, Asked
<1>7. ASSUME NEW initFns \in BOOLEAN, Configure(initFns) PROVE OthersQuiet'
  <2>1. main.pc = "up" /\ CameUp /\ cl.report.inst = inst /\ ~Refreshing
    BY <1>7 DEF Configure, Satisfied, Look, Holds, CameUp
  <2>2. /\ {"index", "cmd"} \subseteq have \ unread /\ "bench" \in have \ unread
        /\ disk.report.inst = inst /\ disk.report.state \notin Kinds
        /\ disk.cmd = DefaultCmd(inst)
        /\ Alive => agent.cmd = DefaultCmd(inst) /\ agent.state \notin Kinds
    BY <2>1 DEF ComingUp, Reported, Refreshing, Alive
  <2>3. cl.cmd = disk.cmd /\ cl.bench = disk.bench
    <3>1. cl["cmd"] = disk["cmd"] /\ cl["bench"] = disk["bench"]
      BY <2>2 DEF Coherent
    <3> QED
      BY <3>1 DEF FilesTyped, Files
  <2>4. PICK seq \in Nat : /\ [cl.cmd EXCEPT !.cmd_seq = seq] \in Cmds
                          /\ SaveCmd([cl.cmd EXCEPT !.cmd_seq = seq])
                          /\ main' = IF initFns THEN [main EXCEPT !.pc = "barrier",
                                                    !.want = seq, !.next = "ready"]
                                     ELSE [main EXCEPT !.pc = "ready"]
    BY <1>7, ConfigureSaves
  <2> DEFINE cmd == [cl.cmd EXCEPT !.cmd_seq = seq]
  <2>5. cmd \in Cmds /\ SaveCmd(cmd) /\ cmd.bench = cl.cmd.bench
    BY <2>4 DEF Cmds, FilesTyped, Files
  <2> HIDE DEF cmd
  <2>6. /\ disk'.cmd = cmd /\ UNCHANGED <<disk.report, disk.bench, cl.report, cl.bench>>
        /\ agent' = [agent EXCEPT !.unread = Alive]
    BY <2>2, <2>5, SavedFields
  <2>7. agent'.cmd = agent.cmd /\ agent'.state = agent.state /\ Alive' = Alive
    BY <2>6 DEF PartiesTyped, Agents, Alive
  <2>8. \A k \in Kinds : Quiet(k)'
    <3> SUFFICES ASSUME NEW k \in Kinds PROVE Quiet(k)'
      OBVIOUS
    <3>1. DefaultCmd(inst).bench[k] = 0
      BY DEF DefaultCmd, Zeros
    <3>2. cl.report.state # k
      BY <2>1, KindsAssumption DEF CameUp
    <3> QED
      BY <2>2, <2>3, <2>5, <2>6, <2>7, <3>1, <3>2, NumbersTyped DEF Quiet
  <2>9. main'.pc \notin Busy
    BY <2>4 DEF PartiesTyped, Mains, Busy, Began, Asked
  <2> QED
    BY <2>8, <2>9 DEF OthersQuiet
<1>8. CASE BarrierPassed
  BY <1>c, <1>8 DEF BarrierPassed, KindKept, Satisfied, Look, PartiesTyped,
     Mains, Working, Calm, Busy, Began, Asked
<1>9. CASE BenchBegan
  BY <1>q, <1>9 DEF BenchBegan, Satisfied, Look, PartiesTyped, Mains, Working,
     Calm, Busy, Began, Asked
<1>10. CASE ResultArrived
  BY <1>q, <1>10 DEF ResultArrived, Satisfied, Look, PartiesTyped, Mains,
     Working, Calm, Busy, Began, Asked
<1>11. CASE BenchEnded
  <2>1. /\ main.pc = "end" /\ main'.pc = "svc" /\ ~Refreshing /\ cl.report.state # main.kind
        /\ UNCHANGED <<disk, cl, agent>>
    BY <1>11 DEF BenchEnded, Satisfied, Look, Holds, clientVars, PartiesTyped,
       Mains
  <2>2. \A k \in Kinds \ {main.kind} : Quiet(k)
    BY <2>1 DEF OthersQuiet, Busy, Began
  <2>3. main.kind \in Kinds
    BY <2>1 DEF KindKept, Busy, Began
  <2>4. Quiet(main.kind)
    BY <2>1, <2>3 DEF Quiet, Running, Withdrawn, Began, Lagging, Number, Seq,
       Refreshing
  <2>5. \A k \in Kinds : Quiet(k)'
    BY <2>1, <2>2, <2>4 DEF Quiet, Alive
  <2> QED
    BY <2>1, <2>5 DEF OthersQuiet, Busy, Began, Asked
<1>12. CASE HashdSwitched
  BY <1>c, <1>12 DEF HashdSwitched, KindKept, Satisfied, Look, PartiesTyped,
     Mains, Working, Calm, Busy, Began, Asked
<1>13. CASE WaitFails
  BY <1>u, <1>13 DEF WaitFails, GiveUp, PartiesTyped, Mains, Working, Calm,
     Busy, Began, Asked
<1>14. CASE CutShort
  BY <1>q, <1>14 DEF CutShort, Satisfied, Look, PartiesTyped, Mains, Working,
     Calm, Busy, Began, Asked
<1>15. ASSUME NEW k \in Kinds, StartBench(k) PROVE OthersQuiet'
  <2>1. main.pc = "ready" /\ main'.pc = "begin" /\ main'.kind = k
    BY <1>15 DEF StartBench, PartiesTyped, Mains
  <2>2. \A j \in Kinds \ {k} : ~StartBench(j)
    BY <2>1 DEF StartBench, PartiesTyped, Mains
  <2>3. \A j \in Kinds \ {k} : Quiet(j)'
    BY <2>1, <2>2, QuietStep DEF OthersQuiet, Working, Calm
  <2> QED
    BY <2>1, <2>3 DEF OthersQuiet, Calm
<1>16. CASE StopBench
  BY <1>q, <1>16 DEF StopBench, Satisfied, Look, PartiesTyped, Mains, Working,
     Calm, Busy, Began, Asked
<1>17. CASE StopSvc
  BY <1>c, <1>17 DEF StopSvc, KindKept, Satisfied, Look, PartiesTyped, Mains,
     Working, Calm, Busy, Began, Asked
<1>18. CASE StartHashd
  BY <1>c, <1>18 DEF StartHashd, SwitchHashd, KindKept, Satisfied, Look,
     PartiesTyped, Mains, Working, Calm, Busy, Began, Asked
<1>19. CASE StopHashd
  BY <1>c, <1>19 DEF StopHashd, SwitchHashd, KindKept, Satisfied, Look,
     PartiesTyped, Mains, Working, Calm, Busy, Began, Asked
<1>20. CASE Finish
  BY <1>u, <1>20 DEF Finish, GiveUp, PartiesTyped, Mains, Working, Calm, Busy,
     Began, Asked
<1>21. CASE TakeAgent
  BY <1>u, <1>21 DEF TakeAgent, PartiesTyped, Mains, Working, Calm, Busy,
     Began, Asked
<1>22. CASE DropAgent
  BY <1>u, <1>22 DEF DropAgent, PartiesTyped, Mains, Working, Calm, Busy,
     Began, Asked
<1>23. CASE JoinMinder
  BY <1>u, <1>23 DEF JoinMinder, PartiesTyped, Mains, Working, Calm, Busy,
     Began, Asked
<1>24. CASE AgentReset
  BY <1>s, <1>24 DEF AgentReset, minderVars
<1>25. CASE AgentLoad
  BY <1>s, <1>25 DEF AgentLoad, minderVars
<1>26. CASE HalfSecond
  BY <1>s, <1>26 DEF HalfSecond, minderVars
<1>27. CASE AgentReload
  BY <1>s, <1>27 DEF AgentReload, minderVars
<1>28. CASE AgentAck
  BY <1>s, <1>28 DEF AgentAck, minderVars
<1>29. CASE AgentApply
  BY <1>s, <1>29 DEF AgentApply, minderVars
<1>30. CASE AgentComplete
  BY <1>s, <1>30 DEF AgentComplete, minderVars
<1>31. CASE AgentReport
  BY <1>s, <1>31 DEF AgentReport, minderVars
<1>32. CASE BenchExits
  BY <1>s, <1>32 DEF BenchExits, minderVars
<1>33. CASE AgentDies
  BY <1>s, <1>33 DEF AgentDies, minderVars
<1>34. CASE Settle
  BY <1>f, <1>34 DEF Settle, clientVars, minderVars
<1> QED
  BY <1>1, <1>2, <1>3, <1>4, <1>5, <1>6, <1>7, <1>8, <1>9, <1>10, <1>11,
     <1>12, <1>13, <1>14, <1>15, <1>16, <1>17, <1>18, <1>19, <1>20, <1>21,
     <1>22, <1>23, <1>24, <1>25, <1>26, <1>27, <1>28, <1>29, <1>30, <1>31,
     <1>32, <1>33, <1>34 DEF Next, Minder, Main, Agent, System, Wait,
     StopAgent

-----------------------------------------------------------------------------
(* What each step of a job with a benchmark does to what the invariants on *)
(* the benchmark look at.  Nothing is said of the steps that end it.       *)

AgentKept == /\ agent'.life = agent.life /\ agent'.cmd = agent.cmd
             /\ agent'.state = agent.state /\ agent'.run = agent.run
ReportsKept == UNCHANGED <<disk.report, disk.bench, cl.report, cl.bench>>

LooksOn == /\ UNCHANGED <<disk, young, cl.report, cl.bench, main, agent, inst>>
           /\ minder.pc # "bench" /\ minder'.pc # "bench"
ReadsReport == /\ UNCHANGED <<disk, young, cl.bench, main, agent, inst>>
               /\ cl'.report = IF "report" \in young THEN cl.report ELSE disk.report
               /\ minder.pc = "report" /\ minder'.pc = "bench"
ReadsResults == /\ UNCHANGED <<disk, young, cl.report, main, agent, inst>>
                /\ cl'.bench \in {cl.bench, disk.bench}
                /\ "bench" \in young \/ cl'.bench = disk.bench
                /\ minder.pc = "bench" /\ minder'.pc # "bench"
Advances(from, to) == /\ main.pc = from /\ main'.pc = to
                      /\ main'.kind = main.kind /\ main'.req = main.req
                      /\ UNCHANGED <<disk, young, cl, agent, minder, inst>>
Asks(k) == /\ main.pc = "ready" /\ main'.pc = "begin" /\ main'.kind = k
           /\ Quiet(k) /\ ReportsKept /\ AgentKept
           /\ disk'.cmd.bench[k] = cl.bench.seq[k] + 1
           /\ disk'.cmd.args = main'.req /\ main'.want = cl.bench.seq[k] + 1
Withdraws == /\ main.pc \in {"done", "cut"} /\ main'.pc = "end"
             /\ main'.kind = main.kind /\ UNCHANGED <<inst, minder>>
             /\ ReportsKept /\ AgentKept /\ agent'.unit = agent.unit
             /\ "report" \in young' <=> "report" \in young
             /\ "bench" \in young' <=> "bench" \in young
             /\ disk'.cmd.bench[main.kind] = cl.bench.seq[main.kind]
Loads == /\ UNCHANGED <<disk, young, cl, main, minder, inst>>
         /\ agent'.life = agent.life /\ agent'.cmd = disk.cmd
         /\ agent'.state = agent.state /\ agent'.run = agent.run
         /\ agent'.unit = agent.unit
Acknowledges == /\ UNCHANGED <<cl, main, minder, inst, disk.cmd>>
                /\ ReportsKept /\ AgentKept /\ agent'.unit = agent.unit
                /\ "report" \in young' <=> "report" \in young
                /\ "bench" \in young' <=> "bench" \in young
Applies == /\ UNCHANGED <<disk, young, cl, main, minder, inst>>
           /\ Alive /\ Alive' /\ agent'.cmd = agent.cmd
           /\ \/ /\ agent.cmd.bench[main.kind] > Seq
                 /\ agent'.state = main.kind
                 /\ IF agent.state = main.kind
                      THEN agent'.unit = agent.unit /\ agent'.run = agent.run
                      ELSE agent'.unit = "running" /\ agent'.run = agent.cmd.args
              \/ /\ agent'.state # main.kind
                 /\ agent.cmd.bench[main.kind] > Seq => agent.state # main.kind
Completes == /\ UNCHANGED <<cl, main, minder, inst, disk.cmd, disk.report>>
             /\ Alive /\ agent'.life = agent.life /\ agent'.cmd = agent.cmd
             /\ agent.state = main.kind /\ agent'.state # main.kind
             /\ agent.unit = "exited" /\ agent.cmd.bench[main.kind] > Seq
             /\ disk'.bench.seq[main.kind] = agent.cmd.bench[main.kind]
             /\ disk'.bench.by[main.kind] = agent.run
             /\ "report" \in young' <=> "report" \in young
ReportsState == /\ UNCHANGED <<cl, main, minder, agent, inst, disk.cmd, disk.bench>>
                /\ Alive /\ disk'.report # disk.report
                /\ disk'.report = [inst |-> inst, state |-> agent.state,
                                   hashd |-> agent.hashd]
                /\ young' = young \cup {"report"}
Exits == /\ UNCHANGED <<disk, young, cl, main, minder, inst>> /\ AgentKept
         /\ Alive => /\ disk.report.state = agent.state /\ "report" \notin young
                     /\ minder.pc # "bench"
Dies == UNCHANGED <<disk, young, cl, main, minder, inst>> /\ ~Alive'
Settles == UNCHANGED <<disk, cl, main, minder, agent, inst>> /\ young' = {}

BusyStep ==
    \/ LooksOn \/ ReadsReport \/ ReadsResults
    \/ Advances("begin", "result")
       /\ (cl.report.state = main.kind \/ cl.bench.seq[main.kind] >= main.want)
    \/ Advances("result", "done") /\ cl.bench.seq[main.kind] >= Number
    \/ Advances("result", "cut")
    \/ (\E k \in Kinds : Asks(k)) \/ Withdraws
    \/ Loads \/ Acknowledges \/ Applies \/ Completes \/ ReportsState
    \/ Exits \/ Dies \/ Settles

(* Every step after which a job is in the middle of a benchmark is one of  *)
(* these.                                                                  *)
LEMMA BusySteps ==
    ASSUME FilesTyped, SetsTyped, PartiesTyped, KindKept, Lives, Coherent,
           InTouch, AgentSound, OthersQuiet, main'.pc \in Busy, Next
    PROVE  BusyStep /\ (main.pc = "ready" \/ (main.pc \in Busy /\ main.kind \in Kinds))
<1> DEFINE Goal == BusyStep /\ (main.pc = "ready" \/ (main.pc \in Busy /\ main.kind \in Kinds))
<1> USE DEF Busy, Began, Asked
<1>1. (main.pc \in Busy => main.kind \in Kinds) /\ (main.pc \in Busy \cup {"ready"} => main.pc \in Working)
  BY DEF KindKept, Working, Calm
<1>2. CASE StartAgent \/ BarrierPassed \/ BenchEnded \/ HashdSwitched \/ WaitFails
  BY <1>2 DEF StartAgent, BarrierPassed, BenchEnded, HashdSwitched, WaitFails,
     GiveUp, Satisfied, Look, KindKept, PartiesTyped, Mains
<1>3. CASE StopSvc \/ Finish \/ TakeAgent \/ DropAgent \/ JoinMinder
  BY <1>3 DEF StopSvc, Finish, GiveUp, TakeAgent, DropAgent, JoinMinder,
     PartiesTyped, Mains
<1>4. CASE StartHashd \/ StopHashd
  BY <1>4 DEF StartHashd, StopHashd, SwitchHashd, PartiesTyped, Mains
<1>5. ASSUME NEW initFns \in BOOLEAN, Configure(initFns) PROVE Goal
  BY <1>5, ConfigureSaves DEF PartiesTyped, Mains
<1>6. CASE AgentReset \/ AgentLoad \/ HalfSecond
  BY <1>1, <1>6 DEF AgentReset, AgentLoad, HalfSecond, Lives
<1>7. CASE WaitAgain
  <2>1. UNCHANGED <<disk, young, cl, minder, agent, inst>> /\ ~Refreshing
        /\ (main' = main \/ main'.pc = "stop")
    BY <1>7 DEF WaitAgain, GiveUp, Look, clientVars, minderVars, PartiesTyped,
       Mains
  <2>2. main' = main
    BY <2>1
  <2>3. LooksOn
    BY <2>1, <2>2 DEF LooksOn, Refreshing
  <2> QED
    BY <1>1, <2>2, <2>3 DEF BusyStep
<1>8. CASE MinderTick \/ MinderLastRefresh
  <2>1. /\ UNCHANGED <<disk, young, main, agent, inst>>
        /\ RefreshOne({"index", "cmd", "ack"}) \/ UNCHANGED cl
        /\ minder.pc # "bench" /\ minder'.pc # "bench"
    BY <1>8 DEF MinderTick, MinderLastRefresh, RefreshCommands, Asleep
  <2>2. main.pc \in Busy
    BY <2>1
  <2>3. LooksOn
    BY <1>1, <2>1, <2>2, WorkingRefresh DEF LooksOn
  <2> QED
    BY <1>1, <2>2, <2>3 DEF BusyStep
<1>9. ASSUME NEW last \in BOOLEAN, MinderReport(last) PROVE Goal
  <2>1. UNCHANGED main /\ main.pc \in Busy
    BY <1>9 DEF MinderReport
  <2>2. ReadsReport
    BY <1>1, <1>9, <2>1, WorkingRefresh DEF MinderReport, RefreshPart,
       ReadsReport
  <2> QED
    BY <1>1, <2>1, <2>2 DEF BusyStep
<1>10. ASSUME NEW last \in BOOLEAN, MinderBench(last) PROVE Goal
  <2>1. UNCHANGED main /\ main.pc \in Busy
    BY <1>10 DEF MinderBench
  <2>2. ReadsResults
    BY <1>1, <1>10, <2>1, WorkingRefresh DEF MinderBench, RefreshPart,
       ReadsResults, Gone, Asleep
  <2> QED
    BY <1>1, <2>1, <2>2 DEF BusyStep
<1>11. CASE BenchBegan
  <2>1. /\ Advances("begin", "result")
        /\ cl.report.state = main.kind \/ cl.bench.seq[main.kind] >= main.want
    BY <1>11 DEF BenchBegan, Satisfied, Look, Holds, Advances, clientVars,
       minderVars, PartiesTyped, Mains
  <2> QED
    BY <1>1, <2>1 DEF BusyStep, Advances
<1>12. CASE ResultArrived
  <2>1. /\ Advances("result", "done")
        /\ cl.bench.seq[main.kind] >= cl.cmd.bench[main.kind]
    BY <1>12 DEF ResultArrived, Satisfied, Look, Holds, Advances, clientVars,
       minderVars, PartiesTyped, Mains
  <2>2. cl.cmd = disk.cmd
    BY <1>1, <2>1 DEF Advances, InTouch
  <2> QED
    BY <1>1, <2>1, <2>2 DEF BusyStep, Advances, Number
<1>13. CASE CutShort
  <2>1. Advances("result", "cut")
    BY <1>13 DEF CutShort, Look, Advances, clientVars, minderVars,
       PartiesTyped, Mains
  <2> QED
    BY <1>1, <2>1 DEF BusyStep, Advances
<1>14. ASSUME NEW k \in Kinds, StartBench(k) PROVE Goal
  <2> DEFINE cmd == [cl.cmd EXCEPT !.bench[k] = cl.bench.seq[k] + 1,
                                  !.args = main.calls + 1]
  <2>1. cmd \in Cmds /\ SaveCmd(cmd)
    BY <1>14, StartBenchSaves
  <2>2. cmd.bench[k] = cl.bench.seq[k] + 1 /\ cmd.args = main.calls + 1
    BY DEF FilesTyped, Files, Cmds
  <2>3. /\ main.pc = "ready" /\ main'.pc = "begin" /\ main'.kind = k
        /\ main'.req = main.calls + 1 /\ main'.want = cl.bench.seq[k] + 1
    BY <1>14 DEF StartBench, PartiesTyped, Mains
  <2> HIDE DEF cmd
  <2>4. Quiet(k)
    BY <2>3 DEF OthersQuiet, Calm
  <2>5. disk'.cmd = cmd /\ ReportsKept /\ AgentKept
    BY <1>1, <2>1, <2>3, WorkingSaves DEF ReportsKept, AgentKept
  <2>6. Asks(k)
    BY <2>2, <2>3, <2>4, <2>5 DEF Asks
  <2>7. \E j \in Kinds : Asks(j)
    BY <2>6
  <2>8. BusyStep
    BY <2>7, Zenon DEF BusyStep
  <2> QED
    BY <2>3, <2>8
<1>15. CASE StopBench
  <2> DEFINE cmd == [cl.cmd EXCEPT !.cmd_seq = cl.cmd.cmd_seq + 1,
                                  !.bench[main.kind] = cl.bench.seq[main.kind]]
  <2>1. cmd \in Cmds /\ SaveCmd(cmd)
    BY <1>15, StopBenchSaves
  <2>2. /\ main.pc \in {"done", "cut"} /\ main'.pc = "end" /\ main'.kind = main.kind
        /\ UNCHANGED <<inst, minder>>
    BY <1>15 DEF StopBench, PartiesTyped, Mains, minderVars
  <2>3. cmd.bench[main.kind] = cl.bench.seq[main.kind]
    BY <1>1, <2>2 DEF FilesTyped, Files, Cmds
  <2> HIDE DEF cmd
  <2>4. /\ disk'.cmd = cmd /\ ReportsKept /\ AgentKept /\ agent'.unit = agent.unit
        /\ "report" \in young' <=> "report" \in young
        /\ "bench" \in young' <=> "bench" \in young
    BY <1>1, <2>1, <2>2, WorkingSaves DEF ReportsKept, AgentKept
  <2>5. Withdraws
    BY <2>2, <2>3, <2>4 DEF Withdraws
  <2> QED
    BY <1>1, <2>2, <2>5 DEF BusyStep
<1>16. CASE AgentReload
  <2>1. UNCHANGED <<cl, main, minder, inst>> /\ main.pc \in Busy
    BY <1>16 DEF AgentReload, clientVars, minderVars
  <2>2. Loads
    BY <1>16, <2>1 DEF AgentReload, Loads, PartiesTyped, Agents
  <2> QED
    BY <1>1, <2>1, <2>2 DEF BusyStep
<1>17. CASE AgentAck
  <2>1. UNCHANGED <<cl, main, minder, inst>> /\ main.pc \in Busy
    BY <1>17 DEF AgentAck, clientVars, minderVars
  <2>2. Acknowledges
    BY <1>17, <2>1, AckWritten DEF Acknowledges, ReportsKept, AgentKept,
       PartiesTyped, Agents
  <2> QED
    BY <1>1, <2>1, <2>2 DEF BusyStep
<1>18. CASE AgentApply
  <2>1. UNCHANGED <<cl, main, minder, inst>> /\ main.pc \in Busy
    BY <1>18 DEF AgentApply, clientVars, minderVars
  <2>2. UNCHANGED <<disk, young>>
    BY <1>18 DEF AgentApply
  <2>3. \A k \in Requested : k = main.kind
    <3>1. \A k \in Requested : k \in Kinds /\ ~Quiet(k)
      BY <1>18, Applied, NumbersTyped DEF Requested, Quiet
    <3> QED
      BY <2>1, <3>1 DEF OthersQuiet
  <2>4. Requested # {} => Preferred = main.kind
    BY <2>3, KindsAssumption DEF Requested, Preferred
  <2>5. main.kind \in Requested <=> agent.cmd.bench[main.kind] > Seq
    BY <1>1, <2>1 DEF Requested, Seq
  <2>6. Alive /\ Alive' /\ agent'.cmd = agent.cmd
    BY <1>18, Applied DEF Alive
  <2>7. \/ /\ main.kind \in Requested
           /\ agent'.state = main.kind
           /\ IF agent.state = main.kind
                THEN agent'.unit = agent.unit /\ agent'.run = agent.run
                ELSE agent'.unit = "running" /\ agent'.run = agent.cmd.args
        \/ /\ agent'.state # main.kind
           /\ main.kind \in Requested => agent.state # main.kind
    BY <1>1, <1>18, <2>1, <2>3, <2>4, KindsAssumption, Applied
  <2>8. Applies
    BY <2>1, <2>2, <2>5, <2>6, <2>7 DEF Applies
  <2> QED
    BY <1>1, <2>1, <2>8 DEF BusyStep
<1>19. CASE AgentComplete
  <2>1. UNCHANGED <<cl, main, minder, inst>> /\ main.pc \in Busy
    BY <1>19 DEF AgentComplete, clientVars, minderVars
  <2>2. /\ agent'.life = agent.life /\ agent'.cmd = agent.cmd /\ agent'.state = "Idle"
        /\ Alive /\ ~agent.pending /\ UNCHANGED <<disk.cmd, disk.report>>
    BY <1>19, ResultWritten DEF PartiesTyped, Agents
  <2>3. agent.state = main.kind
    BY <1>19, <2>1, <2>2, ResultWritten DEF OthersQuiet, Quiet
  <2>4. /\ agent.unit = "exited" /\ agent'.state # main.kind
        /\ disk'.bench.seq[main.kind] = agent.cmd.bench[main.kind]
        /\ disk'.bench.by[main.kind] = agent.run
        /\ "report" \in young' <=> "report" \in young
    BY <1>1, <1>19, <2>1, <2>2, <2>3, KindsAssumption, ResultNumbers,
       ResultWritten
  <2>5. agent.cmd.bench[main.kind] > Seq
    BY <1>1, <2>1, <2>2, <2>3 DEF AgentSound, Seq
  <2>6. Completes
    BY <2>1, <2>2, <2>3, <2>4, <2>5 DEF Completes
  <2> QED
    BY <1>1, <2>1, <2>6 DEF BusyStep
<1>20. CASE AgentReport
  <2>1. UNCHANGED <<cl, main, minder, inst>> /\ main.pc \in Busy
    BY <1>20 DEF AgentReport, clientVars, minderVars
  <2>2. ReportsState
    BY <1>20, <2>1, ReportWritten DEF AgentReport, ReportsState, Alive
  <2> QED
    BY <1>1, <2>1, <2>2 DEF BusyStep
<1>21. CASE BenchExits
  <2>1. UNCHANGED <<cl, main, minder, inst>> /\ main.pc \in Busy
    BY <1>21 DEF BenchExits, clientVars, minderVars
  <2>2. Exits
    BY <1>21, <2>1 DEF BenchExits, Exits, AgentKept, Refreshing, PartiesTyped,
       Agents
  <2> QED
    BY <1>1, <2>1, <2>2 DEF BusyStep
<1>22. CASE AgentDies
  <2>1. UNCHANGED <<cl, main, minder, inst>> /\ main.pc \in Busy
    BY <1>22 DEF AgentDies, clientVars, minderVars
  <2>2. Dies
    BY <1>22, <2>1 DEF AgentDies, AgentOff, Dies, Alive
  <2> QED
    BY <1>1, <2>1, <2>2 DEF BusyStep
<1>23. CASE Settle
  <2>1. UNCHANGED <<cl, main, minder, inst>> /\ main.pc \in Busy
    BY <1>23 DEF Settle, clientVars, minderVars
  <2>2. Settles
    BY <1>23, <2>1 DEF Settle, Settles
  <2> QED
    BY <1>1, <2>1, <2>2 DEF BusyStep
<1> QED
  BY <1>2, <1>3, <1>4, <1>5, <1>6, <1>7, <1>8, <1>9, <1>10, <1>11, <1>12,
     <1>13, <1>14, <1>15, <1>16, <1>17, <1>18, <1>19, <1>20, <1>21, <1>22,
     <1>23 DEF Next, Minder, Main, Agent, System, Wait, StopAgent

(* The benchmark the job is in the middle of, condition by condition.      *)
LEMMA RequestStep ==
    ASSUME FilesTyped, SetsTyped, PartiesTyped, KindKept, Lives, Coherent,
           InTouch, AgentSound, OthersQuiet, Request, Next
    PROVE  Request'
<1> SUFFICES ASSUME main'.pc \in Asked PROVE Request'
  BY DEF Request
<1> USE NumbersTyped
<1>1. BusyStep /\ (main.pc = "ready" \/ (main.pc \in Busy /\ main.kind \in Kinds))
  BY BusySteps DEF Busy
<1>2. ASSUME main' = main, LooksOn \/ ReadsReport PROVE Request'
  BY <1>2 DEF LooksOn, ReadsReport, Request, Number, Seq, Alive
<1>3. CASE ReadsResults
  <2>1. main.kind \in Kinds /\ cl.bench.seq[main.kind] <= Seq
    BY <1>1, <1>3 DEF ReadsResults, Coherent, Seq, Asked
  <2>2. main.pc = "done" => cl'.bench.seq[main.kind] = Number
    BY <1>3, <2>1 DEF ReadsResults, Request, Asked, Number, Seq
  <2>3. cl'.bench.seq[main.kind] = Number => cl'.bench.by[main.kind] = main.req
    BY <1>3 DEF ReadsResults, Request, Number, Seq
  <2> QED
    BY <1>3, <2>2, <2>3 DEF ReadsResults, Request, Number, Seq, Alive
<1>4. CASE \/ Advances("begin", "result") \/ Advances("result", "cut")
           \/ Advances("result", "done") /\ cl.bench.seq[main.kind] >= Number
  <2>1. /\ main.pc \in {"begin", "result"} /\ main'.pc \notin {"begin"}
        /\ main'.kind = main.kind /\ main'.req = main.req
        /\ UNCHANGED <<disk, cl, agent>>
        /\ main'.pc = "done" => cl.bench.seq[main.kind] >= Number
    BY <1>4 DEF Advances
  <2>2. main.kind \in Kinds /\ cl.bench.seq[main.kind] <= Seq
    BY <1>1, <2>1 DEF Coherent, Seq
  <2> QED
    BY <2>1, <2>2 DEF Request, Number, Seq, Asked, Alive
<1>5. ASSUME NEW k \in Kinds, Asks(k) PROVE Request'
  BY <1>5 DEF Asks, ReportsKept, AgentKept, Quiet, Alive, Request, Number, Seq
<1>6. CASE Withdraws
  BY <1>6 DEF Withdraws, Asked
<1>7. CASE Loads
  BY <1>1, <1>7 DEF Loads, Asked, Request, Number, Seq, Alive
<1>8. CASE Acknowledges
  BY <1>8 DEF Acknowledges, ReportsKept, AgentKept, Request, Number, Seq, Alive
<1>9. CASE Applies
  BY <1>1, <1>9 DEF Applies, Asked, Request, Number, Seq
<1>10. CASE Completes
  BY <1>1, <1>10 DEF Completes, Asked, Request, Number, Seq, Alive, Coherent
<1>11. CASE ReportsState
  BY <1>11 DEF ReportsState, Request, Number, Seq, Alive
<1>12. CASE Exits \/ Dies \/ Settles
  BY <1>12 DEF Exits, AgentKept, Dies, Settles, Request, Number, Seq, Alive
<1> QED
  BY <1>1, <1>2, <1>3, <1>4, <1>5, <1>6, <1>7, <1>8, <1>9, <1>10, <1>11, <1>12
     DEF BusyStep, LooksOn, ReadsReport

LEMMA WithdrawnStep ==
    ASSUME FilesTyped, SetsTyped, PartiesTyped, KindKept, Lives, Coherent,
           InTouch, AgentSound, OthersQuiet, Withdrawn, Next
    PROVE  Withdrawn'
<1> SUFFICES ASSUME main'.pc = "end" PROVE Withdrawn'
  BY DEF Withdrawn
<1>1. BusyStep /\ (main.pc = "ready" \/ (main.pc \in Busy /\ main.kind \in Kinds))
  BY BusySteps DEF Busy
<1>2. CASE LooksOn \/ ReadsReport \/ ReadsResults \/ Loads \/ Applies \/ Exits \/ Dies
           \/ Settles
  BY <1>2 DEF LooksOn, ReadsReport, ReadsResults, Loads, Applies, Exits, Dies,
     Settles, Withdrawn, Seq
<1>3. CASE \/ Advances("begin", "result") \/ Advances("result", "done")
           \/ Advances("result", "cut") \/ \E k \in Kinds : Asks(k)
  BY <1>3 DEF Advances, Asks
<1>4. CASE Withdraws
  <2>1. main.kind \in Kinds
    BY <1>1, <1>4 DEF Withdraws
  <2> QED
    BY <1>4, <2>1 DEF Withdraws, ReportsKept, Withdrawn, Coherent, Seq
<1>5. CASE Acknowledges \/ ReportsState
  BY <1>5 DEF Acknowledges, ReportsKept, ReportsState, Withdrawn, Seq
<1>6. CASE Completes
  BY <1>1, <1>6, NumbersTyped DEF Completes, Withdrawn, Seq
<1> QED
  BY <1>1, <1>2, <1>3, <1>4, <1>5, <1>6 DEF BusyStep

LEMMA ShownStep ==
    ASSUME FilesTyped, SetsTyped, PartiesTyped, KindKept, Lives, Coherent,
           InTouch, AgentSound, OthersQuiet, Request, Withdrawn,
           Shown, Beginning, Running, Next
    PROVE  Shown'
<1> SUFFICES ASSUME main'.pc \in Busy PROVE Shown'
  BY DEF Shown
<1>1. BusyStep /\ (main.pc = "ready" \/ (main.pc \in Busy /\ main.kind \in Kinds))
  BY BusySteps
<1>2. CASE LooksOn \/ ReadsReport \/ ReadsResults
  BY <1>2 DEF LooksOn, ReadsReport, ReadsResults, Shown, Seq, Lagging, Alive
<1>3. CASE Advances("begin", "result") \/ Advances("result", "done")
           \/ Advances("result", "cut")
  <2>1. main.pc \in Busy /\ UNCHANGED <<disk, cl, agent, young, inst>> /\ main'.kind = main.kind
    BY <1>3 DEF Advances, Busy, Asked, Began
  <2> QED
    BY <2>1 DEF Shown, Seq, Lagging, Alive
<1>4. ASSUME NEW k \in Kinds, Asks(k) PROVE Shown'
  BY <1>4 DEF Asks, ReportsKept, Shown, Quiet, Seq, Lagging
<1>5. CASE Withdraws
  <2>1. main.pc \in Busy
    BY <1>5 DEF Withdraws, Busy, Asked
  <2> QED
    BY <1>5, <2>1 DEF Withdraws, ReportsKept, AgentKept, Shown, Seq, Lagging,
       Alive
<1>6. CASE Loads \/ Exits \/ Dies \/ Settles
  BY <1>6 DEF Loads, Exits, AgentKept, Dies, Settles, Shown, Seq, Lagging,
     Alive
<1>7. CASE Acknowledges
  BY <1>7 DEF Acknowledges, ReportsKept, AgentKept, Shown, Seq, Lagging, Alive
<1>8. CASE Applies
  <2>1. agent.cmd.bench[main.kind] > Seq /\ agent.state # main.kind
           => disk.report.state # main.kind
    <3>1. main.pc = "begin" /\ agent.cmd.bench[main.kind] > Seq /\ agent.state # main.kind
             => disk.report.state # main.kind
      BY <1>1, <1>8, NumbersTyped DEF Applies, Request, Beginning, Asked,
         Number, Seq
    <3>2. main.pc \in Began /\ agent.cmd.bench[main.kind] > Seq => agent.state = main.kind
      BY <1>1, <1>8, NumbersTyped DEF Applies, Running, Began, Busy, Seq
    <3> QED
      BY <1>8, <3>1, <3>2 DEF Applies, Busy, Began, Asked
  <2> QED
    BY <1>8, <2>1 DEF Applies, Shown, Seq, Lagging
<1>9. CASE Completes
  <2>1. disk.report.state = main.kind
    BY <1>9 DEF Completes, Beginning, Running, Busy, Began, Asked
  <2> QED
    BY <1>9, <2>1 DEF Completes, Shown
<1>10. CASE ReportsState
  <2>1. agent.state = main.kind => agent.hashd = FALSE
    BY <1>1, <1>10 DEF ReportsState, AgentSound, PartiesTyped, Agents, Busy,
       Asked, Began
  <2> QED
    BY <1>10, <2>1 DEF ReportsState, Shown
<1> QED
  BY <1>1, <1>2, <1>3, <1>4, <1>5, <1>6, <1>7, <1>8, <1>9, <1>10 DEF BusyStep

LEMMA BeginningStep ==
    ASSUME FilesTyped, SetsTyped, PartiesTyped, KindKept, Lives, Coherent,
           InTouch, AgentSound, OthersQuiet, Request, Withdrawn,
           Shown, Beginning, Running, Next
    PROVE  Beginning'
<1> SUFFICES ASSUME main'.pc = "begin" PROVE Beginning'
  BY DEF Beginning
<1>1. BusyStep /\ (main.pc = "ready" \/ (main.pc \in Busy /\ main.kind \in Kinds))
  BY BusySteps DEF Busy, Asked
<1>2. CASE LooksOn \/ ReadsReport \/ ReadsResults
  BY <1>2 DEF LooksOn, ReadsReport, ReadsResults, Beginning, Number, Seq, Alive
<1>3. CASE \/ Advances("begin", "result") \/ Advances("result", "done")
           \/ Advances("result", "cut") \/ Withdraws
  BY <1>3 DEF Advances, Withdraws
<1>4. ASSUME NEW k \in Kinds, Asks(k) PROVE Beginning'
  BY <1>4 DEF Asks, ReportsKept, AgentKept, Beginning, Quiet, Number, Seq,
     Alive
<1>5. CASE Loads \/ Dies \/ Settles
  BY <1>5 DEF Loads, Dies, Settles, Beginning, Number, Seq, Alive
<1>6. CASE Acknowledges
  BY <1>6 DEF Acknowledges, ReportsKept, AgentKept, Beginning, Number, Seq,
     Alive
<1>7. CASE Exits
  BY <1>7 DEF Exits, AgentKept, Beginning, Number, Seq, Alive
<1>8. CASE Applies
  <2>1. agent.state = main.kind => agent.cmd.bench[main.kind] > Seq
    BY <1>1, <1>8, NumbersTyped DEF Applies, Request, Asked, Number, Seq
  <2>2. agent.cmd.bench[main.kind] > Seq /\ agent.state # main.kind
           => main.kind \notin {cl.report.state, disk.report.state}
    BY <1>1, <1>8, NumbersTyped DEF Applies, Request, Beginning, Asked, Number,
       Seq
  <2> QED
    BY <1>8, <2>1, <2>2 DEF Applies, Beginning, Number, Seq
<1>9. CASE Completes
  <2>1. agent.cmd.bench[main.kind] = Number /\ Number' = Number
    BY <1>1, <1>9 DEF Completes, Request, Asked, Number
  <2>2. cl.bench.seq[main.kind] # Number
    BY <1>1, <1>9, <2>1, NumbersTyped DEF Completes, Coherent, Number, Seq
  <2>3. "report" \notin young /\ (minder.pc = "bench" => cl.report.state = main.kind)
    BY <1>9 DEF Completes, Beginning
  <2> QED
    BY <1>9, <2>1, <2>2, <2>3 DEF Completes, Beginning, Seq
<1>10. CASE ReportsState
  <2>1. agent.state = main.kind => Seq # Number /\ agent.hashd = FALSE
    BY <1>1, <1>10, NumbersTyped
       DEF ReportsState, Request, Asked, Number, Seq, AgentSound, PartiesTyped, Agents
  <2>2. agent.state = main.kind => agent.unit # "exited"
    BY <1>1, <1>10, <2>1 DEF ReportsState, Shown, Beginning
  <2>3. Number' = Number /\ Seq' = Seq
    BY <1>10 DEF ReportsState, Number, Seq
  <2> QED
    BY <1>10, <2>1, <2>2, <2>3 DEF ReportsState, Beginning, Alive
<1> QED
  BY <1>1, <1>2, <1>3, <1>4, <1>5, <1>6, <1>7, <1>8, <1>9, <1>10 DEF BusyStep

LEMMA RunningStep ==
    ASSUME FilesTyped, SetsTyped, PartiesTyped, KindKept, Lives, Coherent,
           InTouch, AgentSound, OthersQuiet, Request, Withdrawn,
           Shown, Beginning, Running, Next
    PROVE  Running'
<1> SUFFICES ASSUME main'.pc \in Began PROVE Running'
  BY DEF Running
<1>1. BusyStep /\ (main.pc = "ready" \/ (main.pc \in Busy /\ main.kind \in Kinds))
  BY BusySteps DEF Busy, Asked, Began
<1>2. CASE LooksOn \/ ReadsResults
  BY <1>2 DEF LooksOn, ReadsResults, Running, Number, Seq, Lagging, Alive
<1>3. CASE ReadsReport
  <2>1. Number' = Number /\ Seq' = Seq /\ Lagging' = Lagging /\ Alive' = Alive
    BY <1>3 DEF ReadsReport, Number, Seq, Lagging, Alive
  <2>2. Lagging /\ cl'.report.state # main.kind => "bench" \notin young
    BY <1>1, <1>3 DEF ReadsReport, Running, Shown, Began
  <2> QED
    BY <1>3, <2>1, <2>2 DEF ReadsReport, Running
<1>4. CASE Advances("begin", "result")
           /\ (cl.report.state = main.kind \/ cl.bench.seq[main.kind] >= main.want)
  <2>1. main.pc = "begin" /\ main'.kind = main.kind /\ UNCHANGED <<disk, young, cl, agent, minder>>
    BY <1>4 DEF Advances
  <2>2. main.kind \in Kinds /\ main.want = Number /\ cl.bench.seq[main.kind] <= Seq
    BY <1>1, <2>1 DEF Asked, Request, Coherent, Seq
  <2>3. Seq \in {Number - 1, Number} /\ Number \in Nat /\ Seq \in Nat
        /\ cl.bench.seq[main.kind] \in Nat
    BY <2>1, <2>2, NumbersTyped DEF Request, Asked, Number, Seq
  <2>4. cl.report.state = main.kind \/ (Seq = Number /\ cl.bench.seq[main.kind] = Number)
    BY <1>4, <2>2, <2>3
  <2>5. Alive /\ agent.state # main.kind => agent.cmd.bench[main.kind] <= Seq /\ Seq = Number
    BY <2>1, <2>2, <2>3, <2>4, NumbersTyped DEF Beginning, Request, Asked
  <2>6. Alive /\ agent.state = main.kind =>
           disk.report.state = main.kind /\ cl.report.state = main.kind
    BY <2>1, <2>3, <2>4 DEF Beginning, Request, Asked
  <2>7. disk.report.state = main.kind => cl.report.state = main.kind
    BY <2>1, <2>4 DEF Beginning
  <2>8. Lagging => cl.report.state = main.kind
    BY <2>4 DEF Lagging
  <2>9. Number' = Number /\ Seq' = Seq /\ Lagging' = Lagging /\ Alive' = Alive
    BY <2>1 DEF Number, Seq, Lagging, Alive
  <2> QED
    BY <2>1, <2>3, <2>5, <2>6, <2>7, <2>8, <2>9 DEF Running
<1>5. CASE Advances("result", "done") \/ Advances("result", "cut")
  <2>1. main.pc \in Began /\ main'.kind = main.kind /\ UNCHANGED <<disk, young, cl, agent, minder>>
    BY <1>5 DEF Advances, Began
  <2> QED
    BY <2>1 DEF Running, Number, Seq, Lagging, Alive
<1>6. ASSUME NEW k \in Kinds, Asks(k) PROVE Running'
  BY <1>6 DEF Asks, Began
<1>7. CASE Withdraws
  <2>1. main.kind \in Kinds /\ main.pc \in Began
    BY <1>1, <1>7 DEF Withdraws, Began
  <2>2. Number' <= Seq /\ Seq' = Seq /\ Lagging' = Lagging /\ Alive' = Alive
    BY <1>7, <2>1 DEF Withdraws, ReportsKept, AgentKept, Coherent, Number, Seq,
       Lagging, Alive
  <2> QED
    BY <1>7, <2>1, <2>2 DEF Withdraws, ReportsKept, AgentKept, Running
<1>8. CASE Loads \/ Exits \/ Dies \/ Settles
  BY <1>8 DEF Loads, Exits, AgentKept, Dies, Settles, Running, Number, Seq,
     Lagging, Alive
<1>9. CASE Acknowledges
  BY <1>9 DEF Acknowledges, ReportsKept, AgentKept, Running, Number, Seq,
     Lagging, Alive
<1>10. CASE Applies
  <2>1. agent.state # main.kind => ~(agent.cmd.bench[main.kind] > Seq)
    BY <1>1, <1>10, NumbersTyped DEF Applies, Running, Began, Seq
  <2>2. agent.state = main.kind /\ ~(agent.cmd.bench[main.kind] > Seq) => Number <= Seq
    BY <1>1, <1>10, NumbersTyped DEF Applies, Request, Withdrawn, Began, Asked,
       Number, Seq
  <2>3. ~(agent.cmd.bench[main.kind] > Seq) => agent.cmd.bench[main.kind] <= Seq
    BY <1>1, <1>10, NumbersTyped DEF Applies, Began, Seq
  <2>4. Number' = Number /\ Seq' = Seq /\ Lagging' = Lagging
    BY <1>10 DEF Applies, Number, Seq, Lagging
  <2> QED
    BY <1>10, <2>1, <2>2, <2>3, <2>4 DEF Applies, Running
<1>11. CASE Completes
  <2>1. main.pc \in Began /\ main.kind \in Kinds /\ Seq' = agent.cmd.bench[main.kind]
    BY <1>1, <1>11 DEF Completes, Began, Seq
  <2>2. Number <= agent.cmd.bench[main.kind] /\ Number' = Number
    BY <1>11, <2>1, NumbersTyped
       DEF Completes, Request, Withdrawn, Began, Asked, Number, Seq
  <2>3. cl.report.state = main.kind
    BY <1>11, <2>1 DEF Completes, Running
  <2>4. agent.cmd.bench[main.kind] \in Nat
    BY <2>1, NumbersTyped
  <2> QED
    BY <1>11, <2>1, <2>2, <2>3, <2>4 DEF Completes, Running
<1>12. CASE ReportsState
  <2>1. Number' = Number /\ Seq' = Seq /\ Lagging' = Lagging /\ Alive' = Alive
    BY <1>12 DEF ReportsState, Number, Seq, Lagging, Alive
  <2>2. "bench" \in young' <=> "bench" \in young
    BY <1>12 DEF ReportsState
  <2> QED
    BY <1>12, <2>1, <2>2 DEF ReportsState, Running
<1> QED
  BY <1>1, <1>2, <1>3, <1>4, <1>5, <1>6, <1>7, <1>8, <1>9, <1>10, <1>11, <1>12
     DEF BusyStep

-----------------------------------------------------------------------------
(* The whole invariant.                                                    *)

IInv == /\ FilesTyped /\ SetsTyped /\ PartiesTyped
        /\ OnlyAsked /\ KindKept /\ Lives
        /\ Coherent /\ Numbered /\ ComingUp /\ InTouch /\ AtBarrier
        /\ AgentSound /\ BenchInv

LEMMA InitInv == Init => IInv
<1> SUFFICES ASSUME Init PROVE IInv
  OBVIOUS
<1>1. Left \in Files /\ Fresh \in Files
  <2>1. DefaultCmd(1) \in Cmds /\ NoFiles \in Files /\ NoResults \in Results
    BY ConstantsTyped
  <2>2. [DefaultCmd(1) EXCEPT !.cmd_seq = 9] \in Cmds
    BY <2>1 DEF Cmds
  <2>3. [k \in Kinds |-> 1] \in [Kinds -> Nat] /\ Zeros \in [Kinds -> Nat]
    BY ConstantsTyped
  <2>4. Left \in Files
    BY <2>2, <2>3 DEF Left, Files, Acks, Reports, Results, States
  <2>5. Fresh \in Files
    BY <2>1 DEF Fresh, Files, Results
  <2> QED
    BY <2>4, <2>5
<1>2. FilesTyped
  BY <1>1, ConstantsTyped DEF Init, FilesTyped
<1>3. SetsTyped
  BY DEF Init, SetsTyped
<1>4. PartiesTyped
  BY ConstantsTyped DEF Init, PartiesTyped
<1>5. main.pc = "down" /\ main.kind = "none" /\ agent = AgentOff /\ minder = Gone
  BY DEF Init, Idle
<1>6. /\ agent.life = "off" /\ agent.unit = "none" /\ agent.hashd = FALSE
      /\ agent.cmd = DefaultCmd(0) /\ agent.state = "Idle"
  BY <1>5 DEF AgentOff
<1>7. disk \in {Fresh, Left} /\ cl \in {NoFiles, Left}
  BY DEF Init
<1>8. \A c \in {disk.cmd, cl.cmd, agent.cmd} :
         c.hashd = FALSE /\ \A k \in Kinds : c.bench[k] = 0
  <2>1. NoFiles.cmd = DefaultCmd(0) /\ Fresh.cmd = DefaultCmd(0)
    BY ConstantsTyped DEF NoFiles, Fresh
  <2>2. Left.cmd = [DefaultCmd(1) EXCEPT !.cmd_seq = 9]
    BY DEF Left
  <2>3. \A i \in {0, 1} : DefaultCmd(i).hashd = FALSE /\ \A k \in Kinds : DefaultCmd(i).bench[k] = 0
    BY DEF DefaultCmd, Zeros
  <2>4. Left.cmd.hashd = FALSE /\ \A k \in Kinds : Left.cmd.bench[k] = 0
    BY <2>2, <2>3 DEF DefaultCmd
  <2> QED
    BY <1>6, <1>7, <2>1, <2>3, <2>4
<1>9. OnlyAsked
  BY <1>6, <1>8 DEF OnlyAsked
<1>10. KindKept /\ Lives /\ ComingUp /\ InTouch /\ AtBarrier
  BY <1>5, <1>6 DEF KindKept, Lives, ComingUp, InTouch, AtBarrier, Busy, Asked,
     Began, Working, Calm
<1>11. Coherent
  <2>1. \/ disk \in {Fresh, Left} /\ have = {} /\ cl = NoFiles
        \/ disk = Left /\ cl = Left /\ have = FileNames
    BY DEF Init
  <2>2. /\ Fresh.bench.inst = 1 /\ Left.bench.inst = 1
        /\ \A k \in Kinds : NoFiles.bench.seq[k] = 0
    BY DEF Fresh, Left, NoFiles, NoResults, Zeros
  <2>3. disk.bench.inst > 0
    BY <1>7, <2>2
  <2>4. \A k \in Kinds : cl.bench.seq[k] <= disk.bench.seq[k]
    <3> SUFFICES ASSUME NEW k \in Kinds PROVE cl.bench.seq[k] <= disk.bench.seq[k]
      OBVIOUS
    <3>1. disk.bench.seq[k] \in Nat
      BY <1>2, <1>4, NumbersTyped
    <3>2. cl.bench.seq[k] \in {0, disk.bench.seq[k]}
      BY <2>1, <2>2
    <3> QED
      BY <3>1, <3>2
  <2> QED
    BY <2>1, <2>3, <2>4 DEF Coherent, FileNames
<1>12. Numbered
  BY <1>6, <1>7 DEF Init, Numbered, Fresh, Left, NoFiles, NoReport
<1>13. AgentSound
  BY <1>6 DEF AgentSound, Alive
<1>14. BenchInv
  BY <1>5 DEF BenchInv, OthersQuiet, Request, Withdrawn, Shown, Beginning,
     Running, Busy, Asked, Began, Calm
<1> QED
  BY <1>2, <1>3, <1>4, <1>9, <1>10, <1>11, <1>12, <1>13, <1>14 DEF IInv

LEMMA NextInv == IInv /\ [Next]_vars => IInv'
<1> SUFFICES ASSUME IInv, [Next]_vars PROVE IInv'
  OBVIOUS
<1>1. CASE Next
  <2> USE DEF IInv, BenchInv
  <2>1. FilesTyped' /\ SetsTyped' /\ PartiesTyped'
    BY <1>1, FilesTypedStep, SetsTypedStep, PartiesTypedStep
  <2>2. KindKept' /\ Lives' /\ OnlyAsked'
    BY <1>1, KindKeptStep, LivesStep, OnlyAskedStep
  <2>3. Coherent' /\ Numbered' /\ AgentSound'
    BY <1>1, CoherentStep, NumberedStep, AgentSoundStep
  <2>4. ComingUp' /\ InTouch' /\ AtBarrier'
    BY <1>1, ComingUpStep, InTouchStep, AtBarrierStep
  <2>5. OthersQuiet' /\ Request' /\ Withdrawn'
    BY <1>1, OthersQuietStep, RequestStep, WithdrawnStep
  <2>6. Shown' /\ Beginning' /\ Running'
    BY <1>1, ShownStep, BeginningStep, RunningStep
  <2> QED
    BY <2>1, <2>2, <2>3, <2>4, <2>5, <2>6
<1>2. CASE UNCHANGED vars
  <2>1. UNCHANGED <<FilesTyped, SetsTyped, PartiesTyped, OnlyAsked, KindKept, Lives>>
    BY <1>2 DEF vars, FilesTyped, SetsTyped, PartiesTyped, OnlyAsked, KindKept,
       Lives
  <2>2. UNCHANGED <<Coherent, Numbered, AgentSound>>
    BY <1>2 DEF vars, Coherent, Numbered, AgentSound, Alive
  <2>3. UNCHANGED <<ComingUp, InTouch, AtBarrier>>
    BY <1>2 DEF vars, ComingUp, InTouch, AtBarrier, Reported, Refreshing
  <2>4. UNCHANGED BenchInv
    BY <1>2 DEF vars, BenchInv, OthersQuiet, Quiet, Request, Withdrawn, Shown,
       Beginning, Running, Number, Seq, Lagging, Alive
  <2> QED
    BY <2>1, <2>2, <2>3, <2>4 DEF IInv
<1> QED
  BY <1>1, <1>2

LEMMA Invariance == Spec => []IInv
BY InitInv, NextInv, PTL DEF Spec

-----------------------------------------------------------------------------
(* A job that is over leaves nothing running: stop_agent() stops the agent *)
(* and joins the minder, and what the agent did not stop because it died   *)
(* is stopped by the client, which remembers in svcs every unit it has ever*)
(* asked for.                                                              *)
THEOREM LeavesNothing == Spec => []NothingLeft
<1>1. IInv => NothingLeft
  BY DEF IInv, Lives, NothingLeft
<1> QED
  BY <1>1, Invariance, PTL

(* After stop_iocost_bench() or stop_hashd_bench() returned, no benchmark  *)
(* runs and the agent holds no request for one: neither a command it has   *)
(* not read nor a result it has recorded late brings it back.              *)
THEOREM BenchmarksStayStopped == Spec => []StoppedForGood
<1>1. IInv => StoppedForGood
  <2> SUFFICES ASSUME IInv, main.pc = "ready", Alive
               PROVE  agent.state \notin Kinds /\ Requested = {}
    BY DEF StoppedForGood
  <2>1. \A k \in Kinds : Quiet(k)
    BY DEF IInv, BenchInv, OthersQuiet, Calm
  <2>2. \A k \in Kinds : agent.cmd.bench[k] <= disk.bench.seq[k] /\ agent.state # k
    BY <2>1 DEF Quiet
  <2>3. \A k \in Kinds : ~(agent.cmd.bench[k] > disk.bench.seq[k])
    <3>1. FilesTyped /\ PartiesTyped
      BY DEF IInv
    <3> SUFFICES ASSUME NEW k \in Kinds PROVE ~(agent.cmd.bench[k] > disk.bench.seq[k])
      OBVIOUS
    <3>2. agent.cmd.bench[k] \in Nat /\ disk.bench.seq[k] \in Nat
      BY <3>1, NumbersTyped
    <3> QED
      BY <2>2, <3>2
  <2> QED
    BY <2>2, <2>3 DEF Requested
<1> QED
  BY <1>1, Invariance, PTL

(* The result a job goes on with is that of the benchmark it asked for: an *)
(* earlier benchmark that was cut short, or whose result was recorded late,*)
(* has another number in bench.json, and the agent records a result under  *)
(* the number it was asked for.                                            *)
THEOREM ResultsAreOwn == Spec => []ResultIsOwn
<1>1. IInv => ResultIsOwn
  BY DEF IInv, BenchInv, Request, Asked, ResultIsOwn
<1> QED
  BY <1>1, Invariance, PTL

(* When cmd_barrier() returns, a living agent has loaded everything that   *)
(* was saved before: the acknowledgement of this number is never one of an *)
(* earlier agent, nor of commands that were saved before the last ones.    *)
THEOREM BarriersAreSeen == Spec => BarrierMeansSeen
<1>1. IInv /\ [Next]_vars =>
         [main.pc = "barrier" /\ main'.pc = main.next /\ Alive => agent.cmd = disk.cmd]_vars
  <2> SUFFICES ASSUME IInv, Next, main.pc = "barrier", main'.pc = main.next, Alive
               PROVE  agent.cmd = disk.cmd
    OBVIOUS
  <2>1. main.next \in {"ready", "hashdOn", "hashdOff"}
    BY DEF IInv, KindKept, PartiesTyped, Mains
  <2>2. BarrierPassed
    <3>1. main' # main /\ main'.pc \notin {"barrier", "stop"}
      BY <2>1
    <3>2. CASE Minder \/ Agent \/ System
      BY <3>1, <3>2 DEF Minder, MinderTick, MinderLastRefresh, MinderReport,
         MinderBench, Agent, AgentReset, AgentLoad, HalfSecond, AgentReload,
         AgentAck, AgentApply, AgentComplete, AgentReport, System, BenchExits,
         AgentDies, Settle
    <3>3. CASE Main
      <4>1. ~(\E initFns \in BOOLEAN : Configure(initFns)) /\ ~BenchBegan
            /\ ~ResultArrived /\ ~BenchEnded /\ ~HashdSwitched /\ ~CutShort
        BY DEF Configure, BenchBegan, ResultArrived, BenchEnded, HashdSwitched,
           CutShort, Satisfied, Look
      <4>2. ~StartAgent /\ ~(\E k \in Kinds : StartBench(k)) /\ ~StopBench /\ ~StopSvc
            /\ ~StartHashd /\ ~StopHashd /\ ~StopAgent
        BY DEF StartAgent, StartBench, StopBench, StopSvc, StartHashd,
           StopHashd, SwitchHashd, StopAgent, TakeAgent, DropAgent, JoinMinder
      <4>3. ~WaitFails /\ ~Finish /\ ~WaitAgain
        BY <3>1 DEF WaitFails, Finish, WaitAgain, GiveUp, IInv, PartiesTyped,
           Mains
      <4> QED
        BY <3>3, <4>1, <4>2, <4>3 DEF Main, Wait
    <3> QED
      BY <3>2, <3>3 DEF Next
  <2>3. cl.ack.cmd_seq >= main.want
    BY <2>2 DEF BarrierPassed, Satisfied, Holds, Look
  <2>4. /\ cl.ack.cmd_seq <= disk.ack.cmd_seq /\ disk.ack.cmd_seq <= agent.cmd.cmd_seq
        /\ agent.life = "up"
    BY DEF IInv, InTouch, Lives, Working, Calm, Alive
  <2>5. /\ cl.ack.cmd_seq \in Nat /\ disk.ack.cmd_seq \in Nat
        /\ agent.cmd.cmd_seq \in Nat /\ main.want \in Nat
    BY DEF IInv, FilesTyped, Files, Acks, PartiesTyped, Agents, Cmds, Mains
  <2>6. ~(agent.cmd.cmd_seq < main.want)
    BY <2>3, <2>4, <2>5
  <2> QED
    BY <2>4, <2>6 DEF IInv, AtBarrier
<1> QED
  BY <1>1, Invariance, PTL DEF Spec, BarrierMeansSeen
-----------------------------------------------------------------------------
(* The agent that this client deals with keeps the promises of             *)
(* BenchLifecycle, which AgentRunner is shown to keep.                     *)

\* rd-hashd runs only in Running, and an agent that is gone was cleaned up.
AtRest == /\ agent.hashd => agent.state = "Running"
          /\ agent.life = "off" => agent.state = "Idle"

\* Nothing of the agent changes that the life cycle sees.
SameAgent == /\ agent'.cmd = agent.cmd /\ agent'.state = agent.state /\ agent'.hashd = agent.hashd
             /\ agent'.life = agent.life
             /\ disk'.bench = disk.bench /\ disk'.ack = disk.ack

LEMMA SavesAside ==
    ASSUME NEW c, SaveCmd(c), PartiesTyped, FilesTyped
    PROVE  SameAgent /\ agent'.unit = agent.unit
<1>1. \/ UNCHANGED <<disk, agent>>
      \/ disk' = [disk EXCEPT !.cmd = c] /\ agent' = [agent EXCEPT !.unread = Alive]
  BY DEF SaveCmd
<1>2. disk \in Files /\ agent \in Agents
  BY DEF FilesTyped, PartiesTyped
<1> QED BY <1>1, <1>2 DEF SameAgent, Files, Agents

\* The steps of the client.
LEMMA ClientAside ==
    ASSUME IInv, Minder \/ Wait \/ WaitFails \/ CutShort \/ (\E k \in Kinds : StartBench(k))
                 \/ StopBench \/ StopSvc \/ StartHashd \/ StopHashd \/ Finish \/ TakeAgent
    PROVE  SameAgent /\ (agent'.unit = agent.unit \/ (agent.unit = "running" /\ agent'.unit = "none"))
<1>1. FilesTyped /\ PartiesTyped
  BY DEF IInv
<1>2. CASE UNCHANGED <<disk, agent>>
  BY <1>2 DEF SameAgent
<1>3. CASE \E c : SaveCmd(c)
  BY <1>1, <1>3, SavesAside
<1>4. CASE Minder
  <2>1. UNCHANGED <<disk, agent>>
    BY <1>4 DEF Minder, MinderTick, MinderLastRefresh, MinderReport, MinderBench
  <2> QED BY <1>2, <2>1
<1>5. CASE WaitAgain \/ BarrierPassed \/ BenchBegan \/ ResultArrived \/ BenchEnded \/ HashdSwitched
           \/ WaitFails \/ CutShort \/ Finish \/ TakeAgent
  <2>1. UNCHANGED <<disk, agent>>
    BY <1>5 DEF WaitAgain, BarrierPassed, BenchBegan, ResultArrived, BenchEnded, HashdSwitched,
       WaitFails, CutShort, Finish, TakeAgent
  <2> QED BY <1>2, <2>1
<1>6. CASE \E initFns \in BOOLEAN : Configure(initFns)
  BY <1>3, <1>6 DEF Configure
<1>7. CASE \E k \in Kinds : StartBench(k)
  BY <1>3, <1>7 DEF StartBench
<1>8. CASE StopBench
  BY <1>3, <1>8 DEF StopBench
<1>9. CASE StartHashd \/ StopHashd
  BY <1>3, <1>9 DEF StartHashd, StopHashd, SwitchHashd
<1>10. CASE StopSvc
  <2>1. disk' = disk
    BY <1>10 DEF StopSvc
  <2>2. agent \in Agents
    BY <1>1 DEF PartiesTyped
  <2>3. \/ agent' = agent
        \/ agent.unit = "running" /\ agent' = [agent EXCEPT !.unit = "none"]
    BY <1>10 DEF StopSvc
  <2> QED BY <2>1, <2>2, <2>3 DEF SameAgent, Agents
<1> QED
  BY <1>4, <1>5, <1>6, <1>7, <1>8, <1>9, <1>10 DEF Wait

Finished == agent.state \in Kinds /\ agent.unit = "exited"

LEMMA Unseen ==
    ASSUME AtRest, SameAgent, Finished' <=> Finished
    PROVE  AtRest' /\ UNCHANGED AgentLifecycle!vars
<1>1. AtRest'
  BY DEF AtRest, SameAgent
<1>2. UNCHANGED AgentLifecycle!vars
  BY DEF SameAgent, Finished, AgentLifecycle!vars
<1> QED BY <1>1, <1>2

\* The agent is gone, with whatever it ran.
LEMMA Ended ==
    ASSUME agent'.state = "Idle", agent'.hashd = FALSE,
           disk'.bench = disk.bench, disk'.ack = disk.ack
    PROVE  AtRest' /\ AgentLifecycle!End
<1>1. "Idle" \notin Kinds
  BY KindsAssumption
<1> QED
  BY <1>1 DEF AtRest, AgentLifecycle!End

\* The agent loads something, or loses it, and goes on as it was.
LEMMA Loaded ==
    ASSUME AtRest, agent'.state = agent.state, agent'.unit = agent.unit,
           agent'.hashd = agent.hashd, agent'.life # "off",
           disk'.bench = disk.bench, disk'.ack = disk.ack
    PROVE  AtRest' /\ AgentLifecycle!Load
<1>1. AtRest'
  BY DEF AtRest
<1>2. AgentLifecycle!Load
  BY DEF AgentLifecycle!Load
<1> QED BY <1>1, <1>2

LEMMA Starts ==
    ASSUME IInv, IInv', AtRest, StartAgent \/ DropAgent \/ JoinMinder
    PROVE  AtRest' /\ [AgentLifecycle!Next]_(AgentLifecycle!vars)
<1>1. /\ AgentOff.state = "Idle" /\ AgentOff.hashd = FALSE
      /\ AgentOff.life = "off" /\ AgentOff.unit = "none"
  BY DEF AgentOff
<1>2. disk' = disk
  BY DEF StartAgent, DropAgent, JoinMinder
<1>3. CASE StartAgent
  <2>1. agent' = [AgentOff EXCEPT !.life = "spawned"]
    BY <1>3 DEF StartAgent
  <2>2. agent'.state = "Idle" /\ agent'.hashd = FALSE
    BY <2>1 DEF AgentOff
  <2> QED BY <1>2, <2>2, Ended DEF AgentLifecycle!Next
<1>4. CASE DropAgent /\ agent.life = "dead"
  <2>1. agent' = agent
    BY <1>4 DEF DropAgent
  <2> QED BY <1>2, <2>1, Unseen DEF SameAgent, Finished
<1>5. CASE DropAgent /\ agent.life # "dead"
  <2>1. agent' = AgentOff
    BY <1>5 DEF DropAgent
  <2> QED BY <1>1, <1>2, <2>1, Ended DEF AgentLifecycle!Next
<1>6. CASE JoinMinder
  <2>1. agent'.state = "Idle"
    BY <1>6 DEF JoinMinder, AgentOff
  <2>2. main'.pc = "down"
    BY <1>6 DEF JoinMinder, IInv, PartiesTyped, Mains
  <2>3. agent' \in Agents /\ ~agent'.hashd
    BY <2>2 DEF IInv, PartiesTyped, Lives
  <2>4. agent'.hashd = FALSE
    BY <2>3 DEF Agents
  <2> QED BY <1>2, <2>1, <2>4, Ended DEF AgentLifecycle!Next
<1> QED BY <1>3, <1>4, <1>5, <1>6

LEMMA ComesUp ==
    ASSUME IInv, AtRest, AgentReset \/ AgentLoad \/ HalfSecond \/ AgentReload
    PROVE  AtRest' /\ [AgentLifecycle!Next]_(AgentLifecycle!vars)
<1>1. disk \in Files /\ agent \in Agents
  BY DEF IInv, FilesTyped, PartiesTyped
<1>2. CASE AgentReset
  <2>1. agent' = [agent EXCEPT !.life = "reset"]
        /\ disk' = [disk EXCEPT !.index.inst = inst, !.cmd = DefaultCmd(0)]
    BY <1>2 DEF AgentReset
  <2>2. /\ agent'.state = agent.state /\ agent'.unit = agent.unit
        /\ agent'.hashd = agent.hashd /\ agent'.life = "reset"
    BY <1>1, <2>1 DEF Agents
  <2>3. disk'.bench = disk.bench /\ disk'.ack = disk.ack
    BY <1>1, <2>1 DEF Files
  <2> QED BY <2>2, <2>3, Loaded DEF AgentLifecycle!Next
<1>3. CASE AgentLoad
  <2>1. /\ agent.life = "reset"
        /\ agent' = [agent EXCEPT !.life = "loaded", !.cmd = DefaultCmd(inst)]
        /\ disk' = [disk EXCEPT !.cmd = DefaultCmd(inst), !.ack = DefaultAck(inst)]
    BY <1>3 DEF AgentLoad
  <2>2. agent.state = "Idle"
    BY <2>1 DEF IInv, AgentSound
  <2>3. /\ agent'.state = agent.state /\ agent'.unit = agent.unit
        /\ agent'.hashd = agent.hashd /\ agent'.life = "loaded"
    BY <1>1, <2>1 DEF Agents
  <2>4. disk'.bench = disk.bench /\ disk'.ack = DefaultAck(inst)
    BY <1>1, <2>1 DEF Files
  <2>5. disk'.ack.cmd_seq = 0
    BY <2>4 DEF DefaultAck
  <2>6. AtRest'
    BY <2>3 DEF AtRest
  <2>7. AgentLifecycle!Boot
    BY <2>2, <2>3, <2>4, <2>5 DEF AgentLifecycle!Boot
  <2> QED BY <2>6, <2>7 DEF AgentLifecycle!Next
<1>4. CASE HalfSecond
  <2>1. disk' = disk /\ agent' = [agent EXCEPT !.life = "up"]
    BY <1>4 DEF HalfSecond
  <2>2. /\ agent'.state = agent.state /\ agent'.unit = agent.unit
        /\ agent'.hashd = agent.hashd /\ agent'.life = "up"
    BY <1>1, <2>1 DEF Agents
  <2> QED BY <2>1, <2>2, Loaded DEF AgentLifecycle!Next
<1>5. CASE AgentReload
  <2>1. /\ Alive /\ disk' = disk
        /\ agent' = [agent EXCEPT !.cmd = disk.cmd, !.unread = FALSE, !.pending = TRUE]
    BY <1>5 DEF AgentReload
  <2>2. /\ agent'.state = agent.state /\ agent'.unit = agent.unit
        /\ agent'.hashd = agent.hashd /\ agent'.life = agent.life
    BY <1>1, <2>1 DEF Agents
  <2>3. agent'.life # "off"
    BY <2>1, <2>2 DEF Alive
  <2> QED BY <2>1, <2>2, <2>3, Loaded DEF AgentLifecycle!Next
<1> QED BY <1>2, <1>3, <1>4, <1>5

LEMMA AppliesCommands ==
    ASSUME IInv, AtRest, AgentApply
    PROVE  AtRest' /\ [AgentLifecycle!Next]_(AgentLifecycle!vars)
<1>1. PartiesTyped /\ "Idle" \notin Kinds /\ "Running" \notin Kinds
  BY KindsAssumption DEF IInv
<1>2. disk' = disk
  BY DEF AgentApply
<1>3. Alive /\ agent'.life = agent.life /\ agent'.cmd = agent.cmd /\ agent.life # "off"
  BY <1>1, Applied DEF Alive
<1>4. CASE /\ Requested # {} /\ agent.state = "Idle"
           /\ agent'.state = Preferred /\ agent'.unit = "running" /\ agent'.hashd = FALSE
  <2>1. Preferred \in Requested
    BY <1>4, KindsAssumption DEF Requested, Preferred
  <2>2. Preferred \in Kinds /\ agent.cmd.bench[Preferred] > disk.bench.seq[Preferred]
    BY <2>1 DEF Requested
  <2>3. agent.hashd = FALSE
    BY <1>1, <1>4 DEF AtRest, PartiesTyped, Agents
  <2>4. AtRest'
    BY <1>3, <1>4 DEF AtRest
  <2>5. AgentLifecycle!StartBenchmark
    BY <1>1, <1>2, <1>3, <1>4, <2>2, <2>3 DEF AgentLifecycle!StartBenchmark,
       AgentLifecycle!Wanted, AgentLifecycle!Acknowledged
  <2> QED BY <2>4, <2>5 DEF AgentLifecycle!Next
<1>5. CASE /\ Requested = {} /\ agent.state \in {"Idle", "Running"} /\ agent'.state = "Running"
           /\ agent'.hashd = agent.cmd.hashd
  <2>1. \A k \in Kinds : ~(agent.cmd.bench[k] > disk.bench.seq[k])
    BY <1>5 DEF Requested
  <2>2. AtRest'
    BY <1>3, <1>5 DEF AtRest
  <2>3. AgentLifecycle!Serve
    BY <1>1, <1>2, <1>3, <1>5, <2>1 DEF AgentLifecycle!Serve,
       AgentLifecycle!Wanted, AgentLifecycle!Acknowledged
  <2> QED BY <2>2, <2>3 DEF AgentLifecycle!Next
<1>6. CASE agent'.state = agent.state /\ agent'.unit = agent.unit /\ agent'.hashd = agent.hashd
  BY <1>2, <1>3, <1>6, Unseen DEF SameAgent, Finished
<1>7. CASE agent'.state = "Idle" /\ agent'.hashd = FALSE
  <2>1. AtRest'
    BY <1>7 DEF AtRest
  <2>2. AgentLifecycle!GoIdle
    BY <1>1, <1>2, <1>3, <1>7 DEF AgentLifecycle!GoIdle, AgentLifecycle!Acknowledged
  <2> QED BY <2>1, <2>2 DEF AgentLifecycle!Next
<1> QED BY <1>1, <1>4, <1>5, <1>6, <1>7, Applied

LEMMA KeepsFiles ==
    ASSUME IInv, AtRest, AgentAck \/ AgentComplete \/ AgentReport
    PROVE  AtRest' /\ [AgentLifecycle!Next]_(AgentLifecycle!vars)
<1>1. FilesTyped /\ SetsTyped /\ PartiesTyped /\ "Idle" \notin Kinds
  BY KindsAssumption DEF IInv
<1>2. agent \in Agents /\ disk \in Files
  BY <1>1 DEF PartiesTyped, FilesTyped
<1>3. CASE AgentAck
  <2>1. /\ agent' = [agent EXCEPT !.acked = TRUE] /\ disk'.bench = disk.bench
        /\ disk'.ack = [inst |-> inst, cmd_seq |-> agent.cmd.cmd_seq]
    BY <1>1, <1>3, AckWritten
  <2>2. /\ agent'.state = agent.state /\ agent'.unit = agent.unit
        /\ agent'.hashd = agent.hashd /\ agent'.life = agent.life /\ agent'.cmd = agent.cmd
    BY <1>2, <2>1 DEF Agents
  <2>3. disk'.ack.cmd_seq = agent.cmd.cmd_seq
    BY <2>1
  <2>4. AtRest'
    BY <2>2 DEF AtRest
  <2>5. AgentLifecycle!Acknowledge
    BY <2>1, <2>2, <2>3 DEF AgentLifecycle!Acknowledge, AgentLifecycle!Acknowledged
  <2> QED BY <2>4, <2>5 DEF AgentLifecycle!Next
<1>4. CASE AgentComplete
  <2> DEFINE k == agent.state
  <2>1. /\ Alive /\ ~agent.pending /\ k \in Kinds /\ agent.unit # "running"
        /\ agent' = [agent EXCEPT !.state = "Idle", !.unit = "none", !.run = 0]
        /\ disk'.ack = disk.ack
        /\ agent.unit = "exited" =>
             disk'.bench = [disk.bench EXCEPT !.seq[k] = agent.cmd.bench[k], !.by[k] = agent.run]
    BY <1>1, <1>4, ResultWritten
  <2>2. ~agent.hashd /\ agent.unit # "none"
    BY <2>1 DEF IInv, AgentSound
  <2>3. agent.unit = "exited" /\ agent.hashd = FALSE
    BY <1>2, <2>1, <2>2 DEF Agents
  <2>4. /\ agent'.state = "Idle" /\ agent'.hashd = agent.hashd /\ agent'.life = agent.life
        /\ agent'.cmd = agent.cmd
    BY <1>2, <2>1 DEF Agents
  <2>5. disk'.bench.seq = [disk.bench.seq EXCEPT ![k] = agent.cmd.bench[k]]
    BY <1>2, <2>1, <2>3 DEF Files, Results
  <2>6. AtRest'
    BY <2>3, <2>4 DEF AtRest
  <2>7. AgentLifecycle!Record
    BY <1>1, <2>1, <2>3, <2>4, <2>5 DEF AgentLifecycle!Record
  <2> QED BY <2>6, <2>7 DEF AgentLifecycle!Next
<1>5. CASE AgentReport
  <2>1. disk'.ack = disk.ack /\ disk'.bench = disk.bench
    BY <1>1, <1>5, ReportWritten
  <2>2. agent' = agent
    BY <1>5 DEF AgentReport
  <2> QED BY <2>1, <2>2, Unseen DEF SameAgent, Finished
<1> QED BY <1>3, <1>4, <1>5

LEMMA Happens ==
    ASSUME IInv, AtRest, BenchExits \/ AgentDies \/ Settle
    PROVE  AtRest' /\ [AgentLifecycle!Next]_(AgentLifecycle!vars)
<1>1. agent \in Agents /\ disk' = disk
  BY DEF IInv, PartiesTyped, BenchExits, AgentDies, Settle
<1>2. CASE BenchExits
  <2>1. agent.unit = "running" /\ agent' = [agent EXCEPT !.unit = "exited"]
    BY <1>2 DEF BenchExits
  <2>2. /\ agent'.state = agent.state /\ agent'.unit = "exited"
        /\ agent'.hashd = agent.hashd /\ agent'.life = agent.life /\ agent'.cmd = agent.cmd
    BY <1>1, <2>1 DEF Agents
  <2>3. CASE agent.state \in Kinds
    <3>1. AtRest'
      BY <2>2 DEF AtRest
    <3>2. AgentLifecycle!Complete
      BY <1>1, <2>1, <2>2, <2>3 DEF AgentLifecycle!Complete
    <3> QED BY <3>1, <3>2 DEF AgentLifecycle!Next
  <2>4. CASE agent.state \notin Kinds
    BY <1>1, <2>2, <2>4, Unseen DEF SameAgent, Finished
  <2> QED BY <2>3, <2>4
<1>3. CASE AgentDies
  <2>1. agent' = [AgentOff EXCEPT !.life = "dead", !.state = agent.state,
                                  !.unit = agent.unit, !.hashd = agent.hashd]
    BY <1>3 DEF AgentDies
  <2>2. /\ agent'.state = agent.state /\ agent'.unit = agent.unit
        /\ agent'.hashd = agent.hashd /\ agent'.life = "dead"
    BY <2>1 DEF AgentOff
  <2> QED BY <1>1, <2>2, Loaded DEF AgentLifecycle!Next
<1>4. CASE Settle
  <2>1. agent' = agent
    BY <1>4 DEF Settle
  <2> QED BY <1>1, <2>1, Unseen DEF SameAgent, Finished
<1> QED BY <1>2, <1>3, <1>4

\* Every step of client, agent and machine is one that the life cycle allows.
LEMMA PromisesStep ==
    ASSUME IInv, IInv', AtRest, [Next]_vars
    PROVE  AtRest' /\ [AgentLifecycle!Next]_(AgentLifecycle!vars)
<1>1. CASE \/ Minder \/ Wait \/ WaitFails \/ CutShort \/ (\E k \in Kinds : StartBench(k))
           \/ StopBench \/ StopSvc \/ StartHashd \/ StopHashd \/ Finish \/ TakeAgent
  <2>1. SameAgent /\ (Finished' <=> Finished)
    BY <1>1, ClientAside DEF SameAgent, Finished
  <2> QED BY <2>1, Unseen
<1>2. CASE UNCHANGED vars
  BY <1>2, Unseen DEF vars, SameAgent, Finished
<1>3. CASE Next
  BY <1>1, <1>3, Starts, ComesUp, AppliesCommands, KeepsFiles, Happens
     DEF Next, Main, StopAgent, Agent, System
<1> QED BY <1>2, <1>3

(* The agent that the client's theorems reckon with keeps to the life      *)
(* cycle: whatever the client asks for, and however often its agent dies   *)
(* or is replaced, only benchmarks that are wanted run, alone, only their  *)
(* own results are recorded, under the numbers they were asked for, and no *)
(* command is acknowledged that was not loaded.                            *)
THEOREM ClientsAgentImplementsLifecycle == Spec => AgentKeepsPromises
<1>1. Init => AtRest /\ AgentLifecycle!Init
  <2> SUFFICES ASSUME Init PROVE AtRest /\ AgentLifecycle!Init
    OBVIOUS
  <2>1. agent.state = "Idle" /\ agent.hashd = FALSE /\ agent.unit = "none"
    BY DEF Init, AgentOff
  <2> QED BY <2>1 DEF AtRest, AgentLifecycle!Init
<1>2. IInv /\ IInv' /\ AtRest /\ [Next]_vars
        => AtRest' /\ [AgentLifecycle!Next]_(AgentLifecycle!vars)
  BY PromisesStep
<1> QED
  BY <1>1, <1>2, Invariance, PTL DEF Spec, AgentKeepsPromises, AgentLifecycle!Spec
=============================================================================
