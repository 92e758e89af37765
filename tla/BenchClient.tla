---------------------------- MODULE BenchClient ----------------------------
(***************************************************************************)
(* resctl-bench as the client of rd-agent (resctl-bench/src/run.rs): how a *)
(* benchmark job starts the agent, asks it for work through cmd.json and   *)
(* learns from cmd_ack.json, report.json and bench.json what became of it. *)
(*                                                                         *)
(* Three parties run concurrently.  The job's main thread issues calls and *)
(* waits for conditions on the files it has loaded.  The minder thread     *)
(* reloads these files once a second, one after the other, and watches the *)
(* agent's unit.  The agent is another process; only what the protocol     *)
(* relies on is kept of it, see AgentRunner for the rest.  A file that     *)
(* changed less than 10ms ago is not reloaded.                             *)
(*                                                                         *)
(* A file's record names in "inst" the agent instance it belongs to; 0     *)
(* stands for a file that does not exist.                                  *)
(***************************************************************************)
EXTENDS Naturals

CONSTANTS
    Kinds,      \* the benchmarks: "iocost" and "hashd"
    MaxInst,    \* bound: how often the agent is started
    MaxCalls,   \* bound: how many benchmark and workload calls a job makes
    Faults      \* which of "agentDies" and "timeout" may happen

ASSUME KindsAssumption == Kinds \subseteq {"iocost", "hashd"}
ASSUME BoundAssumption == MaxInst \in Nat /\ MaxCalls \in Nat
ASSUME FaultAssumption == Faults \subseteq {"agentDies", "timeout"}

VARIABLES
    disk,       \* what the files contain
    young,      \* the files changed less than 10ms ago
    unread,     \* the files changed since the client loaded them
    cl,         \* the client's agent_files
    have,       \* the files of cl whose path is set
    main,       \* the main thread
    svcs,       \* the units this job asked for
    minder,     \* the minder thread
    mstate,     \* minder_state: "ok" or "failed"
    kicked,     \* a prog_kick() the main thread has not consumed
    inst,       \* the number of the current agent instance
    agent       \* the agent process and the services it started

clientVars == <<cl, have, unread, svcs>>
minderVars == <<minder, mstate>>
vars == <<disk, young, unread, cl, have, main, svcs, minder, mstate, kicked,
          inst, agent>>

-----------------------------------------------------------------------------
(* The files.                                                              *)

Zeros == [k \in Kinds |-> 0]

(* The contents of a file that was just reset; nothing else is 0 for the   *)
(* instance.                                                               *)
DefaultCmd(i) == [inst |-> i, cmd_seq |-> 0, bench |-> Zeros, args |-> 0,
                  hashd |-> FALSE]
DefaultAck(i) == [inst |-> i, cmd_seq |-> 0]
NoReport == [inst |-> 0, state |-> "Idle", hashd |-> FALSE]
NoResults == [inst |-> 0, seq |-> Zeros, by |-> Zeros]
NoFiles == [index |-> [inst |-> 0], cmd |-> DefaultCmd(0),
            ack |-> DefaultAck(0), report |-> NoReport, bench |-> NoResults]

FileNames == {"index", "cmd", "ack", "report", "bench"}

(* refresh_one(): load() when the path is not set yet, maybe_reload()      *)
(* otherwise.                                                              *)
Loadable(f, paths) == /\ disk[f].inst > 0
                      /\ f \in paths => f \in unread \ young

(* A new index forgets everything that was loaded through the old one;     *)
(* without an index nothing is loaded.                                     *)
RefreshOne(files) ==
    LET renewed == "index" \in files /\ Loadable("index", have)
        kept == IF renewed THEN [NoFiles EXCEPT !.index = disk.index] ELSE cl
        paths == IF renewed THEN {"index"} ELSE have
        new == {f \in files \ {"index"} : "index" \in paths /\ Loadable(f, paths)}
    IN  /\ cl' = [f \in FileNames |-> IF f \in new THEN disk[f] ELSE kept[f]]
        /\ have' = paths \cup new
        /\ unread' = unread \ (IF renewed THEN new \cup {"index"} ELSE new)

Alive == agent.life \in {"loaded", "up"}

\* Mutant: the results before the report.
RefreshPartSwapped(pc) == IF pc = "report" THEN {"bench"} ELSE {"report"}

(* What follows the commands in a refresh.                                 *)
RefreshPart(pc) == IF pc = "report" THEN {"report"} ELSE {"bench"}

(* JsonConfigFile::save() of the client's cmd.json: silently nothing while *)
(* its path is not known.                                                  *)
SaveCmd(cmd) ==
    /\ cl' = [cl EXCEPT !.cmd = cmd]
    /\ IF "cmd" \in have
         THEN /\ disk' = [disk EXCEPT !.cmd = cmd]
              /\ young' = young \cup {"cmd"}
              /\ unread' = unread \cup {"cmd"}
              /\ agent' = [agent EXCEPT !.unread = Alive]
         ELSE UNCHANGED <<disk, young, unread, agent>>
    /\ UNCHANGED have

-----------------------------------------------------------------------------
(* The minder is asleep, gone, about to refresh for the last time, or in a *)
(* refresh.  It holds RunCtxInner's lock from looking at the unit to the   *)
(* end of a refresh, but not between leaving its loop and the last one.    *)
Asleep == [pc |-> "asleep", last |-> FALSE]
Gone == [pc |-> "gone", last |-> TRUE]
MinderStates == [pc : {"asleep", "gone", "last", "report", "bench"}, last : BOOLEAN]
Refreshing == minder.pc \in {"report", "bench"}
AgentOff == [life |-> "off", cmd |-> DefaultCmd(0), unread |-> FALSE,
             pending |-> FALSE, acked |-> FALSE, state |-> "Idle",
             unit |-> "none", run |-> 0, hashd |-> FALSE]
Idle == [pc |-> "down", kind |-> "none", want |-> 0, next |-> "none",
         req |-> 0, calls |-> 0, svc |-> FALSE]

(* What the files may hold when a job starts the agent: nothing but the    *)
(* bench file the program keeps, or what the last agent left behind.       *)
Fresh == [NoFiles EXCEPT !.bench.inst = 1]
Left == [index |-> [inst |-> 1], cmd |-> [DefaultCmd(1) EXCEPT !.cmd_seq = 9],
         ack |-> [inst |-> 1, cmd_seq |-> 9],
         report |-> [inst |-> 1, state |-> "Running", hashd |-> TRUE],
         bench |-> [inst |-> 1, seq |-> [k \in Kinds |-> 1], by |-> Zeros]]

Init ==
    /\ \/ disk \in {Fresh, Left} /\ cl = NoFiles /\ have = {}
       \* the job itself had started that agent
       \/ disk = Left /\ cl = Left /\ have = FileNames
    /\ young = {} /\ unread = {}
    /\ main = Idle /\ svcs = {}
    /\ minder = Gone /\ mstate = "ok" /\ kicked = FALSE
    /\ inst = 1
    /\ agent = AgentOff

-----------------------------------------------------------------------------
(* The minder.                                                             *)

(* AgentFiles::refresh() reads the index, the commands and their           *)
(* acknowledgement, then the report, and the results last.                 *)
RefreshCommands(last) ==
    /\ RefreshOne({"index", "cmd", "ack"})
    /\ minder' = [pc |-> "report", last |-> last]

\* Mutant: the agent's unit is not looked at.
MinderTickBlind ==
    /\ minder = Asleep
    /\ \/ /\ main.svc
          /\ RefreshCommands(FALSE)
          /\ UNCHANGED mstate
       \/ /\ main.svc /\ "timeout" \in Faults
          /\ mstate' = "failed"
          /\ minder' = [pc |-> "last", last |-> TRUE]
          /\ UNCHANGED <<cl, have, unread>>
       \/ /\ ~main.svc
          /\ minder' = [pc |-> "last", last |-> TRUE]
          /\ UNCHANGED <<mstate, cl, have, unread>>
    /\ UNCHANGED <<disk, young, svcs, main, kicked, inst, agent>>

(* The top of its loop: leave for good, or look at the unit and refresh.   *)
(* With "timeout" systemd may not answer, for a while or for too long.     *)
MinderTick ==
    /\ minder = Asleep
    /\ \/ /\ main.svc /\ (agent.life # "dead" \/ "timeout" \in Faults)
          /\ RefreshCommands(FALSE)
          /\ UNCHANGED mstate
       \/ /\ main.svc /\ (agent.life = "dead" \/ "timeout" \in Faults)
          /\ mstate' = "failed"
          /\ minder' = [pc |-> "last", last |-> TRUE]
          /\ UNCHANGED <<cl, have, unread>>
       \/ /\ ~main.svc
          /\ minder' = [pc |-> "last", last |-> TRUE]
          /\ UNCHANGED <<mstate, cl, have, unread>>
    /\ UNCHANGED <<disk, young, svcs, main, kicked, inst, agent>>

MinderLastRefresh ==
    /\ minder.pc = "last"
    /\ RefreshCommands(TRUE)
    /\ UNCHANGED <<disk, young, svcs, main, mstate, kicked, inst, agent>>

MinderReport(last) ==
    /\ minder = [pc |-> "report", last |-> last]
    /\ RefreshOne(RefreshPart("report"))
    /\ minder' = [pc |-> "bench", last |-> last]
    /\ UNCHANGED <<disk, young, svcs, main, mstate, kicked, inst, agent>>

(* The end of a refresh is followed by prog_kick() and, in the loop, by    *)
(* the check of the report's age.                                          *)
MinderBench(last) ==
    /\ minder = [pc |-> "bench", last |-> last]
    /\ RefreshOne(RefreshPart("bench"))
    /\ kicked' = TRUE
    /\ \/ /\ minder' = IF last THEN Gone ELSE Asleep
          /\ UNCHANGED mstate
       \/ /\ ~last /\ "timeout" \in Faults
          /\ minder' = [pc |-> "last", last |-> TRUE]
          /\ mstate' = "failed"
    /\ UNCHANGED <<disk, young, svcs, main, inst, agent>>

-----------------------------------------------------------------------------
(* The main thread: waiting.                                               *)

(* A report made after start_agent() began.                                *)
CameUp == cl.report.inst = inst /\ cl.report.state = "Running"

(* What each wait_cond() waits for.                                        *)
Waits == {"up", "barrier", "begin", "result", "end", "hashdOn", "hashdOff"}
Holds(pc) ==
    CASE pc = "up"       -> CameUp
      [] pc = "barrier"  -> cl.ack.cmd_seq >= main.want
      [] pc = "begin"    -> \/ cl.report.state = main.kind
                            \/ cl.bench.seq[main.kind] >= main.want
      [] pc = "result"   -> cl.bench.seq[main.kind] >= cl.cmd.bench[main.kind]
      [] pc = "end"      -> cl.report.state # main.kind
      [] pc = "hashdOn"  -> cl.report.hashd
      [] pc = "hashdOff" -> ~cl.report.hashd

(* One turn of wait_cond()'s loop, after a kick or on entry: the condition *)
(* first, then the minder's verdict.  Without either it waits again.       *)
Look(pc) == main.pc = pc /\ kicked /\ ~Refreshing
Satisfied(pc) == Look(pc) /\ Holds(pc) /\ UNCHANGED kicked

(* Entering a wait evaluates the condition at once.                        *)
Enter == kicked' = TRUE

(* An error of any call ends the job, which drops its RunCtx.              *)
GiveUp == main' = [main EXCEPT !.pc = "stop"]

WaitAgain ==
    /\ \E pc \in Waits : Look(pc) /\ ~Holds(pc)
    /\ kicked' = FALSE
    /\ IF mstate = "ok" THEN UNCHANGED main ELSE GiveUp
    /\ UNCHANGED <<disk, young, clientVars, minderVars, inst, agent>>

(* The timeout of wait_cond(), or wait_prog_state() reporting the exit.    *)
WaitFails ==
    /\ main.pc \in Waits /\ ~Refreshing
    /\ "timeout" \in Faults
    /\ GiveUp /\ kicked' = TRUE
    /\ UNCHANGED <<disk, young, clientVars, minderVars, inst, agent>>

-----------------------------------------------------------------------------
(* The main thread: calls.                                                 *)

(* RunCtx::start_agent() up to its first wait; minder_state is reset and a *)
(* new minder spawned.                                                     *)
StartAgent ==
    /\ main.pc = "down" /\ inst < MaxInst
    /\ inst' = inst + 1
    /\ agent' = [AgentOff EXCEPT !.life = "spawned"]
    /\ main' = [main EXCEPT !.pc = "up", !.svc = TRUE]
    /\ minder' = Asleep /\ mstate' = "ok"
    /\ Enter
    /\ UNCHANGED <<disk, young, clientVars>>

(* The rest of start_agent(): the swappiness and the init functions are    *)
(* saved with a new cmd_seq each; the init functions end in cmd_barrier(). *)
Configure(initFns) ==
    /\ Satisfied("up")
    /\ LET seq == cl.cmd.cmd_seq + IF initFns THEN 3 ELSE 1
       IN  /\ SaveCmd([cl.cmd EXCEPT !.cmd_seq = seq])
           /\ main' = IF initFns THEN [main EXCEPT !.pc = "barrier",
                                                   !.want = seq, !.next = "ready"]
                      ELSE [main EXCEPT !.pc = "ready"]
    /\ UNCHANGED <<svcs, minderVars, inst>>

(* The wait of cmd_barrier().                                              *)
BarrierPassed ==
    /\ Satisfied("barrier")
    /\ main' = [main EXCEPT !.pc = main.next, !.want = 0, !.next = "none"]
    /\ UNCHANGED <<disk, young, clientVars, minderVars, inst, agent>>

(* start_iocost_bench() and start_hashd_bench(): the next number after the *)
(* loaded result's, without a new cmd_seq.                                 *)
StartBench(k) ==
    /\ main.pc = "ready" /\ main.calls < MaxCalls /\ ~Refreshing
    /\ ~cl.cmd.hashd   \* no job runs a benchmark beside its rd-hashd
    /\ LET next_seq == cl.bench.seq[k] + 1
           req == main.calls + 1
       IN  /\ SaveCmd([cl.cmd EXCEPT !.bench[k] = next_seq, !.args = req])
           /\ main' = [main EXCEPT !.pc = "begin", !.kind = k, !.req = req,
                                   !.want = next_seq, !.calls = req]
    /\ svcs' = svcs \cup {k}
    /\ Enter
    /\ UNCHANGED <<minderVars, inst>>

BenchBegan ==
    /\ Satisfied("begin")
    /\ main' = [main EXCEPT !.pc = "result", !.want = 0]
    /\ UNCHANGED <<disk, young, clientVars, minderVars, inst, agent>>

(* The jobs wait for the result; the storage job and the estimation of the *)
(* available memory also leave early, on what the report says of its phase *)
(* or of another state.                                                    *)
ResultArrived ==
    /\ Satisfied("result")
    /\ main' = [main EXCEPT !.pc = "done"]
    /\ UNCHANGED <<disk, young, clientVars, minderVars, inst, agent>>
CutShort ==
    /\ Look("result") /\ main.kind = "hashd"
    /\ main' = [main EXCEPT !.pc = "cut"]
    /\ UNCHANGED <<disk, young, clientVars, minderVars, kicked, inst, agent>>

\* Mutant: the benchmark is not waited for.
StopBenchNoWait ==
    /\ main.pc \in {"done", "cut"} /\ ~Refreshing
    /\ LET k == main.kind
       IN  SaveCmd([cl.cmd EXCEPT !.cmd_seq = @ + 1, !.bench[k] = cl.bench.seq[k]])
    /\ main' = [main EXCEPT !.pc = "svc"]
    /\ Enter
    /\ UNCHANGED <<svcs, minderVars, inst>>

(* stop_iocost_bench() and stop_hashd_bench(): the number of the loaded    *)
(* result is what withdraws the request.                                   *)
StopBench ==
    /\ main.pc \in {"done", "cut"} /\ ~Refreshing
    /\ LET k == main.kind
       IN  SaveCmd([cl.cmd EXCEPT !.cmd_seq = @ + 1, !.bench[k] = cl.bench.seq[k]])
    /\ main' = [main EXCEPT !.pc = "end"]
    /\ Enter
    /\ UNCHANGED <<svcs, minderVars, inst>>

BenchEnded ==
    /\ Satisfied("end")
    /\ main' = [main EXCEPT !.pc = "svc"]
    /\ UNCHANGED <<disk, young, clientVars, minderVars, inst, agent>>

(* stop_svc() on the benchmark's unit: the agent is given a few seconds to *)
(* stop it; if it is gone, the client stops it.                            *)
StopSvc ==
    /\ main.pc = "svc"
    /\ \/ agent.unit # "running" /\ UNCHANGED agent
       \/ /\ agent.unit = "running" /\ agent.life = "dead"
          /\ agent' = [agent EXCEPT !.unit = "none"]
    /\ main' = [main EXCEPT !.pc = "ready", !.kind = "none", !.req = 0]
    /\ UNCHANGED <<disk, young, clientVars, minderVars, kicked, inst>>

(* start_hashd() and stop_hashd(): the change and the barrier's number are *)
(* saved one after the other with nothing in between.                      *)
SwitchHashd(on) ==
    /\ main.pc = "ready" /\ ~Refreshing
    /\ cl.cmd.hashd = ~on
    /\ on => main.calls < MaxCalls
    /\ LET seq == cl.cmd.cmd_seq + 2
       IN  /\ SaveCmd([cl.cmd EXCEPT !.cmd_seq = seq, !.hashd = on])
           /\ main' = [main EXCEPT !.pc = "barrier", !.want = seq,
                          !.next = IF on THEN "hashdOn" ELSE "hashdOff",
                          !.calls = IF on THEN @ + 1 ELSE @]
    /\ svcs' = IF on THEN svcs \cup {"hashdA"} ELSE svcs
    /\ Enter
    /\ UNCHANGED <<minderVars, inst>>
StartHashd == SwitchHashd(TRUE)
StopHashd == SwitchHashd(FALSE)

(* After the barrier, the wait for the report to show it.                  *)
HashdSwitched ==
    /\ Satisfied("hashdOn") \/ Satisfied("hashdOff")
    /\ main' = [main EXCEPT !.pc = "ready"]
    /\ UNCHANGED <<disk, young, clientVars, minderVars, inst, agent>>

-----------------------------------------------------------------------------
(* The main thread: stopping.                                              *)

(* A job that has what it wants, or that restarts the agent.               *)
Finish ==
    /\ main.pc \in {"ready", "done"}
    /\ GiveUp
    /\ UNCHANGED <<disk, young, clientVars, minderVars, kicked, inst, agent>>

(* stop_agent(): take the service, stop it, join the minder, and stop the  *)
(* units the job asked for, should the agent have left them.               *)
TakeAgent ==
    /\ main.pc = "stop" /\ ~Refreshing
    /\ main' = [main EXCEPT !.pc = "drop", !.svc = FALSE]
    /\ UNCHANGED <<disk, young, clientVars, minderVars, kicked, inst, agent>>

(* A living agent stops its services before it exits.                      *)
DropAgent ==
    /\ main.pc = "drop"
    /\ agent' = IF agent.life = "dead" THEN agent ELSE AgentOff
    /\ main' = [main EXCEPT !.pc = "join"]
    /\ UNCHANGED <<disk, young, clientVars, minderVars, kicked, inst>>

\* Mutant: the services are left to the agent.
JoinMinderOnly ==
    /\ main.pc = "join" /\ minder = Gone
    /\ agent' = [AgentOff EXCEPT
          !.state = agent.state, !.unit = agent.unit, !.hashd = agent.hashd]
    /\ main' = [main EXCEPT !.pc = "down", !.kind = "none", !.req = 0,
                            !.want = 0, !.next = "none"]
    /\ UNCHANGED <<disk, young, clientVars, minderVars, kicked, inst>>

JoinMinder ==
    /\ main.pc = "join" /\ minder = Gone
    /\ agent' = [AgentOff EXCEPT
          !.unit = IF agent.unit = "running" /\ agent.state \notin svcs
                     THEN "running" ELSE "none",
          !.hashd = agent.hashd /\ "hashdA" \notin svcs]
    /\ main' = [main EXCEPT !.pc = "down", !.kind = "none", !.req = 0,
                            !.want = 0, !.next = "none"]
    /\ UNCHANGED <<disk, young, clientVars, minderVars, kicked, inst>>

-----------------------------------------------------------------------------
(* The agent.                                                              *)

Write(f, c) == /\ disk' = [disk EXCEPT ![f] = c]
               /\ young' = young \cup {f}
               /\ unread' = unread \cup {f}

(* --reset removes cmd.json, and the index is written anew; cmd_ack.json,  *)
(* bench.json and, for --keep-reports, the report stay.                    *)
AgentReset ==
    /\ agent.life = "spawned"
    /\ agent' = [agent EXCEPT !.life = "reset"]
    /\ disk' = [disk EXCEPT !.index.inst = inst, !.cmd = DefaultCmd(0)]
    /\ young' = young \cup {"index"} /\ unread' = unread \cup {"index"}
    /\ UNCHANGED <<cl, have, svcs, main, minderVars, kicked, inst>>

\* Mutant: the acknowledgement of the last agent stays.
AgentLoadNoAck ==
    /\ agent.life = "reset"
    /\ agent' = [agent EXCEPT !.life = "loaded", !.cmd = DefaultCmd(inst)]
    /\ disk' = [disk EXCEPT !.cmd = DefaultCmd(inst)]
    /\ young' = young \cup {"cmd"} /\ unread' = unread \cup {"cmd"}
    /\ UNCHANGED <<cl, have, svcs, main, minderVars, kicked, inst>>

(* SysObjs::new() creates cmd.json and commits an acknowledgement of 0.    *)
AgentLoad ==
    /\ agent.life = "reset"
    /\ agent' = [agent EXCEPT !.life = "loaded", !.cmd = DefaultCmd(inst)]
    /\ disk' = [disk EXCEPT !.cmd = DefaultCmd(inst), !.ack = DefaultAck(inst)]
    /\ young' = young \cup {"cmd", "ack"} /\ unread' = unread \cup {"cmd", "ack"}
    /\ UNCHANGED <<cl, have, svcs, main, minderVars, kicked, inst>>

(* The reporter's first report is at least half a second away: whatever    *)
(* was written has settled, and whoever was reading is done.               *)
HalfSecond ==
    /\ agent.life = "loaded" /\ young = {} /\ ~Refreshing
    /\ agent' = [agent EXCEPT !.life = "up"]
    /\ UNCHANGED <<disk, young, clientVars, main, minderVars, kicked, inst>>

(* Runner::run() reloads what has settled.                                 *)
AgentReload ==
    /\ Alive /\ ~agent.acked /\ agent.unread /\ "cmd" \notin young
    /\ agent' = [agent EXCEPT !.cmd = disk.cmd, !.unread = FALSE, !.pending = TRUE]
    /\ UNCHANGED <<disk, young, clientVars, main, minderVars, kicked, inst>>

Requested == {k \in Kinds : agent.cmd.bench[k] > disk.bench.seq[k]}
Preferred == IF "iocost" \in Requested THEN "iocost" ELSE "hashd"

(* apply_cmd() acknowledges the commands first; committing the same number *)
(* again changes nothing.                                                  *)
AgentAck ==
    /\ Alive /\ ~agent.acked /\ (agent.pending \/ agent.state = "Idle")
    /\ IF disk.ack = [inst |-> inst, cmd_seq |-> agent.cmd.cmd_seq]
         THEN UNCHANGED <<disk, young, unread>>
         ELSE Write("ack", [inst |-> inst, cmd_seq |-> agent.cmd.cmd_seq])
    /\ agent' = [agent EXCEPT !.acked = TRUE]
    /\ UNCHANGED <<cl, have, svcs, main, minderVars, kicked, inst>>

(* Then it moves the runner, see AgentRunner.  The agent of a job runs with*)
(* --force-running.                                                        *)
AgentApply ==
    /\ Alive /\ agent.acked
    /\ LET kept == [agent EXCEPT !.pending = FALSE, !.acked = FALSE]
           idle == [kept EXCEPT !.state = "Idle", !.unit = "none",
                                !.run = 0, !.hashd = FALSE]
       IN  agent' =
             CASE agent.state = "Idle" /\ Requested # {} ->
                    [idle EXCEPT !.state = Preferred, !.unit = "running",
                                 !.run = agent.cmd.args]
               [] agent.state \in {"Idle", "Running"} /\ Requested = {} ->
                    [idle EXCEPT !.state = "Running", !.hashd = agent.cmd.hashd]
               [] agent.state \in Requested -> kept
               [] OTHER -> idle
    /\ UNCHANGED <<disk, young, clientVars, main, minderVars, kicked, inst>>

(* check_completions() records the result under the number it was asked    *)
(* for.                                                                    *)
AgentComplete ==
    /\ Alive /\ ~agent.pending /\ ~agent.acked
    /\ agent.state \in Kinds /\ agent.unit # "running"
    /\ IF agent.unit = "exited"
         THEN LET k == agent.state
              IN  Write("bench", [disk.bench EXCEPT !.seq[k] = agent.cmd.bench[k],
                                                    !.by[k] = agent.run])
         ELSE UNCHANGED <<disk, young, unread>>
    /\ agent' = [agent EXCEPT !.state = "Idle", !.unit = "none", !.run = 0]
    /\ UNCHANGED <<cl, have, svcs, main, minderVars, kicked, inst>>

(* The reporter's report of this second, taken under the runner's lock.    *)
AgentReport ==
    /\ agent.life = "up" /\ ~agent.acked
    /\ LET report == [inst |-> inst, state |-> agent.state, hashd |-> agent.hashd]
       IN  disk.report # report /\ Write("report", report)
    /\ UNCHANGED <<cl, have, svcs, main, minderVars, kicked, inst, agent>>

-----------------------------------------------------------------------------
(* The rest of the system.                                                 *)

(* A benchmark ends by itself.  It runs for seconds: by then a living agent*)
(* has reported it, the report has settled, and whoever was reading while  *)
(* it had not is done.                                                     *)
BenchExits ==
    /\ agent.unit = "running"
    /\ Alive => /\ disk.report.state = agent.state /\ "report" \notin young
                /\ ~Refreshing
    /\ agent' = [agent EXCEPT !.unit = "exited"]
    /\ UNCHANGED <<disk, young, clientVars, main, minderVars, kicked, inst>>

(* The agent is killed; what it started keeps running.                     *)
AgentDies ==
    /\ "agentDies" \in Faults
    /\ agent.life \in {"spawned", "reset", "loaded", "up"}
    /\ agent' = [AgentOff EXCEPT !.life = "dead", !.state = agent.state,
                              !.unit = agent.unit, !.hashd = agent.hashd]
    /\ UNCHANGED <<disk, young, clientVars, main, minderVars, kicked, inst>>

(* 10ms pass.                                                              *)
Settle ==
    /\ young # {}
    /\ young' = {}
    /\ UNCHANGED <<disk, clientVars, main, minderVars, kicked, inst, agent>>

-----------------------------------------------------------------------------
Minder == \/ MinderTick \/ MinderLastRefresh
          \/ \E last \in BOOLEAN : MinderReport(last) \/ MinderBench(last)
Wait == \/ WaitAgain \/ \E initFns \in BOOLEAN : Configure(initFns)
        \/ BarrierPassed \/ BenchBegan \/ ResultArrived \/ BenchEnded
        \/ HashdSwitched
StopAgent == TakeAgent \/ DropAgent \/ JoinMinder
Main == \/ StartAgent \/ Wait \/ WaitFails \/ CutShort
        \/ (\E k \in Kinds : StartBench(k)) \/ StopBench \/ StopSvc
        \/ StartHashd \/ StopHashd \/ Finish \/ StopAgent
Agent == \/ AgentReset \/ AgentLoad \/ HalfSecond \/ AgentReload
         \/ AgentAck \/ AgentApply \/ AgentComplete \/ AgentReport
System == BenchExits \/ AgentDies \/ Settle

Next == Minder \/ Main \/ Agent \/ System

(* Threads and the agent keep running, and 10ms pass.  The minder sleeps   *)
(* a second between its turns, so that whoever waits for the lock gets it, *)
(* and the first report and the end of a benchmark fall in between: strong *)
(* fairness.  Timeouts are never relied on.                                *)
Fairness ==
    /\ WF_vars(Minder)
    /\ SF_vars(Wait)
    /\ SF_vars(StopAgent) /\ WF_vars(StopSvc)
    /\ WF_vars(AgentReset) /\ WF_vars(AgentLoad) /\ SF_vars(HalfSecond)
    /\ WF_vars(AgentReload) /\ WF_vars(AgentAck) /\ WF_vars(AgentApply)
    /\ WF_vars(AgentComplete)
    /\ WF_vars(AgentReport) /\ SF_vars(BenchExits) /\ WF_vars(Settle)

Spec == Init /\ [][Next]_vars /\ Fairness

-----------------------------------------------------------------------------
States == {"Idle", "Running"} \cup Kinds

TypeOK ==
    /\ young \subseteq FileNames /\ unread \subseteq FileNames
    /\ have \subseteq FileNames
    /\ \A files \in {disk, cl} :
          /\ files.report.state \in States
          /\ files.cmd.bench \in [Kinds -> Nat]
          /\ files.bench.seq \in [Kinds -> 0..MaxCalls + 1]
          /\ files.bench.by \in [Kinds -> 0..MaxCalls]
    /\ main.pc \in Waits \cup {"down", "ready", "done", "cut", "svc", "stop",
                               "drop", "join"}
    /\ main.calls \in 0..MaxCalls
    /\ svcs \subseteq Kinds \cup {"hashdA"}
    /\ minder \in MinderStates /\ mstate \in {"ok", "failed"}
    /\ kicked \in BOOLEAN
    /\ inst \in 1..MaxInst
    /\ agent.life \in {"off", "spawned", "reset", "loaded", "up", "dead"}
    /\ agent.state \in States /\ agent.unit \in {"none", "running", "exited"}

(* The result a job takes is the one of the benchmark it asked for, never  *)
(* that of an earlier benchmark that was cut short or finished late.       *)
ResultIsOwn == main.pc = "done" => cl.bench.by[main.kind] = main.req

(* When a benchmark was stopped, it does not run and will not be started   *)
(* again by a request the agent has not forgotten.                         *)
StoppedForGood == main.pc = "ready" /\ Alive => agent.state \notin Kinds /\ Requested = {}

(* A job that is over leaves nothing running, whether its agent was        *)
(* stopped, died or never came up.                                         *)
NothingLeft == main.pc = "down" =>
    agent.unit # "running" /\ ~agent.hashd /\ minder = Gone

(* cmd_barrier() returns after the agent has accepted what was saved last. *)
BarrierMeansSeen == [][
    main.pc = "barrier" /\ main'.pc = main.next /\ Alive => agent.cmd = disk.cmd]_vars

(* The agent keeps to what the runner is shown to promise in AgentRunner.   *)
AgentLifecycle ==
    INSTANCE BenchLifecycle WITH
        Benchmarks <- Kinds,
        mode <- agent.state,
        workloads <- IF agent.hashd THEN {"hashdA"} ELSE {},
        done <- agent.state \in Kinds /\ agent.unit = "exited",
        results <- disk.bench.seq,
        command <- [seq |-> agent.cmd.cmd_seq, bench |-> agent.cmd.bench,
                    loads |-> IF agent.cmd.hashd THEN {"hashdA"} ELSE {}],
        acked <- disk.ack.cmd_seq
AgentKeepsPromises == AgentLifecycle!Spec

(* No wait lasts forever and stopping ends, whatever becomes of the agent, *)
(* and without any timeout: the minder or the last look ends it.           *)
CallsEnd == main.pc \in Waits \cup {"stop", "drop", "join", "svc"}
                ~> main.pc \in {"ready", "done", "cut", "down"}
=============================================================================
