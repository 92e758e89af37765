---------------------------- MODULE MemHogBench ----------------------------
(***************************************************************************)
(* The protection job of resctl-bench (resctl-bench/src/bench/protection): *)
(* rd-hashd is brought to a stable load, a memory hog is started beside it *)
(* as a sysload of rd-agent, and its own report is read when it first      *)
(* swaps and when it has ended.  The mem-hog scenario repeats this and     *)
(* records every run; mem-hog-tune looks for the largest memory size of    *)
(* rd-hashd that is protected and takes a failed run for one that was not. *)
(* After a failed run the agent, whatever became of it, is restarted.      *)
(*                                                                         *)
(* Three parties move on their own: the job, the agent, which follows the  *)
(* command file, and the hog, which writes its report into the scratch     *)
(* directory the agent made for it.                                        *)
(***************************************************************************)
EXTENDS Integers, Sequences, SequencesExt

CONSTANTS
    HogRuns,                    \* loops of mem-hog, intvs of mem-hog-tune
    SloperSlots,                \* reports it takes to find rd-hashd stable
    MaxHogFaults, MaxHogDeaths  \* bounds

ASSUME HogAssumption ==
    /\ HogRuns \in Nat \ {0} /\ SloperSlots \in Nat \ {0, 1}
    /\ {MaxHogFaults, MaxHogDeaths} \subseteq Nat

VARIABLES
    scenario,   \* what the job has done and recorded
    hogPc,      \* where its current run is
    run,        \* what is known of this run
    asked,      \* the command file lists mem-hog, and the agent has acknowledged that
    keeper,     \* the agent
    seen,       \* what the agent's report, as the job knows it, says of mem-hog
    hog,        \* its service: the number of times started, and whether it runs
    scratch,    \* its directory, and whose report.json is in there
    hogFaults, hogDeaths

jobSide == <<scenario, hogPc, run>>
hogVars == <<scenario, hogPc, run, asked, keeper, seen, hog, scratch, hogFaults, hogDeaths>>

Waiting == {"warm", "stabilize", "hold", "ack", "listed", "monitor"}
NoRun == [id |-> 0, first |-> 0, last |-> 0, failed |-> FALSE, fresh |-> 0]
NewKeeper == [life |-> "up", pc |-> "idle", wants |-> FALSE, has |-> FALSE]
NotListed == [listed |-> FALSE, running |-> FALSE]
NoScratch == [dir |-> FALSE, by |-> 0]

HogTypeOK ==
    /\ scenario \in [kind: {"mem-hog", "mem-hog-tune"}, idx: 0..HogRuns, held: BOOLEAN,
                     final: 0..HogRuns, recs: Seq([id: Nat, first: Nat, last: Nat])]
    /\ hogPc \in Waiting \cup {"start", "collect", "svc", "ended", "error", "record", "skip",
                               "stop", "restart", "over", "down"}
    /\ run \in [id: Nat, first: Nat, last: Nat, failed: BOOLEAN,
               fresh: 0..SloperSlots]
    /\ asked \in [hog: BOOLEAN, acked: BOOLEAN]
    /\ keeper \in [life: {"up", "dead", "off"}, pc: {"idle", "apply", "drop"},
                   wants: BOOLEAN, has: BOOLEAN]
    /\ seen \in [listed: BOOLEAN, running: BOOLEAN]
    /\ hog \in [id: Nat, running: BOOLEAN] /\ scratch \in [dir: BOOLEAN, by: Nat]
    /\ hogFaults \in 0..MaxHogFaults /\ hogDeaths \in 0..MaxHogDeaths

\* The job has started its agent.
HogInit ==
    /\ \E k \in {"mem-hog", "mem-hog-tune"} :
        scenario = [kind |-> k, idx |-> 0, held |-> FALSE,
                    final |-> 0, recs |-> <<>>]
    /\ hogPc = "warm" /\ run = NoRun
    /\ asked = [hog |-> FALSE, acked |-> TRUE]
    /\ keeper = NewKeeper
    /\ seen = NotListed /\ hog = [id |-> 0, running |-> FALSE] /\ scratch = NoScratch
    /\ hogFaults = 0 /\ hogDeaths = 0

-----------------------------------------------------------------------------
(* The agent: apply_cmd() acknowledges before it applies; removed sysloads *)
(* are dropped after that, without the lock its reports take.              *)

KeeperUp == keeper.life = "up"

Acks ==
    /\ KeeperUp /\ keeper.pc = "idle" /\ ~asked.acked
    /\ keeper' = [keeper EXCEPT !.pc = "apply", !.wants = asked.hog]
    /\ asked' = [asked EXCEPT !.acked = TRUE]
    /\ UNCHANGED <<jobSide, seen, hog, scratch, hogFaults, hogDeaths>>

\* A sysload that does not start is kept all the same.
AppliesSysloads ==
    /\ KeeperUp /\ keeper.pc = "apply"
    /\ keeper' = [keeper EXCEPT !.has = keeper.wants,
                                !.pc = IF keeper.has /\ ~keeper.wants THEN "drop" ELSE "idle"]
    /\ IF keeper.wants /\ ~keeper.has
         THEN /\ scratch' = [scratch EXCEPT !.dir = TRUE]
              /\ \/ hog' = [id |-> hog.id + 1, running |-> TRUE] /\ UNCHANGED hogFaults
                 \/ hogFaults < MaxHogFaults /\ hogFaults' = hogFaults + 1 /\ UNCHANGED hog
         ELSE UNCHANGED <<scratch, hog, hogFaults>>
    /\ UNCHANGED <<jobSide, asked, seen, hogDeaths>>

\* Mutant: the scratch directory is kept.
ScratchKept == scratch

\* What Sysload::drop leaves of the scratch directory.
ScratchDropped == NoScratch

DropsSysload ==
    /\ KeeperUp /\ keeper.pc = "drop"
    /\ scratch' = ScratchDropped
    /\ hog' = [hog EXCEPT !.running = FALSE]
    /\ keeper' = [keeper EXCEPT !.pc = "idle"]
    /\ UNCHANGED <<jobSide, asked, seen, hogFaults, hogDeaths>>

\* A report, and the job looking at it.
HogReported ==
    /\ KeeperUp /\ keeper.pc # "apply" /\ hogPc \in Waiting
    /\ seen' = [listed |-> keeper.has, running |-> keeper.has /\ hog.running]
    /\ run' = [run EXCEPT !.fresh = IF asked.acked /\ @ < SloperSlots THEN @ + 1 ELSE @]
    /\ seen' # seen \/ run' # run
    /\ UNCHANGED <<scenario, hogPc, asked, keeper, hog, scratch, hogFaults, hogDeaths>>

KeeperDies ==
    /\ KeeperUp /\ hogDeaths < MaxHogDeaths /\ hogDeaths' = hogDeaths + 1
    /\ keeper' = [keeper EXCEPT !.life = "dead"]
    /\ UNCHANGED <<jobSide, asked, seen, hog, scratch, hogFaults>>

-----------------------------------------------------------------------------
(* The hog.                                                                *)

HogWrites ==
    /\ hog.running /\ scratch.dir /\ scratch.by # hog.id
    /\ scratch' = [scratch EXCEPT !.by = hog.id]
    /\ UNCHANGED <<jobSide, asked, keeper, seen, hog, hogFaults, hogDeaths>>

\* It runs out of memory, is killed, or cannot save its report.
HogDies ==
    /\ hog.running
    /\ hog' = [hog EXCEPT !.running = FALSE]
    /\ UNCHANGED <<jobSide, asked, keeper, seen, scratch, hogFaults, hogDeaths>>
-----------------------------------------------------------------------------
(* run_one_int().                                                          *)

HogTo(to) == hogPc' = to /\ UNCHANGED <<scenario, keeper, seen, hog, scratch, hogFaults, hogDeaths>>
SaveHogCmd(on) == asked' = [hog |-> on, acked |-> FALSE]

\* start_hashd() saves the command file; its barrier is passed in Stabilized.
WarmUp ==
    /\ hogPc = "warm" /\ run' = NoRun
    /\ asked' = [asked EXCEPT !.acked = FALSE]
    /\ HogTo("stabilize")

\* stabilize_hashd_with_params(): the first of the reports may be an old one.
Stabilized ==
    /\ hogPc = "stabilize" /\ asked.acked /\ run.fresh + 1 >= SloperSlots
    /\ UNCHANGED <<run, asked>> /\ HogTo(IF scenario.held THEN "start" ELSE "hold")

BaselineHeld ==
    /\ hogPc = "hold"
    /\ UNCHANGED <<run, asked>> /\ HogTo("start")

StartHog ==
    /\ hogPc = "start"
    /\ run' = [run EXCEPT !.id = hog.id + 1]
    /\ SaveHogCmd(TRUE) /\ HogTo("ack")

HogAcked ==
    /\ hogPc = "ack" /\ asked.acked
    /\ UNCHANGED <<run, asked>> /\ HogTo("listed")

\* start_sysload() stops what did not come up.
HogListed ==
    /\ hogPc = "listed" /\ seen.listed
    /\ UNCHANGED run
    /\ IF seen.running THEN UNCHANGED asked /\ HogTo("monitor")
       ELSE SaveHogCmd(FALSE) /\ HogTo("error")

\* The report taken when the hog is first seen to swap.
FirstReport ==
    /\ hogPc = "monitor" /\ seen.running /\ run.first = 0 /\ scratch.by # 0
    /\ run' = [run EXCEPT !.first = scratch.by]
    /\ UNCHANGED asked /\ HogTo("monitor")

\* The hog has ended, the time is up, or mem-hog-tune has seen enough.
MonitorEnds ==
    /\ hogPc = "monitor"
    /\ UNCHANGED <<run, asked>> /\ HogTo("collect")

\* The agent or rd-hashd failed: what is there is collected all the same.
MonitorFails ==
    /\ hogPc = "monitor"
    /\ \/ keeper.life = "dead" /\ UNCHANGED hogFaults
       \/ hogFaults < MaxHogFaults /\ hogFaults' = hogFaults + 1
    /\ run' = [run EXCEPT !.failed = TRUE]
    /\ hogPc' = "collect"
    /\ UNCHANGED <<scenario, asked, keeper, seen, hog, scratch, hogDeaths>>

\* Without either report the run is an error, with the hog left to restart_agent().
Collect ==
    /\ hogPc = "collect"
    /\ IF run.first # 0 /\ seen.listed /\ scratch.by # 0
         THEN /\ run' = [run EXCEPT !.last = scratch.by]
              /\ SaveHogCmd(FALSE) /\ HogTo("svc")
         ELSE UNCHANGED <<run, asked>> /\ HogTo("error")

\* stop_svc() waits for the agent to stop it, then does so itself.
StopHogSvc ==
    /\ hogPc = "svc"
    /\ hog' = [hog EXCEPT !.running = FALSE]
    /\ hogPc' = "ended"
    /\ UNCHANGED <<scenario, run, asked, keeper, seen, scratch, hogFaults, hogDeaths>>

\* A wait fails when the agent is gone; it may time out, or rd-hashd fail.
HogWaitFails ==
    /\ hogPc \in Waiting \ {"monitor", "warm"}
    /\ \/ keeper.life # "up" /\ UNCHANGED hogFaults
       \/ KeeperUp /\ hogFaults < MaxHogFaults /\ hogFaults' = hogFaults + 1
    /\ hogPc' = "error"
    /\ UNCHANGED <<scenario, run, asked, keeper, seen, hog, scratch, hogDeaths>>
-----------------------------------------------------------------------------
(* run_one(), and the loops of the two scenarios around it.                *)

HogEnded ==
    /\ hogPc = "ended"
    /\ UNCHANGED <<run, asked>> /\ HogTo(IF run.failed THEN "stop" ELSE "record")

HogError ==
    /\ hogPc = "error"
    /\ run' = [run EXCEPT !.id = 0]
    /\ UNCHANGED asked /\ HogTo("stop")

\* Mutant: what the job has asked for is left to the agent to stop.
StoppedAgentOnly ==
    /\ keeper' = [keeper EXCEPT !.life = "off", !.pc = "idle", !.wants = FALSE, !.has = FALSE]
    /\ scratch' = IF KeeperUp THEN NoScratch ELSE scratch
    /\ hog' = [hog EXCEPT !.running = @ /\ ~KeeperUp]

\* stop_agent_keep_cfg(): an agent that still lives drops its sysloads on its
\* way out; the services the job has asked for are stopped in any case.
StoppedAgent ==
    /\ keeper' = [keeper EXCEPT !.life = "off", !.pc = "idle", !.wants = FALSE, !.has = FALSE]
    /\ scratch' = IF KeeperUp THEN NoScratch ELSE scratch
    /\ hog' = [hog EXCEPT !.running = FALSE]

StopForRestart ==
    /\ hogPc = "stop"
    /\ StoppedAgent
    /\ hogPc' = "restart"
    /\ UNCHANGED <<scenario, run, asked, seen, hogFaults, hogDeaths>>

\* reset_agent_states() removes the command file; of the directory of scratch
\* directories it removes the files, so that those of a dead agent stay.
RestartAgent ==
    /\ hogPc = "restart"
    /\ \/ /\ keeper' = NewKeeper
          /\ asked' = [hog |-> FALSE, acked |-> TRUE] /\ seen' = NotListed
          /\ hogPc' = IF run.id = 0 THEN "skip" ELSE "record"
          /\ UNCHANGED hogFaults
       \/ /\ hogFaults < MaxHogFaults /\ hogFaults' = hogFaults + 1
          /\ hogPc' = "skip"
          /\ UNCHANGED <<asked, keeper, seen>>
    /\ UNCHANGED <<scenario, run, hog, scratch, hogDeaths>>

HogNext(scn) ==
    /\ scenario' = [scn EXCEPT !.idx = @ + 1]
    /\ hogPc' = IF scenario'.idx = HogRuns \/ scn.final # 0 THEN "over" ELSE "warm"
    /\ UNCHANGED <<run, asked, keeper, seen, hog, scratch, hogFaults, hogDeaths>>

ThisRun == [id |-> run.id, first |-> run.first, last |-> run.last]

\* mem-hog records failed runs, too; mem-hog-tune drops them, keeps the last of
\* the others, and stops at the first that was isolated well enough.
RecordHog ==
    /\ hogPc = "record"
    /\ IF scenario.kind = "mem-hog"
         THEN HogNext([scenario EXCEPT !.held = TRUE, !.recs = Append(@, ThisRun)])
         ELSE IF run.failed THEN HogNext(scenario)
         ELSE \/ HogNext([scenario EXCEPT !.held = TRUE])     \* failed early
              \/ HogNext([scenario EXCEPT !.held = TRUE, !.recs = <<ThisRun>>])
              \/ HogNext([scenario EXCEPT !.held = TRUE, !.recs = <<ThisRun>>,
                                          !.final = scenario.idx + 1])

\* An error ends the mem-hog scenario; mem-hog-tune goes on to the next size.
SkipHog ==
    /\ hogPc = "skip"
    /\ IF scenario.kind = "mem-hog-tune" THEN HogNext(scenario)
       ELSE UNCHANGED <<run, asked>> /\ HogTo("over")

\* The job is over and the agent stopped.
HogJobOver ==
    /\ hogPc = "over"
    /\ StoppedAgent
    /\ hogPc' = "down"
    /\ UNCHANGED <<scenario, run, asked, seen, hogFaults, hogDeaths>>

HogJob ==
    \/ WarmUp \/ Stabilized \/ BaselineHeld \/ StartHog \/ HogAcked \/ HogListed
    \/ FirstReport \/ MonitorEnds \/ MonitorFails \/ Collect \/ StopHogSvc \/ HogWaitFails
    \/ HogEnded \/ HogError \/ StopForRestart \/ RestartAgent \/ RecordHog \/ SkipHog
    \/ HogJobOver

HogBenchNext ==
    \/ HogJob \/ Acks \/ AppliesSysloads \/ DropsSysload \/ HogReported \/ KeeperDies
    \/ HogWrites \/ HogDies
-----------------------------------------------------------------------------
\* The two reports a record is worked out from are those of the hog that was started
\* in that very run, whatever became of the ones before, as long as each agent lives
\* to drop its sysloads.  No hog runs while the baseline is measured, before one is
\* started, nor when the job is over, whatever becomes of the agents.
HogsOwnReports ==
    hogDeaths = 0 =>
        \A i \in DOMAIN scenario.recs :
            LET r == scenario.recs[i] IN r.first = r.id /\ r.last = r.id
NoHogBeside == hogPc \in {"hold", "start", "down"} => ~hog.running
HogSound == HogsOwnReports /\ NoHogBeside
=============================================================================
