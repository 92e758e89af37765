------------------------- MODULE BenchAndDemoProofs -------------------------
(***************************************************************************)
(* Proofs about what is used around rd-agent: resctl-demo with its agent   *)
(* and its documents, the storage and protection jobs of resctl-bench, and *)
(* its command lines, for every bound on keys, clicks, runs, retries,      *)
(* faults and deaths.                                                      *)
(***************************************************************************)
EXTENDS MCBenchAndDemo, FiniteSetTheorems, SequenceTheorems, WellFoundedInduction, TLAPS

-----------------------------------------------------------------------------
(* The agent of resctl-demo, DemoAgent.                                    *)

DemoTyped ==
    /\ service \in [running: BOOLEAN, by: {"demo", "other"}]
    /\ minder \in [svc: BOOLEAN, seen: BOOLEAN, reported: BOOLEAN, late: BOOLEAN]

(* The exit waits for the status thread, so that whoever starts a service  *)
(* of its own still holds it when the exit drops what is held.             *)
HeldInv ==
    /\ mainThread \in {"joined", "gone"} => status = "ended"
    /\ mainThread # "gone" /\ service.running /\ service.by = "demo" => minder.svc
    /\ NoneLeftRunning
DemoInv == DemoTyped /\ HeldInv

LEMMA DemoTypesKept == DemoTyped /\ [DemoNext]_minderVars => DemoTyped'
<1> SUFFICES ASSUME DemoTyped, [DemoNext]_minderVars PROVE DemoTyped'
  OBVIOUS
<1> USE DEF DemoTyped
<1>s. StartOk \/ StartFails => service' \in [running: BOOLEAN, by: {"demo", "other"}]
  <2>1. Stopped(service) \in [running: BOOLEAN, by: {"demo", "other"}]
    BY DEF Stopped
  <2>2. [running |-> TRUE, by |-> "demo"] \in [running: BOOLEAN, by: {"demo", "other"}]
    OBVIOUS
  <2> QED BY <2>1, <2>2 DEF StartOk, StartFails
<1>m. \A r \in BOOLEAN : UpdateState(r) => minder' \in [svc: BOOLEAN, seen: BOOLEAN, reported: BOOLEAN, late: BOOLEAN]
  BY DEF UpdateState
<1>r. /\ Restarted(minder) \in [svc: BOOLEAN, seen: BOOLEAN, reported: BOOLEAN, late: BOOLEAN]
      /\ [Restarted(minder) EXCEPT !.seen = FALSE] \in [svc: BOOLEAN, seen: BOOLEAN, reported: BOOLEAN, late: BOOLEAN]
  BY DEF Restarted
<1>1. CASE StatusMinds
  <2>1. CASE MindOwn
    BY <2>1, <1>m DEF MindOwn
  <2>2. CASE MindOther
    BY <2>2, <1>m, <1>s, <1>r DEF MindOther
  <2> QED BY <1>1, <2>1, <2>2 DEF StatusMinds
<1>2. CASE PressRestart
  BY <1>2, <1>s, <1>r DEF PressRestart
<1>3. CASE PressStop \/ ServiceDies \/ DropService
  BY <1>3 DEF PressStop, ServiceDies, DropService, Stopped
<1>4. CASE Reports \/ StartupLate
  BY <1>4 DEF Reports, StartupLate
<1>5. CASE UNCHANGED <<service, minder>>
  BY <1>5
<1> QED BY <1>1, <1>2, <1>3, <1>4, <1>5 DEF DemoNext, minderVars, StatusWakes, UiStill, JoinStatus,
        ExitStill, Quit, RunRequest, OutsideStill, UpdateView, KeyAgent, KeyEscape, KeyToggle, Resize

LEMMA DemoHolds == DemoInv /\ [DemoNext]_minderVars => HeldInv'
<1> SUFFICES ASSUME DemoInv, [DemoNext]_minderVars PROVE HeldInv'
  OBVIOUS
<1> USE DEF DemoInv, DemoTyped, HeldInv, NoneLeftRunning
<1>1. CASE StatusMinds
  <2>1. status = "minding" /\ mainThread \notin {"joined", "gone"} /\ UNCHANGED mainThread
    BY <1>1 DEF StatusMinds, UiStill
  <2>2. CASE MindOwn
    BY <2>1, <2>2 DEF MindOwn, UpdateState
  <2>3. CASE MindOther
    BY <2>1, <2>3 DEF MindOther, UpdateState, Restarted, StartOk, StartFails, Stopped
  <2> QED BY <1>1, <2>2, <2>3 DEF StatusMinds
<1>2. CASE PressRestart
  BY <1>2 DEF PressRestart, Ui, OutsideStill, Restarted
<1>3. CASE PressStop \/ ServiceDies
  BY <1>3 DEF PressStop, ServiceDies, Ui, OutsideStill, UiAndStatus, Stopped
<1>4. CASE DropService
  BY <1>4 DEF DropService, Droppable, ExitStill, Stopped
<1>5. CASE Reports \/ StartupLate
  BY <1>5 DEF Reports, StartupLate, UiAndStatus
<1>6. CASE StatusWakes \/ JoinStatus \/ Quit
  BY <1>6 DEF StatusWakes, UiStill, JoinStatus, Quit, Ui, ExitStill
<1>7. CASE UNCHANGED <<service, minder, keep, status, mainThread>>
  BY <1>7
<1> QED BY <1>1, <1>2, <1>3, <1>4, <1>5, <1>6, <1>7 DEF DemoNext, minderVars,
        RunRequest, OutsideStill, UpdateView, KeyAgent, KeyEscape, KeyToggle, Resize

(* When resctl-demo is gone no agent that it started runs on, unless it    *)
(* was told to keep it: the drop of its minder (ExitGuard::drop()) comes   *)
(* after the status thread's last round, whatever keys were pressed and    *)
(* services failed before.                                                 *)
THEOREM DemoLeavesNoAgent == DemoSpec => []NoneLeftRunning
<1>1. DemoInit => DemoInv
  BY DEF DemoInit, DemoInv, DemoTyped, HeldInv, NoneLeftRunning
<1>2. DemoInv /\ [DemoNext]_minderVars => DemoInv'
  BY DemoTypesKept, DemoHolds DEF DemoInv
<1>3. DemoInv => NoneLeftRunning
  BY DEF DemoInv, HeldInv
<1> QED BY <1>1, <1>2, <1>3, PTL DEF DemoSpec

-----------------------------------------------------------------------------
(* The protection job of resctl-bench, MemHogBench.                        *)

HogTyped ==
    /\ hogPc \in Waiting \cup {"start", "collect", "svc", "ended", "error", "record", "skip",
                               "stop", "restart", "over", "down"}
    /\ run \in [id: Nat, first: Nat, last: Nat, failed: BOOLEAN, fresh: Nat]
    /\ asked \in [hog: BOOLEAN, acked: BOOLEAN]
    /\ keeper \in [life: {"up", "dead", "off"}, pc: {"idle", "apply", "drop"},
                   wants: BOOLEAN, has: BOOLEAN]
    /\ seen \in [listed: BOOLEAN, running: BOOLEAN]
    /\ hog \in [id: Nat, running: BOOLEAN] /\ scratch \in [dir: BOOLEAN, by: Nat]
    /\ hogDeaths \in Nat

ScenarioTyped ==
    /\ DOMAIN scenario = {"kind", "idx", "held", "final", "recs"}
    /\ scenario.recs \in Seq([id: Nat, first: Nat, last: Nat])

(* Where the job is between two hogs, and where it is with one.            *)
Between == {"warm", "stabilize", "hold", "start", "ended", "record", "skip", "restart",
            "over", "down"}
Asking == {"ack", "listed"}
Watching == {"monitor", "collect"}

(* What the agent, as long as it is up, makes of what it was asked for.    *)
KeeperInv ==
    /\ KeeperUp => /\ asked.acked => keeper.wants = asked.hog
                   /\ keeper.pc # "apply" => keeper.has = keeper.wants
                   /\ keeper.pc = "drop" => ~keeper.has
    /\ keeper.life = "off" => /\ hogPc \in {"warm", "stabilize", "error", "stop", "restart", "skip",
                                            "over", "down"}
                              /\ hogPc = "stabilize" => ~asked.acked
    /\ hogPc \in {"restart", "down"} => keeper.life = "off"

(* A hog that the agent is still to start.                                 *)
StartPending == keeper.pc = "apply" /\ keeper.wants /\ ~keeper.has

(* Between two hogs none runs and none is about to: before the next one is  *)
(* started the job has seen a report newer than the last change.           *)
QuietInv ==
    /\ hogPc \in Between => ~hog.running
    /\ hogPc \in Between \cup {"svc"} /\ KeeperUp => ~asked.hog /\ ~StartPending
    /\ (hogPc = "stabilize" /\ run.fresh > 0) \/ hogPc \in {"hold", "start"} =>
          ~seen.listed /\ (KeeperUp => asked.acked /\ ~keeper.has)
    /\ hogPc \in Asking /\ KeeperUp =>
          /\ asked.hog
          /\ (seen.listed \/ keeper.has) => keeper.has /\ keeper.wants
          /\ hogPc = "listed" => asked.acked
    /\ hogPc \in Watching /\ KeeperUp =>
          asked.hog /\ asked.acked /\ keeper.has /\ keeper.wants

\* What is in the scratch directory and runs is this run's hog.
OwnHog == scratch.by \in {0, run.id} /\ hog.id \in {run.id - 1, run.id}
              /\ (hog.running => hog.id = run.id)

(* As long as no agent has died, a report is only there from the hog that  *)
(* was started in this run.                                                *)
ReportInv ==
    hogDeaths = 0 =>
        /\ keeper.life # "dead"
        /\ ~(KeeperUp /\ (keeper.has \/ keeper.pc = "drop")) => ~hog.running /\ scratch.by = 0
        /\ hogPc \in Asking /\ ~seen.listed /\ ~keeper.has => hog.id = run.id - 1
        /\ hogPc \in Asking /\ keeper.has => OwnHog
        /\ hogPc \in Asking \cup Watching => run.id # 0
        /\ hogPc \in Asking \cup {"stabilize", "hold", "start"} => run.first = 0
        /\ hogPc \in Watching => OwnHog /\ run.first \in {0, run.id}
        /\ hogPc \in {"svc", "ended", "record"} => run.first = run.id /\ run.last = run.id
        /\ hogPc \in {"stop", "restart"} /\ run.id # 0 => run.first = run.id /\ run.last = run.id
        /\ HogsOwnReports

HogInv == HogTyped /\ ScenarioTyped /\ KeeperInv
              /\ QuietInv /\ ReportInv

LEMMA HogStarts == HogInit => HogInv
<1> SUFFICES ASSUME HogInit PROVE HogInv
  OBVIOUS
<1>1. HogTyped
  BY DEF HogInit, HogTyped, Waiting, NoRun, NewKeeper, NotListed, NoScratch
<1>s. ScenarioTyped
  BY DEF HogInit, ScenarioTyped
<1>2. KeeperInv /\ QuietInv /\ ReportInv
  BY DEF HogInit, KeeperInv, QuietInv, ReportInv, StartPending, Between, Asking, Watching, KeeperUp,
     NoRun, NewKeeper, NotListed, NoScratch, HogsOwnReports
<1> QED BY <1>1, <1>s, <1>2 DEF HogInv

LEMMA HogTypesKept == HogTyped /\ [HogBenchNext]_hogVars => HogTyped'
<1> SUFFICES ASSUME HogTyped, [HogBenchNext]_hogVars PROVE HogTyped'
  OBVIOUS
<1>s. \A on \in BOOLEAN : SaveHogCmd(on) => asked' \in [hog: BOOLEAN, acked: BOOLEAN]
  BY DEF SaveHogCmd
<1> USE HogAssumption DEF HogTyped, Waiting, jobSide, HogTo, KeeperUp
<1>1. CASE Acks
  BY <1>1 DEF Acks
<1>2. CASE AppliesSysloads
  <2>1. keeper' \in [life: {"up", "dead", "off"}, pc: {"idle", "apply", "drop"},
                     wants: BOOLEAN, has: BOOLEAN]
    BY <1>2 DEF AppliesSysloads
  <2>2. hog' \in [id: Nat, running: BOOLEAN] /\ scratch' \in [dir: BOOLEAN, by: Nat]
    <3>2. [id |-> hog.id + 1, running |-> TRUE] \in [id: Nat, running: BOOLEAN]
      OBVIOUS
    <3>3. [scratch EXCEPT !.dir = TRUE] \in [dir: BOOLEAN, by: Nat]
      OBVIOUS
    <3> QED BY <1>2, <3>2, <3>3 DEF AppliesSysloads
  <2>3. UNCHANGED <<hogPc, run, asked, seen, hogDeaths>>
    BY <1>2 DEF AppliesSysloads
  <2> QED BY <2>1, <2>2, <2>3
<1>3. CASE DropsSysload
  BY <1>3 DEF DropsSysload, ScratchDropped, NoScratch
<1>4. CASE HogReported
  BY <1>4 DEF HogReported
<1>5. CASE KeeperDies
  BY <1>5 DEF KeeperDies
<1>6. CASE HogWrites
  BY <1>6 DEF HogWrites
<1>7. CASE HogDies
  <2>1. hog' \in [id: Nat, running: BOOLEAN]
    BY <1>7 DEF HogDies
  <2>2. UNCHANGED <<hogPc, run, asked, keeper, seen, scratch, hogDeaths>>
    BY <1>7 DEF HogDies
  <2> QED BY <2>1, <2>2
<1>8. CASE WarmUp
  BY <1>8 DEF WarmUp, NoRun
<1>9. CASE Stabilized \/ BaselineHeld \/ HogAcked
  BY <1>9 DEF Stabilized, BaselineHeld, HogAcked
<1>10. CASE StartHog
  BY <1>10 DEF StartHog, SaveHogCmd
<1>11. CASE HogListed \/ MonitorEnds
  <2>1. UNCHANGED <<run, keeper, seen, hog, scratch, hogDeaths>>
    BY <1>11 DEF HogListed, MonitorEnds
  <2>2. hogPc' \in {"monitor", "error", "collect"} /\ (UNCHANGED asked \/ SaveHogCmd(FALSE))
    BY <1>11 DEF HogListed, MonitorEnds
  <2>3. asked' \in [hog: BOOLEAN, acked: BOOLEAN]
    BY <1>s, <2>2
  <2> QED BY <2>1, <2>2, <2>3
<1>12. CASE FirstReport
  BY <1>12 DEF FirstReport
<1>19. CASE MonitorFails
  <2>1. run' \in [id: Nat, first: Nat, last: Nat, failed: BOOLEAN, fresh: Nat]
    BY <1>19 DEF MonitorFails
  <2>2. UNCHANGED <<asked, keeper, seen, hog, scratch, hogDeaths>> /\ hogPc' = "collect"
    BY <1>19 DEF MonitorFails
  <2> QED BY <2>1, <2>2
<1>13. CASE Collect \/ HogError
  <2>1. UNCHANGED <<keeper, seen, hog, scratch, hogDeaths>>
    BY <1>13 DEF Collect, HogError
  <2>2. hogPc' \in {"svc", "error", "stop"} /\ (UNCHANGED asked \/ SaveHogCmd(FALSE))
    BY <1>13 DEF Collect, HogError
  <2>4. asked' \in [hog: BOOLEAN, acked: BOOLEAN]
    BY <1>s, <2>2
  <2>3. run' \in [id: Nat, first: Nat, last: Nat, failed: BOOLEAN, fresh: Nat]
    <3>1. run' \in {run, [run EXCEPT !.last = scratch.by], [run EXCEPT !.id = 0]}
      BY <1>13 DEF Collect, HogError
    <3> QED BY <3>1
  <2> QED BY <2>1, <2>2, <2>3, <2>4
<1>14. CASE StopHogSvc \/ HogWaitFails \/ HogEnded
  BY ZenonT(60), <1>14 DEF StopHogSvc, HogWaitFails, HogEnded
<1>15. CASE StopForRestart \/ HogJobOver
  <2>1. UNCHANGED <<run, asked, seen, hogDeaths>> /\ hogPc' \in {"restart", "down"}
    BY <1>15 DEF StopForRestart, HogJobOver
  <2>2. StoppedAgent
    BY <1>15 DEF StopForRestart, HogJobOver
  <2>3. keeper' \in [life: {"up", "dead", "off"}, pc: {"idle", "apply", "drop"},
                     wants: BOOLEAN, has: BOOLEAN]
    BY <2>2 DEF StoppedAgent
  <2>4. hog' \in [id: Nat, running: BOOLEAN] /\ scratch' \in [dir: BOOLEAN, by: Nat]
    BY <2>2 DEF StoppedAgent, NoScratch
  <2> QED BY <2>1, <2>3, <2>4
<1>16. CASE RestartAgent
  <2>1. UNCHANGED <<run, hog, scratch, hogDeaths>> /\ hogPc' \in {"skip", "record"}
    BY <1>16 DEF RestartAgent
  <2>2. UNCHANGED <<asked, keeper, seen>> \/ (keeper' = NewKeeper /\ seen' = NotListed
                                               /\ asked' = [hog |-> FALSE, acked |-> TRUE])
    BY <1>16 DEF RestartAgent
  <2>3. /\ keeper' \in [life: {"up", "dead", "off"}, pc: {"idle", "apply", "drop"},
                        wants: BOOLEAN, has: BOOLEAN]
        /\ seen' \in [listed: BOOLEAN, running: BOOLEAN]
        /\ asked' \in [hog: BOOLEAN, acked: BOOLEAN]
    <3>1. CASE UNCHANGED <<asked, keeper, seen>>
      BY <3>1
    <3>2. CASE /\ keeper' = NewKeeper /\ seen' = NotListed
               /\ asked' = [hog |-> FALSE, acked |-> TRUE]
      BY <3>2 DEF NewKeeper, NotListed
    <3> QED BY <2>2, <3>1, <3>2
  <2> QED BY <2>1, <2>3
<1>17. CASE RecordHog \/ SkipHog
  BY <1>17 DEF RecordHog, SkipHog, HogNext
<1>18. CASE UNCHANGED hogVars
  BY <1>18 DEF hogVars
<1> QED BY <1>1, <1>2, <1>3, <1>4, <1>5, <1>6, <1>7, <1>8, <1>9, <1>10, <1>11, <1>12, <1>13, <1>14, <1>15, <1>16, <1>17, <1>18, <1>19 DEF HogBenchNext, HogJob

(* What the end of a run makes of the records.                             *)
LEMMA HogRecords ==
    ASSUME ScenarioTyped, RecordHog \/ SkipHog
    PROVE  /\ DOMAIN scenario' = DOMAIN scenario
           /\ \/ scenario'.recs = scenario.recs
              \/ hogPc = "record" /\ scenario'.recs \in {Append(scenario.recs, ThisRun), <<ThisRun>>}
<1>1. CASE SkipHog
  BY <1>1 DEF ScenarioTyped, SkipHog, HogNext, HogTo
<1>2. CASE RecordHog
  <2> DEFINE held == [scenario EXCEPT !.held = TRUE]
             added == [scenario EXCEPT !.held = TRUE, !.recs = Append(scenario.recs, ThisRun)]
             last == [scenario EXCEPT !.held = TRUE, !.recs = <<ThisRun>>]
             final == [scenario EXCEPT !.held = TRUE, !.recs = <<ThisRun>>,
                                       !.final = scenario.idx + 1]
  <2>1. ASSUME NEW scn, HogNext(scn), DOMAIN scn = DOMAIN scenario
        PROVE  DOMAIN scenario' = DOMAIN scenario /\ scenario'.recs = scn.recs
    BY <2>1 DEF HogNext, ScenarioTyped
  <2>2. /\ DOMAIN held = DOMAIN scenario /\ held.recs = scenario.recs
        /\ DOMAIN added = DOMAIN scenario /\ added.recs = Append(scenario.recs, ThisRun)
        /\ DOMAIN last = DOMAIN scenario /\ last.recs = <<ThisRun>>
        /\ DOMAIN final = DOMAIN scenario /\ final.recs = <<ThisRun>>
    BY DEF ScenarioTyped
  <2>3. HogNext(scenario) \/ HogNext(held) \/ HogNext(added) \/ HogNext(last) \/ HogNext(final)
    BY <1>2, Zenon DEF RecordHog
  <2>4. hogPc = "record"
    BY <1>2 DEF RecordHog
  <2> HIDE DEF held, added, last, final
  <2> QED BY <2>1, <2>2, <2>3, <2>4
<1> QED BY <1>1, <1>2

LEMMA ScenarioTypesKept == HogTyped /\ ScenarioTyped /\ [HogBenchNext]_hogVars => ScenarioTyped'
<1> SUFFICES ASSUME HogTyped, ScenarioTyped, [HogBenchNext]_hogVars PROVE ScenarioTyped'
  OBVIOUS
<1>1. CASE UNCHANGED scenario
  BY <1>1 DEF ScenarioTyped
<1>2. CASE RecordHog \/ SkipHog
  <2> DEFINE R == [id: Nat, first: Nat, last: Nat]
  <2>1. ThisRun \in R /\ scenario.recs \in Seq(R)
    BY DEF ThisRun, HogTyped, ScenarioTyped
  <2> HIDE DEF R
  <2>2. Append(scenario.recs, ThisRun) \in Seq(R) /\ <<ThisRun>> \in Seq(R)
    BY <2>1
  <2>3. scenario'.recs \in Seq(R)
    BY <1>2, <2>1, <2>2, HogRecords
  <2> QED BY <1>2, <2>3, HogRecords DEF ScenarioTyped, R
<1>3. CASE Acks \/ AppliesSysloads \/ DropsSysload \/ HogReported \/ KeeperDies \/ HogWrites \/ HogDies
  BY <1>1, <1>3 DEF jobSide, Acks, AppliesSysloads, DropsSysload, HogReported, KeeperDies, HogWrites, HogDies
<1>4. CASE WarmUp \/ Stabilized \/ BaselineHeld \/ StartHog \/ HogAcked \/ HogListed \/ Collect \/ HogError
           \/ HogEnded \/ FirstReport \/ MonitorEnds
  BY <1>1, <1>4 DEF HogTo, WarmUp, Stabilized, BaselineHeld, StartHog, HogAcked, HogListed, Collect,
     HogError, HogEnded, FirstReport, MonitorEnds
<1>5. CASE MonitorFails \/ StopHogSvc \/ HogWaitFails \/ StopForRestart \/ RestartAgent \/ HogJobOver
           \/ UNCHANGED hogVars
  BY <1>1, <1>5 DEF MonitorFails, StopHogSvc, HogWaitFails, StopForRestart, RestartAgent, HogJobOver, hogVars
<1> QED BY <1>2, <1>3, <1>4, <1>5 DEF HogBenchNext, HogJob

(* What stopping and starting the agent does.                              *)
KeeperStops ==
    /\ hogPc \in {"stop", "over"} /\ hogPc' = IF hogPc = "stop" THEN "restart" ELSE "down"
    /\ keeper'.life = "off" /\ keeper'.has = FALSE /\ keeper'.pc = "idle"
    /\ hog'.running = FALSE /\ (keeper.life = "up" => scratch'.by = 0)
    /\ (keeper.life # "up" => scratch' = scratch) /\ UNCHANGED <<asked, seen>>
KeeperStarts ==
    /\ hogPc = "restart" /\ hogPc' = IF run.id = 0 THEN "skip" ELSE "record"
    /\ keeper' = NewKeeper /\ seen' = NotListed
    /\ asked' = [hog |-> FALSE, acked |-> TRUE] /\ UNCHANGED <<hog, scratch>>
KeeperStaysOff ==
    hogPc = "restart" /\ hogPc' = "skip" /\ UNCHANGED <<asked, keeper, seen, hog, scratch>>

LEMMA HogRestarts ==
    ASSUME HogTyped, StopForRestart \/ RestartAgent \/ HogJobOver
    PROVE  /\ UNCHANGED <<scenario, run, hogDeaths>>
           /\ KeeperStops \/ KeeperStarts \/ KeeperStaysOff
<1>1. CASE RestartAgent
  BY <1>1, Zenon DEF RestartAgent, KeeperStarts, KeeperStaysOff
<1>2. CASE StopForRestart \/ HogJobOver
  <2>1. /\ hogPc \in {"stop", "over"} /\ UNCHANGED <<scenario, run, hogDeaths, asked, seen>>
        /\ hogPc' = IF hogPc = "stop" THEN "restart" ELSE "down"
        /\ StoppedAgent
    BY <1>2 DEF StopForRestart, HogJobOver
  <2>2. keeper'.life = "off" /\ keeper'.has = FALSE /\ keeper'.pc = "idle"
    BY <2>1 DEF StoppedAgent, HogTyped
  <2>3. hog'.running = FALSE
    BY <2>1 DEF StoppedAgent, HogTyped
  <2>4. scratch' = IF keeper.life = "up" THEN NoScratch ELSE scratch
    BY <2>1 DEF StoppedAgent, KeeperUp
  <2>5. (keeper.life = "up" => scratch'.by = 0) /\ (keeper.life # "up" => scratch' = scratch)
    BY <2>4 DEF NoScratch
  <2> QED BY <2>1, <2>2, <2>3, <2>5 DEF KeeperStops
<1> QED BY <1>1, <1>2

LEMMA KeeperKept == HogInv /\ [HogBenchNext]_hogVars => KeeperInv'
<1> SUFFICES ASSUME HogInv, [HogBenchNext]_hogVars PROVE KeeperInv'
  OBVIOUS
<1>0. HogTyped /\ KeeperInv
  BY DEF HogInv
<1> USE <1>0 DEF KeeperInv, HogTyped, Waiting, jobSide, HogTo, SaveHogCmd, KeeperUp
<1>1. CASE Acks
  BY <1>1 DEF Acks
<1>10. CASE DropsSysload
  BY <1>10 DEF DropsSysload
<1>11. CASE KeeperDies \/ HogWrites
  BY <1>11 DEF KeeperDies, HogWrites
<1>12. CASE HogDies
  <2>1. UNCHANGED <<hogPc, asked, keeper, seen>>
    BY <1>12 DEF HogDies
  <2> QED BY <2>1
<1>2. CASE AppliesSysloads
  BY <1>2 DEF AppliesSysloads
<1>3. CASE HogReported
  BY <1>3 DEF HogReported
<1>4. CASE WarmUp \/ Stabilized \/ BaselineHeld \/ StartHog \/ HogAcked
  BY <1>4 DEF WarmUp, Stabilized, BaselineHeld, StartHog, HogAcked
<1>5. CASE HogListed \/ FirstReport \/ MonitorEnds \/ MonitorFails
  BY <1>5 DEF HogListed, FirstReport, MonitorEnds, MonitorFails
<1>6. CASE Collect \/ StopHogSvc \/ HogWaitFails \/ HogEnded \/ HogError
  BY <1>6 DEF Collect, StopHogSvc, HogWaitFails, HogEnded, HogError
<1>7. CASE StopForRestart \/ RestartAgent \/ HogJobOver
  <2>1. HogTyped
    BY DEF HogInv
  <2>2. UNCHANGED <<scenario, run, hogDeaths>> /\ (KeeperStops \/ KeeperStarts \/ KeeperStaysOff)
    BY <1>7, <2>1, HogRestarts
  <2>3. CASE KeeperStops
    BY <2>2, <2>3 DEF KeeperStops
  <2>4. CASE KeeperStarts
    BY <2>2, <2>4 DEF KeeperStarts, NewKeeper, NotListed
  <2>5. CASE KeeperStaysOff
    BY <2>2, <2>5 DEF KeeperStaysOff
  <2> QED BY <2>2, <2>3, <2>4, <2>5
<1>8. CASE RecordHog \/ SkipHog
  BY <1>8 DEF RecordHog, SkipHog, HogNext
<1>9. CASE UNCHANGED hogVars
  BY <1>9 DEF hogVars
<1> QED BY <1>1, <1>2, <1>3, <1>4, <1>5, <1>6, <1>7, <1>8, <1>9, <1>10, <1>11, <1>12 DEF HogBenchNext, HogJob

LEMMA QuietKept == HogInv /\ [HogBenchNext]_hogVars => QuietInv'
<1> SUFFICES ASSUME HogInv, [HogBenchNext]_hogVars PROVE QuietInv'
  OBVIOUS
<1> USE HogAssumption
    DEF HogInv, KeeperInv, QuietInv, HogTyped, Waiting, jobSide, HogTo, SaveHogCmd, KeeperUp,
        StartPending, Between, Asking, Watching
<1>1. CASE Acks
  BY <1>1 DEF Acks
<1>11. CASE DropsSysload
  BY <1>11 DEF DropsSysload
<1>12. CASE KeeperDies \/ HogWrites
  BY <1>12 DEF KeeperDies, HogWrites
<1>13. CASE HogDies
  <2>1. ~hog'.running /\ UNCHANGED <<hogPc, run, asked, keeper, seen>>
    BY <1>13 DEF HogDies
  <2> QED BY <2>1
<1>2. CASE AppliesSysloads
  BY <1>2 DEF AppliesSysloads
<1>3. CASE HogReported
  BY <1>3 DEF HogReported
<1>4. CASE WarmUp \/ Stabilized \/ BaselineHeld
  BY <1>4 DEF WarmUp, Stabilized, BaselineHeld, NoRun
<1>5. CASE StartHog \/ HogAcked \/ HogListed
  BY <1>5 DEF StartHog, HogAcked, HogListed
<1>6. CASE FirstReport \/ MonitorEnds \/ MonitorFails
  BY <1>6 DEF FirstReport, MonitorEnds, MonitorFails
<1>7. CASE Collect \/ StopHogSvc \/ HogWaitFails \/ HogEnded \/ HogError
  BY <1>7 DEF Collect, StopHogSvc, HogWaitFails, HogEnded, HogError
<1>8. CASE StopForRestart \/ RestartAgent \/ HogJobOver
  <2>1. HogTyped
    BY DEF HogInv
  <2>2. UNCHANGED <<scenario, run, hogDeaths>> /\ (KeeperStops \/ KeeperStarts \/ KeeperStaysOff)
    BY <1>8, <2>1, HogRestarts
  <2>3. CASE KeeperStops
    BY <2>2, <2>3 DEF KeeperStops
  <2>4. CASE KeeperStarts
    BY <2>2, <2>4 DEF KeeperStarts, NewKeeper, NotListed
  <2>5. CASE KeeperStaysOff
    BY <2>2, <2>5 DEF KeeperStaysOff
  <2> QED BY <2>2, <2>3, <2>4, <2>5
<1>9. CASE RecordHog \/ SkipHog
  BY <1>9 DEF RecordHog, SkipHog, HogNext
<1>10. CASE UNCHANGED hogVars
  BY SMTT(20), <1>10 DEF hogVars
<1> QED BY <1>1, <1>2, <1>3, <1>4, <1>5, <1>6, <1>7, <1>8, <1>9, <1>10, <1>11, <1>12, <1>13 DEF HogBenchNext, HogJob

LEMMA ReportKept == HogInv /\ [HogBenchNext]_hogVars => ReportInv'
<1> SUFFICES ASSUME HogInv, [HogBenchNext]_hogVars, hogDeaths' = 0 PROVE ReportInv'
  BY DEF ReportInv
<1>t. HogTyped /\ ScenarioTyped
  BY DEF HogInv
<1>z. hogDeaths = 0
  <2>1. UNCHANGED hogDeaths \/ hogDeaths' = hogDeaths + 1
    <3>1. CASE StopForRestart \/ RestartAgent \/ HogJobOver
      BY <1>t, <3>1, HogRestarts
    <3>2. CASE Acks \/ AppliesSysloads \/ DropsSysload \/ HogReported \/ KeeperDies \/ HogWrites \/ HogDies
      BY <3>2 DEF Acks, AppliesSysloads, DropsSysload, HogReported, KeeperDies, HogWrites, HogDies
    <3>3. CASE RecordHog \/ SkipHog
      BY <3>3 DEF RecordHog, SkipHog, HogNext, HogTo
    <3>4. CASE WarmUp \/ Stabilized \/ BaselineHeld \/ StartHog \/ HogAcked \/ HogListed \/ Collect
               \/ HogError \/ HogEnded \/ FirstReport \/ MonitorEnds
      BY <3>4 DEF HogTo, WarmUp, Stabilized, BaselineHeld, StartHog, HogAcked, HogListed, Collect,
         HogError, HogEnded, FirstReport, MonitorEnds
    <3>5. CASE MonitorFails \/ StopHogSvc \/ HogWaitFails \/ UNCHANGED hogVars
      BY <3>5 DEF MonitorFails, StopHogSvc, HogWaitFails, hogVars
    <3> QED BY <3>1, <3>2, <3>3, <3>4, <3>5 DEF HogBenchNext, HogJob
  <2> QED BY <1>t, <2>1 DEF HogTyped
<1>h. UNCHANGED scenario => HogsOwnReports'
  BY <1>z DEF HogInv, ReportInv, HogsOwnReports
<1>k. KeeperInv /\ QuietInv /\ ReportInv
  BY DEF HogInv
<1>r. RecordHog \/ SkipHog => HogsOwnReports'
  <2> SUFFICES ASSUME RecordHog \/ SkipHog PROVE HogsOwnReports'
    OBVIOUS
  <2>1. /\ HogsOwnReports
        /\ hogPc = "record" => ThisRun.first = ThisRun.id /\ ThisRun.last = ThisRun.id
    BY <1>k, <1>z DEF ReportInv, ThisRun
  <2>2. CASE scenario'.recs = scenario.recs
    BY <1>z, <2>1, <2>2 DEF HogsOwnReports
  <2>3. CASE hogPc = "record" /\ scenario'.recs = <<ThisRun>>
    BY <2>1, <2>3 DEF HogsOwnReports
  <2>4. CASE hogPc = "record" /\ scenario'.recs = Append(scenario.recs, ThisRun)
    BY <1>t, <1>z, <2>1, <2>4 DEF ScenarioTyped, HogsOwnReports
  <2> QED BY <1>t, <2>2, <2>3, <2>4, HogRecords
<1> USE <1>t, <1>z, <1>h, <1>k, HogAssumption
    DEF HogTyped, Waiting, jobSide, HogTo, SaveHogCmd, KeeperUp, Between, Asking, Watching,
        OwnHog, KeeperInv, QuietInv, ReportInv
<1>1. CASE Acks
  BY <1>1 DEF Acks
<1>2. CASE AppliesSysloads
  BY <1>2 DEF AppliesSysloads, StartPending
<1>3. CASE HogReported
  BY <1>3 DEF HogReported
<1>4. CASE WarmUp \/ Stabilized \/ BaselineHeld
  BY <1>4 DEF WarmUp, Stabilized, BaselineHeld, NoRun
<1>5. CASE StartHog
  BY <1>5 DEF StartHog
<1>6. CASE HogAcked \/ HogListed
  BY <1>6 DEF HogAcked, HogListed
<1>7. CASE FirstReport \/ MonitorEnds \/ MonitorFails
  BY <1>7 DEF FirstReport, MonitorEnds, MonitorFails
<1>8. CASE Collect \/ StopHogSvc \/ HogWaitFails \/ HogEnded \/ HogError
  BY <1>8 DEF Collect, StopHogSvc, HogWaitFails, HogEnded, HogError
<1>9. CASE StopForRestart \/ RestartAgent \/ HogJobOver
  <2>2. UNCHANGED <<scenario, run, hogDeaths>> /\ (KeeperStops \/ KeeperStarts \/ KeeperStaysOff)
    BY <1>9, HogRestarts
  <2>3. CASE KeeperStops
    BY <2>2, <2>3 DEF KeeperStops
  <2>4. CASE KeeperStarts
    BY <2>2, <2>4 DEF KeeperStarts, NewKeeper, NotListed
  <2>5. CASE KeeperStaysOff
    BY <2>2, <2>5 DEF KeeperStaysOff
  <2> QED BY <2>2, <2>3, <2>4, <2>5
<1>10. CASE RecordHog \/ SkipHog
  <2>1. /\ UNCHANGED <<keeper, hog, scratch, run, seen>> /\ hogPc' \in {"warm", "over"}
    BY <1>10 DEF RecordHog, SkipHog, HogNext
  <2> QED BY <1>r, <1>10, <2>1
<1>11. CASE DropsSysload
  BY <1>11 DEF DropsSysload, ScratchDropped, NoScratch
<1>12. CASE KeeperDies \/ HogWrites
  BY <1>12 DEF KeeperDies, HogWrites
<1>13. CASE HogDies
  <2>1. ~hog'.running /\ hog'.id = hog.id /\ UNCHANGED <<scenario, hogPc, run, asked, keeper, seen, scratch>>
    BY <1>13 DEF HogDies
  <2> QED BY <2>1
<1>14. CASE UNCHANGED hogVars
  BY <1>14 DEF hogVars
<1> QED BY <1>1, <1>2, <1>3, <1>4, <1>5, <1>6, <1>7, <1>8, <1>9, <1>10, <1>11, <1>12, <1>13, <1>14
        DEF HogBenchNext, HogJob

LEMMA HogKept == HogInv /\ [HogBenchNext]_hogVars => HogInv'
<1>1. HogInv => HogTyped /\ ScenarioTyped
  BY DEF HogInv
<1> QED BY <1>1, HogTypesKept, ScenarioTypesKept, KeeperKept, QuietKept, ReportKept DEF HogInv

LEMMA HogIsSound == HogInv => HogSound
BY DEF HogInv, QuietInv, Between, ReportInv, HogSound, NoHogBeside, HogsOwnReports

-----------------------------------------------------------------------------
(* The storage job of resctl-bench, StorageBench.                          *)

StoreTyped ==
    /\ storePc \in {"start", "measure", "bench", "done", "gaveup", "failed"}
    /\ memory \in [profile: Profiles, avail: Int, share: Int, target: Int, known: BOOLEAN]
    /\ real \in Reals
    /\ measured \in Seq([mem: Int, usage: Int])
    /\ tried \in [first: BOOLEAN, prev: Int, inner: 0..InnerRetries, outer: 0..OuterRetries]
    /\ moves \in Nat

Measuring == {"measure", "bench"}

(* The results so far are those of the estimate that is in use.            *)
TogetherInv ==
    /\ storePc \in Measuring \cup {"done"} =>
          \A i \in 1..Len(measured) :
              /\ measured[i].mem = memory.avail
              /\ ~Off(measured[i].usage, memory.target, memory.target)
    /\ storePc = "start" => measured = <<>>
    /\ storePc \in Measuring => Len(measured) < StoreLoops
    /\ storePc = "done" => Len(measured) = StoreLoops
    /\ storePc # "start" => memory.profile = 0 \/ memory.known

(* No balloon is larger than the memory there is, so that each change of   *)
(* the estimate makes it right, and the next one takes a move.             *)
BalloonsFit ==
    \A r, s \in Reals, p \in Profiles : p # 0 => r - s <= MemTarget(MemShare(p))

OuterLoops == OuterRetries - tried.outer

MovesInv ==
    memory.profile # 0 =>
        /\ storePc = "start" => ~memory.known /\ OuterLoops = 0 /\ memory.avail \in Reals \cup {0}
        /\ storePc \in Measuring =>
              /\ memory.avail \in Reals /\ memory.share <= memory.avail
              /\ memory.share = MemShare(memory.profile)
              /\ memory.target = MemTarget(memory.share)
              /\ moves >= OuterLoops - 1
              /\ memory.avail # real => moves >= OuterLoops
        /\ storePc = "gaveup" => moves >= OuterRetries

StoreInv == StoreTyped /\ TogetherInv /\ MovesInv

LEMMA SharesFit ==
  ASSUME NEW p \in Nat
  PROVE  /\ MemShare(p) \in Nat
         /\ MemTarget(MemShare(p)) \in Nat /\ MemTarget(MemShare(p)) <= MemShare(p)
<1>1. MemShare(p) \in Nat
  BY DEF MemShare
<1>2. \A n \in Nat : MemTarget(n) \in Nat /\ MemTarget(n) <= n
  BY DEF MemTarget, Smaller
<1> QED BY <1>1, <1>2

LEMMA NotOffItself ==
  ASSUME NEW x \in Int, NEW w \in Nat
  PROVE  ~Off(x, x, w)
<1>1. \A n \in Nat : ErrPct * n \in Nat
  BY StorageAssumption
<1> QED BY <1>1 DEF Off

LEMMA StoreTypesKept == StoreTyped /\ [StorageNext]_storeVars => StoreTyped'
<1> SUFFICES ASSUME StoreTyped, [StorageNext]_storeVars PROVE StoreTyped'
  OBVIOUS
<1> DEFINE R == [mem: Int, usage: Int]
           M == [profile: Profiles, avail: Int, share: Int, target: Int, known: BOOLEAN]
           T == [first: BOOLEAN, prev: Int, inner: 0..InnerRetries, outer: 0..OuterRetries]
<1>a. Profiles \subseteq Nat /\ Reals \subseteq Nat /\ SystemMemory \in Nat
  BY StorageAssumption
<1>y. memory \in M /\ measured \in Seq(R) /\ tried \in T /\ real \in Int
  BY <1>a DEF StoreTyped
<1>t. \A t \in T : t.inner \in 0..InnerRetries /\ t.outer \in 0..OuterRetries
  OBVIOUS
<1>p. \A t \in T : \A p \in Int : [t EXCEPT !.first = FALSE, !.prev = p] \in T
  OBVIOUS
<1>i. \A t \in T : \A p \in Int, i \in 0..InnerRetries : [t EXCEPT !.prev = p, !.inner = i] \in T
  OBVIOUS
<1>o. \A p \in Int, i \in 0..InnerRetries, o \in 0..OuterRetries :
        [first |-> FALSE, prev |-> p, inner |-> i, outer |-> o] \in T
  OBVIOUS
<1>m. \A m \in M, a, s, t \in Int :
        /\ [m EXCEPT !.avail = a, !.share = s, !.target = t] \in M
        /\ [m EXCEPT !.share = s, !.target = t, !.known = TRUE] \in M
        /\ [m EXCEPT !.avail = a] \in M
  OBVIOUS
<1>q. \A m \in M : m.profile \in Profiles
  OBVIOUS
<1>r. \A m, u \in Int : [mem |-> m, usage |-> u] \in R
  OBVIOUS
<1>u. Usage \in Int /\ CurMemAvail \in Int /\ memory.avail \in Int
  BY SMTT(20), <1>a DEF StoreTyped, Usage, Balloon, CurMemAvail
<1> HIDE DEF R, M, T
<1>w. \A m \in M : WithProfile(m) \in M /\ Estimated(m) \in M
  <2> SUFFICES ASSUME NEW m \in M PROVE WithProfile(m) \in M /\ Estimated(m) \in M
    OBVIOUS
  <2>1. \A n \in Nat : MemTarget(n) \in Int
    BY DEF MemTarget, Smaller
  <2>2. \A n \in Nat : MemShare(n) \in Nat
    BY DEF MemShare
  <2>3. m.profile \in Nat
    BY <1>a, <1>q
  <2>4. WithProfile(m) \in M
    <3> DEFINE n == MemShare(m.profile)
    <3>1. n \in Int /\ MemTarget(n) \in Int /\ SystemMemory \in Int /\ MemTarget(SystemMemory) \in Int
      BY <1>a, <2>1, <2>2, <2>3
    <3> QED BY <1>m, <3>1 DEF WithProfile
  <2>5. Estimated(m) \in M
    BY <1>y, <1>m DEF Estimated
  <2> QED BY <2>4, <2>5
<1>f. (memory \in M /\ measured \in Seq(R) /\ tried \in T)' <=>
      (/\ memory' \in [profile: Profiles, avail: Int, share: Int, target: Int, known: BOOLEAN]
       /\ measured' \in Seq([mem: Int, usage: Int])
       /\ tried' \in [first: BOOLEAN, prev: Int, inner: 0..InnerRetries, outer: 0..OuterRetries])
  BY DEF R, M, T
<1>1. CASE StartStorage
  BY <1>1, <1>w DEF StartStorage, StoreTyped, M
<1>2. CASE StartHashdBench \/ HashdBenchFails \/ MemoryMoves
  BY <1>2 DEF StartHashdBench, HashdBenchFails, MemoryMoves, StoreTyped
<1>3. CASE MeasuredWell
  <2>1. measured' \in Seq(R)
    BY <1>3, <1>y, <1>r, <1>u DEF MeasuredWell
  <2>2. tried' = [tried EXCEPT !.first = FALSE, !.prev = 0]
    BY <1>3 DEF MeasuredWell
  <2>4. tried' \in T
    <3>1. [tried EXCEPT !.first = FALSE, !.prev = 0] \in T
      <4>1. 0 \in Int
        OBVIOUS
      <4> QED BY <1>y, <1>p, <4>1, Zenon
    <3> QED BY <2>2, <3>1
  <2>5. memory' \in M
    BY <1>3, <1>y DEF MeasuredWell
  <2> QED BY <1>3, <1>f, <2>1, <2>4, <2>5 DEF MeasuredWell, StoreTyped
<1>4. CASE RetryOuter
  <2>1. memory' \in M
    BY <1>4, <1>w, <1>y, <1>u, <1>m DEF RetryOuter, UpdateMemAvail
  <2>2. \/ tried' = tried
        \/ /\ tried.outer > 0
           /\ tried' = [first |-> FALSE, prev |-> CurMemAvail, inner |-> InnerRetries,
                        outer |-> tried.outer - 1]
    BY <1>4 DEF RetryOuter
  <2>3. tried.outer \in 0..OuterRetries /\ InnerRetries \in 0..InnerRetries
    BY <1>y, <1>t, StorageAssumption
  <2>4. tried.outer > 0 => tried.outer - 1 \in 0..OuterRetries
    BY <2>3, StorageAssumption
  <2>5. tried' \in T
    BY <1>o, <1>u, <1>y, <2>2, <2>3, <2>4
  <2>6. measured' = measured \/ measured' = <<>>
    BY <1>4 DEF RetryOuter, OuterLoop
  <2>7. measured' \in Seq(R)
    <3>1. <<>> \in Seq(R)
      OBVIOUS
    <3> QED BY <1>y, <2>6, <3>1
  <2> QED BY SMTT(20), <1>4, <1>f, <2>1, <2>5, <2>7 DEF RetryOuter, StoreTyped
<1>5. CASE RetryInner
  <2>1. tried' = [tried EXCEPT !.prev = CurMemAvail, !.inner = tried.inner - 1] /\ tried.inner # 0
    BY <1>5 DEF RetryInner, StartsOver
  <2>2. tried.inner \in 0..InnerRetries
    BY <1>y, <1>t, StorageAssumption
  <2>3. tried.inner - 1 \in 0..InnerRetries
    BY <2>1, <2>2, StorageAssumption
  <2>4. tried' \in T
    BY <1>i, <1>u, <1>y, <2>1, <2>3
  <2>5. memory' \in M /\ measured' \in Seq(R)
    BY <1>5, <1>y DEF RetryInner
  <2> QED BY <1>5, <1>f, <2>4, <2>5 DEF RetryInner, StoreTyped
<1>6. CASE UNCHANGED storeVars
  BY <1>6 DEF storeVars, StoreTyped
<1> QED BY <1>1, <1>2, <1>3, <1>4, <1>5, <1>6 DEF StorageNext

(* What the estimate becomes, and what it leaves as it was worked out.     *)
LEMMA EstimateFollows ==
  ASSUME StoreTyped, storePc # "start", memory.profile = 0 \/ memory.known,
         memory' = WithProfile([memory EXCEPT !.avail = CurMemAvail])
  PROVE  /\ memory'.profile = memory.profile
         /\ memory.profile = 0 \/ memory'.known
         /\ memory.profile # 0 => /\ memory'.avail = CurMemAvail
                                  /\ memory'.share = memory.share
                                  /\ memory'.target = memory.target
BY DEF StoreTyped, WithProfile

LEMMA TogetherKept == StoreTyped /\ TogetherInv /\ [StorageNext]_storeVars => TogetherInv'
<1> SUFFICES ASSUME StoreTyped, TogetherInv, [StorageNext]_storeVars PROVE TogetherInv'
  OBVIOUS
<1>1. CASE StartStorage
  <2>1. measured' = <<>> /\ storePc' \in {"measure", "failed"} /\ Len(measured') = 0
    BY <1>1 DEF StartStorage, TogetherInv
  <2>2. memory'.profile = 0 \/ memory'.known
    BY <1>1 DEF StartStorage, StoreTyped, WithProfile, Estimated
  <2> QED BY <2>1, <2>2, StorageAssumption DEF TogetherInv, Measuring
<1>2. CASE StartHashdBench \/ HashdBenchFails \/ MemoryMoves \/ RetryInner
  <2>1. UNCHANGED <<memory, measured>>
    BY <1>2 DEF StartHashdBench, HashdBenchFails, MemoryMoves, RetryInner
  <2>2. storePc' = storePc \/ storePc' = "failed" \/ (storePc \in Measuring /\ storePc' \in Measuring)
    BY <1>2 DEF StartHashdBench, HashdBenchFails, MemoryMoves, RetryInner, Measuring
  <2>3. \A u, t \in Int : Off(u, t, t)' = Off(u, t, t)
    BY DEF Off
  <2>4. storePc' # "start" => storePc # "start" \/ FALSE
    BY <1>2, <2>2 DEF StartHashdBench, HashdBenchFails, MemoryMoves, RetryInner, Measuring
  <2> QED BY <2>1, <2>2, <2>4 DEF TogetherInv, Measuring, Off
<1>3. CASE MeasuredWell
  <2> DEFINE e == [mem |-> memory.avail, usage |-> Usage]
  <2>1. /\ measured' = Append(measured, e) /\ UNCHANGED memory /\ storePc = "bench"
        /\ storePc' = IF Len(measured') >= StoreLoops THEN "done" ELSE "measure"
    BY <1>3 DEF MeasuredWell
  <2>2. Len(measured) \in Nat /\ Len(measured') = Len(measured) + 1
    BY <2>1 DEF StoreTyped
  <2>3. \A i \in 1..Len(measured) : measured'[i] = measured[i]
    BY <2>1 DEF StoreTyped
  <2>4. measured'[Len(measured) + 1] = e
    BY <2>1 DEF StoreTyped
  <2>5. ~Off(Usage, memory.target, memory.target)
    BY <1>3 DEF MeasuredWell
  <2>6. \A i \in 1..Len(measured') :
            measured'[i].mem = memory.avail /\ ~Off(measured'[i].usage, memory.target, memory.target)
    <3> SUFFICES ASSUME NEW i \in 1..Len(measured')
                 PROVE  measured'[i].mem = memory.avail
                            /\ ~Off(measured'[i].usage, memory.target, memory.target)
      OBVIOUS
    <3>1. CASE i = Len(measured) + 1
      BY <3>1, <2>4, <2>5
    <3>2. CASE i \in 1..Len(measured)
      BY <3>2, <2>3, <2>1 DEF TogetherInv, Measuring
    <3> QED BY <2>2, <3>1, <3>2
  <2>7. Len(measured) < StoreLoops
    BY <2>1 DEF TogetherInv, Measuring
  <2>8. memory.profile = 0 \/ memory.known
    BY <2>1 DEF TogetherInv
  <2>9. /\ storePc' \in Measuring => Len(measured') < StoreLoops
        /\ storePc' = "done" => Len(measured') = StoreLoops
        /\ storePc' # "start"
    BY <2>1, <2>2, <2>7, StorageAssumption DEF Measuring
  <2> HIDE DEF e
  <2> QED BY <2>1, <2>6, <2>8, <2>9 DEF TogetherInv, Off
<1>4. CASE RetryOuter
  <2>1. storePc = "bench" /\ (memory.profile = 0 \/ memory.known)
    BY <1>4 DEF RetryOuter, TogetherInv
  <2>2. memory'.profile = 0 \/ memory'.known
    BY <1>4, <2>1, EstimateFollows DEF RetryOuter, UpdateMemAvail
  <2>3. storePc' \in {"failed", "gaveup"} \/ (storePc' = "measure" /\ measured' = <<>> /\ Len(measured') = 0)
    BY <1>4 DEF RetryOuter, OuterLoop
  <2> QED BY <2>2, <2>3, StorageAssumption DEF TogetherInv, Measuring
<1>5. CASE UNCHANGED storeVars
  BY <1>5 DEF storeVars, TogetherInv, Off
<1> QED BY <1>1, <1>2, <1>3, <1>4, <1>5 DEF StorageNext

(* With balloons that fit, what is measured tells the memory there is.     *)
LEMMA MeasuredIsReal ==
  ASSUME StoreTyped, MovesInv, BalloonsFit, storePc = "bench", memory.profile # 0
  PROVE  /\ CurMemAvail = real
         /\ Off(Usage, memory.target, memory.target) => memory.avail # real
<1>1. memory.avail \in Reals /\ memory.share <= memory.avail
        /\ memory.share = MemShare(memory.profile) /\ memory.target = MemTarget(memory.share)
  BY DEF MovesInv, Measuring
<1>2. memory.profile \in Profiles /\ real \in Reals
  BY DEF StoreTyped
<1>3. memory.target \in Nat /\ memory.target <= memory.share /\ memory.share \in Nat
  BY <1>1, <1>2, SharesFit, StorageAssumption
<1>4. memory.avail - real <= memory.target
  BY <1>1, <1>2 DEF BalloonsFit
<1>5. memory.avail \in Nat /\ real \in Nat
  BY <1>1, <1>2, StorageAssumption
<1>6. Usage = real - (memory.avail - memory.target)
  BY <1>1, <1>3, <1>4, <1>5 DEF Usage, Balloon
<1>7. CurMemAvail = real
  BY <1>3, <1>5, <1>6 DEF CurMemAvail
<1>8. memory.avail = real => Usage = memory.target
  BY <1>3, <1>5, <1>6
<1> QED BY <1>3, <1>7, <1>8, NotOffItself

LEMMA MovesKept ==
  ASSUME BalloonsFit
  PROVE  StoreInv /\ [StorageNext]_storeVars => MovesInv'
<1> SUFFICES ASSUME StoreInv, [StorageNext]_storeVars, memory'.profile # 0 PROVE MovesInv'
  BY DEF MovesInv
<1>i. StoreTyped /\ TogetherInv /\ MovesInv
  BY DEF StoreInv
<1>n. moves \in Nat /\ OuterRetries \in Nat /\ tried.outer \in 0..OuterRetries
  BY <1>i, StorageAssumption DEF StoreTyped
<1>1. CASE StartStorage
  <2>1. memory.profile # 0 /\ ~memory.known /\ OuterLoops = 0 /\ memory.avail \in Reals \cup {0}
    BY <1>1, <1>i DEF StartStorage, MovesInv, StoreTyped, WithProfile, Estimated
  <2>2. /\ memory'.avail \in Reals /\ memory'.share = MemShare(memory'.profile)
        /\ memory'.target = MemTarget(memory'.share)
    BY <1>1, <1>i, <2>1 DEF StartStorage, StoreTyped, WithProfile, Estimated
  <2>3. storePc' = "measure" => memory'.share <= memory'.avail
    <3>1. memory'.share \in Nat /\ memory'.avail \in Nat
      <4>1. memory'.profile \in Profiles
        BY <1>i, StoreTypesKept, <1>1 DEF StoreTyped, StorageNext
      <4> QED BY <2>2, <4>1, SharesFit, StorageAssumption
    <3> QED BY <1>1, <3>1 DEF StartStorage, TooSmall
  <2>4. UNCHANGED <<moves, tried, real>> /\ storePc' \in {"measure", "failed"}
    BY <1>1 DEF StartStorage
  <2> QED BY <2>1, <2>2, <2>3, <2>4, <1>n DEF MovesInv, Measuring, OuterLoops
<1>2. CASE StartHashdBench \/ HashdBenchFails
  BY <1>2, <1>i DEF StartHashdBench, HashdBenchFails, MovesInv, Measuring, OuterLoops
<1>3. CASE MemoryMoves
  BY <1>3, <1>i, <1>n DEF MemoryMoves, MovesInv, Measuring, OuterLoops
<1>4. CASE MeasuredWell
  <2>1. tried'.outer = tried.outer
    BY <1>4, <1>i DEF MeasuredWell, StoreTyped
  <2> QED BY <1>4, <2>1, <1>i DEF MeasuredWell, MovesInv, Measuring, OuterLoops
<1>5. CASE RetryInner
  <2>1. tried'.outer = tried.outer
    BY <1>5, <1>i DEF RetryInner, StoreTyped
  <2> QED BY <1>5, <2>1, <1>i DEF RetryInner, MovesInv, Measuring, OuterLoops
<1>6. CASE RetryOuter
  <2>1. storePc = "bench" /\ (memory.profile = 0 \/ memory.known)
    BY <1>6, <1>i DEF RetryOuter, TogetherInv
  <2>2. /\ memory'.profile = memory.profile /\ memory'.avail = CurMemAvail
        /\ memory'.share = memory.share /\ memory'.target = memory.target
    BY <1>6, <1>i, <2>1, EstimateFollows DEF RetryOuter, UpdateMemAvail
  <2>3. memory'.avail = real /\ memory.avail # real
    BY <1>6, <1>i, <2>1, <2>2, MeasuredIsReal DEF RetryOuter
  <2>4. /\ memory.share = MemShare(memory.profile) /\ memory.target = MemTarget(memory.share)
        /\ moves >= OuterLoops
    BY <1>i, <2>1, <2>2, <2>3 DEF MovesInv, Measuring
  <2>5. real \in Reals /\ UNCHANGED <<real, moves>>
    BY <1>6, <1>i DEF RetryOuter, StoreTyped
  <2>6. CASE storePc' = "failed"
    BY <2>6 DEF MovesInv, Measuring
  <2>7. CASE tried.outer = 0 /\ storePc' = "gaveup"
    BY <2>4, <2>5, <2>7, <1>n DEF MovesInv, Measuring, OuterLoops
  <2>8. CASE storePc' = "measure" /\ ~TooSmall(memory') /\ tried'.outer = tried.outer - 1
    <3>1. memory'.share <= memory'.avail
      <4>1. memory.profile \in Nat /\ memory'.share \in Nat /\ memory'.avail \in Nat
        BY <1>i, <2>2, <2>3, <2>4, <2>5, SharesFit, StorageAssumption DEF StoreTyped
      <4> QED BY <2>2, <2>8, <4>1 DEF TooSmall
    <3>2. moves' >= OuterLoops' - 1
      BY <2>4, <2>5, <2>8, <1>n DEF OuterLoops
    <3> QED BY <2>2, <2>3, <2>4, <2>5, <2>8, <3>1, <3>2 DEF MovesInv, Measuring
  <2> QED BY <1>6, <2>6, <2>7, <2>8 DEF RetryOuter
<1>7. CASE UNCHANGED storeVars
  BY <1>7, <1>i DEF storeVars, MovesInv, Measuring, OuterLoops
<1> QED BY <1>1, <1>2, <1>3, <1>4, <1>5, <1>6, <1>7 DEF StorageNext

LEMMA TogetherIsSound == StoreTyped /\ TogetherInv => RecordedTogether
<1> SUFFICES ASSUME StoreTyped, TogetherInv PROVE RecordedTogether
  OBVIOUS
<1>1. DOMAIN measured = 1..Len(measured)
  BY DEF StoreTyped
<1> QED BY <1>1 DEF TogetherInv, RecordedTogether

LEMMA StoreIsSound == StoreInv => StorageSound
BY TogetherIsSound DEF StoreInv, MovesInv, StorageSound, FluctuatedIndeed

-----------------------------------------------------------------------------
(* All of them side by side, MCBenchAndDemo.                               *)

LEMMA PartsMove ==
  [Next]_mcVars => /\ [StorageNext]_storeVars /\ [HogBenchNext]_hogVars
                   /\ [DemoNext]_minderVars
<1> SUFFICES ASSUME [Next]_mcVars
             PROVE  [StorageNext]_storeVars /\ [HogBenchNext]_hogVars /\ [DemoNext]_minderVars
  OBVIOUS
<1>1. CASE UNCHANGED mcVars
  BY <1>1 DEF mcVars, demoVars
<1>2. CASE Next
  BY <1>2 DEF Next, Others2, demoVars
<1> QED BY <1>1, <1>2

(* Whatever the estimates, retries, crashes of the agent and failures of    *)
(* the hogs: the results that the storage job records were all measured     *)
(* with the recorded estimate, near its target (StorageJob::process_retry() *)
(* forgets the others), and each hog of the protection job has run alone    *)
(* and is judged by its own reports (MemHog::run()).                        *)
THEOREM ResultsBelongTogether == Spec => [](RecordedTogether /\ HogSound)
<1> DEFINE I == StoreTyped /\ TogetherInv /\ HogInv
<1>1. Init => I
  <2>1. StorageInit => StoreTyped /\ TogetherInv
    BY StorageAssumption DEF StorageInit, StoreTyped, TogetherInv, Measuring
  <2> QED BY <2>1, HogStarts DEF Init
<1>2. I /\ [Next]_mcVars => I'
  BY PartsMove, StoreTypesKept, TogetherKept, HogKept
<1>3. I => RecordedTogether /\ HogSound
  BY TogetherIsSound, HogIsSound
<1> QED BY <1>1, <1>2, <1>3, PTL DEF Spec

(* Where no balloon is larger than the memory there is, the storage job     *)
(* also says "available memory keeps fluctuating" only of memory that has   *)
(* changed as often as it retries: no failure of its own arithmetic         *)
(* (balloon_size_hashd_bench(), process_retry()) makes it give up.          *)
THEOREM RecordsAreSound == ASSUME BalloonsFit PROVE Spec => []RecordsSound
<1> DEFINE I == StoreInv /\ HogInv
<1>1. Init => I
  <2>1. StorageInit => StoreInv
    BY StorageAssumption
    DEF StorageInit, StoreInv, StoreTyped, TogetherInv, Measuring, MovesInv, OuterLoops
  <2> QED BY <2>1, HogStarts DEF Init
<1>2. I /\ [Next]_mcVars => I'
  BY PartsMove, StoreTypesKept, TogetherKept, MovesKept, HogKept DEF StoreInv
<1>3. I => RecordsSound
  BY StoreIsSound, HogIsSound DEF RecordsSound
<1> QED BY <1>1, <1>2, <1>3, PTL DEF Spec

-----------------------------------------------------------------------------
(* The jobs of resctl-bench and their entries, BenchJobs.                  *)

(* The last element of a sequence taken off, or replaced.                  *)
LEMMA LastOff ==
    ASSUME NEW S, NEW s \in Seq(S), s # <<>>
    PROVE  /\ Len(s) \in Nat \ {0} /\ Last(s) \in S /\ Last(s) = s[Len(s)]
           /\ Front(s) \in Seq(S) /\ Len(Front(s)) = Len(s) - 1
           /\ \A i \in 1..Len(s) - 1 : Front(s)[i] = s[i]
<1>1. Len(s) \in Nat \ {0} /\ DOMAIN s = 1..Len(s)
  BY EmptySeq, LenProperties
<1>2. s[Len(s)] \in S
  BY <1>1, ElementOfSeq
<1>3. \A i \in 1..Len(s) - 1 : s[i] \in S
  BY <1>1, ElementOfSeq
<1>4. /\ SubSeq(s, 1, Len(s) - 1) \in Seq(S)
      /\ Len(SubSeq(s, 1, Len(s) - 1)) = IF 1 <= Len(s) - 1 THEN Len(s) - 1 - 1 + 1 ELSE 0
      /\ \A i \in 1..Len(s) - 1 - 1 + 1 : SubSeq(s, 1, Len(s) - 1)[i] = s[1 + i - 1]
  BY <1>1, <1>3, SubSeqProperties
<1> QED
  BY <1>1, <1>2, <1>4 DEF Last, Front

LEMMA LastChanged ==
    ASSUME NEW S, NEW s \in Seq(S), s # <<>>, NEW x \in S
    PROVE  /\ Append(Front(s), x) \in Seq(S) /\ Append(Front(s), x) # <<>>
           /\ Len(Append(Front(s), x)) = Len(s)
           /\ DOMAIN Append(Front(s), x) = 1..Len(s)
           /\ \A i \in 1..Len(s) : Append(Front(s), x)[i] = IF i = Len(s) THEN x ELSE s[i]
<1>1. /\ Len(s) \in Nat \ {0} /\ Front(s) \in Seq(S) /\ Len(Front(s)) = Len(s) - 1
      /\ \A i \in 1..Len(s) - 1 : Front(s)[i] = s[i]
  BY LastOff
<1>2. Append(Front(s), x) \in Seq(S) /\ Len(Append(Front(s), x)) = Len(s)
  BY <1>1, AppendProperties
<1>3. Append(Front(s), x)[Len(s)] = x
  BY <1>1, AppendProperties
<1>4. \A i \in 1..Len(s) - 1 : Append(Front(s), x)[i] = s[i]
  BY <1>1, AppendProperties
<1>5. Append(Front(s), x) # <<>> /\ DOMAIN Append(Front(s), x) = 1..Len(s)
  BY <1>1, <1>2, EmptySeq, LenProperties
<1> QED
  BY <1>1, <1>2, <1>3, <1>4, <1>5

LEMMA LeastOf ==
    ASSUME NEW T \in SUBSET Nat, T # {}
    PROVE  Min(T) \in T /\ \A n \in T : Min(T) <= n
<1>1. PICK j \in T : \A k \in T : <<k, j>> \notin OpToRel(<, Nat)
  BY NatLessThanWellFounded, WFMin
<1>2. \A k \in T : j <= k
  <2>1. TAKE k \in T
  <2>2. j \in Nat /\ k \in Nat
    BY <1>1
  <2>3. ~ (k < j)
    BY <1>1, <2>2 DEF OpToRel
  <2> QED
    BY <2>2, <2>3
<1> DEFINE m == CHOOSE x \in T : \A y \in T : x <= y
<1>3. m \in T /\ \A y \in T : m <= y
  BY <1>1, <1>2
<1> QED
  BY <1>3 DEF Min

(* Induction over the natural numbers, by the least counterexample.        *)
LEMMA UpTo ==
    ASSUME NEW N \in Nat, NEW T, 0 \in T, \A n \in 0..(N - 1) : n \in T => n + 1 \in T
    PROVE  \A n \in 0..N : n \in T
<1> DEFINE B == {n \in 0..N : n \notin T}
           l == Min(B)
<1> SUFFICES ASSUME B # {} PROVE FALSE
  OBVIOUS
<1>1. l \in B /\ \A n \in B : l <= n
  BY LeastOf
<1> HIDE DEF l
<1>2. l \in 1..N /\ l - 1 \in 0..(N - 1)
  BY <1>1
<1>3. l - 1 \in T
  BY <1>1, <1>2
<1> QED BY <1>1, <1>2, <1>3

(* A stable sort moves the entries around: each gets a place of its own.   *)
LEMMA SortMoves ==
    ASSUME NEW S, NEW es \in Seq(S), \A d \in DOMAIN es : es[d].seq \in Nat
    PROVE  \E p \in [DOMAIN es -> DOMAIN es] :
              /\ \A i, j \in DOMAIN es : p[i] = p[j] => i = j
              /\ \A d \in DOMAIN es : \E i \in DOMAIN es : p[i] = d
              /\ SortedBySeq(es) = [i \in DOMAIN es |-> es[p[i]]]
<1> DEFINE n == Len(es)
           D == DOMAIN es
           place == [d \in D |-> Cardinality(Ahead(es, d)) + 1]
           p == [i \in D |-> CHOOSE d \in D : place[d] = i]
<1>1. n \in Nat /\ D = 1..n
  BY LenProperties
<1>2. IsFiniteSet(D) /\ Cardinality(D) = n
  BY <1>1, FS_Interval
<1>3. ASSUME NEW d \in D
      PROVE  /\ Ahead(es, d) \subseteq D \ {d} /\ IsFiniteSet(Ahead(es, d))
             /\ Cardinality(Ahead(es, d)) \in Nat /\ Cardinality(Ahead(es, d)) < n
  <2>1. es[d].seq \in Nat /\ d \in Nat
    BY <1>1
  <2>2. Ahead(es, d) \subseteq D \ {d}
    BY <2>1 DEF Ahead
  <2>3. IsFiniteSet(D \ {d}) /\ Cardinality(D \ {d}) = n - 1
    BY <1>2, FS_RemoveElement
  <2>4. IsFiniteSet(Ahead(es, d)) /\ Cardinality(Ahead(es, d)) <= n - 1
    BY <2>2, <2>3, FS_Subset
  <2>5. Cardinality(Ahead(es, d)) \in Nat
    BY <2>4, FS_CardinalityType
  <2> QED
    BY <1>1, <2>2, <2>4, <2>5
<1>4. ASSUME NEW c \in D, NEW d \in D, c \in Ahead(es, d)
      PROVE  Cardinality(Ahead(es, c)) < Cardinality(Ahead(es, d))
  <2>1. es[c].seq \in Nat /\ es[d].seq \in Nat /\ c \in Nat /\ d \in Nat
    BY <1>1
  <2>2. Ahead(es, c) \subseteq Ahead(es, d)
    <3> SUFFICES ASSUME NEW b \in Ahead(es, c) PROVE b \in Ahead(es, d)
      OBVIOUS
    <3>1. b \in D /\ es[b].seq \in Nat /\ b \in Nat
      BY <1>1 DEF Ahead
    <3> QED
      BY <1>4, <2>1, <3>1 DEF Ahead
  <2>3. c \notin Ahead(es, c)
    BY <1>3
  <2>4. Ahead(es, c) # Ahead(es, d)
    BY <1>4, <2>3
  <2>5. Cardinality(Ahead(es, c)) <= Cardinality(Ahead(es, d))
        /\ Cardinality(Ahead(es, d)) # Cardinality(Ahead(es, c))
    BY <1>3, <2>2, <2>4, FS_Subset
  <2> QED
    BY <1>3, <2>5
<1>5. place \in [D -> D]
  BY <1>1, <1>3
<1>6. \A c, d \in D : c # d => place[c] # place[d]
  <2> SUFFICES ASSUME NEW c \in D, NEW d \in D, c # d PROVE place[c] # place[d]
    OBVIOUS
  <2>1. es[c].seq \in Nat /\ es[d].seq \in Nat /\ c \in Nat /\ d \in Nat
    BY <1>1
  <2>2. c \in Ahead(es, d) \/ d \in Ahead(es, c)
    BY <2>1 DEF Ahead
  <2>3. Cardinality(Ahead(es, c)) # Cardinality(Ahead(es, d))
    BY <1>3, <1>4, <2>2
  <2> QED
    BY <1>3, <2>3
<1>7. place \in Injection(D, D)
  BY <1>5, <1>6 DEF Injection, IsInjective
<1>8. place \in Surjection(D, D)
  BY <1>2, <1>7, FS_Injection
<1>9. \A i \in D : \E d \in D : place[d] = i
  BY <1>8 DEF Surjection
<1>10. SortedBySeq(es) = [i \in D |-> es[CHOOSE d \in D : place[d] = i]]
  BY DEF SortedBySeq
<1> HIDE DEF place
<1>11. \A i \in D : p[i] \in D /\ place[p[i]] = i
  BY <1>9
<1>12. p \in [D -> D]
  BY <1>11
<1>13. \A i, j \in D : p[i] = p[j] => i = j
  BY <1>11
<1>14. \A d \in D : \E i \in D : p[i] = d
  <2> SUFFICES ASSUME NEW d \in D PROVE p[place[d]] = d
    BY <1>5
  <2>1. place[d] \in D
    BY <1>5
  <2>2. place[p[place[d]]] = place[d] /\ p[place[d]] \in D
    BY <1>11, <2>1
  <2> QED
    BY <1>6, <2>2
<1>15. SortedBySeq(es) = [i \in D |-> es[p[i]]]
  BY <1>10
<1> QED
  BY <1>12, <1>13, <1>14, <1>15

Made == [base : Nat, runs : Seq(Int), inc : Seq(Int)]
Recs == {NoRec} \cup Made
\* What has a result has its record.
Entries ==
    {e \in [spec : Specs, rec : Recs, res : BOOLEAN, uid : Nat, used : BOOLEAN, seq : Nat] :
        e.res => e.rec # NoRec}
FileEntries == {e \in [spec : Specs, rec : Recs, res : BOOLEAN] : e.res => e.rec # NoRec}
Jobs == [spec : Specs, uid : Nat]
Frames ==
    [uid : Nat, spec : Specs, pc : {"pre", "run", "runs", "study"}, rec : Recs, res : BOOLEAN,
     prev : Recs, runs : Seq(Int), next : Nat, nested : BOOLEAN, studied : BOOLEAN,
     revert : BOOLEAN]
Knobs == [iocost : Nat, hashd : Nat]

JobsTyped ==
    /\ goal \in CmdLines /\ mode \in {"down", "run", "study", "solve"}
    /\ file \in Seq(FileEntries)
    /\ entries \in Seq(Entries) /\ unlinked \in Seq(Specs)
    /\ pending \in Seq(Jobs) /\ frames \in Seq(Frames)
    /\ knobs \in Knobs /\ saved \in Knobs /\ demo \in Knobs /\ updates \in Nat
    /\ counts \in [measured : Nat, others : Nat, crashes : Nat, fails : Nat]

\* Entries have uids of their own; the next one is not taken.
Numbered(es) ==
    /\ \A e \in DOMAIN es : es[e].uid <= Len(es)
    /\ \A d, e \in DOMAIN es : es[d].uid = es[e].uid => d = e

\* Every job has its entry, which is linked and of its kind and id.
Owns(job, e) == e.uid = job.uid /\ e.used /\ e.spec.kind = job.spec.kind /\ e.spec.id = job.spec.id
Owned(jobs, es) == \A i \in DOMAIN jobs : \E e \in DOMAIN es : Owns(jobs[i], es[e])

Apart ==
    /\ \A i, j \in DOMAIN frames : frames[i].uid = frames[j].uid => i = j
    /\ \A i, j \in DOMAIN pending : pending[i].uid = pending[j].uid => i = j
    /\ \A i \in DOMAIN frames : \A j \in DOMAIN pending : frames[i].uid # pending[j].uid

\* Whatever the file has, the entries have.
Covered(es) == \A i \in DOMAIN file : \E e \in DOMAIN es : Entry(es[e]) = file[i]

\* A job that has another one nested in it has not begun its runs.
Unbegun(f) == f.pc \in {"pre", "run"} /\ f.runs = <<>> /\ f.next = 1
Outermost == \A i \in DOMAIN frames : i # Len(frames) => Unbegun(frames[i])

\* Going through its runs, iocost-qos knows of all those that the file records, and
\* has each it can run, by the parameters there are.
InRuns(f, rec, base) ==
    /\ f.spec.kind = "iocost-qos" /\ f.prev \in Made /\ Measured(rec) \subseteq Measured(f.prev)
    /\ f.next = Len(f.runs) + 1 /\ f.next <= Len(f.spec.runs) + 1
    /\ \A k \in 1..Len(f.runs) :
          f.spec.runs[k] \notin Slow(f.spec, base) =>
             f.runs[k] \in {f.spec.runs[k], 0 - f.spec.runs[k]}

\* A job that has its record has lost none of them, no measurement and no result.
InStudy(f, rec, res) ==
    /\ f.rec \in Made
    /\ Params(f.spec.kind) => rec \in {NoRec, f.rec}
    /\ res => f.res \/ Incremental(f.spec.kind)
    /\ \A k \in DOMAIN f.spec.runs :
          /\ f.spec.runs[k] \notin Slow(f.spec, f.rec.base)
          /\ f.spec.runs[k] \in Measured(rec)
          => f.spec.runs[k] \in Measured(f.rec)

Keeps(f, e, base) ==
    /\ f.pc \in {"pre", "run"} => Unbegun(f)
    /\ f.pc = "runs" => InRuns(f, e.rec, base)
    /\ f.pc = "study" => InStudy(f, e.rec, e.res)
Progress ==
    frames # <<>> =>
        \A e \in DOMAIN entries : entries[e].uid = Top.uid => Keeps(Top, entries[e], knobs.iocost)

JobsOwn ==
    /\ Numbered(entries) /\ Owned(pending, entries) /\ Owned(frames, entries) /\ Apart
JobsKeep ==
    /\ mode = "down" => entries = <<>> /\ unlinked = <<>> /\ pending = <<>> /\ frames = <<>>
    /\ mode # "down" => Covered(entries)
    /\ Outermost /\ Progress
JobsInv == JobsTyped /\ JobsOwn /\ JobsKeep

(* The running job is the last frame.                                      *)
LEMMA TopIs ==
    ASSUME frames \in Seq(Frames), frames # <<>>
    PROVE  /\ Top = frames[Len(frames)] /\ Top \in Frames
           /\ Len(frames) \in Nat \ {0} /\ DOMAIN frames = 1..Len(frames)
           /\ Len(frames) \in DOMAIN frames
<1>1. Len(frames) \in Nat \ {0} /\ DOMAIN frames = 1..Len(frames)
  BY EmptySeq, LenProperties
<1>2. Last(frames) \in Frames /\ Last(frames) = frames[Len(frames)]
  BY LastOff
<1> QED
  BY <1>1, <1>2 DEF Top

LEMMA JobsStart == JobsInit => JobsInv
<1> SUFFICES ASSUME JobsInit PROVE JobsInv
  OBVIOUS
<1>1. JobsTyped
  BY DEF JobsInit, JobsTyped, NoKnobs, Knobs
<1>2. JobsOwn
  BY DEF JobsInit, JobsOwn, Numbered, Owned, Apart
<1>3. JobsKeep
  BY DEF JobsInit, JobsKeep, Outermost, Progress
<1> QED
  BY <1>1, <1>2, <1>3 DEF JobsInv

(* The entry of the running job.                                           *)
LEMMA OwnEntry ==
    ASSUME JobsInv, frames # <<>>
    PROVE  /\ Top \in Frames /\ Mine \in DOMAIN entries /\ Owns(Top, Stored) /\ Stored = entries[Mine]
           /\ \A e \in DOMAIN entries : entries[e].uid = Top.uid => e = Mine
           /\ Stored \in Entries /\ Keeps(Top, Stored, knobs.iocost)
<1>1. Len(frames) \in Nat \ {0} /\ Top = frames[Len(frames)] /\ Top \in Frames
  BY LastOff DEF JobsInv, JobsTyped, Top
<1>2. Len(frames) \in DOMAIN frames
  BY <1>1, LenProperties DEF JobsInv, JobsTyped
<1>3. PICK e \in DOMAIN entries : Owns(Top, entries[e])
  BY <1>1, <1>2 DEF JobsInv, JobsOwn, Owned
<1>4. Mine \in DOMAIN entries /\ entries[Mine].uid = Top.uid
  BY <1>3 DEF Mine, Owns
<1>5. \A d \in DOMAIN entries : entries[d].uid = Top.uid => d = Mine
  BY <1>4 DEF JobsInv, JobsOwn, Numbered
<1>6. Mine = e
  BY <1>3, <1>5 DEF Owns
<1>7. entries[Mine] \in Entries
  BY <1>4, ElementOfSeq, LenProperties DEF JobsInv, JobsTyped
<1>8. Keeps(Top, entries[Mine], knobs.iocost)
  BY <1>4 DEF JobsInv, JobsKeep, Progress
<1> QED
  BY <1>1, <1>3, <1>4, <1>5, <1>6, <1>7, <1>8 DEF Stored

(* Linking a job: an entry that is not used by another one becomes its, or *)
(* there is one more.                                                      *)
LEMMA LinkedKeeps ==
    ASSUME NEW es \in Seq(Entries), Numbered(es), NEW s \in Specs
    PROVE  /\ Linked(es, s) \in Seq(Entries) /\ Numbered(Linked(es, s))
           /\ LinkedTo(es, s) \in Nat
           /\ DOMAIN es \subseteq DOMAIN Linked(es, s)
           /\ \A e \in DOMAIN es :
                 /\ Entry(Linked(es, s)[e]) = Entry(es[e])
                 /\ Linked(es, s)[e].spec = es[e].spec /\ Linked(es, s)[e].rec = es[e].rec
                 /\ Linked(es, s)[e].res = es[e].res /\ Linked(es, s)[e].uid = es[e].uid
                 /\ es[e].used => Linked(es, s)[e].used /\ es[e].uid # LinkedTo(es, s)
           /\ \A e \in DOMAIN Linked(es, s) : e \notin DOMAIN es => Linked(es, s)[e].uid = LinkedTo(es, s)
           /\ \E e \in DOMAIN Linked(es, s) :
                 Owns([spec |-> s, uid |-> LinkedTo(es, s)], Linked(es, s)[e])
<1> DEFINE u == LinkedTo(es, s)
           nes == Linked(es, s)
<1>1. Len(es) \in Nat /\ DOMAIN es = 1..Len(es) /\ \A e \in DOMAIN es : es[e] \in Entries
  BY ElementOfSeq, LenProperties
<1>2. CASE Matching(es, s) = {}
  <2> DEFINE new == [spec |-> s, rec |-> NoRec, res |-> FALSE, uid |-> Len(es) + 1,
                     used |-> TRUE, seq |-> Unset]
  <2>1. nes = Append(es, new) /\ u = Len(es) + 1
    BY <1>2 DEF Linked, LinkedTo, NewUid
  <2>2. new \in Entries /\ Unset \in Nat
    BY <1>1 DEF Entries, Recs, Unset
  <2>3. /\ nes \in Seq(Entries) /\ Len(nes) = Len(es) + 1 /\ DOMAIN nes = 1..Len(es) + 1
        /\ \A e \in 1..Len(es) : nes[e] = es[e]
        /\ nes[Len(es) + 1] = new
    BY <1>1, <2>1, <2>2, AppendProperties, LenProperties
  <2> HIDE DEF nes, u
  <2>4. \A e \in DOMAIN es : es[e].uid # u /\ es[e].uid \in Nat /\ es[e].uid <= Len(es)
    BY <1>1, <2>1 DEF Numbered, Entries
  <2>5. new.uid = u /\ new.used /\ new.spec = s
    BY <2>1
  <2> HIDE DEF new
  <2>6. \A e \in DOMAIN nes : nes[e].uid <= Len(nes)
    <3>1. TAKE e \in DOMAIN nes
    <3>2. CASE e \in 1..Len(es)
      BY <1>1, <2>3, <2>4, <3>2
    <3>3. CASE e = Len(es) + 1
      BY <1>1, <2>1, <2>3, <2>5, <3>3
    <3> QED
      BY <1>1, <2>3, <3>2, <3>3
  <2>7. \A d, e \in DOMAIN nes : nes[d].uid = nes[e].uid => d = e
    <3> SUFFICES ASSUME NEW d \in DOMAIN nes, NEW e \in DOMAIN nes, nes[d].uid = nes[e].uid
                 PROVE  d = e
      OBVIOUS
    <3>1. d \in 1..Len(es) \/ d = Len(es) + 1
      BY <1>1, <2>3
    <3>2. e \in 1..Len(es) \/ e = Len(es) + 1
      BY <1>1, <2>3
    <3>3. CASE d \in 1..Len(es) /\ e \in 1..Len(es)
      BY <1>1, <2>3, <3>3 DEF Numbered
    <3>4. CASE d = Len(es) + 1 /\ e \in 1..Len(es)
      BY <1>1, <2>3, <2>4, <2>5, <3>4
    <3>5. CASE d \in 1..Len(es) /\ e = Len(es) + 1
      BY <1>1, <2>3, <2>4, <2>5, <3>5
    <3> QED
      BY <3>1, <3>2, <3>3, <3>4, <3>5
  <2>8. Numbered(nes)
    BY <2>6, <2>7 DEF Numbered
  <2>9. \E e \in DOMAIN nes : Owns([spec |-> s, uid |-> u], nes[e])
    <3>1. Owns([spec |-> s, uid |-> u], nes[Len(es) + 1])
      BY <2>3, <2>5 DEF Owns
    <3>2. Len(es) + 1 \in DOMAIN nes
      BY <1>1, <2>3
    <3> QED
      BY <3>1, <3>2
  <2>10. u \in Nat /\ DOMAIN es \subseteq DOMAIN nes
    BY <1>1, <2>1, <2>3
  <2>11. \A e \in DOMAIN es :
            /\ Entry(nes[e]) = Entry(es[e]) /\ nes[e].spec = es[e].spec /\ nes[e].rec = es[e].rec
            /\ nes[e].res = es[e].res /\ nes[e].uid = es[e].uid /\ (es[e].used => nes[e].used /\ es[e].uid # u)
    BY <1>1, <2>3, <2>4
  <2>12. \A e \in DOMAIN nes : e \notin DOMAIN es => nes[e].uid = u
    BY <1>1, <2>3, <2>5
  <2> QED
    BY <2>3, <2>8, <2>9, <2>10, <2>11, <2>12 DEF nes, u
<1>3. CASE Matching(es, s) # {}
  <2> DEFINE m == Min(Matching(es, s))
  <2>1. m \in Matching(es, s)
    <3>1. Matching(es, s) \in SUBSET Nat
      BY SMTT(20), <1>1 DEF Matching
    <3> QED
      BY <1>3, <3>1, LeastOf
  <2>2. m \in DOMAIN es /\ ~es[m].used /\ es[m].spec.kind = s.kind /\ es[m].spec.id = s.id
    BY <2>1 DEF Matching
  <2>3. nes = [es EXCEPT ![m].used = TRUE] /\ u = es[m].uid
    BY <1>3 DEF Linked, LinkedTo
  <2> HIDE DEF m, nes, u
  <2>4. [es[m] EXCEPT !.used = TRUE] \in Entries
    BY <1>1, <2>2 DEF Entries
  <2>5. nes = [es EXCEPT ![m] = [es[m] EXCEPT !.used = TRUE]]
    BY <2>3
  <2>6. nes \in Seq(Entries) /\ Len(nes) = Len(es) /\ DOMAIN nes = DOMAIN es
    BY <1>1, <2>2, <2>4, <2>5, ExceptSeq, LenProperties
  <2>7. \A e \in DOMAIN es : nes[e] = IF e = m THEN [es[m] EXCEPT !.used = TRUE] ELSE es[e]
    BY <2>2, <2>5
  <2>8. \A e \in DOMAIN es : /\ nes[e].spec = es[e].spec /\ nes[e].rec = es[e].rec
                             /\ nes[e].res = es[e].res /\ nes[e].uid = es[e].uid
                             /\ (es[e].used => nes[e].used)
    BY ZenonT(60), <1>1, <2>2, <2>7 DEF Entries
  <2>9. Numbered(nes)
    BY <2>6, <2>8 DEF Numbered
  <2>10. nes[m].used
    BY <1>1, <2>2, <2>7 DEF Entries
  <2>11. Owns([spec |-> s, uid |-> u], nes[m])
    BY <2>2, <2>3, <2>8, <2>10 DEF Owns
  <2>12. u \in Nat
    BY <1>1, <2>2, <2>3 DEF Entries
  <2>13. \A e \in DOMAIN es : es[e].used => es[e].uid # u
    BY <2>2, <2>3 DEF Numbered
  <2>14. \A e \in DOMAIN es : Entry(nes[e]) = Entry(es[e])
    BY <2>8 DEF Entry
  <2> QED
    BY <2>2, <2>6, <2>8, <2>9, <2>11, <2>12, <2>13, <2>14 DEF nes, u
<1> QED
  BY <1>2, <1>3

Counts == [measured : Nat, others : Nat, crashes : Nat, fails : Nat]

LEMMA CountsTyped == JobsTyped /\ [JobsNext]_jobVars => counts' \in Counts
<1> SUFFICES ASSUME JobsTyped, [JobsNext]_jobVars PROVE counts' \in Counts
  OBVIOUS
<1> USE DEF Counts
<1>1. counts \in Counts
  BY DEF JobsTyped
<1>2. CASE \/ UNCHANGED counts
           \/ \E c \in {"measured", "others", "crashes", "fails"}, n \in Nat :
                 counts' = [counts EXCEPT ![c] = @ + n]
  BY <1>1, <1>2
<1>3. [counts EXCEPT !.others = @ + 1] = [counts EXCEPT !["others"] = @ + 1]
      /\ [counts EXCEPT !.crashes = @ + 1] = [counts EXCEPT !["crashes"] = @ + 1]
      /\ [counts EXCEPT !.fails = @ + 1] = [counts EXCEPT !["fails"] = @ + 1]
  OBVIOUS
<1>4. ASSUME NEW ok, Benchmark(ok) PROVE counts' \in Counts
  BY <1>1, <1>4 DEF Benchmark
<1>5. CASE LaunchGoal \/ LaunchOther
  BY <1>1, <1>3, <1>5 DEF LaunchGoal, LaunchOther
<1>6. CASE \/ LinkNext \/ NextJob \/ AllRun \/ NoPreRun \/ FindQos \/ RunQos \/ QosNotFound
           \/ Recall \/ RunTune \/ QosParams \/ QosStart \/ QosKeep \/ QosRun \/ QosDone
           \/ RemoveFile \/ UNCHANGED jobVars
  <2>1. UNCHANGED counts
    BY <1>6 DEF LinkNext, NextJob, AllRun, NoPreRun, FindQos, RunQos, RunNested, QosNotFound,
       Recall, RunTune, QosParams, QosStart, QosKeep, QosRun, QosDone, RemoveFile, jobVars
  <2> QED
    BY <1>1, <2>1
<1>7. CASE RunParams
  <2>1. ASSUME NEW found \in 1..Len(Models), counts' = [counts EXCEPT !.measured = @ + found]
        PROVE  counts' \in Counts
    <3>1. found \in Nat
      BY BenchJobsAssumption, LenProperties
    <3> QED
      BY <1>1, <2>1, <3>1
  <2>2. CASE Benchmark(FALSE)
    BY <1>4, <2>2
  <2> QED
    BY <1>7, <2>1, <2>2 DEF RunParams
<1>8. CASE Study \/ QosFails
  BY <1>4, <1>8 DEF Study, QosFails
<1>9. CASE Crash \/ CrashInSave
  BY <1>1, <1>9 DEF Crash, CrashInSave
<1> QED
  BY <1>5, <1>6, <1>7, <1>8, <1>9 DEF JobsNext, Steps

(* The program ends: the file is left, and nothing else.                   *)
LEMMA JobsDown ==
    ASSUME JobsInv, Down, UNCHANGED goal, file' \in Seq(FileEntries), demo' \in Knobs,
           counts' \in Counts
    PROVE  JobsInv'
<1>1. JobsTyped'
  BY DEF JobsInv, JobsTyped, Down, NoKnobs, Knobs, FileEntries, Counts
<1>2. JobsOwn'
  BY DEF JobsOwn, Numbered, Owned, Apart, Down
<1>3. JobsKeep'
  BY DEF JobsKeep, Outermost, Progress, Down
<1> QED
  BY <1>1, <1>2, <1>3 DEF JobsInv

(* The running job moves on.                                               *)
LEMMA TopSet ==
    ASSUME JobsInv, frames # <<>>, NEW f \in Frames, SetTop(f)
    PROVE  /\ frames' \in Seq(Frames) /\ frames' # <<>> /\ Len(frames') = Len(frames)
           /\ DOMAIN frames' = DOMAIN frames /\ Top' = f
           /\ \A i \in DOMAIN frames : frames'[i] = IF i = Len(frames) THEN f ELSE frames[i]
           /\ Top = frames[Len(frames)] /\ Len(frames) \in DOMAIN frames
<1>a. frames \in Seq(Frames)
  BY DEF JobsInv, JobsTyped
<1>1. /\ frames' = Append(Front(frames), f)
      /\ Len(frames) \in Nat \ {0} /\ DOMAIN frames = 1..Len(frames)
  BY <1>a, EmptySeq, LenProperties DEF SetTop, Outer
<1>2. /\ frames' \in Seq(Frames) /\ frames' # <<>> /\ Len(frames') = Len(frames)
      /\ DOMAIN frames' = DOMAIN frames
      /\ \A i \in DOMAIN frames : frames'[i] = IF i = Len(frames) THEN f ELSE frames[i]
  <2>1. /\ Append(Front(frames), f) \in Seq(Frames) /\ Append(Front(frames), f) # <<>>
        /\ Len(Append(Front(frames), f)) = Len(frames)
        /\ DOMAIN Append(Front(frames), f) = 1..Len(frames)
        /\ \A i \in 1..Len(frames) :
              Append(Front(frames), f)[i] = IF i = Len(frames) THEN f ELSE frames[i]
    BY <1>a, LastChanged
  <2> QED
    BY <1>1, <2>1, Zenon
<1>3. Top' = frames'[Len(frames')]
  BY DEF Top, Last
<1>4. frames'[Len(frames')] = f /\ Len(frames) \in DOMAIN frames
  <2>1. Len(frames) \in DOMAIN frames
    BY <1>1
  <2>2. frames'[Len(frames)] = IF Len(frames) = Len(frames) THEN f ELSE frames[Len(frames)]
    BY <1>2, <2>1, Zenon
  <2> QED
    BY <1>2, <2>1, <2>2
<1> QED
  BY <1>2, <1>3, <1>4, Zenon DEF Top, Last

LEMMA TopMoves ==
    ASSUME JobsInv, frames # <<>>, NEW f \in Frames, f.uid = Top.uid, f.spec = Top.spec,
           SetTop(f), UNCHANGED <<aside, entries>>, Keeps(f, Stored, knobs.iocost), counts' \in Counts
    PROVE  JobsInv'
<1>1. /\ frames' \in Seq(Frames) /\ frames' # <<>> /\ Len(frames') = Len(frames)
      /\ DOMAIN frames' = DOMAIN frames /\ Top' = f
      /\ \A i \in DOMAIN frames : frames'[i] = IF i = Len(frames) THEN f ELSE frames[i]
      /\ Top = frames[Len(frames)] /\ Len(frames) \in DOMAIN frames
  BY TopSet
<1>2. UNCHANGED <<goal, file, demo, mode, unlinked, pending, knobs, saved, updates, entries>>
  BY DEF aside
<1>3. \A i \in DOMAIN frames : frames'[i].uid = frames[i].uid /\ frames'[i].spec = frames[i].spec
  BY <1>1
<1>4. JobsTyped'
  BY <1>1, <1>2 DEF JobsInv, JobsTyped, Counts
<1>5. JobsOwn'
  <2>1. Numbered(entries)' /\ Owned(pending, entries)'
    BY <1>2 DEF JobsInv, JobsOwn, Numbered, Owned, Owns
  <2>2. Owned(frames, entries)'
    BY <1>1, <1>2, <1>3 DEF JobsInv, JobsOwn, Owned, Owns
  <2>3. Apart'
    BY <1>1, <1>2, <1>3 DEF JobsInv, JobsOwn, Apart
  <2> QED
    BY <2>1, <2>2, <2>3 DEF JobsOwn
<1>6. JobsKeep'
  <2>1. mode' # "down" /\ Covered(entries)'
    BY <1>2 DEF JobsInv, JobsKeep, Covered
  <2>2. Outermost'
    BY <1>1 DEF JobsInv, JobsKeep, Outermost, Unbegun
  <2>3. Progress'
    <3> SUFFICES ASSUME NEW e \in DOMAIN entries, entries[e].uid = f.uid
                 PROVE  Keeps(f, entries[e], knobs.iocost)
      BY <1>1, <1>2 DEF Progress, Keeps, Unbegun, InRuns, InStudy, Measured, Slow
    <3> QED
      BY OwnEntry
  <2> QED
    BY <2>1, <2>2, <2>3 DEF JobsKeep
<1> QED
  BY <1>4, <1>5, <1>6 DEF JobsInv

LEMMA FrameTyped ==
    ASSUME NEW job \in Jobs
    PROVE  /\ Frame(job) \in Frames /\ Frame(job).uid = job.uid /\ Frame(job).spec = job.spec
           /\ Frame(job).pc = "pre" /\ Unbegun(Frame(job))
BY DEF Jobs, Frame, Frames, Recs, Unbegun

LEMMA LaunchStep ==
    ASSUME JobsInv, NEW m \in {"run", "study", "solve"}, NEW line \in Seq(Specs),
           Launch(m, line), counts' \in Counts
    PROVE  JobsInv'
<1>1. /\ mode = "down" /\ entries' = Loaded /\ unlinked' = line /\ mode' = m
      /\ knobs' = NewBase(m) /\ saved' = NewBase(m) /\ updates' = 1
      /\ UNCHANGED <<goal, file, demo, pending, frames>>
  BY DEF Launch
<1>2. pending = <<>> /\ frames = <<>>
  BY <1>1 DEF JobsInv, JobsKeep
<1>3. /\ file \in Seq(FileEntries) /\ Len(file) \in Nat /\ DOMAIN file = 1..Len(file)
      /\ \A i \in DOMAIN file : file[i] \in FileEntries
  <2>1. file \in Seq(FileEntries)
    BY DEF JobsInv, JobsTyped, FileEntries
  <2> QED
    BY <2>1, ElementOfSeq, LenProperties
<1> DEFINE new(i) == [spec |-> file[i].spec, rec |-> file[i].rec, res |-> file[i].res,
                      uid |-> i, used |-> FALSE, seq |-> Unset]
<1>4. \A i \in 1..Len(file) : new(i) \in Entries
  BY <1>3 DEF FileEntries, Entries, Unset
<1>5. Loaded = [i \in 1..Len(file) |-> new(i)]
  BY <1>3 DEF Loaded
<1>6. \A i \in 1..Len(file) : new(i).uid = i /\ Entry(new(i)) = file[i]
  BY <1>3 DEF Entry, FileEntries
<1> HIDE DEF new
<1>7. Loaded \in Seq(Entries) /\ Len(Loaded) = Len(file) /\ DOMAIN Loaded = 1..Len(file)
  BY <1>3, <1>4, <1>5
<1>8. \A i \in DOMAIN Loaded : Loaded[i].uid = i /\ Entry(Loaded[i]) = file[i]
  BY <1>5, <1>6, <1>7
<1>9. JobsTyped'
  <2>1. NewBase(m) \in Knobs
    BY DEF NewBase, NoKnobs, Knobs, JobsInv, JobsTyped
  <2> QED
    BY <1>1, <1>7, <2>1 DEF JobsInv, JobsTyped, Counts
<1>10. JobsOwn'
  <2>1. Numbered(Loaded)
    BY <1>3, <1>7, <1>8 DEF Numbered
  <2>2. Numbered(entries)'
    BY <1>1, <2>1 DEF Numbered
  <2>3. Owned(pending, entries)' /\ Owned(frames, entries)' /\ Apart'
    BY <1>1, <1>2 DEF Owned, Apart
  <2> QED
    BY <2>2, <2>3 DEF JobsOwn
<1>11. JobsKeep'
  <2>1. mode' # "down"
    BY <1>1
  <2>2. Covered(entries)'
    BY <1>1, <1>3, <1>7, <1>8 DEF Covered, Entry
  <2>3. Outermost' /\ Progress'
    BY <1>1, <1>2 DEF Outermost, Progress, Unbegun
  <2> QED
    BY <2>1, <2>2, <2>3 DEF JobsKeep
<1> QED
  BY <1>9, <1>10, <1>11 DEF JobsInv

(* What holds of the entries once one more job is linked.                  *)
LEMMA LinkStep ==
    ASSUME JobsInv, NEW s \in Specs, entries' = Linked(entries, s), UNCHANGED file
    PROVE  /\ entries' \in Seq(Entries) /\ Numbered(entries)'
           /\ LinkedTo(entries, s) \in Nat
           /\ Owned(pending, entries') /\ Owned(frames, entries')
           /\ \A i \in DOMAIN pending : pending[i].uid # LinkedTo(entries, s)
           /\ \A i \in DOMAIN frames : frames[i].uid # LinkedTo(entries, s)
           /\ \E e \in DOMAIN entries' :
                 Owns([spec |-> s, uid |-> LinkedTo(entries, s)], entries'[e])
           /\ Covered(entries) => Covered(entries)'
           /\ \A e \in DOMAIN entries' :
                 entries'[e].uid # LinkedTo(entries, s) =>
                    e \in DOMAIN entries /\ entries'[e].rec = entries[e].rec
                    /\ entries'[e].res = entries[e].res /\ entries'[e].uid = entries[e].uid
<1> DEFINE u == LinkedTo(entries, s)
<1>1. entries \in Seq(Entries) /\ Numbered(entries)
  BY DEF JobsInv, JobsTyped, JobsOwn
<1>2. /\ Linked(entries, s) \in Seq(Entries) /\ Numbered(Linked(entries, s))
      /\ u \in Nat
      /\ DOMAIN entries \subseteq DOMAIN Linked(entries, s)
      /\ \A e \in DOMAIN entries :
            /\ Entry(Linked(entries, s)[e]) = Entry(entries[e])
            /\ Linked(entries, s)[e].spec = entries[e].spec
            /\ Linked(entries, s)[e].rec = entries[e].rec
            /\ Linked(entries, s)[e].res = entries[e].res
            /\ Linked(entries, s)[e].uid = entries[e].uid
            /\ entries[e].used => Linked(entries, s)[e].used /\ entries[e].uid # u
      /\ \A e \in DOMAIN Linked(entries, s) :
            e \notin DOMAIN entries => Linked(entries, s)[e].uid = u
      /\ \E e \in DOMAIN Linked(entries, s) :
            Owns([spec |-> s, uid |-> u], Linked(entries, s)[e])
  BY <1>1, LinkedKeeps
<1> HIDE DEF u
<1>3. /\ DOMAIN entries \subseteq DOMAIN entries'
      /\ \A e \in DOMAIN entries :
            /\ Entry(entries'[e]) = Entry(entries[e]) /\ entries'[e].spec = entries[e].spec
            /\ entries'[e].rec = entries[e].rec /\ entries'[e].res = entries[e].res
            /\ entries'[e].uid = entries[e].uid
            /\ entries[e].used => entries'[e].used /\ entries[e].uid # u
      /\ \A e \in DOMAIN entries' : e \notin DOMAIN entries => entries'[e].uid = u
  BY <1>2
<1>4. ASSUME NEW job, NEW e \in DOMAIN entries, Owns(job, entries[e])
      PROVE  Owns(job, entries'[e]) /\ job.uid # u
  BY <1>3, <1>4 DEF Owns
<1>5. /\ Owned(pending, entries') /\ \A i \in DOMAIN pending : pending[i].uid # u
  <2> SUFFICES ASSUME NEW i \in DOMAIN pending
               PROVE  pending[i].uid # u /\ \E e \in DOMAIN entries' : Owns(pending[i], entries'[e])
    BY DEF Owned
  <2>1. PICK e \in DOMAIN entries : Owns(pending[i], entries[e])
    BY DEF JobsInv, JobsOwn, Owned
  <2> QED
    BY <1>3, <1>4, <2>1
<1>6. /\ Owned(frames, entries') /\ \A i \in DOMAIN frames : frames[i].uid # u
  <2> SUFFICES ASSUME NEW i \in DOMAIN frames
               PROVE  frames[i].uid # u /\ \E e \in DOMAIN entries' : Owns(frames[i], entries'[e])
    BY DEF Owned
  <2>1. PICK e \in DOMAIN entries : Owns(frames[i], entries[e])
    BY DEF JobsInv, JobsOwn, Owned
  <2> QED
    BY <1>3, <1>4, <2>1
<1>7. Numbered(entries)' /\ entries' \in Seq(Entries)
  BY <1>2 DEF Numbered
<1>8. Covered(entries) => Covered(entries)'
  <2> SUFFICES ASSUME Covered(entries), NEW i \in DOMAIN file
               PROVE  \E e \in DOMAIN entries' : Entry(entries'[e]) = file[i]
    BY DEF Covered, Entry
  <2>1. PICK e \in DOMAIN entries : Entry(entries[e]) = file[i]
    BY DEF Covered
  <2> QED
    BY <1>3, <2>1
<1> QED
  BY <1>2, <1>3, <1>5, <1>6, <1>7, <1>8 DEF u

LEMMA LinkNextStep == JobsInv /\ LinkNext => JobsInv'
<1> SUFFICES ASSUME JobsInv, LinkNext PROVE JobsInv'
  OBVIOUS
<1> DEFINE s == Head(unlinked)
           job == [spec |-> s, uid |-> LinkedTo(entries, s)]
<1>1. /\ unlinked # <<>> /\ entries' = Linked(entries, s) /\ pending' = Append(pending, job)
      /\ unlinked' = Tail(unlinked)
      /\ UNCHANGED <<goal, file, demo, mode, frames, knobs, saved, updates, counts>>
  BY DEF LinkNext
<1>2. s \in Specs /\ unlinked' \in Seq(Specs) /\ pending \in Seq(Jobs)
  BY <1>1, HeadTailProperties DEF JobsInv, JobsTyped
<1> HIDE DEF s
<1>3. /\ entries' \in Seq(Entries) /\ Numbered(entries)' /\ LinkedTo(entries, s) \in Nat
      /\ Owned(pending, entries') /\ Owned(frames, entries')
      /\ \A i \in DOMAIN pending : pending[i].uid # LinkedTo(entries, s)
      /\ \A i \in DOMAIN frames : frames[i].uid # LinkedTo(entries, s)
      /\ \E e \in DOMAIN entries' : Owns(job, entries'[e])
      /\ Covered(entries) => Covered(entries)'
      /\ \A e \in DOMAIN entries' :
            entries'[e].uid # LinkedTo(entries, s) =>
               e \in DOMAIN entries /\ entries'[e].rec = entries[e].rec
               /\ entries'[e].res = entries[e].res /\ entries'[e].uid = entries[e].uid
  BY <1>1, <1>2, LinkStep
<1>4. job \in Jobs /\ job.uid = LinkedTo(entries, s)
  BY <1>2, <1>3 DEF Jobs
<1> HIDE DEF job
<1>5. /\ pending' \in Seq(Jobs) /\ Len(pending) \in Nat /\ DOMAIN pending = 1..Len(pending)
      /\ Len(pending') = Len(pending) + 1 /\ DOMAIN pending' = 1..Len(pending) + 1
      /\ \A i \in 1..Len(pending) : pending'[i] = pending[i]
      /\ pending'[Len(pending) + 1] = job
  BY <1>1, <1>2, <1>4, AppendProperties, LenProperties
<1>6. \A i \in DOMAIN pending' : i \in DOMAIN pending \/ i = Len(pending) + 1
  BY <1>5
<1>7. JobsTyped'
  BY <1>1, <1>2, <1>3, <1>5 DEF JobsInv, JobsTyped
<1>8. JobsOwn'
  <2>1. Owned(pending, entries)'
    BY <1>3, <1>5, <1>6 DEF Owned, Owns
  <2>2. Owned(frames, entries)'
    BY <1>1, <1>3 DEF Owned, Owns
  <2>3. Apart'
    <3>1. \A i, j \in DOMAIN pending' : pending'[i].uid = pending'[j].uid => i = j
      BY <1>3, <1>4, <1>5, <1>6 DEF JobsInv, JobsOwn, Apart
    <3>2. \A i \in DOMAIN frames : \A j \in DOMAIN pending' : frames[i].uid # pending'[j].uid
      BY <1>3, <1>4, <1>5, <1>6 DEF JobsInv, JobsOwn, Apart
    <3> QED
      BY <1>1, <3>1, <3>2 DEF JobsInv, JobsOwn, Apart
  <2> QED
    BY <1>3, <2>1, <2>2, <2>3 DEF JobsOwn
<1>9. JobsKeep'
  <2>1. mode # "down" /\ mode' = mode
    BY <1>1 DEF JobsInv, JobsKeep
  <2>2. Covered(entries)'
    BY <1>3, <2>1 DEF JobsInv, JobsKeep
  <2>3. Outermost'
    BY <1>1 DEF JobsInv, JobsKeep, Outermost, Unbegun
  <2>4. Progress'
    <3> SUFFICES ASSUME frames # <<>>, NEW e \in DOMAIN entries', entries'[e].uid = Top.uid
                 PROVE  Keeps(Top, entries'[e], knobs.iocost)
      BY <1>1 DEF Progress, Top, Keeps, Unbegun, InRuns, InStudy, Measured, Slow
    <3>1. Top = frames[Len(frames)] /\ Len(frames) \in DOMAIN frames
      BY TopIs DEF JobsInv, JobsTyped
    <3>2. Top.uid # LinkedTo(entries, s)
      BY <1>3, <3>1
    <3>3. e \in DOMAIN entries /\ entries'[e].rec = entries[e].rec /\ entries[e].uid = Top.uid
          /\ entries'[e].res = entries[e].res
      BY <1>3, <3>2
    <3> QED
      BY <3>3 DEF JobsInv, JobsKeep, Progress, Keeps
  <2> QED
    BY <2>1, <2>2, <2>3, <2>4 DEF JobsKeep
<1> QED
  BY <1>7, <1>8, <1>9 DEF JobsInv

LEMMA NextJobStep == JobsInv /\ NextJob => JobsInv'
<1> SUFFICES ASSUME JobsInv, NextJob PROVE JobsInv'
  OBVIOUS
<1> DEFINE job == Head(pending)
           f == Frame(job)
<1>1. /\ mode # "down" /\ frames = <<>> /\ pending # <<>>
      /\ frames' = <<f>> /\ pending' = Tail(pending)
      /\ UNCHANGED <<goal, file, demo, mode, entries, unlinked, knobs, saved, updates, counts>>
  BY DEF NextJob
<1>2. pending \in Seq(Jobs)
  BY DEF JobsInv, JobsTyped
<1>3. /\ job \in Jobs /\ pending' \in Seq(Jobs) /\ Len(pending) \in Nat \ {0}
      /\ Len(pending') = Len(pending) - 1
      /\ \A i \in 1..Len(pending') : pending'[i] = pending[i + 1]
      /\ DOMAIN pending = 1..Len(pending) /\ DOMAIN pending' = 1..Len(pending')
  BY <1>1, <1>2, HeadTailProperties, LenProperties, EmptySeq
<1>4. job = pending[1] /\ 1 \in DOMAIN pending
  BY <1>1, <1>2, <1>3
<1> HIDE DEF job
<1>5. f \in Frames /\ f.uid = job.uid /\ f.spec = job.spec /\ f.pc = "pre" /\ Unbegun(f)
  BY <1>3, FrameTyped
<1> HIDE DEF f
<1>6. frames' \in Seq(Frames) /\ Len(frames') = 1 /\ DOMAIN frames' = {1} /\ frames'[1] = f
  BY <1>1, <1>5
<1>7. Top' = f
  BY <1>6 DEF Top, Last
<1>8. JobsTyped'
  BY <1>1, <1>3, <1>6 DEF JobsInv, JobsTyped
<1>9. \A i \in DOMAIN pending' : i + 1 \in DOMAIN pending /\ i + 1 # 1 /\ i \in Nat
  BY <1>3
<1>10. JobsOwn'
  <2>1. Numbered(entries)'
    BY <1>1 DEF JobsInv, JobsOwn, Numbered
  <2>2. Owned(pending, entries)'
    BY <1>1, <1>3, <1>9 DEF JobsInv, JobsOwn, Owned, Owns
  <2>3. Owned(frames, entries)'
    <3>1. PICK e \in DOMAIN entries : Owns(job, entries[e])
      BY <1>4 DEF JobsInv, JobsOwn, Owned
    <3> QED
      BY <1>1, <1>5, <1>6, <3>1 DEF Owned, Owns
  <2>4. Apart'
    <3>1. \A i, j \in DOMAIN pending' : pending'[i].uid = pending'[j].uid => i = j
      <4> SUFFICES ASSUME NEW i \in DOMAIN pending', NEW j \in DOMAIN pending',
                          pending'[i].uid = pending'[j].uid
                   PROVE  i = j
        OBVIOUS
      <4>1. i + 1 = j + 1
        BY <1>3, <1>9 DEF JobsInv, JobsOwn, Apart
      <4> QED
        BY <1>9, <4>1
    <3>2. \A j \in DOMAIN pending' : f.uid # pending'[j].uid
      BY <1>3, <1>4, <1>5, <1>9 DEF JobsInv, JobsOwn, Apart
    <3> QED
      BY <1>6, <3>1, <3>2 DEF Apart
  <2> QED
    BY <2>1, <2>2, <2>3, <2>4 DEF JobsOwn
<1>11. JobsKeep'
  <2>1. mode' # "down"
    BY <1>1
  <2>2. Covered(entries)'
    BY <1>1 DEF JobsInv, JobsKeep, Covered
  <2>3. Outermost'
    BY <1>6 DEF Outermost, Unbegun
  <2>4. Progress'
    BY <1>5, <1>7 DEF Progress, Keeps, Unbegun
  <2> QED
    BY <2>1, <2>2, <2>3, <2>4 DEF JobsKeep
<1> QED
  BY <1>8, <1>10, <1>11 DEF JobsInv

LEMMA Nesting ==
    ASSUME NEW S, NEW s \in Seq(S), s # <<>>, NEW x \in S, NEW y \in S
    PROVE  /\ Front(s) \o <<x, y>> \in Seq(S)
           /\ Len(Front(s) \o <<x, y>>) = Len(s) + 1
           /\ DOMAIN (Front(s) \o <<x, y>>) = 1..Len(s) + 1
           /\ \A i \in 1..Len(s) - 1 : (Front(s) \o <<x, y>>)[i] = s[i]
           /\ (Front(s) \o <<x, y>>)[Len(s)] = x
           /\ (Front(s) \o <<x, y>>)[Len(s) + 1] = y
<1> DEFINE t == <<x, y>>
           r == Front(s) \o t
<1>1. /\ Len(s) \in Nat \ {0} /\ Front(s) \in Seq(S) /\ Len(Front(s)) = Len(s) - 1
      /\ \A i \in 1..Len(s) - 1 : Front(s)[i] = s[i]
  BY LastOff
<1>2. t \in Seq(S) /\ Len(t) = 2 /\ t[1] = x /\ t[2] = y
  OBVIOUS
<1> HIDE DEF t
<1>3. /\ r \in Seq(S) /\ Len(r) = Len(Front(s)) + Len(t)
      /\ \A i \in 1..Len(Front(s)) + Len(t) :
            r[i] = IF i <= Len(Front(s)) THEN Front(s)[i] ELSE t[i - Len(Front(s))]
  BY <1>1, <1>2, ConcatProperties
<1> HIDE DEF r
<1>4. Len(r) = Len(s) + 1 /\ DOMAIN r = 1..Len(s) + 1
  BY <1>1, <1>2, <1>3, LenProperties
<1>5. \A i \in 1..Len(s) - 1 : r[i] = s[i]
  BY <1>1, <1>2, <1>3
<1>6. r[Len(s)] = x
  <2>1. r[Len(s)] = t[Len(s) - Len(Front(s))]
    BY <1>1, <1>2, <1>3
  <2> QED
    BY <1>1, <1>2, <2>1
<1>7. r[Len(s) + 1] = y
  <2>1. r[Len(s) + 1] = t[Len(s) + 1 - Len(Front(s))]
    BY <1>1, <1>2, <1>3
  <2> QED
    BY <1>1, <1>2, <2>1
<1> QED
  BY <1>3, <1>4, <1>5, <1>6, <1>7 DEF t, r

LEMMA NestStep ==
    ASSUME JobsInv, frames # <<>>, NEW s \in Specs, NEW f \in Frames,
           f.uid = Top.uid, f.spec = Top.spec, Unbegun(f), mode # "down",
           RunNested(s, f)
    PROVE  JobsInv'
<1> DEFINE job == [spec |-> s, uid |-> LinkedTo(entries, s)]
           g == Frame(job)
           n == Len(frames)
<1>1. /\ entries' = Linked(entries, s) /\ frames' = Front(frames) \o <<f, g>>
      /\ UNCHANGED <<goal, file, demo, mode, unlinked, pending, knobs, saved, updates, counts>>
  BY DEF RunNested, aside, Outer
<1>2. frames \in Seq(Frames) /\ n \in Nat \ {0} /\ DOMAIN frames = 1..n /\ Top = frames[n]
  BY TopIs DEF JobsInv, JobsTyped
<1>3. /\ entries' \in Seq(Entries) /\ Numbered(entries)' /\ LinkedTo(entries, s) \in Nat
      /\ Owned(pending, entries') /\ Owned(frames, entries')
      /\ \A i \in DOMAIN pending : pending[i].uid # LinkedTo(entries, s)
      /\ \A i \in DOMAIN frames : frames[i].uid # LinkedTo(entries, s)
      /\ \E e \in DOMAIN entries' : Owns(job, entries'[e])
      /\ Covered(entries) => Covered(entries)'
  BY <1>1, LinkStep
<1>4. job \in Jobs /\ job.uid = LinkedTo(entries, s)
  BY <1>3 DEF Jobs
<1> HIDE DEF job
<1>5. g \in Frames /\ g.uid = LinkedTo(entries, s) /\ g.spec = job.spec /\ g.pc = "pre"
      /\ g.uid = job.uid /\ Unbegun(g)
  BY <1>4, FrameTyped
<1> HIDE DEF g, n
<1>6. /\ frames' \in Seq(Frames) /\ Len(frames') = n + 1 /\ DOMAIN frames' = 1..n + 1
      /\ \A i \in 1..n - 1 : frames'[i] = frames[i]
      /\ frames'[n] = f /\ frames'[n + 1] = g
  BY <1>1, <1>2, <1>5, Nesting DEF n
<1>7. \A i \in 1..n : frames'[i].uid = frames[i].uid /\ frames'[i].spec = frames[i].spec
  <2>1. TAKE i \in 1..n
  <2>2. CASE i = n
    BY <1>2, <1>6, <2>2
  <2>3. CASE i # n
    BY <1>2, <1>6, <2>3
  <2> QED
    BY <2>2, <2>3
<1>8. \A i \in DOMAIN frames' : i \in 1..n \/ i = n + 1
  BY <1>2, <1>6
<1>9. Top' = g
  BY <1>6 DEF Top, Last
<1>10. JobsTyped'
  BY <1>1, <1>3, <1>6 DEF JobsInv, JobsTyped
<1>11. JobsOwn'
  <2>1. Owned(pending, entries)'
    BY <1>1, <1>3 DEF Owned, Owns
  <2>2. Owned(frames, entries)'
    <3> SUFFICES ASSUME NEW i \in DOMAIN frames'
                 PROVE  \E e \in DOMAIN entries' : Owns(frames'[i], entries'[e])
      BY DEF Owned, Owns
    <3>1. CASE i \in 1..n
      BY <1>2, <1>3, <1>7, <3>1 DEF Owned, Owns
    <3>2. CASE i = n + 1
      BY <1>3, <1>5, <1>6, <3>2 DEF Owns
    <3> QED
      BY <1>8, <3>1, <3>2
  <2>3. Apart'
    <3>1. \A i, j \in DOMAIN frames' : frames'[i].uid = frames'[j].uid => i = j
      <4> SUFFICES ASSUME NEW i \in DOMAIN frames', NEW j \in DOMAIN frames',
                          frames'[i].uid = frames'[j].uid
                   PROVE  i = j
        OBVIOUS
      <4>1. CASE i \in 1..n /\ j \in 1..n
        BY <1>2, <1>7, <4>1 DEF JobsInv, JobsOwn, Apart
      <4>2. CASE i = n + 1 /\ j \in 1..n
        BY <1>2, <1>3, <1>5, <1>6, <1>7, <4>2
      <4>3. CASE i \in 1..n /\ j = n + 1
        BY <1>2, <1>3, <1>5, <1>6, <1>7, <4>3
      <4> QED
        BY <1>8, <4>1, <4>2, <4>3
    <3>2. \A i \in DOMAIN frames' : \A j \in DOMAIN pending : frames'[i].uid # pending[j].uid
      <4> SUFFICES ASSUME NEW i \in DOMAIN frames', NEW j \in DOMAIN pending
                   PROVE  frames'[i].uid # pending[j].uid
        OBVIOUS
      <4>1. CASE i \in 1..n
        BY <1>2, <1>7, <4>1 DEF JobsInv, JobsOwn, Apart
      <4>2. CASE i = n + 1
        BY <1>3, <1>5, <1>6, <4>2
      <4> QED
        BY <1>8, <4>1, <4>2
    <3> QED
      BY <1>1, <3>1, <3>2 DEF JobsInv, JobsOwn, Apart
  <2> QED
    BY <1>3, <2>1, <2>2, <2>3 DEF JobsOwn
<1>12. JobsKeep'
  <2>1. mode' # "down"
    BY <1>1
  <2>2. Covered(entries)'
    BY <1>3 DEF JobsInv, JobsKeep
  <2>3. Outermost'
    <3> SUFFICES ASSUME NEW i \in 1..n PROVE Unbegun(frames'[i])
      BY <1>6, <1>8 DEF Outermost, Unbegun
    <3>1. CASE i = n
      BY <1>6, <3>1
    <3>2. CASE i # n
      <4>1. i \in 1..n - 1 /\ i \in DOMAIN frames
        BY <1>2, <3>2
      <4>2. i # Len(frames)
        BY <3>2 DEF n
      <4>3. frames'[i] = frames[i]
        BY <1>6, <4>1
      <4> QED
        BY <4>1, <4>2, <4>3 DEF JobsInv, JobsKeep, Outermost, Unbegun
    <3> QED
      BY <3>1, <3>2
  <2>4. Progress'
    BY <1>5, <1>9 DEF Progress, Keeps, Unbegun
  <2> QED
    BY <2>1, <2>2, <2>3, <2>4 DEF JobsKeep
<1> QED
  BY <1>10, <1>11, <1>12 DEF JobsInv

(* What is written has every entry, as it is.                              *)
LEMMA SavedAre ==
    ASSUME NEW es \in Seq(Entries)
    PROVE  /\ SaveResults(es) \in Seq(FileEntries) /\ DOMAIN SaveResults(es) = DOMAIN es
           /\ \A i \in DOMAIN es : SaveResults(es)[i] = Entry(es[i])
<1>1. Len(es) \in Nat /\ DOMAIN es = 1..Len(es) /\ \A i \in DOMAIN es : es[i] \in Entries
  BY ElementOfSeq, LenProperties
<1>2. \A i \in 1..Len(es) : Entry(es[i]) \in FileEntries
  BY <1>1 DEF Entry, Entries, FileEntries
<1>3. SaveResults(es) = [i \in 1..Len(es) |-> Entry(es[i])]
  BY <1>1 DEF SaveResults
<1>4. SaveResults(es) \in Seq(FileEntries)
  BY <1>1, <1>2, <1>3
<1> QED
  BY <1>1, <1>3, <1>4

LEMMA RunAdded ==
    ASSUME NEW rec \in Made, NEW r \in Int
    PROVE  /\ [rec EXCEPT !.inc = Append(@, r)] \in Made
           /\ Measured(rec) \subseteq Measured([rec EXCEPT !.inc = Append(@, r)])
<1>1. rec.inc \in Seq(Int)
  BY DEF Made
<1>2. /\ Append(rec.inc, r) \in Seq(Int) /\ DOMAIN rec.inc = 1..Len(rec.inc) /\ Len(rec.inc) \in Nat
      /\ DOMAIN Append(rec.inc, r) = 1..Len(rec.inc) + 1
      /\ \A i \in 1..Len(rec.inc) : Append(rec.inc, r)[i] = rec.inc[i]
      /\ Append(rec.inc, r)[Len(rec.inc) + 1] = r
  BY <1>1, AppendProperties, LenProperties
<1>3. Range(rec.inc) \subseteq Range(Append(rec.inc, r))
  <2> SUFFICES ASSUME NEW x \in Range(rec.inc) PROVE x \in Range(Append(rec.inc, r))
    OBVIOUS
  <2>1. PICK i \in 1..Len(rec.inc) : x = rec.inc[i]
    BY <1>2 DEF Range
  <2>2. i \in 1..Len(rec.inc) + 1
    BY <1>2
  <2> QED
    BY <1>2, <2>1, <2>2 DEF Range
<1>4. [rec EXCEPT !.inc = Append(@, r)].inc = Append(rec.inc, r)
      /\ [rec EXCEPT !.inc = Append(@, r)].runs = rec.runs
      /\ [rec EXCEPT !.inc = Append(@, r)] \in Made
  BY <1>2 DEF Made
<1> QED
  BY <1>3, <1>4 DEF Measured

(* The entry of the running job changed in place.                          *)
LEMMA EntryChanged ==
    ASSUME JobsInv, frames # <<>>, NEW e0 \in Entries, e0.uid = Stored.uid, e0.used,
           e0.spec.kind = Stored.spec.kind, e0.spec.id = Stored.spec.id,
           NEW es, es = [entries EXCEPT ![Mine] = e0]
    PROVE  /\ es \in Seq(Entries) /\ DOMAIN es = DOMAIN entries /\ Len(es) = Len(entries)
           /\ \A e \in DOMAIN entries : es[e] = IF e = Mine THEN e0 ELSE entries[e]
           /\ Numbered(es) /\ Owned(pending, es) /\ Owned(frames, es)
<1>1. /\ Mine \in DOMAIN entries /\ Stored = entries[Mine] /\ entries \in Seq(Entries)
      /\ Numbered(entries) /\ Owned(pending, entries) /\ Owned(frames, entries)
  BY OwnEntry DEF JobsInv, JobsOwn, JobsTyped
<1>2. es \in Seq(Entries) /\ DOMAIN es = DOMAIN entries /\ Len(es) = Len(entries)
  BY <1>1, ExceptSeq, LenProperties
<1>3. \A e \in DOMAIN entries : es[e] = IF e = Mine THEN e0 ELSE entries[e]
  BY <1>1
<1>4. \A e \in DOMAIN entries : es[e].uid = entries[e].uid
  BY <1>1, <1>3
<1>5. Numbered(es)
  BY <1>1, <1>2, <1>4 DEF Numbered
<1>6. ASSUME NEW job, NEW e \in DOMAIN entries, Owns(job, entries[e]) PROVE Owns(job, es[e])
  BY <1>1, <1>3, <1>6 DEF Owns
<1>7. Owned(pending, es) /\ Owned(frames, es)
  BY <1>1, <1>2, <1>6 DEF Owned
<1> QED
  BY <1>2, <1>3, <1>5, <1>7

\* Every entry of the file is still there after the step, nothing of it lost.
NoneForgotten == torn' \/ \A i \in DOMAIN file : \E j \in DOMAIN file' : Kept(file[i], file'[j])

LEMMA FileLeft == UNCHANGED file => NoneForgotten
BY DEF NoneForgotten, Kept

(* What is written, when the entries are the ones there were, one replaced *)
(* by a later one.                                                         *)
LEMMA NoneLost ==
    ASSUME JobsInv, mode # "down", NEW es \in Seq(Entries), NEW m \in DOMAIN entries,
           \A e \in DOMAIN entries : e # m => \E d \in DOMAIN es : es[d] = entries[e],
           \E d \in DOMAIN es : Kept(Entry(entries[m]), Entry(es[d])),
           file' = SaveResults(es)
    PROVE  NoneForgotten
<1> SUFFICES ASSUME NEW i \in DOMAIN file
             PROVE  \E j \in DOMAIN file' : Kept(file[i], file'[j])
  BY DEF NoneForgotten
<1>1. PICK e \in DOMAIN entries : Entry(entries[e]) = file[i]
  BY DEF JobsInv, JobsKeep, Covered
<1>2. DOMAIN file' = DOMAIN es /\ \A d \in DOMAIN es : file'[d] = Entry(es[d])
  BY SavedAre
<1>3. CASE e = m
  BY <1>1, <1>2, <1>3
<1>4. CASE e # m
  <2>1. PICK d \in DOMAIN es : es[d] = entries[e]
    BY <1>4
  <2>2. file'[d] = file[i]
    BY <1>1, <1>2, <2>1
  <2>3. Kept(file[i], file'[d])
    BY <2>2 DEF Kept
  <2> QED
    BY <1>2, <2>3
<1> QED
  BY <1>3, <1>4

(* One more run of iocost-qos, and the checkpoint after it.                *)
LEMMA QosRunStep == JobsInv /\ QosRun => JobsInv' /\ NoneForgotten
<1> SUFFICES ASSUME JobsInv, QosRun PROVE JobsInv' /\ NoneForgotten
  OBVIOUS
<1> DEFINE rec == [Top.prev EXCEPT !.inc = Append(@, Target)]
           f == [Push(Target) EXCEPT !.prev = rec]
           e0 == [Stored EXCEPT !.rec = rec]
           es == [entries EXCEPT ![Mine].rec = rec]
<1>1. /\ mode # "down" /\ frames # <<>> /\ Top.pc = "runs"
      /\ Top.next <= Len(Top.spec.runs)
      /\ SetTop(f) /\ entries' = es /\ file' = SaveResults(es)
      /\ UNCHANGED <<goal, demo, mode, unlinked, pending, knobs, saved, updates, counts>>
  BY DEF QosRun, AtRun, At, Save
<1>2. /\ Top \in Frames /\ Mine \in DOMAIN entries /\ Owns(Top, Stored) /\ Stored = entries[Mine]
      /\ Stored \in Entries /\ Keeps(Top, Stored, knobs.iocost)
      /\ \A e \in DOMAIN entries : entries[e].uid = Top.uid => e = Mine
  BY <1>1, OwnEntry
<1>3. /\ Top.spec.kind = "iocost-qos" /\ Top.prev \in Made
      /\ Measured(Stored.rec) \subseteq Measured(Top.prev)
      /\ Top.next = Len(Top.runs) + 1
      /\ \A k \in 1..Len(Top.runs) :
            Top.spec.runs[k] \notin Slow(Top.spec, knobs.iocost) =>
               Top.runs[k] \in {Top.spec.runs[k], 0 - Top.spec.runs[k]}
  BY <1>1, <1>2 DEF Keeps, InRuns
<1>4. Top.runs \in Seq(Int) /\ Top.spec.runs \in Seq(Nat \ {0}) /\ Top.spec \in Specs
  BY <1>2 DEF Frames, Specs
<1>5. /\ Len(Top.runs) \in Nat /\ Top.next \in Nat /\ Top.next \in 1..Len(Top.spec.runs)
      /\ Len(Top.spec.runs) \in Nat
  BY <1>1, <1>3, <1>4, LenProperties
<1>6. Target \in Int /\ Target \in {Run, 0 - Run}
  <2>1. Run \in Nat \ {0}
    BY <1>4, <1>5, ElementOfSeq DEF Run
  <2> QED
    BY <2>1 DEF Target
<1>7. rec \in Made /\ Measured(Top.prev) \subseteq Measured(rec)
  BY <1>3, <1>6, RunAdded
<1> HIDE DEF rec
<1>8. /\ Append(Top.runs, Target) \in Seq(Int)
      /\ Len(Append(Top.runs, Target)) = Len(Top.runs) + 1
      /\ \A k \in 1..Len(Top.runs) : Append(Top.runs, Target)[k] = Top.runs[k]
      /\ Append(Top.runs, Target)[Len(Top.runs) + 1] = Target
  BY <1>4, <1>6, AppendProperties
<1>9. /\ f \in Frames /\ f.uid = Top.uid /\ f.spec = Top.spec /\ f.pc = Top.pc /\ f.prev = rec
      /\ f.runs = Append(Top.runs, Target) /\ f.next = Top.next + 1
  <2>1. /\ f = [Top EXCEPT !.runs = Append(Top.runs, Target), !.next = Top.next + 1, !.prev = rec]
        /\ rec \in Recs /\ Top.next + 1 \in Nat
    BY <1>2, <1>5, <1>7 DEF Push, Recs, Frames
  <2> HIDE DEF f
  <2> QED
    BY <1>2, <1>8, <2>1 DEF Frames
<1> HIDE DEF f
<1>10. InRuns(f, rec, knobs.iocost)
  <2>1. Len(f.runs) = Len(Top.runs) + 1 /\ f.next = Len(f.runs) + 1
        /\ f.next <= Len(f.spec.runs) + 1
    BY <1>3, <1>5, <1>8, <1>9
  <2>2. ASSUME NEW k \in 1..Len(f.runs)
        PROVE  f.spec.runs[k] \notin Slow(f.spec, knobs.iocost) =>
                  f.runs[k] \in {f.spec.runs[k], 0 - f.spec.runs[k]}
    <3>1. k \in 1..Len(Top.runs) \/ k = Len(Top.runs) + 1
      BY <1>5, <2>1
    <3>2. CASE k \in 1..Len(Top.runs)
      BY <1>1, <1>3, <1>7, <1>8, <1>9, <3>2
    <3>3. CASE k = Len(Top.runs) + 1
      BY <1>3, <1>6, <1>8, <1>9, <3>3 DEF Run
    <3> QED
      BY <3>1, <3>2, <3>3
  <2>3. f.spec.kind = "iocost-qos" /\ f.prev \in Made
    BY <1>3, <1>7, <1>9
  <2>4. Measured(Stored.rec) \subseteq Measured(f.prev) /\ Measured(rec) \subseteq Measured(f.prev)
    BY <1>3, <1>7, <1>9
  <2> QED
    BY <2>1, <2>2, <2>3, <2>4, Zenon DEF InRuns
<1>11. /\ e0 \in Entries /\ e0.uid = Stored.uid /\ e0.used /\ e0.spec = Stored.spec /\ e0.rec = rec
      /\ e0.res = Stored.res
  <2>1. rec \in Recs /\ rec # NoRec
    BY <1>7 DEF Recs, Made, NoRec
  <2> QED
    BY <1>2, <2>1 DEF Entries, Owns
<1>12. es = [entries EXCEPT ![Mine] = e0]
  BY <1>2
<1> HIDE DEF es, e0
<1>13. /\ es \in Seq(Entries) /\ DOMAIN es = DOMAIN entries /\ Len(es) = Len(entries)
       /\ \A e \in DOMAIN entries : es[e] = IF e = Mine THEN e0 ELSE entries[e]
       /\ Numbered(es) /\ Owned(pending, es) /\ Owned(frames, es)
  BY <1>1, <1>11, <1>12, EntryChanged
<1>14. /\ frames' \in Seq(Frames) /\ frames' # <<>> /\ Len(frames') = Len(frames)
       /\ DOMAIN frames' = DOMAIN frames /\ Top' = f
       /\ \A i \in DOMAIN frames : frames'[i] = IF i = Len(frames) THEN f ELSE frames[i]
       /\ Top = frames[Len(frames)] /\ Len(frames) \in DOMAIN frames
  BY <1>1, <1>9, TopSet
<1>15. \A i \in DOMAIN frames : frames'[i].uid = frames[i].uid /\ frames'[i].spec = frames[i].spec
  BY <1>9, <1>14
<1>16. /\ SaveResults(es) \in Seq(FileEntries) /\ DOMAIN SaveResults(es) = DOMAIN es
       /\ \A i \in DOMAIN es : SaveResults(es)[i] = Entry(es[i])
  BY <1>13, SavedAre
<1>17. JobsTyped'
  BY <1>1, <1>13, <1>14, <1>16 DEF JobsInv, JobsTyped, FileEntries
<1>18. JobsOwn'
  <2>1. Numbered(entries)' /\ Owned(pending, entries)'
    BY <1>1, <1>13 DEF Numbered, Owned, Owns
  <2>2. Owned(frames, entries)'
    BY <1>1, <1>13, <1>14, <1>15 DEF Owned, Owns
  <2>3. Apart'
    BY <1>1, <1>14, <1>15 DEF JobsInv, JobsOwn, Apart
  <2> QED
    BY <2>1, <2>2, <2>3 DEF JobsOwn
<1>19. JobsKeep'
  <2>1. mode' # "down"
    BY <1>1
  <2>2. Covered(entries)'
    BY <1>1, <1>16 DEF Covered, Entry
  <2>3. Outermost'
    BY <1>14 DEF JobsInv, JobsKeep, Outermost, Unbegun
  <2>4. Progress'
    <3> SUFFICES ASSUME NEW e \in DOMAIN es, es[e].uid = f.uid
                 PROVE  Keeps(f, es[e], knobs.iocost)
      BY <1>1, <1>14 DEF Progress, Keeps, Unbegun, InRuns, InStudy, Measured, Slow
    <3>1. e = Mine
      BY <1>2, <1>9, <1>11, <1>13
    <3> QED
      BY <1>1, <1>2, <1>9, <1>10, <1>11, <1>13, <3>1 DEF Keeps
  <2> QED
    BY <2>1, <2>2, <2>3, <2>4 DEF JobsKeep
<1>20. NoneForgotten
  <2>1. Kept(Entry(Stored), Entry(e0))
    <3>1. e0.rec # NoRec
      BY <1>7, <1>11 DEF Made, NoRec
    <3>2. ~Params(Stored.spec.kind)
      BY <1>2, <1>3 DEF Owns, Params
    <3>3. Measured(Stored.rec) \subseteq Measured(e0.rec)
      BY <1>3, <1>7, <1>11
    <3> QED
      BY <1>11, <3>1, <3>2, <3>3 DEF Kept, Entry
  <2>2. \A e \in DOMAIN entries : e # Mine => es[e] = entries[e] /\ e \in DOMAIN es
    BY <1>13
  <2>3. es[Mine] = e0 /\ Mine \in DOMAIN es
    BY <1>2, <1>13
  <2> QED
    BY <1>1, <1>2, <1>13, <2>1, <2>2, <2>3, NoneLost
<1> QED
  BY <1>17, <1>18, <1>19, <1>20 DEF JobsInv

LEMMA StudiedTyped ==
    ASSUME NEW ok \in BOOLEAN, Top.res \in BOOLEAN, Top.studied \in BOOLEAN
    PROVE  Studied(ok) \in BOOLEAN
<1>1. CASE mode = "solve"
  BY <1>1, Zenon DEF Studied
<1>2. CASE mode # "solve" /\ Top.spec.kind = "iocost-tune"
  BY <1>2, Zenon DEF Studied
<1>3. CASE mode # "solve" /\ Top.spec.kind # "iocost-tune"
  BY <1>3, Zenon DEF Studied
<1> QED
  BY <1>1, <1>2, <1>3

LEMMA AppliedTyped ==
    ASSUME knobs \in Knobs, demo \in Knobs, Top.rec.base \in Nat
    PROVE  Applied \in Knobs /\ Committed \in Knobs
<1>1. Applied \in Knobs
  <2>1. CASE ~Applies
    BY <2>1 DEF Applied
  <2>2. CASE Applies /\ Top.spec.kind = "iocost-params"
    <3>1. Applied = [knobs EXCEPT !["iocost"] = Top.rec.base]
      BY <2>2 DEF Applied, KnobOf
    <3> QED
      BY <3>1 DEF Knobs
  <2>3. CASE Applies /\ Top.spec.kind # "iocost-params"
    <3>1. Applied = [knobs EXCEPT !["hashd"] = Top.rec.base]
      BY <2>3 DEF Applied, KnobOf
    <3> QED
      BY <3>1 DEF Knobs
  <2> QED
    BY <2>1, <2>2, <2>3
<1> QED
  BY <1>1 DEF Committed

(* Entries in another order are the same entries.                          *)
LEMMA Reordered ==
    ASSUME NEW es \in Seq(Entries), NEW p \in [DOMAIN es -> DOMAIN es],
           \A i, j \in DOMAIN es : p[i] = p[j] => i = j,
           \A d \in DOMAIN es : \E i \in DOMAIN es : p[i] = d,
           NEW us, us = [i \in DOMAIN es |-> es[p[i]]]
    PROVE  /\ us \in Seq(Entries) /\ DOMAIN us = DOMAIN es
           /\ \A e \in DOMAIN es : \E d \in DOMAIN us : us[d] = es[e]
           /\ Numbered(es) => Numbered(us)
           /\ \A jobs : Owned(jobs, es) => Owned(jobs, us)
<1>1. Len(es) \in Nat /\ DOMAIN es = 1..Len(es) /\ \A i \in DOMAIN es : es[i] \in Entries
  BY ElementOfSeq, LenProperties
<1>2. \A i \in DOMAIN es : p[i] \in DOMAIN es /\ es[p[i]] \in Entries
  BY <1>1
<1>3. us \in Seq(Entries) /\ DOMAIN us = DOMAIN es /\ Len(us) = Len(es)
  BY <1>1, <1>2
<1>4. \A e \in DOMAIN es : \E d \in DOMAIN us : us[d] = es[e]
  BY <1>3
<1>5. Numbered(es) => Numbered(us)
  <2> SUFFICES ASSUME Numbered(es) PROVE Numbered(us)
    OBVIOUS
  <2>1. \A i \in DOMAIN us : us[i].uid = es[p[i]].uid /\ p[i] \in DOMAIN es
    BY <1>2, <1>3
  <2>2. \A i \in DOMAIN us : us[i].uid <= Len(us)
    BY <1>3, <2>1 DEF Numbered
  <2>3. \A d, e \in DOMAIN us : us[d].uid = us[e].uid => d = e
    <3> SUFFICES ASSUME NEW d \in DOMAIN us, NEW e \in DOMAIN us, us[d].uid = us[e].uid
                 PROVE  d = e
      OBVIOUS
    <3>1. p[d] = p[e]
      BY <2>1 DEF Numbered
    <3> QED
      BY <1>3, <3>1
  <2> QED
    BY <2>2, <2>3 DEF Numbered
<1>6. \A jobs : Owned(jobs, es) => Owned(jobs, us)
  BY ZenonT(60), <1>4 DEF Owned
<1> QED
  BY <1>3, <1>4, <1>5, <1>6

(* The entries once the running job is over: its own has its record, and   *)
(* the order may be another one.                                           *)
LEMMA UpdatedIs ==
    ASSUME JobsInv, frames # <<>>, Top.pc = "study", NEW ok \in BOOLEAN
    PROVE  /\ Updated(ok) \in Seq(Entries) /\ Numbered(Updated(ok))
           /\ Owned(pending, Updated(ok)) /\ Owned(frames, Updated(ok))
           /\ \A e \in DOMAIN entries : e # Mine => \E d \in DOMAIN Updated(ok) : Updated(ok)[d] = entries[e]
           /\ \E d \in DOMAIN Updated(ok) : Kept(Entry(entries[Mine]), Entry(Updated(ok)[d]))
<1> DEFINE e0 == [Stored EXCEPT !.spec = Top.spec, !.rec = Top.rec,
                                !.res = Top.res \/ Studied(ok), !.seq = updates]
           es == [entries EXCEPT ![Mine].spec = Top.spec, ![Mine].rec = Top.rec,
                                 ![Mine].res = Top.res \/ Studied(ok), ![Mine].seq = updates]
<1>1. /\ Top \in Frames /\ Mine \in DOMAIN entries /\ Owns(Top, Stored) /\ Stored = entries[Mine]
      /\ Stored \in Entries /\ Keeps(Top, Stored, knobs.iocost)
  BY OwnEntry
<1>2. InStudy(Top, Stored.rec, Stored.res)
  BY <1>1 DEF Keeps
<1>3. (Top.res \/ Studied(ok)) \in BOOLEAN
  <2>1. Top.res \in BOOLEAN /\ Top.studied \in BOOLEAN
    BY <1>1 DEF Frames
  <2> QED
    BY <2>1, StudiedTyped
<1>4. updates \in Nat
  BY DEF JobsInv, JobsTyped
<1>5. Top.spec \in Specs /\ Top.rec \in Recs
  BY <1>1 DEF Frames
<1>6. /\ e0 \in Entries /\ e0.uid = Stored.uid /\ e0.used /\ e0.spec = Top.spec /\ e0.rec = Top.rec
      /\ e0.spec.kind = Stored.spec.kind /\ e0.spec.id = Stored.spec.id
      /\ e0.res = (Top.res \/ Studied(ok))
  <2>1. Top.rec # NoRec
    BY <1>2 DEF InStudy, Made, NoRec
  <2> QED
    BY <1>1, <1>3, <1>4, <1>5, <2>1 DEF Entries, Owns
<1>7. es = [entries EXCEPT ![Mine] = e0]
  BY <1>1
<1>8. Updated(ok) = IF Studying THEN es ELSE SortedBySeq(es)
  BY DEF Updated
<1>9. Kept(Entry(Stored), Entry(e0))
  <2>1. e0.rec # NoRec
    BY <1>2, <1>6 DEF InStudy, Made, NoRec
  <2>2. Params(Stored.spec.kind) => Stored.rec = NoRec \/ e0.rec = Stored.rec
    BY <1>1, <1>2, <1>6 DEF InStudy, Owns
  <2>3. Stored.res => e0.res \/ Incremental(Stored.spec.kind)
    BY <1>1, <1>2, <1>6 DEF InStudy, Owns
  <2>4. \A r \in Range(e0.spec.runs) \ Slow(e0.spec, e0.rec.base) :
           r \in Measured(Stored.rec) => r \in Measured(e0.rec)
    BY <1>2, <1>6 DEF InStudy, Range
  <2> QED
    BY <1>6, <2>1, <2>2, <2>3, <2>4 DEF Kept, Entry
<1> HIDE DEF es, e0
<1>10. /\ es \in Seq(Entries) /\ DOMAIN es = DOMAIN entries
       /\ \A e \in DOMAIN entries : es[e] = IF e = Mine THEN e0 ELSE entries[e]
       /\ Numbered(es) /\ Owned(pending, es) /\ Owned(frames, es)
  BY <1>6, <1>7, EntryChanged
<1>11. /\ \A e \in DOMAIN entries : e # Mine => es[e] = entries[e]
       /\ es[Mine] = e0
  BY <1>1, <1>10
<1>12. CASE Studying
  <2>1. Updated(ok) = es
    BY <1>8, <1>12
  <2> QED
    BY <1>1, <1>9, <1>10, <1>11, <2>1
<1>13. CASE ~Studying
  <2>1. Updated(ok) = SortedBySeq(es)
    BY <1>8, <1>13
  <2>2. \A d \in DOMAIN es : es[d].seq \in Nat
    <3>1. \A d \in DOMAIN es : es[d] \in Entries
      BY <1>10, ElementOfSeq, LenProperties
    <3> QED
      BY <3>1 DEF Entries
  <2>3. PICK p \in [DOMAIN es -> DOMAIN es] :
               /\ \A i, j \in DOMAIN es : p[i] = p[j] => i = j
               /\ \A d \in DOMAIN es : \E i \in DOMAIN es : p[i] = d
               /\ SortedBySeq(es) = [i \in DOMAIN es |-> es[p[i]]]
    BY <1>10, <2>2, SortMoves
  <2>4. /\ Updated(ok) \in Seq(Entries) /\ DOMAIN Updated(ok) = DOMAIN es
        /\ \A e \in DOMAIN es : \E d \in DOMAIN Updated(ok) : Updated(ok)[d] = es[e]
        /\ Numbered(es) => Numbered(Updated(ok))
        /\ \A jobs : Owned(jobs, es) => Owned(jobs, Updated(ok))
    <3>1. Updated(ok) = [i \in DOMAIN es |-> es[p[i]]]
      BY <2>1, <2>3
    <3>2. es \in Seq(Entries)
      BY <1>10
    <3> QED
      BY <2>3, <3>1, <3>2, Reordered
  <2>5. \E d \in DOMAIN Updated(ok) : Updated(ok)[d] = e0
    BY <1>1, <1>10, <1>11, <2>4
  <2> QED
    BY <1>1, <1>9, <1>10, <1>11, <2>4, <2>5
<1> QED
  BY <1>12, <1>13

(* The nested job is over, or the last one: the job under it goes on.      *)
LEMMA FramesBut ==
    ASSUME JobsInv, frames # <<>>
    PROVE  /\ Outer \in Seq(Frames) /\ DOMAIN Outer = 1..Len(frames) - 1
           /\ Len(Outer) = Len(frames) - 1
           /\ \A i \in DOMAIN Outer : i \in DOMAIN frames /\ i # Len(frames) /\ Outer[i] = frames[i]
<1>1. frames \in Seq(Frames)
  BY DEF JobsInv, JobsTyped
<1>2. /\ Len(frames) \in Nat \ {0} /\ Front(frames) \in Seq(Frames)
      /\ Len(Front(frames)) = Len(frames) - 1
      /\ \A i \in 1..Len(frames) - 1 : Front(frames)[i] = frames[i]
  BY <1>1, LastOff
<1>3. DOMAIN Front(frames) = 1..Len(frames) - 1 /\ DOMAIN frames = 1..Len(frames)
  BY <1>1, <1>2, LenProperties
<1> QED
  BY <1>2, <1>3 DEF Outer

LEMMA StudyStep == JobsInv /\ Study => JobsInv' /\ NoneForgotten
<1> SUFFICES ASSUME JobsInv, Study PROVE JobsInv' /\ NoneForgotten
  OBVIOUS
<1>1. PICK ok \in BOOLEAN : Benchmark(ok) /\ Conclude(ok)
  BY DEF Study
<1>2. mode # "down" /\ frames # <<>> /\ Top.pc = "study" /\ goal' = goal
  BY DEF Study, At
<1> DEFINE us == Updated(ok)
<1>3. /\ us \in Seq(Entries) /\ Numbered(us) /\ Owned(pending, us) /\ Owned(frames, us)
      /\ \A e \in DOMAIN entries : e # Mine => \E d \in DOMAIN us : us[d] = entries[e]
      /\ \E d \in DOMAIN us : Kept(Entry(entries[Mine]), Entry(us[d]))
  BY <1>2, UpdatedIs
<1>4. /\ Mine \in DOMAIN entries /\ Top \in Frames /\ InStudy(Top, Stored.rec, Stored.res)
  BY <1>2, OwnEntry DEF Keeps
<1>5. demo' = Committed /\ file' = SaveResults(us)
  BY <1>1 DEF Conclude
<1>6. /\ Studied(ok) => /\ entries' = us /\ updates' = updates + 1 /\ frames' = Outer
                        /\ knobs' = (IF Top.revert THEN saved ELSE Applied)
                        /\ UNCHANGED <<mode, unlinked, pending, saved>>
      /\ ~Studied(ok) => Down
  BY <1>1 DEF Conclude
<1> HIDE DEF us
<1>7. NoneForgotten
  BY <1>2, <1>3, <1>4, <1>5, NoneLost
<1>8. /\ SaveResults(us) \in Seq(FileEntries) /\ DOMAIN SaveResults(us) = DOMAIN us
      /\ \A i \in DOMAIN us : SaveResults(us)[i] = Entry(us[i])
  BY <1>3, SavedAre
<1>9. Applied \in Knobs /\ Committed \in Knobs
  <2>1. Top.rec.base \in Nat
    BY <1>4 DEF InStudy, Made
  <2> QED
    BY <2>1, AppliedTyped DEF JobsInv, JobsTyped
<1>10. counts' \in Counts
  BY CountsTyped DEF JobsNext, Steps, JobsInv
<1>11. CASE ~Studied(ok)
  BY <1>2, <1>5, <1>6, <1>7, <1>8, <1>9, <1>10, <1>11, JobsDown
<1>12. CASE Studied(ok)
  <2>1. /\ entries' = us /\ updates' = updates + 1 /\ frames' = Outer
        /\ knobs' = (IF Top.revert THEN saved ELSE Applied)
        /\ UNCHANGED <<mode, unlinked, pending, saved>>
    BY <1>6, <1>12
  <2>2. /\ Outer \in Seq(Frames) /\ DOMAIN Outer = 1..Len(frames) - 1
        /\ Len(Outer) = Len(frames) - 1
        /\ \A i \in DOMAIN Outer : i \in DOMAIN frames /\ i # Len(frames) /\ Outer[i] = frames[i]
    BY <1>2, FramesBut
  <2>3. JobsTyped'
    <3>1. knobs' \in Knobs /\ demo' \in Knobs
      BY <1>5, <1>9, <2>1 DEF JobsInv, JobsTyped
    <3> QED
      BY <1>2, <1>3, <1>5, <1>8, <1>10, <2>1, <2>2, <3>1 DEF JobsInv, JobsTyped, FileEntries, Counts
  <2>4. JobsOwn'
    <3>1. Numbered(entries)' /\ Owned(pending, entries)'
      BY <1>3, <2>1 DEF Numbered, Owned, Owns
    <3>2. Owned(frames, entries)'
      BY <1>3, <2>1, <2>2 DEF Owned, Owns
    <3>3. Apart'
      BY <2>1, <2>2 DEF JobsInv, JobsOwn, Apart
    <3> QED
      BY <3>1, <3>2, <3>3 DEF JobsOwn
  <2>5. JobsKeep'
    <3>1. mode' # "down"
      BY <1>2, <2>1
    <3>2. Covered(entries)'
      BY <1>5, <1>8, <2>1 DEF Covered, Entry
    <3>3. \A i \in DOMAIN frames' : Unbegun(frames'[i])
      BY <2>1, <2>2 DEF JobsInv, JobsKeep, Outermost
    <3>4. Outermost'
      BY <3>3 DEF Outermost, Unbegun
    <3>5. Progress'
      <4> SUFFICES ASSUME frames' # <<>> PROVE Unbegun(Top')
        BY DEF Progress, Keeps, Unbegun
      <4>1. frames' \in Seq(Frames)
        BY <2>1, <2>2
      <4>2. Len(frames') \in DOMAIN frames'
        BY <4>1, EmptySeq, LenProperties
      <4>3. Top' = frames'[Len(frames')]
        BY DEF Top, Last
      <4> QED
        BY <3>3, <4>2, <4>3
    <3> QED
      BY <3>1, <3>2, <3>4, <3>5 DEF JobsKeep
  <2> QED
    BY <1>7, <2>3, <2>4, <2>5 DEF JobsInv
<1> QED
  BY <1>11, <1>12

LEMMA GreatestOf ==
    ASSUME NEW m \in Nat, NEW T \in SUBSET (1..m), T # {}
    PROVE  Max(T) \in T
<1> DEFINE R == {m - x : x \in T}
<1>1. R \in SUBSET Nat /\ R # {}
  <2>1. \A x \in T : m - x \in Nat
    OBVIOUS
  <2> QED
    BY <2>1
<1>2. PICK j \in R : \A k \in R : <<k, j>> \notin OpToRel(<, Nat)
  BY <1>1, NatLessThanWellFounded, WFMin
<1>3. PICK x \in T : j = m - x
  BY <1>2
<1>4. \A y \in T : x >= y
  <2>1. TAKE y \in T
  <2>2. m - y \in R /\ m - y \in Nat /\ j \in Nat
    BY <1>1, <1>2
  <2>3. ~ (m - y < j)
    BY <1>2, <2>2 DEF OpToRel
  <2> QED
    BY <1>3, <2>2, <2>3
<1>5. (CHOOSE z \in T : \A y \in T : z >= y) \in T
  BY <1>3, <1>4
<1> QED
  BY <1>5 DEF Max

LEMMA FindDoneTyped ==
    ASSUME JobsInv, frames # <<>>, NEW kind, NEW i \in FindDone(kind)
    PROVE  i \in DOMAIN entries /\ entries[i] \in Entries
<1>1. /\ Mine \in DOMAIN entries /\ entries \in Seq(Entries) /\ DOMAIN entries = 1..Len(entries)
      /\ Len(entries) \in Nat
  BY OwnEntry, LenProperties DEF JobsInv, JobsTyped
<1> DEFINE earlier == {d \in 1..(Mine - 1) : entries[d].spec.kind = kind}
<1>2. earlier # {} /\ i = Max(earlier)
  BY DEF FindDone
<1>3. Mine - 1 \in Nat /\ earlier \in SUBSET (1..(Mine - 1))
  BY <1>1
<1> HIDE DEF earlier
<1>4. i \in 1..(Mine - 1)
  BY <1>2, <1>3, GreatestOf
<1>5. i \in DOMAIN entries
  BY <1>1, <1>4
<1> QED
  BY <1>1, <1>5, ElementOfSeq

LEMMA GiveUpStep == ASSUME JobsInv, GiveUp, counts' \in Counts PROVE JobsInv'
<1>1. Down /\ UNCHANGED <<goal, file, demo>>
  BY DEF GiveUp
<1>2. file' \in Seq(FileEntries) /\ demo' \in Knobs
  BY <1>1 DEF JobsInv, JobsTyped, FileEntries
<1> QED
  BY <1>1, <1>2, JobsDown

LEMMA LaunchSteps == JobsInv /\ (LaunchGoal \/ LaunchOther) => JobsInv'
<1> SUFFICES ASSUME JobsInv, LaunchGoal \/ LaunchOther PROVE JobsInv'
  OBVIOUS
<1>1. counts' \in Counts
  BY CountsTyped DEF JobsNext, JobsInv
<1>2. goal \in CmdLines
  BY DEF JobsInv, JobsTyped
<1>3. CASE LaunchGoal
  <2>1. Launch("run", goal) /\ goal \in Seq(Specs)
    BY <1>2, <1>3, BenchJobsAssumption DEF LaunchGoal
  <2> QED
    BY <1>1, <2>1, LaunchStep
<1>4. CASE LaunchOther
  <2>1. PICK o \in Others[goal] : Launch(o[1], o[2])
    BY <1>4 DEF LaunchOther
  <2>2. o \in {"run", "study", "solve"} \X Seq(Specs)
    BY <1>2, <2>1, BenchJobsAssumption
  <2>3. o[1] \in {"run", "study", "solve"} /\ o[2] \in Seq(Specs)
    BY <2>2
  <2> QED
    BY <1>1, <2>1, <2>3, LaunchStep
<1> QED
  BY <1>3, <1>4

(* Before the run: looking for the result of iocost-qos, or getting it.    *)
LEMMA PreSteps == JobsInv /\ (NoPreRun \/ FindQos \/ RunQos \/ QosNotFound) => JobsInv'
<1> SUFFICES ASSUME JobsInv, NoPreRun \/ FindQos \/ RunQos \/ QosNotFound PROVE JobsInv'
  OBVIOUS
<1>1. counts' \in Counts
  BY CountsTyped DEF JobsNext, Steps, JobsInv
<1>2. mode # "down" /\ frames # <<>> /\ Top.pc = "pre"
  BY DEF NoPreRun, FindQos, RunQos, QosNotFound, At
<1>3. Top \in Frames /\ Unbegun(Top)
  BY <1>2, OwnEntry DEF Keeps
<1>4. CASE NoPreRun
  <2> DEFINE f == [Top EXCEPT !.pc = "run"]
  <2>1. SetTop(f) /\ UNCHANGED <<aside, entries>>
    BY <1>4 DEF NoPreRun, Goto
  <2>2. f \in Frames /\ f.uid = Top.uid /\ f.spec = Top.spec /\ Keeps(f, Stored, knobs.iocost)
    BY <1>3 DEF Frames, Keeps, Unbegun
  <2> HIDE DEF f
  <2> QED
    BY <1>1, <1>2, <2>1, <2>2, TopMoves
<1>5. CASE FindQos
  <2>1. PICK i \in FindDone("iocost-qos") :
           SetTop([Top EXCEPT !.pc = "run", !.prev = entries[i].rec, !.studied = entries[i].res])
    BY <1>5 DEF FindQos
  <2> DEFINE f == [Top EXCEPT !.pc = "run", !.prev = entries[i].rec, !.studied = entries[i].res]
  <2>2. SetTop(f) /\ UNCHANGED <<aside, entries>>
    BY <1>5, <2>1 DEF FindQos
  <2>3. entries[i].rec \in Recs /\ entries[i].res \in BOOLEAN
    BY <1>2, <2>1, FindDoneTyped DEF Entries
  <2>4. f \in Frames /\ f.uid = Top.uid /\ f.spec = Top.spec /\ Keeps(f, Stored, knobs.iocost)
    BY <1>3, <2>3 DEF Frames, Keeps, Unbegun
  <2> HIDE DEF f
  <2> QED
    BY <1>1, <1>2, <2>2, <2>4, TopMoves
<1>6. CASE RunQos
  <2> DEFINE f == [Top EXCEPT !.nested = TRUE]
  <2>1. RunNested(DflQos, f)
    BY <1>6 DEF RunQos
  <2>2. DflQos \in Specs
    <3>1. <<1, 2>> \in Seq(Nat \ {0})
      OBVIOUS
    <3>2. "none" \in JobIds
      BY BenchJobsAssumption
    <3> QED
      BY <3>1, <3>2 DEF DflQos, Specs, Kinds
  <2>3. f \in Frames /\ f.uid = Top.uid /\ f.spec = Top.spec /\ Unbegun(f)
    BY <1>3 DEF Frames, Unbegun
  <2> HIDE DEF f
  <2> QED
    BY <1>2, <2>1, <2>2, <2>3, NestStep
<1>7. CASE QosNotFound
  BY <1>1, <1>7, GiveUpStep DEF QosNotFound
<1> QED
  BY <1>4, <1>5, <1>6, <1>7

(* The run, up to the runs of iocost-qos.                                  *)
LEMMA RunSteps == JobsInv /\ (Recall \/ RunParams \/ RunTune \/ QosParams \/ QosStart) => JobsInv'
<1> SUFFICES ASSUME JobsInv, Recall \/ RunParams \/ RunTune \/ QosParams \/ QosStart
             PROVE  JobsInv'
  OBVIOUS
<1>1. counts' \in Counts
  BY CountsTyped DEF JobsNext, Steps, JobsInv
<1>2. mode # "down" /\ frames # <<>> /\ Top.pc = "run"
  BY DEF Recall, RunParams, RunTune, QosParams, QosStart, At
<1>3. Top \in Frames /\ Unbegun(Top) /\ Stored \in Entries /\ Stored.rec \in Recs
  BY <1>2, OwnEntry DEF Keeps, Entries
<1>4. CASE Recall
  <2>1. CASE GiveUp
    BY <1>1, <2>1, GiveUpStep
  <2>2. CASE ~GiveUp
    <3> DEFINE f == [Top EXCEPT !.pc = "study", !.rec = Stored.rec, !.res = Stored.res]
    <3>1. Stored.rec # NoRec /\ SetTop(f) /\ UNCHANGED <<aside, entries>>
      BY <1>4, <2>2 DEF Recall, HasRec
    <3>2. Stored.res \in BOOLEAN
      BY <1>3 DEF Entries
    <3>3. f \in Frames /\ f.uid = Top.uid /\ f.spec = Top.spec /\ f.pc = "study" /\ f.rec = Stored.rec
          /\ f.res = Stored.res
      BY <1>3, <3>2 DEF Frames
    <3> HIDE DEF f
    <3>4. Keeps(f, Stored, knobs.iocost)
      BY <1>3, <3>1, <3>3 DEF Keeps, InStudy, Recs
    <3> QED
      BY <1>1, <1>2, <3>1, <3>3, <3>4, TopMoves
  <2> QED
    BY <2>1, <2>2
<1>5. ASSUME NEW rec \in Made, Stored.rec = NoRec,
             SetTop([Top EXCEPT !.pc = "study", !.rec = rec]), UNCHANGED <<aside, entries>>
      PROVE  JobsInv'
  <2> DEFINE f == [Top EXCEPT !.pc = "study", !.rec = rec]
  <2>1. f \in Frames /\ f.uid = Top.uid /\ f.spec = Top.spec /\ f.pc = "study" /\ f.rec = rec
    BY <1>3 DEF Frames, Recs
  <2>2. SetTop(f)
    BY <1>5
  <2> HIDE DEF f
  <2>3. Measured(NoRec) = {} /\ ~Stored.res
    BY <1>3, <1>5 DEF Measured, NoRec, Range, Entries
  <2>4. Keeps(f, Stored, knobs.iocost)
    BY <1>5, <2>1, <2>3 DEF Keeps, InStudy
  <2> QED
    BY <1>1, <1>2, <1>5, <2>1, <2>2, <2>4, TopMoves
<1>6. CASE RunParams
  <2>1. CASE GiveUp
    BY <1>1, <2>1, GiveUpStep
  <2>2. CASE ~GiveUp
    <3>1. PICK found \in 1..Len(Models) :
             /\ SetTop([Top EXCEPT !.pc = "study",
                                   !.rec = [NoRec EXCEPT !.base = counts.measured + found]])
             /\ UNCHANGED <<aside, entries>>
      BY <1>6, <2>2 DEF RunParams
    <3> DEFINE rec == [NoRec EXCEPT !.base = counts.measured + found]
    <3>2. Stored.rec = NoRec
      BY <1>6 DEF RunParams, Recalls, HasRec, Incremental, Params
    <3>3. rec \in Made
      <4>1. counts.measured + found \in Nat
        BY BenchJobsAssumption, LenProperties DEF JobsInv, JobsTyped
      <4>2. rec = [base |-> counts.measured + found, runs |-> <<>>, inc |-> <<>>]
        BY DEF NoRec
      <4>3. <<>> \in Seq(Int)
        OBVIOUS
      <4> QED
        BY <4>1, <4>2, <4>3 DEF Made
    <3>4. SetTop([Top EXCEPT !.pc = "study", !.rec = rec]) /\ UNCHANGED <<aside, entries>>
      BY <3>1
    <3> HIDE DEF rec
    <3> QED
      BY <1>5, <3>2, <3>3, <3>4
  <2> QED
    BY <2>1, <2>2
<1>7. CASE RunTune
  <2>1. SetTop([Top EXCEPT !.pc = "study", !.rec = TuneRec]) /\ UNCHANGED <<aside, entries>>
    BY <1>7 DEF RunTune
  <2>2. Stored.rec = NoRec
    BY <1>7 DEF RunTune, Recalls, HasRec, Incremental
  <2>3. TuneRec \in Made
    BY DEF TuneRec, Made
  <2> QED
    BY <1>5, <2>1, <2>2, <2>3
<1>8. CASE QosParams
  <2> DEFINE f == [Top EXCEPT !.revert = TRUE]
  <2>1. RunNested(IocostParams, f)
    BY <1>8 DEF QosParams
  <2>2. IocostParams \in Specs
    <3>1. <<>> \in Seq(Nat \ {0})
      OBVIOUS
    <3>2. "none" \in JobIds
      BY BenchJobsAssumption
    <3> QED
      BY <3>1, <3>2 DEF IocostParams, Specs, Kinds
  <2>3. f \in Frames /\ f.uid = Top.uid /\ f.spec = Top.spec /\ Unbegun(f)
    BY <1>3 DEF Frames, Unbegun
  <2> HIDE DEF f
  <2> QED
    BY <1>2, <2>1, <2>2, <2>3, NestStep
<1>9. CASE QosStart
  <2>1. CASE GiveUp
    BY <1>1, <2>1, GiveUpStep
  <2>2. CASE ~GiveUp
    <3> DEFINE f == [Top EXCEPT !.pc = "runs", !.revert = TRUE, !.prev = PrevRec]
    <3>1. Top.spec.kind = "iocost-qos" /\ SetTop(f) /\ UNCHANGED <<aside, entries>>
      BY <1>9, <2>2 DEF QosStart
    <3>2. PrevRec \in Made /\ Measured(Stored.rec) \subseteq Measured(PrevRec)
      <4>1. CASE HasRec
        BY <1>3, <4>1 DEF PrevRec, HasRec, Recs
      <4>2. CASE ~HasRec
        <5>1. FreshRec \in Made
          BY DEF FreshRec, Made, JobsInv, JobsTyped, Knobs
        <5>2. Measured(Stored.rec) = {}
          BY <4>2 DEF HasRec, Measured, NoRec, Range
        <5> QED
          BY <4>2, <5>1, <5>2 DEF PrevRec
      <4> QED
        BY <4>1, <4>2
    <3>3. f \in Frames /\ f.uid = Top.uid /\ f.spec = Top.spec /\ f.pc = "runs" /\ f.prev = PrevRec
          /\ f.runs = Top.runs /\ f.next = Top.next
      BY <1>3, <3>2 DEF Frames, Recs
    <3> HIDE DEF f
    <3>4. f.runs = <<>> /\ f.next = 1
      BY <1>3, <3>3 DEF Unbegun
    <3>5. Len(f.spec.runs) \in Nat
      BY <1>3, <3>3, LenProperties DEF Frames, Specs
    <3>6. InRuns(f, Stored.rec, knobs.iocost)
      BY <3>1, <3>2, <3>3, <3>4, <3>5 DEF InRuns
    <3> QED
      BY <1>1, <1>2, <3>1, <3>3, <3>6, TopMoves DEF Keeps
  <2> QED
    BY <2>1, <2>2
<1> QED
  BY <1>4, <1>6, <1>7, <1>8, <1>9

(* The runs of iocost-qos that are not run again, and the end of them.     *)
LEMMA QosSteps == JobsInv /\ (QosKeep \/ QosDone) => JobsInv'
<1> SUFFICES ASSUME JobsInv, QosKeep \/ QosDone PROVE JobsInv'
  OBVIOUS
<1>1. counts' \in Counts
  BY CountsTyped DEF JobsNext, Steps, JobsInv
<1>2. mode # "down" /\ frames # <<>> /\ Top.pc = "runs" /\ UNCHANGED <<aside, entries>>
  BY DEF QosKeep, QosDone, AtRun, At
<1>3. Top \in Frames /\ InRuns(Top, Stored.rec, knobs.iocost)
  BY <1>2, OwnEntry DEF Keeps
<1>4. Top.runs \in Seq(Int) /\ Top.spec.runs \in Seq(Nat \ {0}) /\ Top.next \in Nat
  BY <1>3 DEF Frames, Specs
<1>5. /\ Len(Top.runs) \in Nat /\ Top.next = Len(Top.runs) + 1
      /\ Len(Top.spec.runs) \in Nat /\ Top.next <= Len(Top.spec.runs) + 1
      /\ DOMAIN Top.spec.runs = 1..Len(Top.spec.runs)
  BY <1>3, <1>4, LenProperties DEF InRuns
<1>6. ASSUME NEW r \in Int, Top.next <= Len(Top.spec.runs), SetTop(Push(r)),
             r \in {Run, 0 - Run} \/ Run \in Slow(Top.spec, knobs.iocost)
      PROVE  JobsInv'
  <2> DEFINE f == Push(r)
  <2>1. /\ Append(Top.runs, r) \in Seq(Int) /\ Len(Append(Top.runs, r)) = Len(Top.runs) + 1
        /\ \A k \in 1..Len(Top.runs) : Append(Top.runs, r)[k] = Top.runs[k]
        /\ Append(Top.runs, r)[Len(Top.runs) + 1] = r
    BY <1>4, AppendProperties
  <2>2. f = [Top EXCEPT !.runs = Append(Top.runs, r), !.next = Top.next + 1] /\ Top.next + 1 \in Nat
    BY <1>3, <1>4 DEF Push, Frames
  <2> HIDE DEF f
  <2>3. /\ f \in Frames /\ f.uid = Top.uid /\ f.spec = Top.spec /\ f.pc = "runs" /\ f.prev = Top.prev
        /\ f.runs = Append(Top.runs, r) /\ f.next = Top.next + 1
    BY <1>2, <1>3, <2>1, <2>2 DEF Frames
  <2>4. Len(f.runs) = Len(Top.runs) + 1 /\ f.next = Len(f.runs) + 1
        /\ f.next <= Len(f.spec.runs) + 1
    BY <1>5, <1>6, <2>1, <2>3
  <2>5. ASSUME NEW k \in 1..Len(f.runs)
        PROVE  f.spec.runs[k] \notin Slow(f.spec, knobs.iocost) =>
                  f.runs[k] \in {f.spec.runs[k], 0 - f.spec.runs[k]}
    <3>1. k \in 1..Len(Top.runs) \/ k = Len(Top.runs) + 1
      BY <1>5, <2>4
    <3>2. CASE k \in 1..Len(Top.runs)
      BY <1>3, <2>1, <2>3, <3>2 DEF InRuns
    <3>3. CASE k = Len(Top.runs) + 1
      BY <1>5, <1>6, <2>1, <2>3, <3>3 DEF Run
    <3> QED
      BY <3>1, <3>2, <3>3
  <2>6. InRuns(f, Stored.rec, knobs.iocost)
    BY <1>3, <2>3, <2>4, <2>5 DEF InRuns
  <2>7. SetTop(f)
    BY <1>6 DEF f
  <2> QED
    BY <1>1, <1>2, <2>3, <2>6, <2>7, TopMoves DEF Keeps
<1>7. CASE QosKeep
  <2>1. Top.next <= Len(Top.spec.runs)
        /\ \/ SetTop(Push(Target))
           \/ Run \in Slow(Top.spec, knobs.iocost) /\ SetTop(Push(0))
    BY <1>7 DEF QosKeep, AtRun
  <2>2. Target \in Int /\ Target \in {Run, 0 - Run}
    <3>1. Top.next \in 1..Len(Top.spec.runs)
      BY <1>4, <1>5, <2>1
    <3>2. Top.spec.runs[Top.next] \in Nat \ {0}
      BY <1>4, <3>1, ElementOfSeq
    <3> QED
      BY <3>2 DEF Run, Target
  <2> QED
    BY <1>6, <2>1, <2>2
<1>8. CASE QosDone
  <2> DEFINE n == Len(Top.spec.runs)
             rec == [base |-> knobs.iocost, inc |-> <<>>, runs |-> SubSeq(Top.runs, 1, n)]
             f == [Top EXCEPT !.pc = "study", !.rec = rec]
  <2>1. SetTop(f) /\ Top.next > n
    BY <1>8 DEF QosDone
  <2>2. n \in Nat /\ Len(Top.runs) = n
    BY <1>4, <1>5, <2>1
  <2> HIDE DEF n
  <2>3. \A i \in 1..n : Top.runs[i] \in Int
    BY <1>4, <2>2, ElementOfSeq
  <2>4. /\ SubSeq(Top.runs, 1, n) \in Seq(Int)
        /\ Len(SubSeq(Top.runs, 1, n)) = IF 1 <= n THEN n - 1 + 1 ELSE 0
        /\ \A i \in 1..n - 1 + 1 : SubSeq(Top.runs, 1, n)[i] = Top.runs[1 + i - 1]
    BY <2>2, <2>3, SubSeqProperties
  <2>5. /\ rec.runs = SubSeq(Top.runs, 1, n) /\ DOMAIN rec.runs = 1..n
        /\ \A i \in 1..n : rec.runs[i] = Top.runs[i]
    <3>1. Len(SubSeq(Top.runs, 1, n)) = n
      BY <2>2, <2>4
    <3>2. DOMAIN SubSeq(Top.runs, 1, n) = 1..n
      BY <2>4, <3>1, LenProperties
    <3> QED
      BY <2>2, <2>4, <3>2
  <2>6. rec \in Made /\ rec.base = knobs.iocost
    BY <2>4 DEF Made, JobsInv, JobsTyped, Knobs
  <2> HIDE DEF rec
  <2>7. f \in Frames /\ f.uid = Top.uid /\ f.spec = Top.spec /\ f.pc = "study" /\ f.rec = rec
    BY <1>3, <2>6 DEF Frames, Recs
  <2> HIDE DEF f
  <2>8. ASSUME NEW k \in DOMAIN Top.spec.runs, Top.spec.runs[k] \notin Slow(Top.spec, rec.base)
        PROVE  Top.spec.runs[k] \in Measured(rec)
    <3>1. k \in 1..n /\ Top.spec.runs[k] \in Nat \ {0}
      BY <1>4, <1>5, ElementOfSeq DEF n
    <3>2. Top.runs[k] \in {Top.spec.runs[k], 0 - Top.spec.runs[k]}
      BY <1>3, <2>2, <2>6, <2>8, <3>1 DEF InRuns
    <3>3. rec.runs[k] = Top.runs[k] /\ k \in DOMAIN rec.runs
      BY <2>5, <3>1
    <3>4. Top.runs[k] \in Range(rec.runs)
      BY <3>3 DEF Range
    <3>5. Top.spec.runs[k] = Top.runs[k] \/ Top.spec.runs[k] = 0 - Top.runs[k]
      BY <3>1, <3>2
    <3> QED
      BY <3>4, <3>5 DEF Measured
  <2>9. InStudy(f, Stored.rec, Stored.res)
    BY <1>3, <2>6, <2>7, <2>8 DEF InStudy, InRuns, Params, Incremental
  <2> QED
    BY <1>1, <1>2, <2>1, <2>7, <2>9, TopMoves DEF Keeps
<1> QED
  BY <1>7, <1>8

(* The file is truncated and lost with the program, a commit may remain.   *)
LEMMA TornStep == JobsInv /\ CrashInSave => JobsInv'
<1> SUFFICES ASSUME JobsInv, CrashInSave PROVE JobsInv'
  OBVIOUS
<1>1. Down /\ file' = <<>> /\ UNCHANGED goal
  BY DEF CrashInSave
<1>2. counts' \in Counts
  BY CountsTyped DEF JobsNext, JobsInv
<1>3. demo' \in Knobs
  <2>1. CASE UNCHANGED demo
    BY <2>1 DEF JobsInv, JobsTyped
  <2>2. CASE At("study") /\ demo' = Committed
    <3>1. InStudy(Top, Stored.rec, Stored.res)
      BY <2>2, OwnEntry DEF At, Keeps
    <3>2. Top.rec.base \in Nat
      BY <3>1 DEF InStudy, Made
    <3> QED
      BY <2>2, <3>2, AppliedTyped DEF JobsInv, JobsTyped
  <2> QED
    BY <2>1, <2>2 DEF CrashInSave
<1>4. file' \in Seq(FileEntries)
  BY <1>1
<1> QED
  BY <1>1, <1>2, <1>3, <1>4, JobsDown

LEMMA JobsStep == JobsInv /\ [JobsNext]_jobVars => JobsInv' /\ NoneForgotten
<1> SUFFICES ASSUME JobsInv, [JobsNext]_jobVars PROVE JobsInv' /\ NoneForgotten
  OBVIOUS
<1>1. CASE LaunchGoal \/ LaunchOther
  <2>1. UNCHANGED file
    BY <1>1 DEF LaunchGoal, LaunchOther, Launch
  <2> QED
    BY <1>1, <2>1, LaunchSteps, FileLeft
<1>2. CASE LinkNext \/ NextJob
  <2>1. UNCHANGED file
    BY <1>2 DEF LinkNext, NextJob
  <2> QED
    BY <1>2, <2>1, LinkNextStep, NextJobStep, FileLeft
<1>3. CASE NoPreRun \/ FindQos \/ RunQos \/ QosNotFound
  <2>1. UNCHANGED file
    BY <1>3 DEF NoPreRun, FindQos, RunQos, QosNotFound, RunNested, GiveUp, aside
  <2> QED
    BY <1>3, <2>1, PreSteps, FileLeft
<1>4. CASE Recall \/ RunParams \/ RunTune \/ QosParams \/ QosStart
  <2>1. UNCHANGED file
    BY <1>4 DEF Recall, RunParams, RunTune, QosParams, QosStart, RunNested, GiveUp, aside
  <2> QED
    BY <1>4, <2>1, RunSteps, FileLeft
<1>5. CASE QosKeep \/ QosDone
  <2>1. UNCHANGED file
    BY <1>5 DEF QosKeep, QosDone, aside
  <2> QED
    BY <1>5, <2>1, QosSteps, FileLeft
<1>6. CASE QosRun \/ Study
  BY <1>6, QosRunStep, StudyStep
<1>7. CASE AllRun \/ QosFails \/ Crash
  <2>1. GiveUp /\ UNCHANGED file
    BY <1>7 DEF AllRun, QosFails, Crash, GiveUp
  <2>2. counts' \in Counts
    BY CountsTyped DEF JobsInv
  <2> QED
    BY <2>1, <2>2, GiveUpStep, FileLeft
<1>8. CASE RemoveFile \/ UNCHANGED jobVars
  <2>1. UNCHANGED <<goal, file, demo, mode, entries, unlinked, pending, frames, knobs, saved,
                    updates, counts>>
    BY <1>8 DEF RemoveFile, jobVars
  <2>2. JobsTyped'
    BY <2>1 DEF JobsInv, JobsTyped
  <2>3. JobsOwn'
    BY <2>1 DEF JobsInv, JobsOwn, Numbered, Owned, Owns, Apart
  <2>4. JobsKeep'
    BY <2>1 DEF JobsInv, JobsKeep, Covered, Entry, Outermost, Unbegun, Progress, Keeps, InRuns,
       InStudy, Measured, Slow, Top
  <2> QED
    BY <2>1, <2>2, <2>3, <2>4, FileLeft DEF JobsInv
<1>9. CASE CrashInSave
  BY <1>9, TornStep DEF CrashInSave, NoneForgotten
<1> QED
  BY <1>1, <1>2, <1>3, <1>4, <1>5, <1>6, <1>7, <1>8, <1>9 DEF JobsNext, Steps

LEMMA JobsInvImplies == JobsInv => JobsOwnEntries
<1> SUFFICES ASSUME JobsInv PROVE JobsOwnEntries
  OBVIOUS
<1>1. pending \in Seq(Jobs) /\ frames \in Seq(Frames)
  BY DEF JobsInv, JobsTyped
<1> DEFINE jobs == pending \o frames
           m == Len(pending)
<1>2. /\ m \in Nat /\ Len(frames) \in Nat /\ DOMAIN pending = 1..m
      /\ DOMAIN frames = 1..Len(frames)
      /\ DOMAIN jobs = 1..m + Len(frames)
      /\ \A i \in 1..m + Len(frames) : jobs[i] = IF i <= m THEN pending[i] ELSE frames[i - m]
  <2>1. pending \in Seq(Jobs \cup Frames) /\ frames \in Seq(Jobs \cup Frames)
    <3>1. /\ Len(pending) \in Nat /\ pending \in [1..Len(pending) -> Jobs]
          /\ Len(frames) \in Nat /\ frames \in [1..Len(frames) -> Frames]
      BY <1>1, LenProperties
    <3> QED
      BY <1>1, <3>1
  <2> QED
    BY <2>1, ConcatProperties, LenProperties
<1> HIDE DEF jobs, m
<1>3. ASSUME NEW i \in DOMAIN jobs
      PROVE  \/ i \in DOMAIN pending /\ jobs[i] = pending[i]
             \/ i - m \in DOMAIN frames /\ jobs[i] = frames[i - m] /\ i \in Nat
  BY <1>2
<1>4. ASSUME NEW i \in DOMAIN jobs
      PROVE  \E e \in DOMAIN entries : entries[e].uid = jobs[i].uid /\ entries[e].used
  BY <1>3 DEF JobsInv, JobsOwn, Owned, Owns
<1>5. ASSUME NEW i \in DOMAIN jobs, NEW j \in DOMAIN jobs, jobs[i].uid = jobs[j].uid
      PROVE  i = j
  <2>1. CASE i \in DOMAIN pending /\ jobs[i] = pending[i] /\ j \in DOMAIN pending /\ jobs[j] = pending[j]
    BY <1>5, <2>1 DEF JobsInv, JobsOwn, Apart
  <2>2. CASE /\ i - m \in DOMAIN frames /\ jobs[i] = frames[i - m] /\ i \in Nat
             /\ j - m \in DOMAIN frames /\ jobs[j] = frames[j - m] /\ j \in Nat
    <3>1. i - m = j - m
      BY <1>5, <2>2 DEF JobsInv, JobsOwn, Apart
    <3> QED
      BY <1>2, <2>2, <3>1
  <2>3. CASE \/ /\ i - m \in DOMAIN frames /\ jobs[i] = frames[i - m]
                /\ j \in DOMAIN pending /\ jobs[j] = pending[j]
             \/ /\ j - m \in DOMAIN frames /\ jobs[j] = frames[j - m]
                /\ i \in DOMAIN pending /\ jobs[i] = pending[i]
    BY <1>5, <2>3 DEF JobsInv, JobsOwn, Apart
  <2> QED
    BY <1>3, <2>1, <2>2, <2>3
<1>6. \A d, e \in DOMAIN entries : d # e => entries[d].uid # entries[e].uid
  BY DEF JobsInv, JobsOwn, Numbered
<1> QED
  BY <1>4, <1>5, <1>6, Zenon DEF JobsOwnEntries, jobs

(* Every job of a command line that is still to run, and every running     *)
(* one, the jobs nested in others included, has a linked entry of its own, *)
(* and no two have the same: JobCtxs::parse_job_spec_and_link() never      *)
(* links what another job of the invocation uses, for any command lines,   *)
(* any result file left behind, and whatever fails or crashes.             *)
THEOREM JobsKeepTheirEntries == JobsSpec => []JobsOwnEntries
<1>1. JobsInit => JobsInv
  BY JobsStart
<1>2. JobsInv /\ [JobsNext]_jobVars => JobsInv'
  BY JobsStep
<1>3. JobsInv => JobsOwnEntries
  BY JobsInvImplies
<1> QED
  BY <1>1, <1>2, <1>3, PTL DEF JobsSpec

(* Nothing in the result file is lost but by a crash while it is written:  *)
(* RunCtx::update_incremental_record() and what run_jctx() does when a job *)
(* is over write back an entry for each of the file's, with its            *)
(* measurement, its result (iocost-qos studies again) and every run its    *)
(* job still asks for that is not too slow by the io.cost parameters there *)
(* are then, whatever these are and whatever they were before.             *)
THEOREM ResultsAreKept == JobsSpec => NothingForgotten
<1>1. JobsInit => JobsInv
  BY JobsStart
<1>2. JobsInv /\ [JobsNext]_jobVars => JobsInv'
  BY JobsStep
<1>3. JobsInv /\ [JobsNext]_jobVars
      => [torn' \/ \A i \in DOMAIN file : \E j \in DOMAIN file' : Kept(file[i], file'[j])]_file
  BY JobsStep DEF NoneForgotten
<1> QED
  BY <1>1, <1>2, <1>3, PTL DEF JobsSpec, NothingForgotten

-----------------------------------------------------------------------------
(* The documents of resctl-demo, DemoDocs.                                 *)

(* What is written in the documents, and what is left of a click or a key. *)
Prompts == {c \in [do : CmdKinds, arg : STRING] :
               /\ c.do = "jump" => c.arg \in DOMAIN Lines
               /\ c.arg = "needed" => c.do \notin {"off", "toggle"}}
Docs == {Parsed(id, seqs) : id \in DOMAIN Lines, seqs \in [Benches -> 0..MaxSeq]}
Enters == [do : {"enter"}, arg : Docs, back : BOOLEAN]

TodoWritten(t) ==
    /\ t \in Seq(Prompts \cup Enters)
    /\ \A i \in 1..Len(t) : t[i].do = "enter" => i = Len(t)
Leads(t) == t # <<>> /\ t[Len(t)].do \in {"enter", "jump"}
EntryOf(t) == t[Len(t)].arg.pre

TodoInv ==
    /\ TodoWritten(todo)
    /\ doc \in Docs \cup {EmptyDoc}
    /\ doc \in Docs \/ Leads(todo)
    /\ hist \in Seq(DOMAIN Lines)

(* The switches are as cmd.json has them; what they know of bench.json may *)
(* be old.                                                                 *)
SwitchInv ==
    /\ cs = [next |-> cs.next, cur |-> cs.cur, on |-> cs.on, knobs |-> cs.knobs, ctl |-> cs.ctl]
    /\ cs.next = cmd.next /\ cs.on = cmd.on /\ cs.knobs = cmd.knobs
    /\ {cmd.next, agent.got.next} \subseteq [Benches -> 0..Loop]
    /\ {cs.cur, benchSeq} \subseteq [Benches -> 0..MaxSeq]
    /\ \A b \in Benches : cs.cur[b] <= benchSeq[b]
    /\ agent = [up |-> agent.up, rep |-> agent.rep, got |-> agent.got]
    /\ agent.rep \in Nat \ {0} /\ disable \in [Ctls -> Nat]
    /\ cs.ctl \subseteq {k \in Ctls : agent.rep > disable[k]}

(* An agent that has, or has acknowledged, the last cmd.json has heard of  *)
(* everything that was turned off, and so it has after a sync().           *)
HeardInv ==
    /\ cmd.seq \in Nat /\ ack \in 0..cmd.seq /\ agent.got.seq \in 0..cmd.seq
    /\ ack = cmd.seq \/ agent.got.seq = cmd.seq \/ waited = "acked" => unheard = {}

(* Of the commands at the entry to the document that is being entered the  *)
(* last ones are still to be run, and of those run since the last about    *)
(* each switch is what the user interface holds it to be.                  *)
HeldOf(c) ==
    (c.on \cap Workloads) \cup (c.knobs \cap Tunables) \cup c.ctl
    \cup {b \in Benches : c.next[b] > benchSeq[b]}
Entered(t) == Len(EntryOf(t)) - (Len(t) - 1)
EntryHeld(t, held) ==
    t # <<>> /\ t[Len(t)].do = "enter" =>
        \A j \in 1..Len(EntryOf(t)) :
            IF j > Entered(t) THEN t[j - Entered(t)] = EntryOf(t)[j]
            ELSE \A x \in Turns(EntryOf(t)[j]) :
                    (\A k \in (j + 1)..Entered(t) : x \notin Turns(EntryOf(t)[k]))
                        => (x \in held <=> x \in TurnsOn(EntryOf(t)[j]))
EntryInv == EntryHeld(todo, HeldOf(cs))

WaitInv == waited \in {"no", "acked", "given up"}
DocsInv == TodoInv /\ SwitchInv /\ HeardInv /\ EntryInv /\ WaitInv

(* What the documents consist of.                                          *)
LEMMA LineWritten ==
    ASSUME NEW id \in DOMAIN Lines
    PROVE  /\ Len(Lines[id]) \in Nat
           /\ \A l \in ToSet(Lines[id]) : l.cmd \in [do : CmdKinds, arg : STRING]
           /\ \A n \in 1..Len(Lines[id]) :
                 /\ Lines[id][n].at \in Places
                 /\ Lines[id][n].cmd \in DocCmds(id)
                 /\ Lines[id][n].at = "pre" => Lines[id][n].cmd \in EntryCmds(id)
<1> DEFINE S == [at : Places, cond : STRING, cmd : [do : CmdKinds, arg : STRING]]
           ls == Lines[id]
<1>1. ls \in Seq(S)
  BY WrittenAssumption
<1> HIDE DEF S, ls
<1>2. Len(ls) \in Nat /\ DOMAIN ls = 1..Len(ls)
  BY <1>1, LenProperties, Zenon
<1>3. \A n \in 1..Len(ls) : ls[n] \in S
  BY <1>1, ElementOfSeq, Zenon
<1>4. ToSet(ls) = {ls[n] : n \in 1..Len(ls)}
  BY <1>2 DEF ToSet
<1>5. \A l \in S : l.at \in Places /\ l.cmd \in [do : CmdKinds, arg : STRING]
  BY DEF S
<1>6. \A n \in 1..Len(ls) : ls[n] \in ToSet(ls)
  BY <1>4
<1>7. \A l \in ToSet(ls) : l \in S
  BY <1>3, <1>4
<1> QED BY <1>2, <1>3, <1>5, <1>6, <1>7 DEF DocCmds, EntryCmds, ls

LEMMA LinesWritten ==
    ASSUME NEW id \in DOMAIN Lines
    PROVE  DocCmds(id) \subseteq Prompts /\ EntryCmds(id) \subseteq DocCmds(id)
<1>1. \A l \in ToSet(Lines[id]) : l.cmd \in [do : CmdKinds, arg : STRING]
  BY LineWritten
<1> QED BY <1>1, DocsAssumption, WrittenAssumption DEF DocCmds, EntryCmds, Prompts, DocsLoad

LEMMA SeqsGrow ==
    ASSUME NEW S, NEW T, S \subseteq T
    PROVE  Seq(S) \subseteq Seq(T) /\ Seq(Seq(S)) \subseteq Seq(Seq(T))
<1>1. Seq(S) \subseteq Seq(T)
  OBVIOUS
<1> QED BY <1>1

(* The parser keeps to the commands of the document: each line leaves it    *)
(* with a document, and perhaps an open group, made of them.                *)
ParserStates(id) ==
    [doc : [id : {id}, pre : Seq(EntryCmds(id)), body : Seq(Seq(DocCmds(id))),
            post : Seq(DocCmds(id))],
     group : [open : BOOLEAN, shown : BOOLEAN, of : Seq(DocCmds(id))]]

LEMMA HoldsIs == \A cond, seqs : Holds(cond, seqs) \in BOOLEAN
BY DEF Holds

LEMMA ParseLineWritten ==
    ASSUME NEW id, NEW seqs, NEW acc \in ParserStates(id), NEW line,
           line.at \in Places, line.cmd \in DocCmds(id),
           line.at = "pre" => line.cmd \in EntryCmds(id)
    PROVE  ParseLine(acc, line, seqs) \in ParserStates(id)
<1> DEFINE E == EntryCmds(id)
           C == DocCmds(id)
           SE == Seq(E)
           SC == Seq(C)
           SSC == Seq(SC)
           G == [open : BOOLEAN, shown : BOOLEAN, of : SC]
           D == [id : {id}, pre : SE, body : SSC, post : SC]
           c == line.cmd
           holds == Holds(line.cond, seqs)
<1>1. /\ c \in C /\ holds \in BOOLEAN
      /\ \A x : x \in ParserStates(id) <=> x \in [doc : D, group : G]
  BY HoldsIs DEF ParserStates
<1> HIDE DEF E, C
<1>2. /\ <<c>> \in SC /\ <<>> \in SC
      /\ \A s \in SC : Append(s, c) \in SC
      /\ line.at = "pre" => \A s \in SE : Append(s, c) \in SE
  <2>1. line.at = "pre" => c \in E
    BY DEF E
  <2> QED BY <1>1, <2>1
<1> HIDE DEF SC
<1>3. \A s \in SSC, x \in SC : Append(s, x) \in SSC
  OBVIOUS
<1> HIDE DEF SE, SSC, c, holds
<1>4. PICK d \in D, g \in G : acc = [doc |-> d, group |-> g]
  BY <1>1
<1>5. /\ d = [id |-> id, pre |-> d.pre, body |-> d.body, post |-> d.post]
      /\ d.pre \in SE /\ d.body \in SSC /\ d.post \in SC
      /\ g = [open |-> g.open, shown |-> g.shown, of |-> g.of]
      /\ g.open \in BOOLEAN /\ g.shown \in BOOLEAN /\ g.of \in SC
      /\ acc.doc = d /\ acc.group = g
  BY <1>4
<1>6. CASE ~g.open
  <2>1. CASE c.do = "("
    <3> DEFINE h == [open |-> TRUE, shown |-> holds, of |-> <<>>]
    <3>1. ParseLine(acc, line, seqs) = [acc EXCEPT !.group = h]
      BY <1>5, <1>6, <2>1 DEF ParseLine, c, holds
    <3>2. h \in G
      BY <1>1, <1>2
    <3> HIDE DEF h, D, G
    <3>3. [acc EXCEPT !.group = h] = [doc |-> d, group |-> h]
      BY <1>4
    <3> QED BY <1>1, <1>4, <3>1, <3>2, <3>3
  <2>2. CASE c.do # "(" /\ ~holds
    <3>1. ParseLine(acc, line, seqs) = acc
      BY <1>5, <1>6, <2>2 DEF ParseLine, c, holds
    <3> QED BY <3>1
  <2>3. CASE c.do # "(" /\ holds /\ line.at = "body"
    <3> DEFINE e == [d EXCEPT !.body = Append(@, <<c>>)]
    <3>1. ParseLine(acc, line, seqs) = [doc |-> e, group |-> g]
      BY <1>4, <1>5, <1>6, <2>3 DEF ParseLine, c, holds
    <3>2. e \in D
      BY <1>2, <1>3, <1>5
    <3> HIDE DEF e, D, G
    <3> QED BY <1>1, <1>4, <3>1, <3>2
  <2>4. CASE c.do # "(" /\ holds /\ line.at = "pre"
    <3> DEFINE e == [d EXCEPT !.pre = Append(@, c)]
    <3>1. ParseLine(acc, line, seqs) = [doc |-> e, group |-> g]
      BY <1>4, <1>5, <1>6, <2>4 DEF ParseLine, c, holds
    <3>2. e \in D
      BY <1>2, <1>5, <2>4
    <3> HIDE DEF e, D, G
    <3> QED BY <1>1, <1>4, <3>1, <3>2
  <2>5. CASE c.do # "(" /\ holds /\ line.at = "post"
    <3> DEFINE e == [d EXCEPT !.post = Append(@, c)]
    <3>1. ParseLine(acc, line, seqs) = [doc |-> e, group |-> g]
      BY <1>4, <1>5, <1>6, <2>5 DEF ParseLine, c, holds
    <3>2. e \in D
      BY <1>2, <1>5
    <3> HIDE DEF e, D, G
    <3> QED BY <1>1, <1>4, <3>1, <3>2
  <2> QED BY <1>1, <2>1, <2>2, <2>3, <2>4, <2>5 DEF Places
<1>7. CASE g.open
  <2>1. CASE c.do = ")"
    <3> DEFINE e == IF g.shown THEN [d EXCEPT !.body = Append(@, g.of)] ELSE d
    <3>1. ParseLine(acc, line, seqs) = [doc |-> e, group |-> NoGroup]
      BY <1>5, <1>7, <2>1 DEF ParseLine, c
    <3>2. e \in D /\ NoGroup \in G
      BY <1>2, <1>3, <1>4, <1>5 DEF NoGroup
    <3> HIDE DEF e, D, G
    <3> QED BY <1>1, <3>1, <3>2
  <2>2. CASE c.do # ")"
    <3> DEFINE h == [g EXCEPT !.of = Append(@, c)]
    <3>1. ParseLine(acc, line, seqs) = [doc |-> d, group |-> h]
      BY <1>4, <1>5, <1>7, <2>2 DEF ParseLine, c
    <3>2. h \in G
      BY <1>2, <1>5
    <3> HIDE DEF h, D, G
    <3> QED BY <1>1, <1>4, <3>1, <3>2
  <2> QED BY <2>1, <2>2
<1> QED BY <1>6, <1>7

LEMMA ParsedWritten ==
    ASSUME NEW id \in DOMAIN Lines, NEW seqs
    PROVE  /\ Parsed(id, seqs).id = id
           /\ Parsed(id, seqs).pre \in Seq(EntryCmds(id))
           /\ Parsed(id, seqs).post \in Seq(DocCmds(id))
           /\ Parsed(id, seqs).body \in Seq(Seq(DocCmds(id)))
<1> DEFINE N == Len(Lines[id])
           X == ParserStates(id)
           b == [doc |-> Blank(id), group |-> NoGroup]
           step(n, acc) == ParseLine(acc, Lines[id][n], seqs)
           IsUpTo(f, n) == f[0] = b /\ \A m \in 1..n : f[m] = step(m, f[m - 1])
           after == CHOOSE f : f = [n \in 0..N |-> IF n = 0 THEN b ELSE step(n, f[n - 1])]
<1>1. N \in Nat /\ b \in X
  BY LineWritten DEF ParserStates, Blank, NoGroup
<1>2. \A n \in 1..N : \A acc \in X : step(n, acc) \in X
  BY LineWritten, ParseLineWritten
<1>3. Parsed(id, seqs) = after[N].doc
  BY DEF Parsed
<1> HIDE DEF N, X, b, step
<1>4. \E f \in [0..N -> X] : IsUpTo(f, N)
  <2> DEFINE T == {n \in 0..N : \E f \in [0..n -> X] : IsUpTo(f, n)}
  <2>1. 0 \in T
    <3> DEFINE f == [n \in 0..0 |-> b]
    <3>1. f \in [0..0 -> X] /\ f[0] = b
      BY <1>1
    <3> HIDE DEF f
    <3>2. IsUpTo(f, 0)
      BY <3>1
    <3> QED BY <1>1, <3>1, <3>2
  <2>2. ASSUME NEW n \in 0..(N - 1), n \in T PROVE n + 1 \in T
    <3>1. PICK f \in [0..n -> X] : IsUpTo(f, n)
      BY <2>2
    <3>2. n + 1 \in 1..N /\ n \in Nat /\ n \in 0..n /\ n + 1 \in 0..(n + 1)
      BY <1>1
    <3> DEFINE x == step(n + 1, f[n])
               g == [m \in 0..(n + 1) |-> IF m = n + 1 THEN x ELSE f[m]]
    <3>3. x \in X
      BY <1>2, <3>1, <3>2
    <3> HIDE DEF x
    <3>4. /\ \A m \in 0..n : m # n + 1 /\ m \in 0..(n + 1)
          /\ \A m \in 0..(n + 1) : m = n + 1 \/ m \in 0..n
      BY <3>2
    <3>5. g \in [0..(n + 1) -> X] /\ g[n + 1] = x /\ \A m \in 0..n : g[m] = f[m]
      BY <3>1, <3>2, <3>3, <3>4
    <3> HIDE DEF g
    <3>6. g[0] = b
      BY <3>1, <3>2, <3>5
    <3>7. ASSUME NEW m \in 1..(n + 1) PROVE g[m] = step(m, g[m - 1])
      <4>1. m - 1 \in 0..n /\ (m = n + 1 \/ m \in 1..n) /\ (n + 1) - 1 = n
        BY <3>2
      <4>2. CASE m = n + 1 BY <3>2, <3>5, <4>1, <4>2 DEF x
      <4>3. CASE m \in 1..n
        <5>1. m \in 0..n
          BY <4>3
        <5> QED BY <3>1, <3>5, <4>1, <4>3, <5>1
      <4> QED BY <4>1, <4>2, <4>3
    <3> QED BY <1>1, <3>2, <3>5, <3>6, <3>7
  <2> HIDE DEF T
  <2>3. \A n \in 0..N : n \in T
    BY <1>1, <2>1, <2>2, UpTo
  <2>4. N \in T
    BY <1>1, <2>3
  <2> QED BY <2>4 DEF T
<1>5. PICK f \in [0..N -> X] : IsUpTo(f, N)
  BY <1>4
<1>6. after = [n \in 0..N |-> IF n = 0 THEN b ELSE step(n, after[n - 1])]
  <2>1. \A n \in 0..N : f[n] = IF n = 0 THEN b ELSE step(n, f[n - 1])
    BY <1>1, <1>5
  <2>2. f = [n \in 0..N |-> IF n = 0 THEN b ELSE step(n, f[n - 1])]
    BY <2>1
  <2> QED BY <2>2
<1> HIDE DEF after
<1>7. \A n \in 0..N : n \in {k \in 0..N : after[k] \in X}
  <2> DEFINE T == {k \in 0..N : after[k] \in X}
  <2>1. 0 \in T
    BY <1>1, <1>6
  <2>2. ASSUME NEW n \in 0..(N - 1), n \in T PROVE n + 1 \in T
    <3>1. n + 1 \in 1..N /\ n + 1 \in 0..N /\ n + 1 # 0 /\ (n + 1) - 1 = n
      BY <1>1
    <3>2. after[n + 1] = step(n + 1, after[n])
      BY <1>6, <3>1
    <3>3. step(n + 1, after[n]) \in X
      BY <1>2, <2>2, <3>1
    <3> QED BY <3>1, <3>2, <3>3
  <2> HIDE DEF T
  <2>3. \A n \in 0..N : n \in T
    BY <1>1, <2>1, <2>2, UpTo
  <2> QED BY <2>3 DEF T
<1>8. after[N] \in X
  BY <1>1, <1>7
<1> QED BY <1>3, <1>8 DEF X, ParserStates

LEMMA DocWritten ==
    ASSUME NEW d \in Docs
    PROVE  /\ d.id \in DOMAIN Lines
           /\ d.pre \in Seq(Prompts) /\ d.post \in Seq(Prompts)
           /\ d.body \in Seq(Seq(Prompts))
           /\ \A i \in 1..Len(d.pre) : d.pre[i].do \in {"on", "off"} => d.pre[i].arg \in Workloads
<1>1. PICK id \in DOMAIN Lines, seqs \in [Benches -> 0..MaxSeq] : d = Parsed(id, seqs)
  BY DEF Docs
<1>2. /\ d.id = id
      /\ d.pre \in Seq(EntryCmds(id)) /\ d.post \in Seq(DocCmds(id))
      /\ d.body \in Seq(Seq(DocCmds(id)))
  BY <1>1, ParsedWritten
<1>3. /\ d.pre \in Seq(Prompts) /\ d.post \in Seq(Prompts)
      /\ d.body \in Seq(Seq(Prompts))
  BY <1>1, <1>2, LinesWritten, SeqsGrow
<1>4. \A i \in 1..Len(d.pre) : d.pre[i] \in EntryCmds(id)
  BY <1>2
<1>5. \A c \in EntryCmds(id) : c.do \in {"on", "off"} => c.arg \in Workloads
  BY <1>1, WrittenAssumption
<1> QED BY <1>1, <1>2, <1>3, <1>4, <1>5

LEMMA EmptyWritten == EmptyDoc.post \in Seq(Prompts)
BY DEF EmptyDoc, Blank

(* show_doc() ends in the entry to the document, all of whose commands for *)
(* it are still to come, or in a jump to another one.                      *)
LEMMA ShowDocLeads ==
    ASSUME NEW target \in DOMAIN Lines, NEW back \in BOOLEAN,
           benchSeq \in [Benches -> 0..MaxSeq], doc \in Docs \cup {EmptyDoc},
           NEW t, t = ShowDoc(target, back)
    PROVE  /\ TodoWritten(t) /\ Leads(t)
           /\ t[Len(t)].do = "enter" =>
                 /\ Len(EntryOf(t)) \in Nat /\ Entered(t) \in Int /\ Entered(t) <= 0
                 /\ \A j \in 1..Len(EntryOf(t)) : t[j - Entered(t)] = EntryOf(t)[j]
<1> DEFINE d == Parsed(target, benchSeq)
           pre == d.pre
           post == doc.post
           I == {i \in 1..Len(pre) : pre[i].do = "jump"}
           e == Enter(d, back)
<1>1. d \in Docs
  BY DEF Docs
<1>2. pre \in Seq(Prompts) /\ post \in Seq(Prompts)
  BY <1>1, DocWritten, EmptyWritten
<1>3. /\ I # {} => Min(I) \in 1..Len(pre) /\ pre[Min(I)].do = "jump"
      /\ t = post \o (IF I # {} THEN SubSeq(pre, 1, Min(I)) ELSE Append(pre, e))
  <2> DEFINE redirect == IF I # {} THEN Min(I) ELSE 0
  <2>1. I \in SUBSET Nat /\ \A i \in I : i \in 1..Len(pre) /\ pre[i].do = "jump" /\ i > 0
    <3> HIDE DEF pre, post, e
    <3>1. Len(pre) \in Nat
      BY <1>2, LenProperties, ZenonT(60)
    <3> QED BY <3>1
  <2>2. t = post \o (IF redirect > 0 THEN SubSeq(pre, 1, redirect) ELSE Append(pre, e))
    BY DEF ShowDoc, SelectInSeq
  <2> HIDE DEF I, pre, post, e
  <2>3. I # {} => Min(I) \in I
    BY <2>1, LeastOf
  <2>4. /\ I # {} => redirect = Min(I) /\ redirect > 0
        /\ I = {} => redirect = 0
    <3>1. I # {} => redirect = Min(I)
      OBVIOUS
    <3>2. I = {} => redirect = 0
      OBVIOUS
    <3> HIDE DEF redirect
    <3> QED BY <2>1, <2>3, <3>1, <3>2
  <2>5. I # {} => Min(I) \in 1..Len(pre) /\ pre[Min(I)].do = "jump"
    BY <2>1, <2>3
  <2> HIDE DEF redirect
  <2>6. CASE I # {} BY <2>2, <2>4, <2>5, <2>6, Zenon
  <2>7. CASE I = {}
    <3>1. ~(redirect > 0)
      BY <2>4, <2>7
    <3> QED BY <2>2, <2>7, <3>1, Zenon
  <2> QED BY <2>6, <2>7, ZenonT(60)
<1>4. e \in Enters /\ e.do = "enter" /\ e.arg = d
  BY <1>1 DEF Enter, Enters
<1>5. \A c \in Prompts : c.do # "enter"
  BY DEF Prompts, CmdKinds
<1> HIDE DEF d, e
<1>6. CASE I # {}
  <2> DEFINE m == Min(I)
  <2>1. m \in 1..Len(pre) /\ pre[m].do = "jump"
    BY <1>3, <1>6
  <2> HIDE DEF m, pre, post
  <2>2. SubSeq(pre, 1, m) \in Seq(Prompts) /\ Len(SubSeq(pre, 1, m)) = m /\ SubSeq(pre, 1, m)[m] = pre[m]
    BY <1>2, <2>1
  <2> DEFINE s == SubSeq(pre, 1, m)
  <2>3. t = post \o s
    BY <1>3, <1>6 DEF m
  <2> HIDE DEF s
  <2>4. /\ t \in Seq(Prompts) /\ Len(t) = Len(post) + m /\ t[Len(t)] = s[m]
    <3>1. s \in Seq(Prompts) /\ Len(s) = m /\ Len(post) \in Nat /\ m \in Nat /\ m > 0
      BY <1>2, <2>1, <2>2 DEF s
    <3>2. /\ post \o s \in Seq(Prompts) /\ Len(post \o s) = Len(post) + Len(s)
          /\ \A i \in 1 .. Len(post) + Len(s) :
                (post \o s)[i] = IF i <= Len(post) THEN post[i] ELSE s[i - Len(post)]
      BY <1>2, <3>1, ConcatProperties, Zenon
    <3>3. /\ Len(post) + m \in 1..(Len(post) + m) /\ ~(Len(post) + m <= Len(post))
          /\ (Len(post) + m) - Len(post) = m
      BY <3>1
    <3> QED BY <2>3, <3>1, <3>2, <3>3
  <2>5. t # <<>> /\ t[Len(t)].do = "jump"
    BY <1>2, <2>1, <2>2, <2>4 DEF s
  <2>6. \A i \in 1..Len(t) : t[i].do # "enter"
    BY <1>5, <2>4
  <2>7. t \in Seq(Prompts \cup Enters)
    BY <2>4, SeqsGrow
  <2> QED BY <2>5, <2>6, <2>7, SMTT(20) DEF TodoWritten, Leads
<1>7. CASE I = {}
  <2> HIDE DEF pre, post
  <2>1. t = post \o Append(pre, e)
    BY <1>3, <1>7
  <2>2. /\ Append(pre, e) \in Seq(Prompts \cup Enters)
        /\ Len(Append(pre, e)) = Len(pre) + 1
        /\ Append(pre, e)[Len(pre) + 1] = e
        /\ \A j \in 1..Len(pre) : Append(pre, e)[j] = pre[j]
    BY <1>2, <1>4
  <2> DEFINE a == Append(pre, e)
  <2> HIDE DEF a
  <2>3. post \in Seq(Prompts \cup Enters) /\ Len(post) \in Nat /\ Len(pre) \in Nat
    BY <1>2, SeqsGrow
  <2>4. /\ t \in Seq(Prompts \cup Enters)
        /\ Len(t) = Len(post) + Len(pre) + 1
        /\ \A i \in 1..Len(post) : t[i] = post[i]
        /\ \A j \in 1..Len(pre) : t[Len(post) + j] = pre[j]
        /\ t[Len(t)] = e
    BY <2>1, <2>2, <2>3
  <2>5. \A i \in 1..Len(t) : t[i].do = "enter" => i = Len(t)
    <3> SUFFICES ASSUME NEW i \in 1..Len(t), i # Len(t) PROVE t[i] \in Prompts
      BY <1>5
    <3>1. CASE i <= Len(post) BY <1>2, <2>3, <2>4, <3>1
    <3>2. CASE i > Len(post)
      <4>1. i - Len(post) \in 1..Len(pre) /\ i = Len(post) + (i - Len(post))
        BY <2>3, <2>4, <3>2
      <4>2. t[i] = pre[i - Len(post)]
        BY <2>4, <4>1
      <4> QED BY <1>2, <4>1, <4>2
    <3> QED BY <2>3, <3>1, <3>2
  <2>6. EntryOf(t) = pre
    BY <1>4, <2>4 DEF EntryOf, pre
  <2>7. Entered(t) = 0 - Len(post)
    BY <2>3, <2>4, <2>6 DEF Entered
  <2>8. \A j \in 1..Len(pre) : j - Entered(t) = Len(post) + j
    BY <2>3, <2>7
  <2>9. t # <<>> /\ t[Len(t)].do = "enter"
    BY <1>4, <2>3, <2>4
  <2> QED BY <2>3, <2>4, <2>5, <2>6, <2>7, <2>8, <2>9 DEF TodoWritten, Leads
<1> QED BY <1>6, <1>7

(* What one command does to the switches.                                  *)
LEMMA ResetIs ==
    ASSUME SwitchInv, NEW what
    PROVE  /\ Reset(cs, what).next = IF "benches" \in what THEN cs.cur ELSE cs.next
           /\ Reset(cs, what).on \subseteq cs.on
BY DEF Reset, SwitchInv

LEMMA ExecutedSwitches ==
    ASSUME SwitchInv, NEW e \in Prompts, NEW c, c = Executed(cs, e)
    PROVE  /\ c.next \in [Benches -> 0..Loop]
           /\ e.do \in {"off", "reset", "knob", "graph"} =>
                 /\ c.on \subseteq cs.on
                 /\ \A b \in Benches : c.next[b] > benchSeq[b] => cs.next[b] > benchSeq[b]
<1>1. /\ cs.next \in [Benches -> 0..Loop] /\ cs.cur \in [Benches -> 0..MaxSeq]
      /\ benchSeq \in [Benches -> 0..MaxSeq] /\ \A b \in Benches : cs.cur[b] <= benchSeq[b]
      /\ MaxSeq \in Nat \ {0} /\ Loop = MaxSeq + 1 /\ cs.cur \in [Benches -> 0..Loop]
  BY DocsAssumption DEF SwitchInv, Loop
<1>2. cs = [next |-> cs.next, cur |-> cs.cur, on |-> cs.on, knobs |-> cs.knobs, ctl |-> cs.ctl]
  BY DEF SwitchInv
<1>3. CASE e.do \in {"on", "off"}
  <2> DEFINE sw == e.arg
             on == e.do = "on"
  <2>1. c = Switched(cs, sw, on)
    BY <1>3 DEF Executed
  <2> HIDE DEF sw, on
  <2>2. CASE sw \in Benches \cup {"loop", "needed"}
    <3>1. c = [cs EXCEPT !.next = Asked(cs, sw, on)]
      <4>1. sw \notin Ctls
        BY <2>2 DEF Benches, Ctls
      <4> QED BY <2>1, <2>2, <4>1 DEF Switched
    <3>2. c.next = Asked(cs, sw, on) /\ c.on = cs.on
      BY <1>2, <3>1
    <3>3. sw \notin Workloads
      BY <2>2 DEF Workloads, Benches, Hashds, Senpais
    <3>4. CASE sw \in Benches
      <4>1. Asked(cs, sw, on) = [cs.next EXCEPT ![sw] = cs.cur[sw] + IF on THEN 1 ELSE 0]
        BY <3>4 DEF Asked, Benches
      <4>2. cs.cur[sw] \in 0..MaxSeq /\ cs.cur[sw] <= benchSeq[sw] /\ benchSeq[sw] \in 0..MaxSeq
        BY <1>1, <3>4
      <4> QED BY <1>1, <1>3, <3>2, <3>3, <3>4, <4>1, <4>2 DEF on, sw
    <3>5. CASE sw = "loop"
      <4>1. Asked(cs, sw, on) = [cs.next EXCEPT !["hashd"] = IF on THEN Loop ELSE cs.cur["hashd"]]
        BY <3>5 DEF Asked
      <4>2. /\ cs.cur["hashd"] \in 0..MaxSeq /\ cs.cur["hashd"] <= benchSeq["hashd"]
            /\ benchSeq["hashd"] \in 0..MaxSeq /\ "hashd" \in Benches
        BY <1>1 DEF Benches
      <4> QED BY <1>1, <1>3, <3>2, <3>3, <4>1, <4>2 DEF on, sw
    <3>6. CASE sw = "needed"
      <4>1. Asked(cs, sw, on) = [b \in Benches |-> IF cs.cur[b] = 0 THEN 1 ELSE cs.next[b]]
        BY <3>6 DEF Asked
      <4>2. on
        BY <1>3, <3>6 DEF Prompts, on, sw
      <4> QED BY <1>1, <3>2, <3>3, <4>1, <4>2 DEF on, sw
    <3> QED BY <2>2, <3>4, <3>5, <3>6
  <2>3. CASE sw \in Ctls
    <3>1. c = [cs EXCEPT !.ctl = Flipped(cs.ctl, sw, on)]
      <4>1. sw \notin Benches \cup {"loop", "needed"}
        BY <2>3 DEF Benches, Ctls
      <4> QED BY <2>1, <2>3, <4>1 DEF Switched
    <3>2. c.next = cs.next /\ c.on = cs.on
      BY <1>2, <3>1
    <3>3. sw \notin Workloads
      BY <2>3 DEF Workloads, Ctls, Hashds, Senpais
    <3> QED BY <1>1, <1>3, <3>2, <3>3 DEF on, sw
  <2>4. CASE sw \notin Benches \cup {"loop", "needed"} \cup Ctls
    <3>1. c = [cs EXCEPT !.on = Flipped(cs.on, sw, on)]
      BY <2>1, <2>4 DEF Switched
    <3>2. c.next = cs.next /\ c.on = Flipped(cs.on, sw, on)
      BY <1>2, <3>1
    <3> QED BY <1>1, <1>3, <3>2 DEF on, sw, Flipped
  <2> QED BY <2>2, <2>3, <2>4
<1>4. CASE e.do = "reset"
  <2>1. c = Reset(cs, ResetsOf(e.arg))
    BY <1>4 DEF Executed
  <2>2. c.on \subseteq cs.on /\ (c.next = cs.next \/ c.next = cs.cur)
    BY <2>1, ResetIs
  <2> QED BY <1>1, <1>4, <2>2
<1>5. CASE e.do = "knob"
  <2>1. c = [cs EXCEPT !.knobs = @ \cup {e.arg}]
    BY <1>5 DEF Executed, Knob
  <2> QED BY <1>1, <1>2, <1>5, <2>1
<1>6. CASE e.do \notin {"on", "off", "reset", "knob"}
  <2>1. c = cs
    BY <1>6 DEF Executed
  <2> QED BY <1>1, <1>6, <2>1
<1> QED BY <1>3, <1>4, <1>5, <1>6

(* A command at the entry to a document turns what it is about, and leaves *)
(* everything else as it was.                                              *)
LEMMA NamesApart ==
    /\ Ctls \cap (Benches \cup Workloads \cup Tunables) = {}
    /\ Benches \cap (Workloads \cup Tunables) = {} /\ Workloads \cap Tunables = {}
    /\ Workloads \cap {"loop", "needed"} = {}
BY DEF Ctls, Benches, Workloads, Tunables, Hashds, Senpais

LEMMA TurnsAre ==
    ASSUME NEW e
    PROVE  /\ TurnsOn(e) \cap Benches = {} /\ TurnsOff(e) \cap Ctls = {}
           /\ Turns(e) \subseteq Workloads \cup Tunables \cup Ctls \cup Benches
           /\ TurnsOn(e) \subseteq Turns(e)
<1>1. TurnsOn(e) \subseteq Workloads \cup Tunables \cup Ctls
  BY DEF TurnsOn
<1>2. TurnsOff(e) \subseteq Workloads \cup Tunables \cup Benches
  BY DEF TurnsOff, Workloads
<1> QED BY <1>1, <1>2, NamesApart DEF Turns

LEMMA ExecutedTurns ==
    ASSUME SwitchInv, NEW e \in Prompts, e.do \in {"on", "off"} => e.arg \in Workloads
    PROVE  /\ Executed(cs, e).ctl \subseteq Ctls
           /\ \A x : IF x \in Turns(e)
                    THEN x \in HeldOf(Executed(cs, e)) <=> x \in TurnsOn(e)
                    ELSE x \in HeldOf(Executed(cs, e)) <=> x \in HeldOf(cs)
<1> DEFINE c == Executed(cs, e)
<1>1. /\ cs = [next |-> cs.next, cur |-> cs.cur, on |-> cs.on, knobs |-> cs.knobs, ctl |-> cs.ctl]
      /\ cs.ctl \subseteq Ctls
  BY DEF SwitchInv
<1>2. CASE e.do \in {"on", "off"}
  <2> DEFINE on == e.do = "on"
  <2>1. e.arg \in Workloads /\ e.arg \notin Ctls \cup Benches \cup Tunables \cup {"loop", "needed"}
    BY <1>2, NamesApart
  <2>2. c = [cs EXCEPT !.on = Flipped(cs.on, e.arg, on)]
    BY <1>2, <2>1 DEF Executed, Switched
  <2>3. /\ c.next = cs.next /\ c.knobs = cs.knobs /\ c.ctl = cs.ctl
        /\ c.on = IF on THEN cs.on \cup {e.arg} ELSE cs.on \ {e.arg}
    BY <1>1, <2>2 DEF Flipped
  <2>4. Turns(e) = {e.arg} /\ (TurnsOn(e) = IF on THEN {e.arg} ELSE {})
    BY <1>2, <2>1 DEF Turns, TurnsOn, TurnsOff
  <2> HIDE DEF c
  <2>5. ASSUME NEW x PROVE IF x \in Turns(e) THEN x \in HeldOf(c) <=> x \in TurnsOn(e)
                           ELSE x \in HeldOf(c) <=> x \in HeldOf(cs)
    <3> HIDE DEF on
    <3>1. CASE x = e.arg
      <4>1. x \notin cs.ctl
        BY <1>1, <2>1, <3>1
      <4> QED BY <2>1, <2>3, <2>4, <3>1, <4>1 DEF HeldOf
    <3>2. CASE x # e.arg BY <2>3, <2>4, <3>2 DEF HeldOf
    <3> QED BY <3>1, <3>2
  <2> QED BY <1>1, <2>3, <2>5 DEF c
<1>3. CASE e.do = "knob"
  <2>1. c = [cs EXCEPT !.knobs = cs.knobs \cup {e.arg}]
    BY <1>3 DEF Executed, Knob
  <2>2. c.next = cs.next /\ c.on = cs.on /\ c.ctl = cs.ctl /\ c.knobs = cs.knobs \cup {e.arg}
    BY <1>1, <2>1
  <2>3. Turns(e) = {e.arg} \cap Tunables /\ TurnsOn(e) = {e.arg} \cap Tunables
    BY <1>3 DEF Turns, TurnsOn, TurnsOff
  <2> HIDE DEF c
  <2>4. \A x : IF x \in Turns(e) THEN x \in HeldOf(c) <=> x \in TurnsOn(e)
               ELSE x \in HeldOf(c) <=> x \in HeldOf(cs)
    BY <2>2, <2>3 DEF HeldOf
  <2> QED BY <1>1, <2>2, <2>4 DEF c
<1>4. CASE e.do = "reset"
  <2> DEFINE w == ResetsOf(e.arg)
  <2>1. c = Reset(cs, w)
    BY <1>4 DEF Executed
  <2> HIDE DEF w
  <2>2. /\ c.next = IF "benches" \in w THEN cs.cur ELSE cs.next
        /\ c.on = cs.on \ ((IF "hashds" \in w THEN Hashds ELSE {})
                            \cup ({"sideload", "sysload"} \cap w)
                            \cup (IF "oomd" \in w THEN Senpais ELSE {}))
        /\ c.ctl = cs.ctl \cup (Ctls \cap w) /\ c.knobs = cs.knobs \ w
    BY <1>1, <2>1 DEF Reset
  <2>3. /\ TurnsOn(e) = w \cap Ctls
        /\ TurnsOff(e) = {x \in {"sideload", "sysload"} \cup Tunables : x \in w}
                         \cup {x \in Hashds : "hashds" \in w} \cup {x \in Senpais : "oomd" \in w}
                         \cup {x \in Benches : "benches" \in w}
    BY <1>4 DEF TurnsOn, TurnsOff, w
  <2> HIDE DEF c
  <2>4. \A b \in Benches : ~(cs.cur[b] > benchSeq[b])
    <3>1. /\ {cs.cur, benchSeq} \subseteq [Benches -> 0..MaxSeq] /\ MaxSeq \in Nat
          /\ \A b \in Benches : cs.cur[b] <= benchSeq[b]
      BY DocsAssumption DEF SwitchInv
    <3> QED BY <3>1
  <2>5. ASSUME NEW x PROVE IF x \in Turns(e) THEN x \in HeldOf(c) <=> x \in TurnsOn(e)
                           ELSE x \in HeldOf(c) <=> x \in HeldOf(cs)
    <3>1. CASE x \in Ctls
      <4>1. x \notin Workloads \cup Tunables \cup Benches
        BY <3>1, NamesApart
      <4>2. x \in Turns(e) <=> x \in w
        BY <2>3, <3>1, TurnsAre DEF Turns
      <4> QED BY <2>2, <2>3, <3>1, <4>1, <4>2 DEF HeldOf
    <3>2. CASE x \in Workloads
      <4>1. x \notin Ctls \cup Tunables \cup Benches /\ x \notin cs.ctl
        BY <1>1, <3>2, NamesApart
      <4>2. x \in c.on <=> x \in cs.on /\ x \notin TurnsOff(e)
        BY <2>2, <2>3, <3>2, <4>1 DEF Workloads
      <4>3. x \notin TurnsOn(e) /\ (x \in Turns(e) <=> x \in TurnsOff(e))
        BY <2>3, <4>1 DEF Turns
      <4> QED BY <2>2, <3>2, <4>1, <4>2, <4>3 DEF HeldOf
    <3>3. CASE x \in Tunables
      <4>1. x \notin Ctls \cup Workloads \cup Benches /\ x \notin cs.ctl
        BY <1>1, <3>3, NamesApart
      <4>2. /\ x \notin TurnsOn(e) /\ (x \in Turns(e) <=> x \in TurnsOff(e))
            /\ x \in TurnsOff(e) <=> x \in w
        BY <2>3, <3>3, <4>1 DEF Turns, Workloads
      <4> QED BY <2>2, <3>3, <4>1, <4>2 DEF HeldOf
    <3>4. CASE x \in Benches
      <4>1. x \notin Ctls \cup Workloads \cup Tunables /\ x \notin cs.ctl
        BY <1>1, <3>4, NamesApart
      <4>2. /\ x \notin TurnsOn(e) /\ (x \in Turns(e) <=> x \in TurnsOff(e))
            /\ x \in TurnsOff(e) <=> "benches" \in w
        BY <2>3, <3>4, <4>1 DEF Turns, Workloads
      <4> QED BY <2>2, <2>4, <3>4, <4>1, <4>2 DEF HeldOf
    <3>5. CASE x \notin Ctls \cup Workloads \cup Tunables \cup Benches
      <4>1. x \notin Turns(e)
        BY <3>5, TurnsAre
      <4> QED BY <1>1, <2>2, <3>5, <4>1 DEF HeldOf
    <3> QED BY <3>1, <3>2, <3>3, <3>4, <3>5
  <2> QED BY <1>1, <2>2, <2>5 DEF c
<1>5. CASE e.do \notin {"on", "off", "knob", "reset"}
  <2>1. c = cs /\ Turns(e) = {}
    BY <1>5 DEF Executed, Turns, TurnsOn, TurnsOff
  <2> QED BY <1>1, <2>1
<1> QED BY <1>2, <1>3, <1>4, <1>5

(* What is left when the first command is through.                         *)
LEMMA LastIn ==
    ASSUME NEW S, NEW t \in Seq(S), t # <<>>
    PROVE  t[Len(t)] \in S
OBVIOUS

LEMMA TailWritten ==
    ASSUME NEW t, TodoWritten(t), t # <<>>
    PROVE  /\ Tail(t) \in Seq(Prompts \cup Enters) /\ Len(Tail(t)) = Len(t) - 1 /\ Len(t) \in Nat \ {0}
           /\ \A i \in 1..Len(Tail(t)) : Tail(t)[i] = t[i + 1]
           /\ Head(t) = t[1] /\ t[1] \in Prompts \cup Enters
           /\ TodoWritten(Tail(t))
<1>1. /\ t \in Seq(Prompts \cup Enters) /\ Len(t) \in Nat \ {0}
      /\ \A i \in 1..Len(t) : t[i].do = "enter" => i = Len(t)
  BY DEF TodoWritten
<1>2. /\ Tail(t) \in Seq(Prompts \cup Enters) /\ Len(Tail(t)) = Len(t) - 1
      /\ \A i \in 1..Len(Tail(t)) : Tail(t)[i] = t[i + 1]
      /\ Head(t) = t[1] /\ t[1] \in Prompts \cup Enters
  <2> DEFINE S == Prompts \cup Enters
  <2> HIDE DEF S
  <2>1. t \in Seq(S)
    BY <1>1 DEF S
  <2>2. /\ Tail(t) \in Seq(S) /\ Len(Tail(t)) = Len(t) - 1
        /\ \A i \in 1..Len(Tail(t)) : Tail(t)[i] = t[i + 1]
    BY <2>1, HeadTailProperties, Zenon
  <2>3. Head(t) = t[1]
    OBVIOUS
  <2>4. Head(t) \in S
    BY <2>1, HeadTailProperties, ZenonT(60)
  <2> QED BY <2>2, <2>3, <2>4 DEF S
<1>3. \A i \in 1..Len(Tail(t)) : i + 1 \in 1..Len(t) /\ (i + 1 = Len(t) => i = Len(Tail(t)))
  <2>1. \A l \in Nat \ {0} : \A i \in 1..(l - 1) : i + 1 \in 1..l /\ (i + 1 = l => i = l - 1)
    OBVIOUS
  <2> QED BY <1>1, <1>2, <2>1
<1> QED BY <1>1, <1>2, <1>3 DEF TodoWritten

LEMMA PromptKinds == /\ \A c \in Prompts : c.do # "enter"
                     /\ \A c \in Prompts : c.do = "jump" => c.arg \in DOMAIN Lines
                     /\ \A e \in Enters : e.do = "enter" /\ e.arg \in Docs /\ e.back \in BOOLEAN
BY DEF Prompts, Enters, CmdKinds

LEMMA NotBoth ==
    ASSUME DocsInv
    PROVE  \A b \in Benches : ~(cmd.next[b] <= benchSeq[b] /\ cmd.next[b] > benchSeq[b])
<1>1. /\ {cmd.next} \subseteq [Benches -> 0..Loop] /\ {benchSeq} \subseteq [Benches -> 0..MaxSeq]
      /\ MaxSeq \in Nat /\ Loop \in Nat
  BY DocsAssumption DEF DocsInv, SwitchInv, Loop
<1> QED BY <1>1

LEMMA ExecStep ==
    ASSUME DocsInv, Exec
    PROVE  /\ DocsInv'
           /\ \A s \in TurnedOn(cmd, cmd') : s \in unheard => waited = "given up"
<1> DEFINE e == Head(todo)
           c == Executed(cs, e)
<1>1. /\ todo # <<>> /\ TodoWritten(todo) /\ SwitchInv /\ HeardInv /\ WaitInv
      /\ e.do \in {"on", "off", "reset", "knob", "graph"}
      /\ e.do = "on" => waited # "no"
  BY DEF Exec, Ready, HeadDo, DocsInv, TodoInv
<1>2. /\ Len(todo) \in Nat \ {0} /\ e = todo[1] /\ e \in Prompts
      /\ todo' = Tail(todo) /\ TodoWritten(todo') /\ Len(todo') = Len(todo) - 1
      /\ \A i \in 1..Len(todo') : todo'[i] = todo[i + 1]
  BY <1>1, TailWritten, PromptKinds DEF Exec
<1>3. /\ c.next \in [Benches -> 0..Loop]
      /\ e.do # "on" =>
            /\ c.on \subseteq cs.on
            /\ \A b \in Benches : c.next[b] > benchSeq[b] => cs.next[b] > benchSeq[b]
  BY <1>1, <1>2, ExecutedSwitches
<1>4. /\ cmd' = [seq |-> cmd.seq + 1, next |-> c.next, on |-> c.on, knobs |-> c.knobs]
      /\ cs' = [next |-> c.next, cur |-> benchSeq, on |-> c.on, knobs |-> c.knobs,
                ctl |-> {k \in Ctls : agent.rep > disable'[k]}]
      /\ waited' = "no"
      /\ UNCHANGED <<benchSeq, ack, agent, doc, hist>>
  BY DEF Exec, CmdOf, Refreshed
<1> HIDE DEF c, e
<1>c. disable' = [k \in Ctls |-> IF k \in c.ctl THEN 0 ELSE agent.rep]
  BY DEF Exec, Disabled, c, e
<1>5. SwitchInv'
  <2>1. benchSeq \in [Benches -> 0..MaxSeq] /\ MaxSeq \in Nat
    BY <1>1, DocsAssumption DEF SwitchInv
  <2>c. /\ agent'.rep \in Nat \ {0} /\ disable' \in [Ctls -> Nat]
        /\ cs'.ctl \subseteq {k \in Ctls : agent'.rep > disable'[k]}
    BY <1>1, <1>4, <1>c DEF SwitchInv
  <2>2. \A b \in Benches : benchSeq[b] <= benchSeq[b]
    BY <2>1
  <2>3. agent.got.next \in [Benches -> 0..Loop]
    BY <1>1 DEF SwitchInv
  <2>4. agent' = [up |-> agent'.up, rep |-> agent'.rep, got |-> agent'.got]
    BY <1>1, <1>4 DEF SwitchInv
  <2> QED BY <1>3, <1>4, <2>1, <2>c, <2>2, <2>3, <2>4 DEF SwitchInv
<1>6. HeardInv'
  BY <1>1, <1>4 DEF HeardInv
<1>7. Len(todo) > 1 => todo'[Len(todo')] = todo[Len(todo)]
  BY <1>2
<1>8. TodoInv'
  <2>1. Leads(todo) => e.do # "jump" /\ e.do # "enter" /\ Len(todo) > 1
    BY <1>1, <1>2 DEF Leads
  <2>2. Leads(todo) => Leads(todo')
    BY <1>2, <1>7, <2>1 DEF Leads
  <2> QED BY <1>2, <1>4, <2>2 DEF DocsInv, TodoInv
<1>9. EntryInv'
  <2> SUFFICES ASSUME todo' # <<>>, todo'[Len(todo')].do = "enter",
                      NEW j \in 1..Len(EntryOf(todo'))
               PROVE  IF j > Entered(todo') THEN todo'[j - Entered(todo')] = EntryOf(todo')[j]
                      ELSE \A x \in Turns(EntryOf(todo')[j]) :
                              (\A k \in (j + 1)..Entered(todo') : x \notin Turns(EntryOf(todo')[k]))
                                 => (x \in HeldOf(cs)' <=> x \in TurnsOn(EntryOf(todo')[j]))
    BY DEF EntryInv, EntryHeld
  <2> DEFINE pre == EntryOf(todo)
             n == Entered(todo)
  <2>1. Len(todo) > 1 /\ todo[Len(todo)] = todo'[Len(todo')] /\ EntryOf(todo') = pre
    <3>1. Len(todo) > 1
      BY <1>2
    <3> QED BY <1>7, <3>1 DEF EntryOf
  <2>2. /\ pre \in Seq(Prompts)
        /\ \A i \in 1..Len(pre) : pre[i].do \in {"on", "off"} => pre[i].arg \in Workloads
    <3>1. todo[Len(todo)] \in Enters
      <4>1. todo[Len(todo)] \in Prompts \cup Enters
        BY <1>1, LastIn DEF TodoWritten
      <4> QED BY <2>1, <4>1, PromptKinds
    <3>2. todo[Len(todo)].arg \in Docs
      BY <3>1, PromptKinds
    <3> QED BY <3>2, DocWritten DEF EntryOf
  <2>3. Entered(todo') = n + 1 /\ n \in Int
    <3> HIDE DEF pre
    <3>1. Len(pre) \in Nat
      BY <2>2
    <3>2. n = Len(pre) - (Len(todo) - 1) /\ Entered(todo') = Len(pre) - (Len(todo') - 1)
      BY <2>1 DEF Entered, pre
    <3> QED BY <1>2, <3>1, <3>2
  <2>4. \A i \in 1..Len(pre) :
            IF i > n THEN todo[i - n] = pre[i]
            ELSE \A x \in Turns(pre[i]) :
                    (\A k \in (i + 1)..n : x \notin Turns(pre[k]))
                       => (x \in HeldOf(cs) <=> x \in TurnsOn(pre[i]))
    BY <1>1, <2>1 DEF DocsInv, EntryInv, EntryHeld
  <2> HIDE DEF pre, n
  <2>5. j \in 1..Len(pre) /\ Len(pre) \in Nat
    BY <2>1, <2>2
  <2>6. n = Len(pre) - (Len(todo) - 1)
    BY DEF n, Entered, pre
  <2>7. CASE j > n + 1
    <3>1. /\ j > n /\ j - n = (j - (n + 1)) + 1 /\ j - (n + 1) >= 1
          /\ j - (n + 1) <= Len(todo) - 2 /\ Len(todo') = Len(todo) - 1 /\ j - (n + 1) \in Int
      BY <1>2, <2>3, <2>5, <2>6, <2>7
    <3>3. todo[j - n] = pre[j] /\ j - (n + 1) \in 1..Len(todo')
      <4>1. \A a, l \in Int : a >= 1 /\ a <= l - 2 => a \in 1..(l - 1)
        OBVIOUS
      <4> QED BY <1>2, <2>4, <2>5, <3>1, <4>1
    <3>2. todo'[j - (n + 1)] = pre[j]
      BY <1>2, <3>1, <3>3
    <3> QED BY <2>1, <2>3, <2>7, <3>2
  <2>8. CASE ~(j > n + 1)
    <3>1. n + 1 \in 1..Len(pre) /\ ~(n + 1 > n + 1) /\ n + 1 > n /\ (n + 1) - n = 1
      BY <1>2, <2>1, <2>3, <2>5, <2>6, <2>8
    <3>2. e = pre[n + 1] /\ (e.do \in {"on", "off"} => e.arg \in Workloads)
      BY <1>2, <2>2, <2>4, <3>1
    <3>3. \A x : IF x \in Turns(e) THEN x \in HeldOf(cs)' <=> x \in TurnsOn(e)
                 ELSE x \in HeldOf(cs)' <=> x \in HeldOf(cs)
      <4>1. /\ c.ctl \subseteq Ctls
            /\ \A x : IF x \in Turns(e) THEN x \in HeldOf(c) <=> x \in TurnsOn(e)
                     ELSE x \in HeldOf(c) <=> x \in HeldOf(cs)
        BY <1>1, <1>2, <3>2, ExecutedTurns DEF c
      <4>2. cs'.ctl = c.ctl
        <5>1. \A k \in Ctls : agent.rep > disable'[k] <=> k \in c.ctl
          BY <1>1, <1>c DEF SwitchInv
        <5> QED BY <1>4, <4>1, <5>1
      <4>3. HeldOf(cs)' = HeldOf(c)
        BY <1>4, <4>2 DEF HeldOf
      <4> QED BY <4>1, <4>3
    <3> SUFFICES ASSUME NEW x \in Turns(pre[j]), \A k \in (j + 1)..(n + 1) : x \notin Turns(pre[k])
                 PROVE  x \in HeldOf(cs)' <=> x \in TurnsOn(pre[j])
      BY <2>1, <2>3, <2>8
    <3>4. CASE j = n + 1
      BY <3>2, <3>3, <3>4
    <3>5. CASE j # n + 1
      <4>1. /\ ~(j > n) /\ n + 1 \in (j + 1)..(n + 1)
            /\ \A k \in (j + 1)..n : k \in (j + 1)..(n + 1)
        BY <2>3, <2>5, <2>8, <3>5
      <4>2. x \in HeldOf(cs) <=> x \in TurnsOn(pre[j])
        BY <2>4, <2>5, <4>1
      <4>3. x \notin Turns(e)
        BY <3>2, <4>1
      <4> QED BY <3>3, <4>2, <4>3
    <3> QED BY <3>4, <3>5
  <2> QED BY <2>7, <2>8
<1>10. \A s \in TurnedOn(cmd, cmd') : s \in unheard => waited = "given up"
  <2>1. CASE e.do = "on"
    <3>1. waited = "acked" \/ waited = "given up"
      BY <1>1, <2>1 DEF WaitInv
    <3> QED BY <1>1, <3>1 DEF HeardInv
  <2>2. CASE e.do # "on"
    <3>1. TurnedOn(cmd, cmd') =
             (cmd'.on \ cmd.on)
             \cup {b \in Benches : cmd.next[b] <= benchSeq[b] /\ cmd'.next[b] > benchSeq[b]}
      BY DEF TurnedOn
    <3>2. cmd'.on \subseteq cmd.on
      BY <1>1, <1>3, <1>4, <2>2 DEF SwitchInv
    <3>3. \A b \in Benches : cmd'.next[b] > benchSeq[b] => cmd.next[b] > benchSeq[b]
      BY <1>1, <1>3, <1>4, <2>2 DEF SwitchInv
    <3>4. \A b \in Benches : ~(cmd.next[b] <= benchSeq[b] /\ cmd.next[b] > benchSeq[b])
      BY NotBoth
    <3> QED BY <3>1, <3>2, <3>3, <3>4
  <2> QED BY <2>1, <2>2
<1>11. WaitInv'
  BY <1>4 DEF WaitInv
<1> QED BY <1>5, <1>6, <1>8, <1>9, <1>10, <1>11 DEF DocsInv

(* A click or a key starts on what is to be done.                          *)
LEMMA ShowStep ==
    ASSUME DocsInv, doc \in Docs \/ Leads(todo), NEW target \in DOMAIN Lines, NEW back \in BOOLEAN,
           todo' = ShowDoc(target, back), hist' \in Seq(DOMAIN Lines),
           UNCHANGED <<cs, cmd, disable, benchSeq, ack, agent, doc, waited, unheard>>
    PROVE  DocsInv'
<1>1. /\ benchSeq \in [Benches -> 0..MaxSeq] /\ doc \in Docs \cup {EmptyDoc}
  BY DEF DocsInv, SwitchInv, TodoInv
<1>2. /\ TodoWritten(todo') /\ Leads(todo')
      /\ todo'[Len(todo')].do = "enter" =>
            /\ Len(EntryOf(todo')) \in Nat /\ Entered(todo') \in Int /\ Entered(todo') <= 0
            /\ \A j \in 1..Len(EntryOf(todo')) : todo'[j - Entered(todo')] = EntryOf(todo')[j]
  BY <1>1, ShowDocLeads
<1>3. TodoInv'
  BY <1>2 DEF DocsInv, TodoInv
<1>4. EntryInv'
  <2> SUFFICES ASSUME todo'[Len(todo')].do = "enter"
               PROVE  \A j \in 1..Len(EntryOf(todo')) :
                         j > Entered(todo') /\ todo'[j - Entered(todo')] = EntryOf(todo')[j]
    BY DEF EntryInv, EntryHeld
  <2> QED BY <1>2
<1> QED BY <1>3, <1>4 DEF DocsInv, SwitchInv, HeardInv, WaitInv

LEMMA ClickStep ==
    ASSUME DocsInv, ClickPrompt
    PROVE  DocsInv'
<1>1. /\ todo = <<>> /\ UNCHANGED <<cs, cmd, disable, benchSeq, ack, agent, doc, waited, unheard, hist>>
  BY DEF ClickPrompt, UserIdle
<1>2. doc \in Docs /\ hist \in Seq(DOMAIN Lines)
  BY <1>1 DEF DocsInv, TodoInv, Leads
<1>3. PICK i \in DOMAIN doc.body : todo' = Click(doc.body[i])
  BY DEF ClickPrompt
<1> DEFINE p == doc.body[i]
<1>4. p \in Seq(Prompts)
  <2> DEFINE S == Seq(Prompts)
  <2>1. doc.body \in Seq(S)
    BY <1>2, DocWritten
  <2> HIDE DEF S
  <2>2. doc.body[i] \in S
    BY <1>3, <2>1
  <2> QED BY <2>2 DEF S
<1> HIDE DEF p
<1>5. CASE Len(p) = 1 /\ p[1].do = "jump"
  <2>1. p[1] \in Prompts
    BY <1>4, <1>5
  <2>2. p[1].arg \in DOMAIN Lines
    BY <1>5, <2>1 DEF Prompts
  <2>3. todo' = ShowDoc(p[1].arg, FALSE)
    BY <1>3, <1>5 DEF Click, p
  <2> QED BY <1>1, <1>2, <2>2, <2>3, ShowStep
<1>6. CASE ~(Len(p) = 1 /\ p[1].do = "jump")
  <2>1. todo' \in Seq(Prompts)
    <3>1. CASE Len(p) = 1 /\ p[1].do = "toggle"
      <4>1. p[1] \in Prompts
        <5>1. 1 \in 1..Len(p)
          BY <3>1
        <5> QED BY <1>4, <5>1, ElementOfSeq
      <4> DEFINE c == [p[1] EXCEPT !.do = IF Shown(p[1].arg) THEN "off" ELSE "on"]
      <4>2. c \in Prompts
        BY <3>1, <4>1 DEF Prompts, CmdKinds
      <4>3. todo' = <<c>>
        BY <1>3, <3>1 DEF Click, p
      <4> HIDE DEF c
      <4> QED BY <4>2, <4>3
    <3>2. CASE ~(Len(p) = 1 /\ p[1].do = "toggle")
      <4>1. todo' = p
        BY <1>3, <1>6, <3>2 DEF Click, p
      <4> QED BY <1>4, <4>1
    <3> QED BY <3>1, <3>2
  <2>2. \A k \in 1..Len(todo') : todo'[k].do # "enter"
    BY <2>1, PromptKinds
  <2>3. todo' \in Seq(Prompts \cup Enters)
    BY <2>1, SeqsGrow
  <2>4. TodoInv'
    BY <1>1, <1>2, <2>2, <2>3 DEF TodoInv, TodoWritten
  <2>5. EntryInv'
    <3>1. todo' # <<>> => todo'[Len(todo')] \in Prompts
      BY <2>1, LastIn
    <3> QED BY <3>1, PromptKinds DEF EntryInv, EntryHeld
  <2> QED BY <1>1, <2>4, <2>5 DEF DocsInv, SwitchInv, HeardInv, WaitInv
<1> QED BY <1>5, <1>6

LEMMA KeyStep ==
    ASSUME DocsInv, KeyIndex \/ KeyReload \/ KeyBack
    PROVE  DocsInv'
<1>1. /\ todo = <<>> /\ UNCHANGED <<cs, cmd, disable, benchSeq, ack, agent, doc, waited, unheard>>
  BY DEF KeyIndex, KeyReload, KeyBack, UserIdle
<1>2. /\ doc \in Docs /\ hist \in Seq(DOMAIN Lines) /\ doc.id \in DOMAIN Lines
      /\ Index \in DOMAIN Lines
  BY <1>1, DocWritten, DocsAssumption DEF DocsInv, TodoInv, Leads
<1>3. CASE KeyIndex
  BY <1>1, <1>2, <1>3, ShowStep DEF KeyIndex
<1>4. CASE KeyReload
  BY <1>1, <1>2, <1>4, ShowStep DEF KeyReload
<1>5. CASE KeyBack
  <2>1. hist # <<>> /\ todo' = ShowDoc(Last(hist), TRUE) /\ hist' = Front(hist)
    BY <1>5 DEF KeyBack
  <2>2. Last(hist) \in DOMAIN Lines /\ Front(hist) \in Seq(DOMAIN Lines)
    <3> DEFINE S == DOMAIN Lines
    <3>1. hist \in Seq(S)
      BY <1>2
    <3> HIDE DEF S
    <3>2. Last(hist) \in S /\ Front(hist) \in Seq(S)
      BY <2>1, <3>1, LastIn DEF Last, Front
    <3> QED BY <3>2 DEF S
  <2> QED BY <1>1, <1>2, <2>1, <2>2, ShowStep
<1> QED BY <1>3, <1>4, <1>5

(* At the entry everything the document runs for it has been run.          *)
LEMMA EnterStep ==
    ASSUME DocsInv, EnterDoc
    PROVE  DocsInv' /\ AsEntered(doc')
<1>1. /\ todo # <<>> /\ TodoWritten(todo) /\ Head(todo).do = "enter"
      /\ doc' = Head(todo).arg /\ todo' = Tail(todo)
      /\ cs' = [next |-> cmd.next, cur |-> benchSeq, on |-> cmd.on, knobs |-> cmd.knobs,
                ctl |-> {k \in Ctls : agent.rep > disable[k]}]
      /\ UNCHANGED <<cmd, disable, benchSeq, ack, agent, waited, unheard>>
  BY DEF EnterDoc, HeadDo, DocsInv, TodoInv, Refreshed
<1>2. /\ Len(todo) = 1 /\ Len(todo') = 0 /\ todo' \in Seq(Prompts \cup Enters)
      /\ Head(todo) = todo[1] /\ todo[1] \in Enters
  <2>1. /\ Tail(todo) \in Seq(Prompts \cup Enters) /\ Len(Tail(todo)) = Len(todo) - 1
        /\ Len(todo) \in Nat \ {0} /\ Head(todo) = todo[1] /\ todo[1] \in Prompts \cup Enters
    BY <1>1, TailWritten
  <2>2. Len(todo) = 1
    <3>1. 1 \in 1..Len(todo) /\ todo[1].do = "enter"
      BY <1>1, <2>1
    <3> QED BY <1>1, <3>1 DEF TodoWritten
  <2>3. todo[1] \in Enters
    BY <1>1, <2>1, PromptKinds
  <2> QED BY <1>1, <2>1, <2>2, <2>3
<1>3. doc' \in Docs
  BY <1>1, <1>2, PromptKinds
<1>4. todo' = <<>>
  <2> DEFINE S == Prompts \cup Enters
  <2>1. todo' \in Seq(S)
    BY <1>2
  <2> HIDE DEF S
  <2> QED BY <1>2, <2>1
<1>5. hist' \in Seq(DOMAIN Lines)
  <2>1. hist \in Seq(DOMAIN Lines) /\ doc \in Docs \cup {EmptyDoc}
    BY DEF DocsInv, TodoInv
  <2>2. hist' = hist \/ (doc # EmptyDoc /\ hist' = Append(hist, doc.id))
    <3>1. CASE doc = EmptyDoc
      <4>1. ~(doc.id # "")
        BY <3>1, Zenon DEF EmptyDoc, Blank
      <4> QED BY <4>1, Zenon DEF EnterDoc
    <3>2. CASE doc # EmptyDoc
      BY <3>2, ZenonT(60) DEF EnterDoc
    <3> QED BY <3>1, <3>2
  <2>3. doc \in Docs => doc.id \in DOMAIN Lines
    BY DocWritten
  <2> DEFINE S == DOMAIN Lines
  <2>4. hist \in Seq(S) /\ (hist' = hist \/ (doc.id \in S /\ hist' = Append(hist, doc.id)))
    BY <2>1, <2>2, <2>3
  <2> HIDE DEF S
  <2>5. hist' \in Seq(S)
    BY <2>4
  <2> QED BY <2>5 DEF S
<1>6. TodoInv'
  BY <1>2, <1>3, <1>4, <1>5 DEF TodoInv, TodoWritten
<1>7. SwitchInv'
  <2>1. SwitchInv /\ MaxSeq \in Nat
    BY DocsAssumption DEF DocsInv
  <2>2. benchSeq \in [Benches -> 0..MaxSeq]
    BY <2>1 DEF SwitchInv
  <2>3. \A b \in Benches : benchSeq[b] <= benchSeq[b]
    BY <2>1, <2>2
  <2> QED BY <1>1, <2>1, <2>2, <2>3 DEF SwitchInv
<1>8. EntryInv'
  BY <1>4 DEF EntryInv, EntryHeld
<1>9. AsEntered(doc')
  <2> DEFINE pre == doc'.pre
  <2>1. EntryOf(todo) = pre /\ todo[Len(todo)].do = "enter"
    BY <1>1, <1>2 DEF EntryOf
  <2>2. pre \in Seq(Prompts)
    BY <1>3, DocWritten
  <2> HIDE DEF pre
  <2>3. Len(pre) \in Nat /\ DOMAIN pre = 1..Len(pre) /\ Entered(todo) = Len(pre)
    BY <1>2, <2>1, <2>2 DEF Entered
  <2>4. \A j \in 1..Len(pre) : \A x \in Turns(pre[j]) :
            (\A k \in (j + 1)..Len(pre) : x \notin Turns(pre[k]))
                => (x \in HeldOf(cs) <=> x \in TurnsOn(pre[j]))
    <3>1. \A j \in 1..Len(pre) : ~(j > Len(pre))
      BY <2>3
    <3> QED BY <1>1, <2>1, <2>3, <3>1 DEF DocsInv, EntryInv, EntryHeld
  <2> SUFFICES ASSUME NEW i \in DOMAIN pre, NEW x \in Turns(pre[i]),
                      \A j \in (i + 1)..Len(pre) : x \notin Turns(pre[j])
               PROVE  x \in InEffect' <=> x \in TurnsOn(pre[i])
    BY DEF AsEntered, pre
  <2>5. x \in HeldOf(cs) <=> x \in TurnsOn(pre[i])
    BY <2>3, <2>4
  <2>6. /\ InEffect' = (cs.on \cap Workloads) \cup (cs.knobs \cap Tunables)
                       \cup {k \in Ctls : agent.rep > disable[k]}
                       \cup {b \in Benches : cs.next[b] > benchSeq[b]}
        /\ cs.ctl \subseteq {k \in Ctls : agent.rep > disable[k]}
    BY <1>1 DEF DocsInv, SwitchInv, InEffect
  <2>7. CASE x \in Ctls
    BY <2>5, <2>6, <2>7, TurnsAre DEF Turns, HeldOf
  <2>8. CASE x \notin Ctls
    <3>1. x \notin cs.ctl
      BY <2>6, <2>8
    <3> QED BY <2>5, <2>6, <2>8, <3>1 DEF HeldOf
  <2> QED BY <2>7, <2>8
<1> QED BY <1>1, <1>6, <1>7, <1>8, <1>9 DEF DocsInv, HeardInv, WaitInv

LEMMA AgentStepKeeps ==
    ASSUME DocsInv,
           Sync \/ AgentLoad \/ AgentAck \/ BenchDone \/ AgentDies \/ AgentStarts \/ StatusLooks
    PROVE  DocsInv'
<1>1. UNCHANGED <<todo, doc, hist, cmd, disable, cs>>
  BY DEF Sync, AgentLoad, AgentAck, BenchDone, AgentDies, AgentStarts, StatusLooks, AgentStep
<1>2. TodoInv'
  BY <1>1 DEF DocsInv, TodoInv
<1>e. ASSUME HeldOf(cs)' \subseteq HeldOf(cs), HeldOf(cs) \ Benches \subseteq HeldOf(cs)'
      PROVE  EntryInv'
  <2>1. \A c, x : x \in Turns(c) => ((x \in HeldOf(cs) <=> x \in TurnsOn(c))
                                      => (x \in HeldOf(cs)' <=> x \in TurnsOn(c)))
    BY <1>e, TurnsAre
  <2> SUFFICES ASSUME todo # <<>>, todo[Len(todo)].do = "enter", NEW j \in 1..Len(EntryOf(todo))
               PROVE  IF j > Entered(todo) THEN todo[j - Entered(todo)] = EntryOf(todo)[j]
                      ELSE \A x \in Turns(EntryOf(todo)[j]) :
                              (\A k \in (j + 1)..Entered(todo) : x \notin Turns(EntryOf(todo)[k]))
                                 => (x \in HeldOf(cs)' <=> x \in TurnsOn(EntryOf(todo)[j]))
    BY <1>1 DEF EntryInv, EntryHeld
  <2> QED BY <2>1 DEF DocsInv, EntryInv, EntryHeld
<1>h. UNCHANGED benchSeq => HeldOf(cs)' = HeldOf(cs)
  BY <1>1 DEF HeldOf
<1>3. SwitchInv /\ HeardInv /\ WaitInv /\ MaxSeq \in Nat
  BY DocsAssumption DEF DocsInv
<1>4. agent = [up |-> agent.up, rep |-> agent.rep, got |-> agent.got]
  BY <1>3 DEF SwitchInv
<1>5. CASE Sync
  <2>1. UNCHANGED <<benchSeq, ack, agent, unheard>>
        /\ waited' \in {"acked", "given up"} /\ (waited' = "acked" => cmd.seq = ack)
    BY <1>5 DEF Sync, Synced
  <2> QED BY <1>1, <1>2, <1>e, <1>h, <1>3, <2>1 DEF DocsInv, SwitchInv, HeardInv, WaitInv
<1>6. CASE AgentLoad
  <2>1. agent' = [agent EXCEPT !.got = cmd] /\ unheard' = {} /\ UNCHANGED <<benchSeq, ack, waited>>
    BY <1>6 DEF AgentLoad, AgentStep
  <2>2. agent' = [up |-> agent.up, rep |-> agent.rep, got |-> cmd]
    BY <1>4, <2>1
  <2>3. cmd.seq \in Nat /\ cmd.seq \in 0..cmd.seq
    BY <1>3 DEF HeardInv
  <2> QED BY <1>1, <1>2, <1>e, <1>h, <1>3, <2>1, <2>2, <2>3 DEF DocsInv, SwitchInv, HeardInv, WaitInv
<1>7. CASE AgentAck
  <2>1. ack' = agent.got.seq /\ UNCHANGED <<benchSeq, agent, unheard, waited>>
    BY <1>7 DEF AgentAck, AgentStep
  <2> QED BY <1>1, <1>2, <1>e, <1>h, <1>3, <2>1 DEF DocsInv, SwitchInv, HeardInv, WaitInv
<1>8. CASE BenchDone
  <2>1. UNCHANGED <<ack, agent, unheard, waited>>
    BY <1>8 DEF BenchDone, AgentStep
  <2>2. PICK b \in Benches :
          /\ agent.got.next[b] > benchSeq[b] /\ benchSeq[b] < MaxSeq
          /\ benchSeq' = [benchSeq EXCEPT ![b] =
                             IF agent.got.next[b] = Loop THEN @ + 1 ELSE agent.got.next[b]]
    BY <1>8 DEF BenchDone
  <2>3. /\ benchSeq \in [Benches -> 0..MaxSeq] /\ agent.got.next[b] \in 0..Loop
        /\ cs.cur \in [Benches -> 0..MaxSeq] /\ \A x \in Benches : cs.cur[x] <= benchSeq[x]
    BY <1>3 DEF SwitchInv
  <2>4. benchSeq'[b] \in 0..MaxSeq /\ benchSeq'[b] >= benchSeq[b]
    BY <1>3, <2>2, <2>3 DEF Loop
  <2>5. \A x \in Benches : benchSeq'[x] \in 0..MaxSeq /\ cs.cur[x] <= benchSeq'[x]
    BY <1>3, <2>2, <2>3, <2>4
  <2>6. benchSeq' \in [Benches -> 0..MaxSeq]
    BY <2>2, <2>3, <2>5
  <2>7. HeldOf(cs)' \subseteq HeldOf(cs) /\ HeldOf(cs) \ Benches \subseteq HeldOf(cs)'
    <3>1. \A x \in Benches : cs.next[x] > benchSeq'[x] => cs.next[x] > benchSeq[x]
      <4>1. \A x \in Benches : /\ cs.next[x] \in 0..Loop /\ benchSeq[x] \in 0..MaxSeq
                               /\ benchSeq'[x] \in 0..MaxSeq /\ benchSeq'[x] >= benchSeq[x]
        <5>1. cs.next \in [Benches -> 0..Loop] /\ benchSeq \in [Benches -> 0..MaxSeq]
          BY <1>3 DEF SwitchInv
        <5> QED BY <5>1, <1>3, <2>2, <2>4, <2>5
      <4> QED BY <1>3, <4>1, DocsAssumption DEF Loop
    <3> QED BY <1>1, <3>1 DEF HeldOf
  <2>8. EntryInv'
    BY <1>e, <2>7
  <2> QED BY <1>1, <1>2, <1>3, <2>8, <2>1, <2>5, <2>6 DEF DocsInv, SwitchInv, HeardInv, WaitInv
<1>9. CASE AgentDies
  <2>1. agent' = [agent EXCEPT !.up = FALSE] /\ UNCHANGED <<benchSeq, ack, unheard, waited>>
    BY <1>9 DEF AgentDies, AgentStep
  <2>2. agent' = [up |-> FALSE, rep |-> agent.rep, got |-> agent.got]
    BY <1>4, <2>1
  <2> QED BY <1>1, <1>2, <1>e, <1>h, <1>3, <2>1, <2>2 DEF DocsInv, SwitchInv, HeardInv, WaitInv
<1>10. CASE AgentStarts
  <2>1. /\ agent' = [up |-> TRUE, rep |-> agent.rep + 1, got |-> cmd] /\ ack' = 0 /\ unheard' = {}
        /\ UNCHANGED <<benchSeq, waited>>
    BY <1>10 DEF AgentStarts, AgentStep
  <2>2. cmd.seq \in Nat /\ cmd.seq \in 0..cmd.seq /\ 0 \in 0..cmd.seq
    BY <1>3 DEF HeardInv
  <2>3. EntryInv'
    BY <1>e, <1>h, <2>1
  <2>4. /\ agent'.rep \in Nat \ {0} /\ agent'.rep = agent.rep + 1 /\ agent.rep \in Nat
        /\ cs.ctl \subseteq {k \in Ctls : agent'.rep > disable[k]}
    BY <1>3, <2>1 DEF SwitchInv
  <2> QED BY <1>1, <1>2, <1>3, <2>1, <2>2, <2>3, <2>4 DEF DocsInv, SwitchInv, HeardInv, WaitInv
<1>11. CASE StatusLooks
  <2>1. UNCHANGED <<benchSeq, ack, agent, unheard, waited>>
    BY <1>11 DEF StatusLooks
  <2> QED BY <1>1, <1>2, <1>e, <1>h, <1>3, <2>1 DEF DocsInv, SwitchInv, HeardInv, WaitInv
<1> QED BY <1>5, <1>6, <1>7, <1>8, <1>9, <1>10, <1>11

LEMMA DocsStart == DocsInit => DocsInv
<1> SUFFICES ASSUME DocsInit PROVE DocsInv
  OBVIOUS
<1>1. /\ MaxSeq \in Nat \ {0} /\ Loop = MaxSeq + 1 /\ Index \in DOMAIN Lines
  BY DocsAssumption DEF Loop
<1>2. benchSeq \in [Benches -> 0..MaxSeq] /\ \A b \in Benches : benchSeq[b] <= benchSeq[b]
  <2>1. benchSeq \in [Benches -> {0, 1}] /\ {0, 1} \subseteq 0..MaxSeq
    BY <1>1 DEF DocsInit
  <2> QED BY <2>1
<1>3. /\ doc = EmptyDoc /\ hist = <<>> /\ todo = ShowDoc(Index, FALSE) /\ waited = "no"
      /\ unheard = {} /\ ack = 0 /\ cmd = NoCmd
      /\ agent = [up |-> TRUE, rep |-> 1, got |-> NoCmd]
      /\ cs = [next |-> NoCmd.next, cur |-> benchSeq, on |-> NoCmd.on, knobs |-> NoCmd.knobs,
               ctl |-> {k \in Ctls : 1 > disable[k]}]
  BY DEF DocsInit, Refreshed
<1>4. SwitchInv
  <2>1. NoCmd.next \in [Benches -> 0..Loop]
    BY <1>1 DEF NoCmd
  <2>2. disable \in [Ctls -> Nat]
    BY DEF DocsInit
  <2> QED BY <1>2, <1>3, <2>1, <2>2 DEF SwitchInv
<1>5. HeardInv /\ WaitInv
  BY <1>3 DEF HeardInv, WaitInv, NoCmd
<1>6. /\ TodoWritten(todo) /\ Leads(todo)
      /\ todo[Len(todo)].do = "enter" =>
            /\ Len(EntryOf(todo)) \in Nat /\ Entered(todo) \in Int /\ Entered(todo) <= 0
            /\ \A j \in 1..Len(EntryOf(todo)) : todo[j - Entered(todo)] = EntryOf(todo)[j]
  BY <1>1, <1>2, <1>3, ShowDocLeads
<1>7. TodoInv
  <2>1. hist \in Seq(DOMAIN Lines)
    BY <1>3
  <2> QED BY <1>3, <1>6, <2>1 DEF TodoInv
<1>8. EntryInv
  <2> SUFFICES ASSUME todo[Len(todo)].do = "enter"
               PROVE  \A j \in 1..Len(EntryOf(todo)) :
                         j > Entered(todo) /\ todo[j - Entered(todo)] = EntryOf(todo)[j]
    BY DEF EntryInv, EntryHeld
  <2> QED BY <1>6
<1> QED BY <1>4, <1>5, <1>7, <1>8 DEF DocsInv

LEMMA DocsStep ==
    ASSUME DocsInv, [DocsNext]_docVars
    PROVE  /\ DocsInv'
           /\ cmd' # cmd => \A s \in TurnedOn(cmd, cmd') : s \in unheard => waited = "given up"
           /\ EnterDoc => AsEntered(doc')
<1>0. EnterDoc => AsEntered(doc')
  BY EnterStep
<1>1. CASE Exec
  BY <1>0, <1>1, ExecStep DEF Exec
<1>2. CASE EnterDoc
  BY <1>0, <1>2, EnterStep DEF EnterDoc
<1>3. CASE Redirect
  <2>1. /\ todo # <<>> /\ Head(todo).do = "jump" /\ todo' = ShowDoc(Head(todo).arg, FALSE)
        /\ UNCHANGED <<cs, cmd, disable, benchSeq, ack, agent, doc, waited, unheard, hist>>
    BY <1>3 DEF Redirect, HeadDo
  <2>2. hist \in Seq(DOMAIN Lines) /\ TodoWritten(todo) /\ (doc \in Docs \/ Leads(todo))
    BY DEF DocsInv, TodoInv
  <2>3. Head(todo) \in Prompts
    BY <2>1, <2>2, TailWritten, PromptKinds
  <2>4. Head(todo).arg \in DOMAIN Lines
    BY <2>1, <2>3, PromptKinds
  <2> QED BY <1>0, <2>1, <2>2, <2>4, ShowStep
<1>4. CASE ClickPrompt
  BY <1>0, <1>4, ClickStep DEF ClickPrompt, UserIdle
<1>5. CASE KeyIndex \/ KeyReload \/ KeyBack
  BY <1>0, <1>5, KeyStep DEF KeyIndex, KeyReload, KeyBack, UserIdle
<1>6. CASE Sync \/ AgentLoad \/ AgentAck \/ BenchDone \/ AgentDies \/ AgentStarts \/ StatusLooks
  <2>1. UNCHANGED <<cmd, doc>>
    BY <1>6 DEF Sync, AgentLoad, AgentAck, BenchDone, AgentDies, AgentStarts, StatusLooks, AgentStep
  <2> QED BY <1>0, <1>6, <2>1, AgentStepKeeps
<1>7. CASE UNCHANGED docVars
  <2>1. UNCHANGED <<cs, cmd, disable, benchSeq, ack, agent, doc, hist, todo, waited, unheard>>
    BY <1>7 DEF docVars
  <2>2. HeldOf(cs)' = HeldOf(cs) /\ todo' = todo
    BY <2>1 DEF HeldOf
  <2>3. EntryInv'
    BY <2>2 DEF DocsInv, EntryInv
  <2> QED BY <1>0, <2>1, <2>3 DEF DocsInv, TodoInv, SwitchInv, HeardInv, WaitInv
<1> QED BY <1>1, <1>2, <1>3, <1>4, <1>5, <1>6, <1>7 DEF DocsNext

(* Nothing that was turned off is turned on again before the agent has     *)
(* heard of it, unless the wait for it was given up: exec_one_cmd() calls  *)
(* CmdState::sync() first, whatever is clicked and whenever the agent      *)
(* loads, acknowledges, dies or is started again.                          *)
THEOREM OffsAreHeeded == DocsSpec => OffHeeded
<1>1. DocsInv /\ [DocsNext]_docVars => DocsInv'
  BY DocsStep
<1>2. DocsInv /\ [DocsNext]_docVars
      => [\A s \in TurnedOn(cmd, cmd') : s \in unheard => waited = "given up"]_docVars
  <2> SUFFICES ASSUME DocsInv, DocsNext
               PROVE  \A s \in TurnedOn(cmd, cmd') : s \in unheard => waited = "given up"
    OBVIOUS
  <2>1. CASE cmd' # cmd BY <2>1, DocsStep
  <2>2. CASE cmd' = cmd
    <3>1. \A b \in Benches : ~(cmd.next[b] <= benchSeq[b] /\ cmd.next[b] > benchSeq[b])
      BY NotBoth
    <3> QED BY <2>2, <3>1 DEF TurnedOn
  <2> QED BY <2>1, <2>2
<1> QED BY <1>1, <1>2, DocsStart, PTL DEF DocsSpec, OffHeeded

(* A document is entered with every switch, knob and control as the last   *)
(* of its entry commands about it, a reset included, leaves it: show_doc() *)
(* runs the exit commands of the document before it first, through any     *)
(* redirection, and nothing the agent does in between undoes it.           *)
THEOREM EntriesArePrepared == DocsSpec => ArrivesPrepared
<1>1. DocsInv /\ [DocsNext]_docVars => DocsInv'
  BY DocsStep
<1>2. DocsInv /\ [DocsNext]_docVars => [EnterDoc => AsEntered(doc')]_docVars
  BY DocsStep
<1> QED BY <1>1, <1>2, DocsStart, PTL DEF DocsSpec, ArrivesPrepared
=============================================================================
