----------------------------- MODULE DemoAgent -----------------------------
(***************************************************************************)
(* resctl-demo as the minder of rd-agent.service (resctl-demo/src/agent.rs *)
(* and main.rs): the status thread looks after the service every second,   *)
(* starting one where none runs, and asks for the agent view; the thread   *)
(* of the user interface handles keys, buttons and those requests; leaving *)
(* resctl-demo stops what it has started, unless told to keep it.          *)
(***************************************************************************)
EXTENDS Naturals, Sequences, SequencesExt, FiniteSets

CONSTANTS
    MaxKeys, MaxAgentFaults    \* bounds

ASSUME DemoAssumption == {MaxKeys, MaxAgentFaults} \subseteq Nat

VARIABLES
    service,        \* rd-agent.service: whether it runs and who has started it
    keep,           \* --keep
    minder,         \* AGENT_MINDER: svc, seen_running and what is known of a start
    zvReq,          \* AGENT_ZV_REQ
    wishOf,         \* whose wish zvReq should be: the minder's or the user's (ghost)
    requests,       \* the callbacks sent and not yet run
    zoomed,         \* ZOOMED_VIEW, the last one on top
    layer,          \* the layer shown over the main one
    wide,           \* the layout: LAYOUT.horiz
    handler,        \* what the thread of the user interface is in
    status,         \* the status thread: "waiting", "minding" or "ended"
    mainThread,     \* "up", and the steps of the exit
    spent2          \* keys and faults, bounded

minderVars == <<service, keep, minder, zvReq, wishOf, requests, zoomed, layer, wide,
                handler, status, mainThread, spent2>>

Views == {"agent", "graphs", "journals"}
None == "none"
TopView(zv) == IF zv = <<>> THEN None ELSE Last(zv)
ExitSteps == {"exiting", "joined", "gone"}

DemoTypeOK ==
    /\ service \in [running: BOOLEAN, by: {"demo", "other"}]
    /\ minder \in [svc: BOOLEAN, seen: BOOLEAN, reported: BOOLEAN, late: BOOLEAN]
    /\ {keep, zvReq} \subseteq BOOLEAN /\ requests \in 0..2 /\ wishOf \in {"minder", "user"}
    /\ zoomed \in Seq(Views) /\ wide \in BOOLEAN /\ handler \in {None, "update", "escape"}
    /\ layer \in Views \cup {None}
    /\ status \in {"waiting", "minding", "ended"}
    /\ mainThread \in {"up"} \cup ExitSteps

DemoInit ==
    /\ service \in [running: BOOLEAN, by: {"other"}] /\ keep \in BOOLEAN
    /\ minder = [svc |-> FALSE, seen |-> FALSE, reported |-> FALSE, late |-> FALSE]
    /\ zvReq = TRUE /\ wishOf = "minder" /\ requests = 1 /\ zoomed = <<>> /\ layer = None
    /\ wide = TRUE /\ handler = None
    /\ status = "waiting" /\ mainThread = "up" /\ spent2 = [keys |-> 0, faults |-> 0]

Fault == spent2.faults < MaxAgentFaults /\ spent2' = [spent2 EXCEPT !.faults = @ + 1]
Stopped(s) == [s EXCEPT !.running = FALSE]

(***************************************************************************)
(* AgentMinder::restart(): the service held is dropped, which stops it     *)
(* unless it is to be kept, and a new one is held even if it fails to      *)
(* start.  TransientService::start() stops whatever runs under its name.   *)
(***************************************************************************)
Restarted(m) == [m EXCEPT !.svc = TRUE, !.reported = FALSE, !.late = FALSE]
StartOk == service' = [running |-> TRUE, by |-> "demo"] /\ UNCHANGED spent2
StartFails == service' \in {service, Stopped(service)} /\ Fault

(***************************************************************************)
(* AgentMinder::mind() and update_state().                                 *)
(***************************************************************************)
\* Mutant: the user interface is not told.
NotRequested(n) == n

\* The callback is sent whether or not something has changed.
Requests(n) == IF n < 2 THEN n + 1 ELSE n
\* Mutant: the request is never made.
AsksNothing(running) == zvReq

Asks(running) == IF running # minder.seen THEN ~running ELSE zvReq

Told(running) ==
    /\ zvReq' = Asks(running) /\ requests' = Requests(requests)
    /\ wishOf' = IF running # minder.seen THEN "minder" ELSE wishOf
UpdateState(running) == Told(running) /\ minder' = [minder EXCEPT !.seen = running]
Unchanged == UNCHANGED <<zvReq, wishOf, requests>>

MindOwn ==
    /\ minder.svc /\ UNCHANGED <<service, spent2>>
    /\ \/ service.running /\ minder.reported /\ UpdateState(TRUE)
       \/ service.running /\ ~minder.reported /\ ~minder.late /\ UNCHANGED minder /\ Unchanged
       \/ service.running /\ ~minder.reported /\ minder.late /\ UpdateState(FALSE)
       \/ ~service.running /\ UpdateState(FALSE)

MindOther ==
    /\ ~minder.svc
    /\ \/ service.running /\ UpdateState(TRUE) /\ UNCHANGED <<service, spent2>>
       \/ ~service.running /\ StartOk /\ minder' = Restarted(minder) /\ Unchanged
       \/ /\ ~service.running /\ StartFails /\ Told(FALSE)
          /\ minder' = [Restarted(minder) EXCEPT !.seen = FALSE]

(***************************************************************************)
(* The status thread: run_inner().                                         *)
(***************************************************************************)
UiStill == UNCHANGED <<keep, zoomed, layer, wide, handler, mainThread>>
StatusWakes ==
    /\ status = "waiting"
    /\ status' = IF mainThread = "up" THEN "minding" ELSE "ended"
    /\ UiStill /\ UNCHANGED <<service, minder, zvReq, wishOf, requests, spent2>>
StatusMinds ==
    /\ status = "minding" /\ status' = "waiting"
    /\ MindOwn \/ MindOther
    /\ UiStill

(***************************************************************************)
(* The zoomed views, each a function of the stack and the request.         *)
(***************************************************************************)
\* update_agent_zoomed_view()
AgentViewed(zv, req) ==
    IF req THEN IF TopView(zv) = "agent" THEN zv ELSE Append(zv, "agent")
    ELSE IF TopView(zv) = "agent" THEN Front(zv) ELSE zv

\* toggle_zoomed_view(): nothing opens over the agent's view.
Toggled(zv, v) ==
    IF TopView(zv) = "agent" THEN zv
    ELSE IF v = None THEN <<>>
    ELSE IF TopView(zv) = v THEN Front(zv)
    ELSE Append(Remove(zv, v), v)

Zoom(zv) == zoomed' = zv /\ layer' = TopView(zv)

(***************************************************************************)
(* The thread of the user interface.                                       *)
(***************************************************************************)
Ui == mainThread = "up" /\ handler = None
Key == Ui /\ spent2.keys < MaxKeys /\ spent2' = [spent2 EXCEPT !.keys = @ + 1]
OutsideStill == UNCHANGED <<keep, wide, status, mainThread>>

RunRequest ==
    /\ Ui /\ requests > 0 /\ requests' = requests - 1 /\ handler' = "update"
    /\ OutsideStill /\ UNCHANGED <<service, minder, zvReq, wishOf, zoomed, layer, spent2>>
KeyAgent ==
    /\ Key /\ zvReq' = ~zvReq /\ wishOf' = "user" /\ handler' = "update"
    /\ OutsideStill /\ UNCHANGED <<service, minder, requests, zoomed, layer>>
KeyEscape ==
    /\ Key /\ zvReq' = FALSE /\ wishOf' = "user" /\ handler' = "escape"
    /\ OutsideStill /\ UNCHANGED <<service, minder, requests, zoomed, layer>>
UpdateView ==
    /\ handler # None /\ handler' = None
    /\ LET zv == AgentViewed(zoomed, zvReq) IN
          Zoom(IF handler = "escape" THEN Toggled(zv, None) ELSE zv)
    /\ OutsideStill /\ UNCHANGED <<service, minder, zvReq, wishOf, requests, spent2>>
KeyToggle ==
    /\ Key /\ \E v \in {"graphs", "journals"} : Zoom(Toggled(zoomed, v))
    /\ OutsideStill /\ UNCHANGED <<service, minder, zvReq, wishOf, requests, handler>>
\* refresh_layout(): all layers are dropped and made anew.
Resize ==
    /\ Key /\ wide' = ~wide /\ layer' = TopView(zoomed)
    /\ UNCHANGED <<service, keep, minder, zvReq, wishOf, requests, zoomed, handler, status,
                   mainThread>>

\* update_agent_state(), with the lock that mind() holds as well.
PressRestart ==
    /\ Ui /\ layer = "agent"
    /\ StartOk \/ StartFails
    /\ minder' = Restarted(minder)
    /\ OutsideStill /\ UNCHANGED <<zvReq, wishOf, requests, zoomed, layer, handler>>
PressStop ==
    /\ Ui /\ layer = "agent" /\ service.running /\ service' = Stopped(service)
    /\ OutsideStill /\ UNCHANGED <<minder, zvReq, wishOf, requests, zoomed, layer, handler, spent2>>

(***************************************************************************)
(* ExitGuard::drop().                                                      *)
(***************************************************************************)
ExitStill ==
    UNCHANGED <<keep, zvReq, wishOf, requests, zoomed, layer, wide, handler, status, spent2>>
Quit == Ui /\ mainThread' = "exiting" /\ ExitStill /\ UNCHANGED <<service, minder>>
JoinStatus ==
    /\ mainThread = "exiting" /\ status = "ended" /\ mainThread' = "joined"
    /\ ExitStill /\ UNCHANGED <<service, minder>>

\* Mutant: the service is dropped before the updaters.
MayDropAtOnce == mainThread \in {"exiting", "joined"}

Droppable == mainThread = "joined"
DropService ==
    /\ Droppable /\ mainThread' = "gone"
    /\ service' = IF minder.svc /\ ~keep THEN Stopped(service) ELSE service
    /\ minder' = [minder EXCEPT !.svc = FALSE] /\ ExitStill

(***************************************************************************)
(* The agent, and time.                                                    *)
(***************************************************************************)
UiAndStatus ==
    UNCHANGED <<keep, zvReq, wishOf, requests, zoomed, layer, wide, handler, status, mainThread>>
Reports ==
    /\ service.running /\ minder.svc /\ ~minder.reported
    /\ minder' = [minder EXCEPT !.reported = TRUE] /\ UiAndStatus /\ UNCHANGED <<service, spent2>>
StartupLate ==
    /\ minder.svc /\ ~minder.late /\ ~minder.reported
    /\ minder' = [minder EXCEPT !.late = TRUE] /\ UiAndStatus /\ UNCHANGED <<service, spent2>>
ServiceDies ==
    /\ service.running /\ Fault /\ service' = Stopped(service) /\ UiAndStatus /\ UNCHANGED minder

DemoNext ==
    \/ StatusWakes \/ StatusMinds \/ JoinStatus \/ DropService \/ Quit
    \/ RunRequest \/ UpdateView \/ KeyAgent \/ KeyEscape \/ KeyToggle \/ Resize
    \/ PressRestart \/ PressStop \/ Reports \/ StartupLate \/ ServiceDies

DemoFairness ==
    /\ WF_minderVars(RunRequest \/ UpdateView)
    /\ WF_minderVars(StatusWakes \/ StatusMinds)
    /\ WF_minderVars(JoinStatus \/ DropService)
DemoSpec == DemoInit /\ [][DemoNext]_minderVars /\ DemoFairness

(***************************************************************************)
(* What the user relies on.                                                *)
(***************************************************************************)

\* When resctl-demo is gone, no agent it has started runs on, unless it was
\* told to keep it: none is started by a round of the status thread that was
\* under way when the exit began (ExitGuard::drop(), main.rs).
NoneLeftRunning == mainThread = "gone" /\ ~keep => ~(service.running /\ service.by = "demo")

\* What is known of the agent is so: one that runs, and has reported if it is
\* resctl-demo's own, is seen to run, and none is that has stopped.
SeenAsItIs ==
    /\ minder.seen => service.running
    /\ service.running /\ (minder.svc => minder.reported) => minder.seen

\* The view follows the agent (update_state(), update_agent_zoomed_view()): the
\* launcher is shown when it has stopped, or was never there, and let go when it
\* reports, until the user asks for something else, and then what was asked for
\* last is shown, under whatever has been opened and closed beside it.
ViewSettled ==
    mainThread = "up" =>
        /\ SeenAsItIs
        /\ TopView(zoomed) = "agent" <=> zvReq
        /\ wishOf = "minder" => (TopView(zoomed) = "agent" <=> ~minder.seen)
=============================================================================
