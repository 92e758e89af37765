--------------------------- MODULE TransientUnit ---------------------------
(***************************************************************************)
(* A transient service of rd-agent (rd-util/src/systemd.rs) driven by the  *)
(* memory balloon (rd-agent/src/side.rs): set_size() drops the service it  *)
(* has, which stops it five times over, and starts another.  Every D-Bus   *)
(* call is a step of its own; systemd moves the unit on in between, calls    *)
(* may fail and waits may time out.                                        *)
(***************************************************************************)
EXTENDS Integers

CONSTANTS
    Sizes,      \* sizes the balloon is asked for, besides 0
    MaxCallFaults   \* bound: D-Bus calls that fail

ASSUME SizesAssumption == Sizes \subseteq Nat \ {0} /\ MaxCallFaults \in Nat

VARIABLES
    loaded,     \* the unit as systemd has it
    holds,      \* the size the unit's process was started with
    upc,         \* where set_size() is
    back,       \* what stop_and_reset() was called for
    tries,      \* attempts left in TransientService::drop
    want,       \* set_size()'s argument
    size,       \* Balloon::size
    svc,        \* whether Balloon::svc is Some
    state,      \* Unit::state as refreshed last
    res,        \* what the last set_size() returned
    stopWarned,     \* the last stop_and_reset() of a drop failed
    assumed,    \* it took a unit for gone as D-Bus did not answer
    callFaults

unitVars == <<loaded, holds, upc, back, tries, want, size, svc, state, res, stopWarned, assumed, callFaults>>
env == <<loaded, holds>>
balloon == <<want, size, svc>>

UnitStates == {"none", "activating", "active", "exited", "deactivating", "inactive", "failed"}
States == {"NotFound", "Running", "Exited", "Other", "Inactive", "Failed"}
PCs == {"idle", "same", "take", "refresh", "stop", "wait_stop", "reset", "wait_reset",
        "make", "start", "wait_start"}

UnitTypeOK ==
    /\ loaded \in UnitStates /\ holds \in Sizes \cup {0}
    /\ upc \in PCs /\ back \in {"new", "drop", "start", "giveup"} /\ tries \in 0..5
    /\ want \in Sizes \cup {0} /\ size \in Sizes \cup {0}
    /\ svc \in BOOLEAN /\ state \in States
    /\ res \in {"ok", "err"} /\ stopWarned \in BOOLEAN /\ assumed \in BOOLEAN
    /\ callFaults \in 0..MaxCallFaults

\* Balloon::new() stops what an earlier agent has left.
UnitInit ==
    /\ loaded \in UnitStates /\ holds \in Sizes
    /\ upc = "refresh" /\ back = "new" /\ tries = 0
    /\ want = 0 /\ size = 0 /\ svc = FALSE /\ state = "Other"
    /\ res = "ok" /\ stopWarned = FALSE /\ assumed = FALSE /\ callFaults = 0
-----------------------------------------------------------------------------
(* systemd.                                                                *)

\* What a unit does by itself: it starts, runs, ends, fails, and is unloaded.
UnitMoves ==
    /\ \/ loaded = "activating" /\ loaded' \in {"active", "failed"}
       \/ loaded = "active" /\ loaded' \in {"exited", "failed"}
       \/ loaded = "deactivating" /\ loaded' \in {"inactive", "failed"}
       \/ loaded = "inactive" /\ loaded' = "none"
    /\ UNCHANGED <<holds, upc, back, tries, balloon, state, res, stopWarned, assumed, callFaults>>

\* UnitProps::state() of what systemd answers.
Seen ==
    CASE loaded = "none" -> "NotFound"
      [] loaded = "active" -> "Running"
      [] loaded = "exited" -> "Exited"
      [] loaded = "inactive" -> "Inactive"
      [] loaded = "failed" -> "Failed"
      [] OTHER -> "Other"

CallFails == callFaults < MaxCallFaults /\ callFaults' = callFaults + 1

\* Unit::refresh(): a unit that cannot be asked about is assumed gone.
RefreshOk == state' = Seen /\ assumed' = FALSE /\ UNCHANGED callFaults
RefreshErr == CallFails /\ state' = "NotFound" /\ assumed' = TRUE
-----------------------------------------------------------------------------
(* set_size() and the drop of the service it replaces.                     *)

SetSize(n) ==
    /\ upc = "idle"
    /\ want' = n
    /\ upc' = IF size = n /\ svc THEN "same" ELSE "take"
    /\ UNCHANGED <<env, back, tries, size, svc, state, res, stopWarned, assumed, callFaults>>

\* The service of this size is left alone if it is seen running.
SameRefresh ==
    /\ upc = "same"
    /\ \/ /\ RefreshOk
          /\ IF state' = "Running" THEN upc' = "idle" /\ res' = "ok" ELSE upc' = "take" /\ res' = res
       \/ RefreshErr /\ upc' = "take" /\ res' = res
    /\ UNCHANGED <<env, back, tries, balloon, stopWarned>>

Take ==
    /\ upc = "take"
    /\ IF svc THEN upc' = "refresh" /\ back' = "drop" /\ tries' = 5
              ELSE upc' = "make" /\ UNCHANGED <<back, tries>>
    /\ svc' = FALSE
    /\ UNCHANGED <<env, want, size, state, res, stopWarned, assumed, callFaults>>

\* What follows a stop_and_reset() that returned Ok (ok) or Err.
AfterReset(ok) ==
    CASE back = "new" ->
            upc' = "idle" /\ stopWarned' = ~ok /\ UNCHANGED <<back, tries, res>>
      [] back \in {"drop", "giveup"} /\ tries > 1 ->
            upc' = "refresh" /\ tries' = tries - 1 /\ stopWarned' = ~ok /\ UNCHANGED <<back, res>>
      [] back = "drop" /\ tries = 1 ->
            upc' = "make" /\ tries' = 0 /\ stopWarned' = ~ok /\ UNCHANGED <<back, res>>
      [] back = "giveup" /\ tries = 1 ->
            upc' = "idle" /\ tries' = 0 /\ stopWarned' = ~ok /\ res' = "err" /\ UNCHANGED back
      [] back = "start" /\ ok ->
            upc' = "start" /\ UNCHANGED <<back, tries, res, stopWarned>>
      [] OTHER ->
            upc' = "refresh" /\ back' = "giveup" /\ tries' = 5 /\ UNCHANGED <<res, stopWarned>>

\* stop() begins with a refresh; a unit that is gone or failed needs no stop.
StopRefresh ==
    /\ upc = "refresh"
    /\ \/ /\ RefreshOk
          /\ \/ state' = "NotFound" /\ AfterReset(TRUE)
             \/ state' = "Failed" /\ upc' = "reset" /\ UNCHANGED <<back, tries, res, stopWarned>>
             \/ state' \notin {"NotFound", "Failed"} /\ upc' = "stop"
                /\ UNCHANGED <<back, tries, res, stopWarned>>
       \/ RefreshErr /\ AfterReset(FALSE)
    /\ UNCHANGED <<env, balloon>>

StopUnit ==
    /\ upc = "stop"
    /\ \/ /\ loaded # "none"
          /\ loaded' = IF loaded \in {"activating", "active", "exited"} THEN "deactivating" ELSE loaded
          /\ upc' = "wait_stop"
          /\ UNCHANGED <<back, tries, res, stopWarned, callFaults>>
       \/ loaded = "none" /\ AfterReset(FALSE) /\ UNCHANGED <<loaded, callFaults>>
       \/ CallFails /\ AfterReset(FALSE) /\ UNCHANGED loaded
    /\ UNCHANGED <<holds, balloon, state, assumed>>

\* Mutant: a unit that is seen inactive has been reset.
StopEndedOrInactive(s) ==
    CASE s = "Failed" -> upc' = "reset" /\ UNCHANGED <<back, tries, res, stopWarned>>
      [] s \in {"NotFound", "Inactive", "Exited"} -> AfterReset(TRUE)
      [] OTHER -> AfterReset(FALSE)

\* The rest of stop_and_reset() once stop() has returned in state s.
StopEnded(s) ==
    CASE s = "Failed" -> upc' = "reset" /\ UNCHANGED <<back, tries, res, stopWarned>>
      [] s = "NotFound" -> AfterReset(TRUE)
      [] OTHER -> AfterReset(FALSE)

\* wait_transition(): a refresh that shows a settled state other than Running
\* ends the wait, and so may the clock after any refresh.
WaitStop ==
    /\ upc = "wait_stop"
    /\ RefreshOk \/ RefreshErr
    /\ \/ StopEnded(state')
       \/ /\ callFaults' # callFaults \/ state' \in {"Running", "Other"}
          /\ UNCHANGED <<upc, back, tries, res, stopWarned>>
    /\ UNCHANGED <<env, balloon>>

ResetFailed ==
    /\ upc = "reset"
    /\ \/ loaded' = (IF loaded = "failed" THEN "none" ELSE loaded) /\ upc' = "wait_reset"
          /\ UNCHANGED <<back, tries, res, stopWarned, callFaults>>
       \/ CallFails /\ AfterReset(FALSE) /\ UNCHANGED loaded
    /\ UNCHANGED <<holds, balloon, state, assumed>>

WaitReset ==
    /\ upc = "wait_reset"
    /\ RefreshOk \/ RefreshErr
    /\ \/ AfterReset(state' = "NotFound")
       \/ /\ callFaults' # callFaults \/ state' # "NotFound"
          /\ UNCHANGED <<upc, back, tries, res, stopWarned>>
    /\ UNCHANGED <<env, balloon>>
-----------------------------------------------------------------------------
(* The new service.                                                        *)

\* Size 0 leaves Balloon::size as it was.
Make ==
    /\ upc = "make"
    /\ IF want = 0
       THEN upc' = "idle" /\ res' = "ok" /\ UNCHANGED <<back, state, callFaults>>
       ELSE \/ state' = Seen /\ upc' = "refresh" /\ back' = "start" /\ UNCHANGED <<res, callFaults>>
            \/ CallFails /\ upc' = "idle" /\ res' = "err" /\ UNCHANGED <<back, state>>
    /\ UNCHANGED <<env, tries, balloon, stopWarned, assumed>>

GiveUp == upc' = "refresh" /\ back' = "giveup" /\ tries' = 5

\* start_transient_unit fails if the unit is loaded.
StartUnit ==
    /\ upc = "start"
    /\ \/ /\ loaded = "none"
          /\ loaded' = "activating" /\ holds' = want
          /\ upc' = "wait_start" /\ UNCHANGED <<back, tries, callFaults>>
       \/ loaded # "none" /\ GiveUp /\ UNCHANGED <<env, callFaults>>
       \/ CallFails /\ GiveUp /\ UNCHANGED env
    /\ UNCHANGED <<balloon, state, res, stopWarned, assumed>>

\* A service that did not start is dropped on the way out.
StartEnded(s) ==
    IF s \in {"Running", "Exited"}
    THEN upc' = "idle" /\ size' = want /\ svc' = TRUE /\ res' = "ok" /\ UNCHANGED <<back, tries>>
    ELSE GiveUp /\ UNCHANGED <<size, svc, res>>

WaitStart ==
    /\ upc = "wait_start"
    /\ RefreshOk \/ RefreshErr
    /\ \/ StartEnded(state')
       \/ /\ callFaults' # callFaults \/ state' \notin {"Running", "Exited", "Failed"}
          /\ UNCHANGED <<upc, back, tries, size, svc, res>>
    /\ UNCHANGED <<env, want, stopWarned>>

Client ==
    SameRefresh \/ Take \/ StopRefresh \/ StopUnit \/ WaitStop \/ ResetFailed \/ WaitReset
        \/ Make \/ StartUnit \/ WaitStart
UnitNext == UnitMoves \/ (\E n \in Sizes \cup {0} : SetSize(n)) \/ Client

UnitSpec == UnitInit /\ [][UnitNext]_unitVars
-----------------------------------------------------------------------------
(* Once set_size() has returned without a service to its name, the unit is *)
(* gone, unless the agent warned that the last attempt to stop it failed     *)
(* or D-Bus did not answer: a balloon that failed to start or was not      *)
(* stopped in time does not go on holding memory unnoticed                 *)
(* (TransientService::drop, Balloon::set_size).                            *)
NoStrayBalloon == upc = "idle" /\ ~svc => loaded = "none" \/ stopWarned \/ assumed

(* The balloon that is there is the one asked for last, whatever happened  *)
(* to the ones before it.                                                  *)
BalloonAsAsked ==
    upc = "idle" /\ res = "ok" /\ svc => loaded = "none" \/ (holds = size /\ want = size)

BalloonSafety == NoStrayBalloon /\ BalloonAsAsked
=============================================================================
