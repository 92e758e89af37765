---------------------------- MODULE HashDispatch ----------------------------
(***************************************************************************)
(* rd-hashd's request loop (rd-hashd/src/hasher.rs): the dispatch thread   *)
(* keeps as many hashers running on a WorkQueue as its control loop allows *)
(* and answers the commands of the main thread.                            *)
(*                                                                         *)
(* A hasher sends its completion before its worker acknowledges the work,  *)
(* and holds the anonymous area's read lock until it returns.  What the    *)
(* PID controllers compute is any concurrency within their clamps.         *)
(***************************************************************************)
EXTENDS Integers, Sequences, FiniteSets

CONSTANTS
    Ids, Timeout, MaxTime, MayPanic,    \* of the work queue
    InitConcurrency,    \* half the CPUs, at least 1
    Params,             \* parameters users may set: [max, anon]
    InitParams,         \* the parameters rd-hashd is started with
    MaxSets,            \* bound: set_params() calls
    MaxDone             \* bound: completed requests

ParamsType == [max : Nat, anon : Nat]
CmdType == [op : {"set"}, params : ParamsType] \cup [op : {"stat"}]

ASSUME IdsAssumption == IsFiniteSet(Ids)
ASSUME QueueAssumption ==
    Timeout \in Nat \ {0} /\ MaxTime \in Nat /\ MayPanic \in BOOLEAN
ASSUME ParamsAssumption == Params \cup {InitParams} \subseteq ParamsType
ASSUME ConcurrencyAssumption == InitConcurrency \in Nat \ {0}
ASSUME BoundsAssumption == MaxSets \in Nat /\ MaxDone \in Nat

VARIABLES
    pc, call, panicking, workers, idle, last, acks, errs, joining, thread,
    inbox, clock, booksAt,
    at,         \* where the dispatch thread is in DispatchThread::run
    params,     \* DispatchThread::params
    settled,    \* whether params_at is at least a second ago
    concurrency,
    inFlight,   \* nr_in_flight
    done,       \* nr_done
    lastDone,   \* last_nr_done
    samples,    \* how many latencies ckms holds
    job,        \* how far each worker's hasher is
    cmpls,      \* completions in cmpl_rx
    cmds,       \* commands in cmd_rx
    user,       \* the main thread: "up", "waiting" in get_stat, "joining", "gone"
    receiver,   \* whether cmpl_rx is still there
    stats,      \* replies in stat_rx
    sets        \* set_params() calls so far

WQ == INSTANCE WorkQueue

pool == <<pc, call, panicking, workers, idle, last, acks, errs, joining, thread,
          inbox, clock, booksAt>>
control == <<params, settled, concurrency>>
counts == <<inFlight, done, lastDone, samples>>
main == <<user, stats, sets>>
vars == <<pool, at, control, counts, job, cmpls, receiver, cmds, main>>

Init ==
    /\ WQ!WQInit
    /\ at = "launch"
    /\ params = InitParams
    /\ settled = FALSE
    /\ concurrency = InitConcurrency
    /\ inFlight = 0 /\ done = 0 /\ lastDone = 0 /\ samples = 0
    /\ job = [id \in Ids |-> "none"]
    /\ cmpls = 0 /\ receiver = TRUE
    /\ cmds = <<>>
    /\ user = "up" /\ stats = 0 /\ sets = 0
-----------------------------------------------------------------------------
(* The dispatch thread.                                                    *)

\* launch_hashers(): queue() hashers while there are too few.
LaunchHashers ==
    /\ at = "launch"
    /\ inFlight < concurrency
    /\ WQ!Call("queue")
    /\ UNCHANGED <<at, control, counts, job, cmpls, receiver, cmds, main>>

Launched ==
    /\ WQ!UseIdle \/ \E id \in Ids : WQ!Spawn(id)
    /\ inFlight' = inFlight + 1
    /\ UNCHANGED <<at, control, done, lastDone, samples, job, cmpls, receiver, cmds, main>>

LaunchedAll ==
    /\ pc = "user"
    /\ at = "launch"
    /\ inFlight >= concurrency
    /\ at' = "select"
    /\ UNCHANGED <<pool, control, counts, job, cmpls, receiver, cmds, main>>

Select == pc = "user" /\ at = "select"

\* update_params(): everything but the area takes effect at once; the write
\* lock waits for every hasher that is using the area.
UpdateParams ==
    /\ Select
    /\ cmds # <<>> /\ Head(cmds).op = "set"
    /\ cmds' = Tail(cmds)
    /\ params' = Head(cmds).params
    /\ at' = IF Head(cmds).params.anon # params.anon THEN "resize" ELSE "refresh"
    /\ settled' = FALSE
    /\ UNCHANGED <<pool, concurrency, counts, job, cmpls, receiver, main>>

Readers == {id \in Ids : job[id] \in {"reading", "sent"}}

ResizeArea ==
    /\ pc = "user"
    /\ at = "resize"
    /\ Readers = {}
    /\ at' = "refresh"
    /\ settled' = FALSE
    /\ UNCHANGED <<pool, params, concurrency, counts, job, cmpls, receiver, cmds, main>>

GetStat ==
    /\ Select
    /\ cmds # <<>> /\ Head(cmds).op = "stat"
    /\ cmds' = Tail(cmds)
    /\ stats' = stats + 1
    /\ at' = "refresh"
    /\ UNCHANGED <<pool, control, counts, job, cmpls, receiver, user, sets>>

\* Mutant: the request stays in flight.
CompletedInFlight ==
    /\ Select
    /\ cmpls > 0 /\ done < MaxDone
    /\ cmpls' = cmpls - 1
    /\ done' = done + 1
    /\ samples' = samples + 1
    /\ at' = "refresh"
    /\ UNCHANGED <<pool, control, inFlight, lastDone, job, receiver, cmds, main>>

Completed ==
    /\ Select
    /\ cmpls > 0 /\ done < MaxDone
    /\ cmpls' = cmpls - 1
    /\ inFlight' = inFlight - 1
    /\ done' = done + 1
    /\ samples' = samples + 1
    /\ at' = "refresh"
    /\ UNCHANGED <<pool, control, lastDone, job, receiver, cmds, main>>

ResetLatRps == lastDone' = done /\ samples' = 0

\* Mutant: update_control() forgets the configured maximum.
TargetsUnlimited == 1..(params.max + 1)

\* update_control(): concurrency_max is at least 1, then at most the parameter,
\* and concurrency at least 1, then at most concurrency_max.
Targets == IF params.max = 0 THEN {0} ELSE 1..params.max

\* refresh_lat_rps() returned true: the control period is over.
UpdateControl ==
    /\ pc = "user"
    /\ at = "refresh" /\ settled
    /\ ResetLatRps
    /\ concurrency' \in Targets
    /\ at' = "launch"
    /\ UNCHANGED <<pool, params, settled, inFlight, done, job, cmpls, receiver, cmds, main>>

\* Statistics are reset within a second of a change of parameters, and kept
\* within a control period.
KeepControl ==
    /\ pc = "user"
    /\ at = "refresh"
    /\ IF settled THEN UNCHANGED <<lastDone, samples>> ELSE ResetLatRps
    /\ at' = "launch"
    /\ UNCHANGED <<pool, control, inFlight, done, job, cmpls, receiver, cmds, main>>

\* The command channel has ended: run() returns and the fields are dropped, the
\* queue before the receiver of the completions.
End ==
    /\ Select
    /\ user = "joining" /\ cmds = <<>>
    /\ at' = "ended"
    /\ WQ!Drop
    /\ UNCHANGED <<control, counts, job, cmpls, receiver, cmds, main>>

\* What has not been handled when the command channel is dropped is lost.
Unwind ==
    /\ pc = "unwind"
    /\ at' = "ended"
    /\ WQ!Drop
    /\ cmds' = <<>>
    /\ UNCHANGED <<control, counts, job, cmpls, receiver, main>>

QueueDropped ==
    /\ WQ!Dropped \/ \E id \in Ids : WQ!DropPanics(id)
    /\ receiver' = FALSE
    /\ UNCHANGED <<at, control, counts, job, cmpls, cmds, main>>

\* What queue() and drop() do apart from handing over the work.
InQueue ==
    /\ \/ WQ!TakeAck \/ WQ!AcksTaken \/ WQ!TakeErr \/ WQ!ErrsTaken \/ WQ!Reap
       \/ \E id \in Ids : WQ!Join(id)
       \/ WQ!ReapJoined
    /\ UNCHANGED <<at, control, counts, job, cmpls, receiver, cmds, main>>
-----------------------------------------------------------------------------
(* The hashers: HasherThread::run on a worker.                             *)

StartHasher(id) ==
    /\ WQ!Receive(id)
    /\ job' = [job EXCEPT ![id] = "start"]
    /\ UNCHANGED <<at, control, counts, cmpls, receiver, cmds, main>>

\* After the files, the area.
ReadArea(id) ==
    /\ WQ!Observed
    /\ job[id] = "start"
    /\ job' = [job EXCEPT ![id] = "reading"]
    /\ UNCHANGED <<pool, at, control, counts, cmpls, receiver, cmds, main>>

SendCompletion(id) ==
    /\ WQ!Observed
    /\ job[id] = "reading"
    /\ job' = [job EXCEPT ![id] = "sent"]
    /\ cmpls' = cmpls + 1
    /\ UNCHANGED <<pool, at, control, counts, receiver, cmds, main>>

\* The read guard is dropped on return, which the ack follows.
AckWork(id) ==
    /\ WQ!Ack(id)
    /\ job[id] = "sent"
    /\ job' = [job EXCEPT ![id] = "none"]
    /\ UNCHANGED <<at, control, counts, cmpls, receiver, cmds, main>>

\* A hasher may panic until it has sent its completion.
HasherPanics(id) ==
    /\ WQ!Panic(id)
    /\ job[id] \in {"start", "reading"}
    /\ job' = [job EXCEPT ![id] = "none"]
    /\ UNCHANGED <<at, control, counts, cmpls, receiver, cmds, main>>

WorkerExits(id) ==
    /\ WQ!Exit(id)
    /\ UNCHANGED <<at, control, counts, job, cmpls, receiver, cmds, main>>
-----------------------------------------------------------------------------
(* The main thread, and time.                                              *)

SetParams ==
    /\ user = "up" /\ at # "ended"
    /\ sets < MaxSets
    /\ sets' = sets + 1
    /\ \E p \in Params : cmds' = Append(cmds, [op |-> "set", params |-> p])
    /\ UNCHANGED <<pool, at, control, counts, job, cmpls, receiver, user, stats>>

\* get_stat() sends the request and waits for the reply.
AskStat ==
    /\ user = "up" /\ at # "ended"
    /\ user' = "waiting"
    /\ cmds' = Append(cmds, [op |-> "stat"])
    /\ UNCHANGED <<pool, at, control, counts, job, cmpls, receiver, stats, sets>>

TakeStat ==
    /\ user = "waiting"
    /\ stats > 0
    /\ stats' = stats - 1
    /\ user' = "up"
    /\ UNCHANGED <<pool, at, control, counts, job, cmpls, receiver, cmds, sets>>

\* Sending to a dispatch thread that panicked is a panic, which drops Dispatch.
SendFails ==
    /\ user = "up" /\ at = "ended"
    /\ user' = "joining"
    /\ UNCHANGED <<pool, at, control, counts, job, cmpls, receiver, cmds, stats, sets>>

\* Dispatch::drop closes the channel and joins the dispatch thread.
DropDispatch ==
    /\ user = "up" /\ at # "ended"
    /\ user' = "joining"
    /\ UNCHANGED <<pool, at, control, counts, job, cmpls, receiver, cmds, stats, sets>>

Joined ==
    /\ user = "joining"
    /\ pc \in {"dropped", "panicked"}
    /\ user' = "gone"
    /\ UNCHANGED <<pool, at, control, counts, job, cmpls, receiver, cmds, stats, sets>>

Settle ==
    /\ ~settled
    /\ settled' = TRUE
    /\ UNCHANGED <<pool, at, params, concurrency, counts, job, cmpls, receiver, cmds, main>>

Tick ==
    /\ WQ!Tick
    /\ UNCHANGED <<at, control, counts, job, cmpls, receiver, cmds, main>>
-----------------------------------------------------------------------------
Dispatcher ==
    \/ LaunchHashers \/ Launched \/ LaunchedAll
    \/ UpdateParams \/ ResizeArea \/ GetStat \/ Completed
    \/ UpdateControl \/ KeepControl
    \/ End \/ Unwind \/ QueueDropped \/ InQueue

Hasher(id) ==
    \/ StartHasher(id) \/ ReadArea(id) \/ SendCompletion(id) \/ AckWork(id)
    \/ HasherPanics(id) \/ WorkerExits(id)

Main == SetParams \/ AskStat \/ TakeStat \/ SendFails \/ DropDispatch \/ Joined

Next == Dispatcher \/ (\E id \in Ids : Hasher(id)) \/ Main \/ Settle \/ Tick

Spec == Init /\ [][Next]_vars

\* select! picks among what is ready at random, and a control period ends
\* between some two of its turns: both need strong fairness.  The main loop
\* asks for statistics every second.
Fairness ==
    /\ WF_vars(Dispatcher)
    /\ SF_vars(UpdateParams \/ GetStat \/ End)
    /\ SF_vars(UpdateControl)
    /\ \A id \in Ids : WF_vars(Hasher(id))
    /\ WF_vars(Settle)
    /\ WF_vars(AskStat \/ SendFails \/ TakeStat \/ Joined)

FairSpec == Spec /\ Fairness
-----------------------------------------------------------------------------
(* Properties.                                                             *)

TypeOK ==
    /\ WQ!TypeOK
    /\ at \in {"launch", "select", "resize", "refresh", "ended"}
    /\ params \in ParamsType
    /\ settled \in BOOLEAN
    /\ concurrency \in Nat
    /\ inFlight \in Nat /\ done \in Nat /\ lastDone \in Nat /\ samples \in Nat
    /\ job \in [Ids -> {"none", "start", "reading", "sent"}]
    /\ cmpls \in Nat /\ receiver \in BOOLEAN
    /\ cmds \in Seq(CmdType)
    /\ user \in {"up", "waiting", "joining", "gone"}
    /\ stats \in Nat /\ sets \in Nat

\* Requests that have yet to send their completion, and those that never will.
Pending(id) == inbox[id] > 0 \/ job[id] \in {"start", "reading"}
Lost(id) == thread[id] = "panicked"
Outstanding == {id \in Ids : Pending(id) \/ Lost(id)}

\* The inductive forms of the invariants below: hashers run on working threads,
\* the queue is dropped when the dispatcher ends, and what a drop need not join
\* any more has nothing left to do.
JobInv == \A id \in Ids : job[id] # "none" <=> thread[id] = "working"
EndInv ==
    /\ WQ!Owned <=> at # "ended"
    /\ ~receiver => pc \in {"dropped", "panicked", "aborted"}
    /\ \A id \in Ids : thread[id] = "exited" => inbox[id] = 0
    /\ pc \in {"drop", "dropped"} =>
            \A id \in Ids \ joining : thread[id] = "none" /\ inbox[id] = 0
    /\ pc = "dropped" => joining = {}

\* nr_in_flight counts exactly the requests whose completion the dispatcher has
\* not received: the u32 it decrements never wraps, and it launches neither too
\* many nor, unless a hasher panicked, too few.
InFlightExact ==
    at # "ended" /\ pc # "unwind" =>
        inFlight = Cardinality(Outstanding) + cmpls

\* ckms.query().unwrap() is only reached with a sample: the latencies collected
\* are those of the requests completed since the last reset.
SamplesMatch == lastDone <= done /\ samples = done - lastDone

\* The receiver of the completions is there for every hasher that will send one,
\* which would panic otherwise, unless the queue's drop has panicked.
ReceiverOutlivesHashers ==
    ~receiver /\ pc # "panicked" /\ pc # "aborted" =>
        \A id \in Ids : ~Pending(id)

\* drop(Dispatch) returns.
DropReturns == user = "joining" ~> user = "gone" \/ pc = "aborted"

\* A lowered concurrency_max takes effect, even if no request completes.
LimitEffective ==
    concurrency > params.max
        ~> concurrency <= params.max \/ user \in {"joining", "gone"} \/ panicking

=============================================================================
