------------------------- MODULE HashDispatchProofs -------------------------
(***************************************************************************)
(* Proofs about the dispatcher, for every number of workers and every      *)
(* sequence of parameter changes: it only uses the queue as a work queue   *)
(* is used, so that what is proved of that holds here, and its count of    *)
(* the requests in flight is exact.                                        *)
(***************************************************************************)
EXTENDS HashDispatch, FiniteSetTheorems, TLAPS

Pool == INSTANCE WorkQueueProofs

(* Every step of the dispatcher, its hashers and the main thread is a step *)
(* of the work queue or leaves it alone.                                   *)
THEOREM UsesQueue == Spec => WQ!WQSpec
<1>1. Init => WQ!WQInit
  BY DEF Init
<1>2. [Next]_vars => [WQ!WQNext]_WQ!vars
  <2> SUFFICES ASSUME [Next]_vars PROVE [WQ!WQNext]_WQ!vars
    OBVIOUS
  <2>1. UNCHANGED pool => UNCHANGED WQ!vars
    BY DEF pool, WQ!vars, WQ!owner, WQ!books
  <2>2. CASE Dispatcher
    BY <2>1, <2>2 DEF Dispatcher, LaunchHashers, Launched, LaunchedAll, UpdateParams,
        ResizeArea, GetStat, Completed, UpdateControl, KeepControl, End, Unwind,
        QueueDropped, InQueue, WQ!WQNext, WQ!InCall
  <2>3. ASSUME NEW id \in Ids, Hasher(id) PROVE [WQ!WQNext]_WQ!vars
    BY <2>1, <2>3 DEF Hasher, StartHasher, ReadArea, SendCompletion, AckWork,
        HasherPanics, WorkerExits, WQ!WQNext, WQ!Thread
  <2>4. CASE Main
    BY <2>1, <2>4 DEF Main, SetParams, AskStat, TakeStat, SendFails, DropDispatch, Joined
  <2>5. CASE Settle \/ Tick
    BY <2>1, <2>5 DEF Settle, Tick, WQ!WQNext
  <2>6. CASE UNCHANGED vars
    BY <2>1, <2>6 DEF vars
  <2> QED BY <2>2, <2>3, <2>4, <2>5, <2>6 DEF Next
<1> QED BY <1>1, <1>2, PTL DEF Spec, WQ!WQSpec

(* Both instances of the work queue name the same actions.                 *)
LEMMA SameQueue == WQ!WQNext => Pool!WQNext
BY DEF WQ!books, Pool!books, WQ!owner, Pool!owner, WQ!Busy, Pool!Busy,
       WQ!Free, Pool!Free, WQ!Kept, Pool!Kept, WQ!TimedOut, Pool!TimedOut,
       WQ!Observed, Pool!Observed, WQ!Call, Pool!Call, WQ!Drop, Pool!Drop,
       WQ!TakeAck, Pool!TakeAck, WQ!AcksTaken, Pool!AcksTaken, WQ!TakeErr,
       Pool!TakeErr, WQ!ErrsTaken, Pool!ErrsTaken, WQ!Reap, Pool!Reap,
       WQ!Join, Pool!Join, WQ!ReapJoined, Pool!ReapJoined, WQ!UseIdle,
       Pool!UseIdle, WQ!Spawn, Pool!Spawn, WQ!DropPanics, Pool!DropPanics,
       WQ!Dropped, Pool!Dropped, WQ!Receive, Pool!Receive, WQ!Ack,
       Pool!Ack, WQ!Panic, Pool!Panic, WQ!Exit, Pool!Exit, WQ!Thread,
       Pool!Thread, WQ!Tick, Pool!Tick, WQ!InCall, Pool!InCall, WQ!WQNext,
       Pool!WQNext

(* What is proved of the work queue therefore holds of the dispatcher's.   *)
QueueGood == WQ!TypeOK /\ WQ!PoolInv /\ WQ!OwnedInv

LEMMA QueueSound == Spec => []QueueGood
<1>1. Pool!WQSpec => []Pool!TypeOK
  BY Pool!TypeCorrect, QueueAssumption
<1>2. Pool!WQSpec => []Pool!PoolGood
  BY Pool!BooksKept, QueueAssumption
<1>3. WQ!WQInit => Pool!WQInit
  BY DEF WQ!WQInit, Pool!WQInit
<1>4. UNCHANGED WQ!vars => UNCHANGED Pool!vars
  BY DEF WQ!vars, Pool!vars, WQ!owner, Pool!owner, WQ!books, Pool!books
<1>5. WQ!WQSpec => Pool!WQSpec
  BY <1>3, <1>4, SameQueue, PTL DEF WQ!WQSpec, Pool!WQSpec
<1>6. Pool!TypeOK /\ Pool!PoolGood => QueueGood
  BY DEF QueueGood, WQ!TypeOK, Pool!TypeOK, Pool!PoolGood, WQ!PoolInv, Pool!PoolInv,
         WQ!OwnedInv, Pool!OwnedInv, WQ!Known, Pool!Known, WQ!Busy, Pool!Busy, WQ!Owned,
         Pool!Owned, WQ!Elements, Pool!Elements, WQ!Distinct, Pool!Distinct
<1> QED BY <1>1, <1>2, <1>5, <1>6, UsesQueue, PTL

(* What the queue's invariants say of a worker that is given work.         *)
LEMMA IdleIsFree ==
    ASSUME QueueGood, pc = "next", idle # <<>>
    PROVE  /\ Head(idle) \in Ids
           /\ inbox[Head(idle)] = 0 /\ thread[Head(idle)] = "waiting"
<1> USE DEF QueueGood
<1>1. Head(idle) \in Ids /\ Head(idle) \in WQ!Elements(idle)
  BY DEF WQ!TypeOK, WQ!Elements
<1>2. WQ!Owned
  BY DEF WQ!Owned
<1> QED BY <1>1, <1>2 DEF WQ!TypeOK, WQ!PoolInv, WQ!OwnedInv, WQ!Known, WQ!Busy

LEMMA FreeIsFree ==
    ASSUME QueueGood, pc = "next", NEW id \in WQ!Free
    PROVE  id \in Ids /\ thread[id] = "none" /\ inbox[id] = 0
BY DEF QueueGood, WQ!Free, WQ!PoolInv, WQ!OwnedInv, WQ!Owned, WQ!Known, WQ!Busy, WQ!TypeOK
-----------------------------------------------------------------------------
(* Types, and the count of the requests in flight.  That nr_in_flight does *)
(* not go below zero needs its count, and the count needs the types.       *)
CountInv == TypeOK /\ JobInv /\ EndInv /\ InFlightExact

LEMMA CountedAtFirst == Init => CountInv
<1> SUFFICES ASSUME Init PROVE CountInv
  OBVIOUS
<1> USE DEF Init, WQ!WQInit
<1>1. Outstanding = {}
  BY DEF Outstanding, Pending, Lost
<1>2. InFlightExact
  BY <1>1, FS_EmptySet DEF InFlightExact
<1>3. WQ!TypeOK
  <2>1. idle \in Seq(Ids) /\ acks \in Seq(Ids) /\ errs \in Seq(Ids)
    OBVIOUS
  <2>2. /\ last \in [Ids -> Nat] /\ inbox \in [Ids -> Nat]
        /\ thread \in [Ids -> {"none", "waiting", "working", "panicked", "exited"}]
    OBVIOUS
  <2> QED BY <2>1, <2>2 DEF WQ!TypeOK
<1>4. <<>> \in Seq(CmdType)
  OBVIOUS
<1>5. TypeOK
  BY <1>3, <1>4, ParamsAssumption, ConcurrencyAssumption DEF TypeOK
<1>6. JobInv /\ EndInv
  BY DEF JobInv, EndInv, WQ!Owned
<1> QED BY <1>2, <1>5, <1>6 DEF CountInv

(* Steps that leave workers and hashers alone.                             *)
Quiet == UNCHANGED <<thread, inbox, job>>

LEMMA QuietCounts ==
    ASSUME Quiet
    PROVE  Outstanding' = Outstanding /\ (JobInv => JobInv')
BY DEF Quiet, Outstanding, Pending, Lost, JobInv

LEMMA FiniteOutstanding == IsFiniteSet(Outstanding) /\ Cardinality(Outstanding) \in Nat
<1>1. Outstanding \subseteq Ids
  BY DEF Outstanding
<1> QED BY <1>1, IdsAssumption, FS_Subset, FS_CardinalityType

LEMMA DispatcherTurns ==
    ASSUME CountInv, QueueGood',
           \/ LaunchHashers \/ LaunchedAll \/ UpdateParams \/ ResizeArea \/ GetStat
           \/ Completed \/ UpdateControl \/ KeepControl
    PROVE  CountInv'
<1> USE DEF CountInv
<1>1. Quiet
  BY DEF LaunchHashers, LaunchedAll, UpdateParams, ResizeArea, GetStat, Completed,
         UpdateControl, KeepControl, WQ!Call, pool, Quiet
<1>2. JobInv' /\ Outstanding' = Outstanding
  BY <1>1, QuietCounts
<1>3. EndInv'
  BY <1>1 DEF EndInv, LaunchHashers, LaunchedAll, UpdateParams, ResizeArea, GetStat, Completed,
         UpdateControl, KeepControl, Select, WQ!Call, pool, Quiet, WQ!Owned
<1>4. at # "ended" /\ pc = "user"
  BY DEF LaunchHashers, LaunchedAll, UpdateParams, ResizeArea, GetStat, Completed,
         UpdateControl, KeepControl, Select, WQ!Call
<1>5. inFlight = Cardinality(Outstanding) + cmpls
  BY <1>4 DEF InFlightExact
<1>6. TypeOK' /\ InFlightExact'
  <2> USE DEF TypeOK, InFlightExact, QueueGood
  <2>1. CASE LaunchHashers
    BY <1>2, <2>1 DEF LaunchHashers, control, counts, main, WQ!Call
  <2>2. CASE LaunchedAll
    BY <1>2, <2>2 DEF LaunchedAll, control, counts, main, pool
  <2>3. CASE UpdateParams
    <3>1. Head(cmds) \in CmdType /\ Tail(cmds) \in Seq(CmdType)
      BY <2>3 DEF UpdateParams
    <3>2. Head(cmds).params \in ParamsType
      BY <2>3, <3>1 DEF UpdateParams, CmdType
    <3> QED BY <1>2, <2>3, <3>1, <3>2 DEF UpdateParams, Select, counts, main, pool
  <2>4. CASE ResizeArea
    BY <1>2, <2>4 DEF ResizeArea, counts, main, pool
  <2>5. CASE GetStat
    BY <1>2, <2>5 DEF GetStat, Select, control, counts, pool
  <2>6. CASE Completed
    <3>1. inFlight' = inFlight - 1 /\ cmpls' = cmpls - 1 /\ cmpls > 0
      BY <2>6 DEF Completed
    <3>2. inFlight' \in Nat /\ cmpls' \in Nat /\ inFlight' = Cardinality(Outstanding) + cmpls'
      BY <1>5, <3>1, FiniteOutstanding
    <3> QED BY <1>2, <2>6, <3>2 DEF Completed, Select, control, main, pool
  <2>7. CASE UpdateControl
    <3>1. Targets \subseteq Nat
      BY DEF Targets, ParamsType
    <3> QED BY <1>2, <2>7, <3>1 DEF UpdateControl, ResetLatRps, main, pool
  <2>8. CASE KeepControl
    BY <1>2, <2>8 DEF KeepControl, ResetLatRps, control, main, pool
  <2> QED BY <2>1, <2>2, <2>3, <2>4, <2>5, <2>6, <2>7, <2>8
<1> QED BY <1>2, <1>3, <1>6

LEMMA MainCounts ==
    ASSUME CountInv, QueueGood', Main \/ Settle \/ Tick \/ UNCHANGED vars
    PROVE  CountInv'
<1> USE DEF CountInv, Main, SetParams, AskStat, TakeStat, SendFails, DropDispatch, Joined,
        Settle, Tick, WQ!Tick, WQ!owner, WQ!books, vars, pool, counts, control, main
<1>1. Quiet
  BY DEF Quiet
<1>2. JobInv' /\ Outstanding' = Outstanding
  BY <1>1, QuietCounts
<1>3. EndInv'
  BY <1>1 DEF EndInv, Quiet, WQ!Owned
<1>4. InFlightExact'
  BY <1>2 DEF InFlightExact
<1>5. TypeOK'
  <2> USE DEF TypeOK, QueueGood
  <2>1. CASE SetParams
    <3>1. PICK p \in Params : cmds' = Append(cmds, [op |-> "set", params |-> p])
      BY <2>1
    <3>2. [op |-> "set", params |-> p] \in CmdType
      BY <3>1, ParamsAssumption DEF CmdType
    <3>3. cmds' \in Seq(CmdType)
      BY <3>1, <3>2
    <3> QED BY <2>1, <3>3
  <2>2. CASE AskStat
    <3>1. [op |-> "stat"] \in CmdType
      BY DEF CmdType
    <3>2. cmds' \in Seq(CmdType)
      BY <2>2, <3>1
    <3> QED BY <2>2, <3>2
  <2>3. CASE TakeStat
    BY <2>3
  <2>4. CASE SendFails \/ DropDispatch \/ Joined \/ Settle
    BY <2>4
  <2>5. CASE Tick \/ UNCHANGED vars
    BY <2>5
  <2> QED BY <2>1, <2>2, <2>3, <2>4, <2>5
<1> QED BY <1>2, <1>3, <1>4, <1>5

(* The dispatcher ends: it no longer counts.                               *)
LEMMA EndCounts ==
    ASSUME CountInv, QueueGood, QueueGood', End \/ Unwind \/ QueueDropped
    PROVE  CountInv'
<1> USE DEF CountInv
<1>1. Quiet
  BY DEF End, Unwind, QueueDropped, WQ!Drop, WQ!Dropped, WQ!DropPanics, WQ!books, Quiet
<1>2. JobInv'
  BY <1>1, QuietCounts
<1>3. at' = "ended"
  BY DEF End, Unwind, QueueDropped, WQ!Dropped, WQ!DropPanics, EndInv, WQ!Owned
<1>4. InFlightExact'
  BY <1>3 DEF InFlightExact
<1>5. TypeOK'
  <2>1. <<>> \in Seq(CmdType)
    OBVIOUS
  <2> QED BY <2>1 DEF End, Unwind, QueueDropped, TypeOK, QueueGood, control, counts, main
<1>6. EndInv'
  <2>1. CASE End \/ Unwind
    <3>1. /\ pc' = "drop" /\ joining' = workers
          /\ receiver' = receiver /\ pc \in {"user", "unwind"}
      BY <2>1 DEF End, Unwind, WQ!Drop
    <3>2. \A id \in Ids \ workers : thread[id] = "none" /\ inbox[id] = 0
      BY <3>1 DEF QueueGood, WQ!OwnedInv, WQ!Owned
    <3>3. ~receiver' => pc' \in {"dropped", "panicked", "aborted"}
      BY <3>1 DEF EndInv
    <3>4. \A id \in Ids : thread'[id] = "exited" => inbox'[id] = 0
      BY <1>1 DEF EndInv, Quiet
    <3> QED BY <1>1, <1>3, <3>1, <3>2, <3>3, <3>4 DEF EndInv, Quiet, WQ!Owned
  <2>2. CASE QueueDropped
    BY <1>1, <1>3, <2>2 DEF EndInv, QueueDropped, WQ!Dropped, WQ!DropPanics, WQ!books, Quiet,
       WQ!Owned
  <2> QED BY <2>1, <2>2
<1> QED BY <1>2, <1>4, <1>5, <1>6

(* A request is outstanding as soon as it is queued.                       *)
LEMMA LaunchCounts ==
    ASSUME CountInv, QueueGood, QueueGood', Launched
    PROVE  CountInv'
<1> USE DEF CountInv
<1>1. PICK id \in Ids :
        /\ thread[id] \in {"none", "waiting"} /\ inbox[id] = 0
        /\ thread' = [thread EXCEPT ![id] = "waiting"]
        /\ inbox' = [inbox EXCEPT ![id] = 1]
        /\ pc = "next" /\ pc' = "user" /\ joining' = joining
  <2>1. CASE WQ!UseIdle
    <3>1. /\ pc = "next" /\ pc' = "user" /\ joining' = joining /\ thread' = thread
          /\ inbox' = [inbox EXCEPT ![Head(idle)] = @ + 1] /\ idle # <<>>
      BY <2>1 DEF WQ!UseIdle
    <3>2. /\ Head(idle) \in Ids
          /\ inbox[Head(idle)] = 0 /\ thread[Head(idle)] = "waiting"
      BY <3>1, IdleIsFree
    <3>3. /\ inbox' = [inbox EXCEPT ![Head(idle)] = 1]
          /\ thread' = [thread EXCEPT ![Head(idle)] = "waiting"]
      BY <3>1, <3>2 DEF TypeOK, WQ!TypeOK
    <3> QED BY <3>1, <3>2, <3>3
  <2>2. ASSUME NEW id \in Ids, WQ!Spawn(id)
        PROVE  /\ thread[id] = "none" /\ inbox[id] = 0
               /\ thread' = [thread EXCEPT ![id] = "waiting"]
               /\ inbox' = [inbox EXCEPT ![id] = 1]
               /\ pc = "next" /\ pc' = "user" /\ joining' = joining
    BY <2>2, FreeIsFree DEF WQ!Spawn
  <2> QED BY <2>1, <2>2 DEF Launched
<1>2. job' = job /\ job[id] = "none"
  BY <1>1 DEF Launched, JobInv
<1>3. JobInv'
  BY <1>1, <1>2 DEF JobInv, TypeOK, WQ!TypeOK
<1>4. Outstanding' = Outstanding \cup {id} /\ id \notin Outstanding
  BY <1>1, <1>2 DEF Outstanding, Pending, Lost, TypeOK, WQ!TypeOK
<1>5. Cardinality(Outstanding') = Cardinality(Outstanding) + 1
  BY <1>4, FiniteOutstanding, FS_AddElement
<1>6. at # "ended"
  BY <1>1 DEF EndInv, WQ!Owned
<1>7. TypeOK'
  BY <1>2 DEF Launched, TypeOK, QueueGood, control, main
<1>8. InFlightExact'
  <2>1. inFlight = Cardinality(Outstanding) + cmpls
    BY <1>1, <1>6 DEF InFlightExact
  <2>2. inFlight' = inFlight + 1 /\ cmpls' = cmpls
    BY DEF Launched
  <2> QED BY <1>5, <2>1, <2>2, FiniteOutstanding DEF InFlightExact, TypeOK
<1>9. EndInv'
  <2>1. at' = at /\ receiver' = receiver
    BY DEF Launched, control
  <2> QED BY <1>1, <1>6, <2>1 DEF EndInv, WQ!Owned, TypeOK, WQ!TypeOK
<1> QED BY <1>3, <1>7, <1>8, <1>9

(* keep_books() and drop(): only panicked or exited workers are let go.    *)
LEMMA QueueCounts ==
    ASSUME CountInv, QueueGood, QueueGood', InQueue
    PROVE  CountInv'
<1> USE DEF CountInv
<1>1. UNCHANGED <<at, control, counts, job, cmpls, receiver, cmds, main>>
  BY DEF InQueue
<1>2. TypeOK'
  BY <1>1 DEF TypeOK, QueueGood, control, counts, main
<1>3. CASE WQ!TakeAck \/ WQ!AcksTaken \/ WQ!ErrsTaken \/ WQ!Reap \/ WQ!ReapJoined
  <2> USE <1>3 DEF WQ!TakeAck, WQ!AcksTaken, WQ!ErrsTaken, WQ!Reap, WQ!ReapJoined, WQ!books
  <2>1. Quiet
    BY <1>1 DEF Quiet
  <2>2. JobInv' /\ Outstanding' = Outstanding
    BY <2>1, QuietCounts
  <2>3. EndInv'
    BY <1>1, <2>1 DEF EndInv, Quiet, WQ!Owned
  <2>4. pc # "unwind" /\ at' = at /\ inFlight' = inFlight /\ cmpls' = cmpls
    BY <1>1 DEF counts
  <2>5. InFlightExact'
    BY <2>2, <2>4 DEF InFlightExact
  <2> QED BY <1>2, <2>2, <2>3, <2>5
<1>4. CASE WQ!TakeErr
  <2>1. /\ Head(errs) \in WQ!Elements(errs) /\ Head(errs) \in Ids
        /\ pc = "errs" /\ pc' = "unwind" /\ UNCHANGED <<inbox, joining>>
        /\ thread' = [thread EXCEPT ![Head(errs)] = "none"]
    BY <1>4 DEF WQ!TakeErr, WQ!Elements, QueueGood, WQ!TypeOK
  <2>2. thread[Head(errs)] = "panicked"
    BY <2>1 DEF QueueGood, WQ!OwnedInv, WQ!Owned, WQ!Known
  <2>3. JobInv'
    BY <1>1, <2>1, <2>2 DEF JobInv, TypeOK, WQ!TypeOK
  <2>4. EndInv'
    BY <1>1, <2>1 DEF EndInv, WQ!Owned, TypeOK, WQ!TypeOK
  <2> QED BY <1>2, <2>1, <2>3, <2>4 DEF InFlightExact
<1>5. ASSUME NEW id \in Ids, WQ!Join(id) PROVE CountInv'
  <2>1. /\ thread[id] = "exited" /\ thread' = [thread EXCEPT ![id] = "none"]
        /\ joining' = joining \ {id} /\ UNCHANGED <<pc, inbox>>
    BY <1>5 DEF WQ!Join
  <2>2. JobInv'
    BY <1>1, <2>1 DEF JobInv, TypeOK, WQ!TypeOK
  <2>3. Outstanding' = Outstanding
    BY <1>1, <2>1 DEF Outstanding, Pending, Lost, TypeOK, WQ!TypeOK
  <2>4. InFlightExact'
    BY <1>1, <2>1, <2>3 DEF InFlightExact, counts
  <2>5. EndInv'
    BY <1>1, <2>1 DEF EndInv, WQ!Owned, TypeOK, WQ!TypeOK
  <2> QED BY <1>2, <2>2, <2>4, <2>5
<1> QED BY <1>3, <1>4, <1>5 DEF InQueue

(* Every completion sent is one request less outstanding; a panic leaves   *)
(* it outstanding for good.                                                *)
LEMMA HasherCounts ==
    ASSUME CountInv, QueueGood, QueueGood', NEW id \in Ids, Hasher(id)
    PROVE  CountInv'
<1> USE DEF CountInv
<1>1. UNCHANGED <<pc, joining, at, control, counts, receiver, cmds, main>>
  BY DEF Hasher, StartHasher, ReadArea, SendCompletion, AckWork, HasherPanics, WorkerExits,
         WQ!Receive, WQ!Ack, WQ!Panic, WQ!Exit, WQ!owner, pool
<1>2. /\ thread \in [Ids -> {"none", "waiting", "working", "panicked", "exited"}]
      /\ inbox \in [Ids -> Nat]
      /\ job \in [Ids -> {"none", "start", "reading", "sent"}]
  BY DEF TypeOK, WQ!TypeOK
<1>3. \A w \in Ids : inbox[w] > 0 => inbox[w] = 1 /\ thread[w] = "waiting"
  BY DEF QueueGood, WQ!PoolInv
<1>4. CASE StartHasher(id) \/ ReadArea(id)
  <2> USE <1>4 DEF StartHasher, ReadArea, WQ!Receive, pool, WQ!owner
  <2>1. cmpls' = cmpls /\ TypeOK'
    BY <1>1, <1>2 DEF TypeOK, QueueGood, control, counts, main
  <2>2. JobInv'
    BY <1>2 DEF JobInv
  <2>3. Outstanding' = Outstanding
    BY <1>2, <1>3 DEF Outstanding, Pending, Lost
  <2>4. InFlightExact'
    BY <1>1, <2>1, <2>3 DEF InFlightExact, counts
  <2>5. EndInv'
    BY <1>1, <1>2 DEF EndInv, WQ!Owned
  <2> QED BY <2>1, <2>2, <2>4, <2>5
<1>5. CASE SendCompletion(id)
  <2> USE <1>5 DEF SendCompletion, pool
  <2>1. TypeOK'
    BY <1>1, <1>2 DEF TypeOK, QueueGood, control, counts, main
  <2>2. JobInv'
    BY <1>2 DEF JobInv
  <2>3. thread[id] = "working" /\ inbox[id] = 0
    BY <1>2, <1>3 DEF JobInv
  <2>4. Outstanding' = Outstanding \ {id} /\ id \in Outstanding
    BY <1>2, <2>3 DEF Outstanding, Pending, Lost
  <2>5. Cardinality(Outstanding') = Cardinality(Outstanding) - 1
    BY <2>4, FiniteOutstanding, FS_RemoveElement
  <2>6. cmpls' = cmpls + 1 /\ cmpls \in Nat
    BY DEF TypeOK
  <2>7. InFlightExact'
    BY <1>1, <2>5, <2>6, FiniteOutstanding DEF InFlightExact, counts
  <2>8. EndInv'
    BY <1>1 DEF EndInv, WQ!Owned
  <2> QED BY <2>1, <2>2, <2>7, <2>8
<1>6. CASE AckWork(id) \/ HasherPanics(id)
  <2> USE <1>6 DEF AckWork, HasherPanics, WQ!Ack, WQ!Panic
  <2>1. cmpls' = cmpls /\ TypeOK'
    BY <1>1, <1>2 DEF TypeOK, QueueGood, control, counts, main
  <2>2. JobInv'
    BY <1>2 DEF JobInv
  <2>3. Outstanding' = Outstanding
    BY <1>2, <1>3 DEF Outstanding, Pending, Lost
  <2>4. InFlightExact'
    BY <1>1, <2>1, <2>3 DEF InFlightExact, counts
  <2>5. EndInv'
    BY <1>1, <1>2 DEF EndInv, WQ!Owned
  <2> QED BY <2>1, <2>2, <2>4, <2>5
<1>7. CASE WorkerExits(id)
  <2> USE <1>7 DEF WorkerExits, WQ!Exit, WQ!owner
  <2>1. cmpls' = cmpls /\ TypeOK'
    BY <1>1 DEF TypeOK, QueueGood, control, counts, main
  <2>2. JobInv'
    BY <1>2 DEF JobInv
  <2>3. Outstanding' = Outstanding
    BY <1>2 DEF Outstanding, Pending, Lost
  <2>4. InFlightExact'
    BY <1>1, <2>1, <2>3 DEF InFlightExact, counts
  <2>5. EndInv'
    BY <1>1, <1>2 DEF EndInv, WQ!Owned
  <2> QED BY <2>1, <2>2, <2>4, <2>5
<1> QED BY <1>4, <1>5, <1>6, <1>7 DEF Hasher

(* The inductive invariant: the count, its types, and where hashers run.   *)
THEOREM RequestsCounted == Spec => []CountInv
<1>1. CountInv /\ QueueGood /\ QueueGood' /\ [Next]_vars => CountInv'
  BY DispatcherTurns, MainCounts, EndCounts, LaunchCounts, QueueCounts, HasherCounts
     DEF Next, Dispatcher
<1> QED BY CountedAtFirst, <1>1, QueueSound, PTL DEF Spec

(* The requests in flight are counted exactly, whatever is sent, received, *)
(* acknowledged or changed in the meantime, so that nr_in_flight never     *)
(* wraps.                                                                  *)
THEOREM InFlightIsExact == Spec => []InFlightExact
<1>1. CountInv => InFlightExact
  BY DEF CountInv
<1> QED BY <1>1, RequestsCounted, PTL
-----------------------------------------------------------------------------
(* Every latency percentile that is queried has samples to come from.      *)
THEOREM SamplesExact == Spec => []SamplesMatch
<1>1. Init => SamplesMatch
  BY DEF Init, SamplesMatch
<1>2. CountInv /\ SamplesMatch /\ [Next]_vars => SamplesMatch'
  <2> SUFFICES ASSUME CountInv, SamplesMatch, [Next]_vars PROVE SamplesMatch'
    OBVIOUS
  <2>1. done \in Nat /\ lastDone \in Nat /\ samples \in Nat
    BY DEF CountInv, TypeOK
  <2>2. \/ UNCHANGED <<done, lastDone, samples>>
        \/ done' = done + 1 /\ samples' = samples + 1 /\ lastDone' = lastDone
        \/ done' = done /\ lastDone' = done /\ samples' = 0
    BY DEF Next, Dispatcher, Hasher, Main, vars, counts, Settle, Tick,
        LaunchHashers, Launched, LaunchedAll, UpdateParams, ResizeArea, GetStat, Completed,
        UpdateControl, KeepControl, ResetLatRps, End, Unwind, QueueDropped, InQueue,
        StartHasher, ReadArea, SendCompletion, AckWork, HasherPanics, WorkerExits,
        SetParams, AskStat, TakeStat, SendFails, DropDispatch, Joined
  <2> QED BY <2>1, <2>2 DEF SamplesMatch
<1> QED BY <1>1, <1>2, RequestsCounted, PTL DEF Spec

(* No hasher ever sends its completion to a receiver that is gone.         *)
THEOREM ReceiverIsLast == Spec => []ReceiverOutlivesHashers
<1>1. CountInv => ReceiverOutlivesHashers
  <2> SUFFICES ASSUME CountInv, ~receiver, pc = "dropped", NEW id \in Ids
               PROVE  ~Pending(id)
    BY DEF CountInv, EndInv, ReceiverOutlivesHashers
  <2>1. thread[id] = "none" /\ inbox[id] = 0
    BY DEF CountInv, EndInv
  <2>2. job[id] = "none"
    BY <2>1 DEF CountInv, JobInv, TypeOK
  <2> QED BY <2>1, <2>2 DEF Pending
<1> QED BY <1>1, RequestsCounted, PTL
=============================================================================
