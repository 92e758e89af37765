----------------------------- MODULE WorkQueue -----------------------------
(***************************************************************************)
(* The worker pool of rd-hashd (rd-hashd/src/workqueue.rs): its owner      *)
(* queues work on worker threads it spawns on demand and, on every call,   *)
(* collects their acks and panics and lets go of those idle for too long.  *)
(*                                                                         *)
(* Workers are known by the address of their handle, which is used again   *)
(* once the handle is freed.  The channels are read one message at a time  *)
(* while the workers go on sending.                                        *)
(***************************************************************************)
EXTENDS Integers, Sequences, FiniteSets

CONSTANTS
    Ids,        \* addresses worker handles are allocated at (bounds the pool)
    Timeout,    \* idle_timeout
    MaxTime,    \* bound: the clock
    MayPanic    \* whether work may panic

ASSUME TimeAssumption == Timeout \in Nat \ {0} /\ MaxTime \in Nat
ASSUME MayPanicAssumption == MayPanic \in BOOLEAN

VARIABLES
    pc,         \* where the owner is: in its own code ("user") or in a call
    call,       \* the call it made last
    panicking,  \* whether the owner is unwinding
    workers,    \* keys of WorkQueue::workers
    idle,       \* WorkQueue::idle_workers, front first
    last,       \* last_active_at of each worker
    acks, errs, \* the ack and err channels
    joining,    \* the join handles still to be joined
    thread,     \* what each worker's thread does
    inbox,      \* how much work is in each worker's channel
    clock,      \* Instant::now()
    booksAt     \* keep_books()'s now

books == <<workers, idle, last>>
owner == <<pc, call, panicking, books, joining, booksAt>>
vars == <<owner, acks, errs, thread, inbox, clock>>

Elements(s) == {s[i] : i \in DOMAIN s}

WQInit ==
    /\ pc = "user"
    /\ call = "keep_books"
    /\ panicking = FALSE
    /\ workers = {} /\ idle = <<>> /\ last = [id \in Ids |-> 0]
    /\ acks = <<>> /\ errs = <<>>
    /\ joining = {}
    /\ thread = [id \in Ids |-> "none"]
    /\ inbox = [id \in Ids |-> 0]
    /\ clock = 0 /\ booksAt = 0
-----------------------------------------------------------------------------
(* The owner: keep_books(), which queue() begins with.                     *)

Free == {id \in Ids : thread[id] = "none"}
Busy(id) == thread[id] = "working" \/ inbox[id] > 0

\* The bound on the pool: queue() is not called while all of Ids are busy.

Call(c) ==
    /\ pc = "user"
    /\ c = "queue" => \E id \in Ids : ~Busy(id)
    /\ call' = c
    /\ booksAt' = clock
    /\ pc' = "acks"
    /\ UNCHANGED <<panicking, books, acks, errs, joining, thread, inbox, clock>>

\* Mutant: newly idle workers go to the back.
TakeAckBack ==
    /\ pc = "acks" /\ acks # <<>>
    /\ last' = [last EXCEPT ![Head(acks)] = booksAt]
    /\ idle' = Append(idle, Head(acks))
    /\ acks' = Tail(acks)
    /\ UNCHANGED <<pc, call, panicking, workers, errs, joining, thread, inbox,
                   clock, booksAt>>

TakeAck ==
    /\ pc = "acks" /\ acks # <<>>
    /\ last' = [last EXCEPT ![Head(acks)] = booksAt]
    /\ idle' = <<Head(acks)>> \o idle
    /\ acks' = Tail(acks)
    /\ UNCHANGED <<pc, call, panicking, workers, errs, joining, thread, inbox,
                   clock, booksAt>>

AcksTaken ==
    /\ pc = "acks" /\ acks = <<>>
    /\ pc' = "errs"
    /\ UNCHANGED <<call, panicking, books, acks, errs, joining, thread, inbox,
                   clock, booksAt>>

\* The thread that panicked has ended: joining it gives an error, and the owner
\* panics in turn.
TakeErr ==
    /\ pc = "errs" /\ errs # <<>>
    /\ workers' = workers \ {Head(errs)}
    /\ thread' = [thread EXCEPT ![Head(errs)] = "none"]
    /\ errs' = Tail(errs)
    /\ panicking' = TRUE
    /\ pc' = "unwind"
    /\ UNCHANGED <<call, idle, last, acks, joining, inbox, clock, booksAt>>

TimedOut(id) == booksAt - last[id] >= Timeout

\* The loop pops from the back and stops at the first that has not timed out:
\* k are kept.
Kept(k) ==
    /\ k > 0 => ~TimedOut(idle[k])
    /\ \A i \in (k + 1)..Len(idle) : TimedOut(idle[i])

Reap ==
    /\ pc = "reap"
    /\ \E k \in 0..Len(idle) :
        /\ Kept(k)
        /\ joining' = {idle[i] : i \in (k + 1)..Len(idle)}
        /\ idle' = SubSeq(idle, 1, k)
    /\ workers' = workers \ joining'
    /\ pc' = "join"
    /\ UNCHANGED <<call, panicking, last, acks, errs, thread, inbox, clock, booksAt>>

ErrsTaken ==
    /\ pc = "errs" /\ errs = <<>>
    /\ pc' = "reap"
    /\ UNCHANGED <<call, panicking, books, acks, errs, joining, thread, inbox,
                   clock, booksAt>>

\* A join returns when the thread has ended; its handle's address is free again.
Join(id) ==
    /\ id \in joining
    /\ thread[id] = "exited"
    /\ joining' = joining \ {id}
    /\ thread' = [thread EXCEPT ![id] = "none"]
    /\ UNCHANGED <<pc, call, panicking, books, acks, errs, inbox, clock, booksAt>>

ReapJoined ==
    /\ pc = "join" /\ joining = {}
    /\ pc' = IF call = "queue" THEN "next" ELSE "user"
    /\ UNCHANGED <<call, panicking, books, acks, errs, joining, thread, inbox,
                   clock, booksAt>>
-----------------------------------------------------------------------------
(* The owner: the rest of queue(), and drop().                             *)

UseIdle ==
    /\ pc = "next" /\ idle # <<>>
    /\ idle' = Tail(idle)
    /\ inbox' = [inbox EXCEPT ![Head(idle)] = @ + 1]
    /\ pc' = "user"
    /\ UNCHANGED <<call, panicking, workers, last, acks, errs, joining, thread,
                   clock, booksAt>>

Spawn(id) ==
    /\ pc = "next" /\ idle = <<>>
    /\ id \in Free
    /\ workers' = workers \cup {id}
    /\ last' = [last EXCEPT ![id] = clock]
    /\ thread' = [thread EXCEPT ![id] = "waiting"]
    /\ inbox' = [inbox EXCEPT ![id] = 1]
    /\ pc' = "user"
    /\ UNCHANGED <<call, panicking, idle, acks, errs, joining, clock, booksAt>>

\* Mutant: the handles are still in the map while their threads are joined.
DropKeepHandles ==
    /\ pc \in {"user", "unwind"}
    /\ joining' = workers
    /\ pc' = "drop"
    /\ UNCHANGED <<call, panicking, books, acks, errs, thread, inbox, clock, booksAt>>

Drop ==
    /\ pc \in {"user", "unwind"}
    /\ joining' = workers
    /\ workers' = {} /\ idle' = <<>>
    /\ pc' = "drop"
    /\ UNCHANGED <<call, panicking, last, acks, errs, thread, inbox, clock, booksAt>>

\* join().unwrap() of a thread that panicked; the process aborts if the owner
\* is panicking already.
DropPanics(id) ==
    /\ pc = "drop"
    /\ id \in joining
    /\ thread[id] = "panicked"
    /\ pc' = IF panicking THEN "aborted" ELSE "panicked"
    /\ UNCHANGED <<call, panicking, books, acks, errs, joining, thread, inbox,
                   clock, booksAt>>

Dropped ==
    /\ pc = "drop" /\ joining = {}
    /\ pc' = IF panicking THEN "panicked" ELSE "dropped"
    /\ UNCHANGED <<call, panicking, books, acks, errs, joining, thread, inbox,
                   clock, booksAt>>
-----------------------------------------------------------------------------
(* The worker threads: Worker::run.                                        *)

\* The threads a panicking drop did not join are nobody's any more.
Observed == pc \notin {"dropped", "panicked", "aborted"}

Receive(id) ==
    /\ Observed
    /\ thread[id] = "waiting" /\ inbox[id] > 0
    /\ inbox' = [inbox EXCEPT ![id] = @ - 1]
    /\ thread' = [thread EXCEPT ![id] = "working"]
    /\ UNCHANGED <<owner, acks, errs, clock>>

Ack(id) ==
    /\ Observed
    /\ thread[id] = "working"
    /\ thread' = [thread EXCEPT ![id] = "waiting"]
    /\ acks' = Append(acks, id)
    /\ UNCHANGED <<owner, errs, inbox, clock>>

\* Mutant: the panic is acknowledged as well.
PanicAcked(id) ==
    /\ MayPanic /\ Observed
    /\ thread[id] = "working"
    /\ thread' = [thread EXCEPT ![id] = "panicked"]
    /\ errs' = Append(errs, id)
    /\ acks' = Append(acks, id)
    /\ UNCHANGED <<owner, inbox, clock>>

Panic(id) ==
    /\ MayPanic /\ Observed
    /\ thread[id] = "working"
    /\ thread' = [thread EXCEPT ![id] = "panicked"]
    /\ errs' = Append(errs, id)
    /\ UNCHANGED <<owner, acks, inbox, clock>>

\* Mutant: the thread looks for the end of its channel first.
ExitAtOnce(id) ==
    /\ Observed
    /\ thread[id] = "waiting" /\ id \notin workers
    /\ thread' = [thread EXCEPT ![id] = "exited"]
    /\ UNCHANGED <<owner, acks, errs, inbox, clock>>

\* The channel ends once its sender, which the handle owns, is gone and what was
\* sent has been received.
Exit(id) ==
    /\ Observed
    /\ thread[id] = "waiting" /\ inbox[id] = 0 /\ id \notin workers
    /\ thread' = [thread EXCEPT ![id] = "exited"]
    /\ UNCHANGED <<owner, acks, errs, inbox, clock>>

Tick ==
    /\ clock < MaxTime
    /\ clock' = clock + 1
    /\ UNCHANGED <<owner, acks, errs, thread, inbox>>
-----------------------------------------------------------------------------
InCall ==
    \/ TakeAck \/ AcksTaken \/ TakeErr \/ ErrsTaken \/ Reap
    \/ \E id \in Ids : Join(id)
    \/ ReapJoined
    \/ UseIdle \/ \E id \in Ids : Spawn(id)
    \/ \E id \in Ids : DropPanics(id)
    \/ Dropped

Thread(id) == Receive(id) \/ Ack(id) \/ Panic(id) \/ Exit(id)

WQNext ==
    \/ \E c \in {"queue", "keep_books"} : Call(c)
    \/ Drop
    \/ InCall
    \/ \E id \in Ids : Thread(id)
    \/ Tick

WQSpec == WQInit /\ [][WQNext]_vars

\* Calls and threads proceed, work ends, an unwinding owner drops its queue.
Fairness ==
    /\ WF_vars(InCall)
    /\ WF_vars(pc = "unwind" /\ Drop)
    /\ \A id \in Ids : WF_vars(Thread(id))

FairSpec == WQSpec /\ Fairness

-----------------------------------------------------------------------------
(* Properties.                                                             *)

TypeOK ==
    /\ pc \in {"user", "acks", "errs", "reap", "join", "next", "unwind", "drop",
               "dropped", "panicked", "aborted"}
    /\ call \in {"queue", "keep_books"}
    /\ panicking \in BOOLEAN
    /\ workers \subseteq Ids
    /\ idle \in Seq(Ids)
    /\ last \in [Ids -> Nat]
    /\ acks \in Seq(Ids) /\ errs \in Seq(Ids)
    /\ joining \subseteq Ids
    /\ thread \in [Ids -> {"none", "waiting", "working", "panicked", "exited"}]
    /\ inbox \in [Ids -> Nat]
    /\ clock \in Nat /\ booksAt \in Nat

Owned == pc \notin {"drop", "dropped", "panicked", "aborted"}
Distinct(s) == \A i, j \in DOMAIN s : i # j => s[i] # s[j]


\* The inductive forms of the invariants below.  While the owner has the queue, a
\* worker outside the map is being joined or does not exist.
Known == Elements(acks) \cup Elements(errs) \cup Elements(idle)
PoolInv ==
    /\ Distinct(acks) /\ Distinct(errs) /\ Distinct(idle)
    /\ Elements(acks) \cap Elements(errs) = {}
    /\ Elements(idle) \cap (Elements(acks) \cup Elements(errs)) = {}
    /\ \A id \in Ids : Busy(id) => id \notin Known
    /\ \A id \in Ids : inbox[id] > 0 => inbox[id] = 1 /\ thread[id] = "waiting"
OwnedInv ==
    IF Owned THEN
        /\ Known \subseteq workers
        /\ \A id \in workers :
            /\ thread[id] \in {"waiting", "working", "panicked"}
            /\ thread[id] = "panicked" <=> id \in Elements(errs)
            /\ ~Busy(id) => id \in Known
        /\ \A id \in Ids \ workers :
            /\ inbox[id] = 0
            /\ thread[id] \in (IF id \in joining THEN {"waiting", "exited"} ELSE {"none"})
        /\ joining \cap workers = {}
        /\ pc # "join" => joining = {}
    ELSE idle = <<>>
OrderInv ==
    /\ \A i, j \in DOMAIN idle : i < j => last[idle[i]] >= last[idle[j]]
    /\ \A i \in DOMAIN idle : last[idle[i]] <= booksAt
    /\ booksAt <= clock
    /\ pc \in {"join", "next"} => \A i \in DOMAIN idle : ~TimedOut(idle[i])

\* Every worker in the map is busy, or its ack or panic is on the way, or it is
\* idle, and only one of these, once: the map lookups of keep_books() find the
\* worker, though addresses are used again, and none is handed out twice.
Accounted ==
    /\ Distinct(acks) /\ Distinct(errs) /\ Distinct(idle)
    /\ Elements(acks) \cap Elements(errs) = {}
    /\ Elements(idle) \cap (Elements(acks) \cup Elements(errs)) = {}
    /\ Owned =>
        /\ Known \subseteq workers
        /\ \A id \in workers : Busy(id) <=> id \notin Known

\* Work never waits for other work: queue() uses a worker that is really idle
\* or a new one.
NeverQueuedBehind ==
    \A id \in Ids : inbox[id] > 0 => inbox[id] = 1 /\ thread[id] = "waiting"

\* Looking from the back of the list finds every worker whose time is up,
\* because it is in the order of last activity.
IdleReaped ==
    pc \in {"join", "next"} => \A i \in DOMAIN idle : ~TimedOut(idle[i])

\* Queued work is executed, even if the queue is dropped right after queue(),
\* unless that drop panics.
WorkExecuted == \A id \in Ids : inbox[id] > 0 ~> inbox[id] = 0 \/ pc \in {"panicked", "aborted"}

=============================================================================
