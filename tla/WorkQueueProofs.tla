-------------------------- MODULE WorkQueueProofs --------------------------
(***************************************************************************)
(* Proofs about the work queue, for every set of addresses, timeout and    *)
(* clock: its books account for every worker, work starts at once, and the *)
(* reaper finds every worker whose time is up.                             *)
(***************************************************************************)
EXTENDS WorkQueue, SequenceTheorems, TLAPS

(* What the channels' and the idle list's operations do to who is on them. *)
LEMMA AppendElements ==
    ASSUME NEW S, NEW s \in Seq(S), NEW e \in S
    PROVE  /\ Append(s, e) \in Seq(S)
           /\ Elements(Append(s, e)) = Elements(s) \cup {e}
           /\ Distinct(s) /\ e \notin Elements(s) => Distinct(Append(s, e))
BY AppendProperties DEF Elements, Distinct

LEMMA TailElements ==
    ASSUME NEW S, NEW s \in Seq(S), s # <<>>
    PROVE  /\ Tail(s) \in Seq(S)
           /\ Head(s) \in S /\ Head(s) \in Elements(s)
           /\ Distinct(s) => Elements(Tail(s)) = Elements(s) \ {Head(s)}
           /\ Distinct(s) => Distinct(Tail(s))
<1>1. /\ Len(s) \in Nat /\ Len(s) > 0
      /\ DOMAIN s = 1..Len(s)
      /\ Tail(s) \in Seq(S) /\ Head(s) \in S
      /\ DOMAIN Tail(s) = 1..(Len(s) - 1)
      /\ Head(s) = s[1]
      /\ \A i \in 1..(Len(s) - 1) : Tail(s)[i] = s[i + 1]
  OBVIOUS
<1>2. Head(s) \in Elements(s)
  BY <1>1 DEF Elements
<1>3. ASSUME Distinct(s) PROVE Elements(Tail(s)) = Elements(s) \ {Head(s)}
  <2>1. ASSUME NEW x \in Elements(Tail(s)) PROVE x \in Elements(s) \ {Head(s)}
    <3>1. PICK i \in 1..(Len(s) - 1) : x = Tail(s)[i]
      BY <1>1, <2>1 DEF Elements
    <3>2. x = s[i + 1] /\ i + 1 \in DOMAIN s /\ i + 1 # 1 /\ 1 \in DOMAIN s
      BY <1>1, <3>1
    <3> QED BY <1>1, <1>3, <3>2 DEF Elements, Distinct
  <2>2. ASSUME NEW x \in Elements(s) \ {Head(s)} PROVE x \in Elements(Tail(s))
    <3>1. PICK i \in DOMAIN s : x = s[i]
      BY <2>2 DEF Elements
    <3>2. i - 1 \in 1..(Len(s) - 1) /\ Tail(s)[i - 1] = s[(i - 1) + 1]
      BY <1>1, <3>1, <2>2
    <3>3. x = Tail(s)[i - 1]
      BY <1>1, <3>1, <3>2
    <3> QED BY <1>1, <3>2, <3>3 DEF Elements
  <2> QED BY <2>1, <2>2
<1>4. ASSUME Distinct(s) PROVE Distinct(Tail(s))
  BY <1>1, <1>4 DEF Distinct
<1> QED BY <1>1, <1>2, <1>3, <1>4

LEMMA PushElements ==
    ASSUME NEW S, NEW s \in Seq(S), NEW e \in S
    PROVE  /\ <<e>> \o s \in Seq(S)
           /\ DOMAIN (<<e>> \o s) = 1..(Len(s) + 1)
           /\ (<<e>> \o s)[1] = e
           /\ \A i \in 2..(Len(s) + 1) : i - 1 \in DOMAIN s /\ (<<e>> \o s)[i] = s[i - 1]
           /\ Elements(<<e>> \o s) = Elements(s) \cup {e}
           /\ Distinct(s) /\ e \notin Elements(s) => Distinct(<<e>> \o s)
<1> DEFINE t == <<e>> \o s
<1>1. /\ t \in Seq(S)
      /\ Len(s) \in Nat /\ DOMAIN s = 1..Len(s)
      /\ DOMAIN t = 1..(Len(s) + 1)
      /\ t[1] = e
      /\ \A i \in 2..(Len(s) + 1) : i - 1 \in DOMAIN s /\ t[i] = s[i - 1]
  OBVIOUS
<1>2. \A i \in DOMAIN s : i + 1 \in DOMAIN t /\ i + 1 \in 2..(Len(s) + 1) /\ t[i + 1] = s[i]
  BY <1>1
<1> HIDE DEF t
<1>3. Elements(t) = Elements(s) \cup {e}
  <2>1. \A i \in DOMAIN t : i = 1 \/ i \in 2..(Len(s) + 1)
    BY <1>1
  <2>2. 1 \in DOMAIN t
    BY <1>1
  <2>3. ASSUME NEW x \in Elements(t) PROVE x \in Elements(s) \cup {e}
    <3>1. PICK i \in DOMAIN t : x = t[i]
      BY <2>3 DEF Elements
    <3> QED BY <1>1, <2>1, <3>1 DEF Elements
  <2>4. ASSUME NEW x \in Elements(s) PROVE x \in Elements(t)
    BY <1>2, <2>4 DEF Elements
  <2>5. e \in Elements(t)
    BY <1>1, <2>2 DEF Elements
  <2> QED BY <2>3, <2>4, <2>5
<1>4. ASSUME Distinct(s), e \notin Elements(s) PROVE Distinct(t)
  <2> SUFFICES ASSUME NEW i \in DOMAIN t, NEW j \in DOMAIN t, i < j PROVE t[i] # t[j]
    BY <1>1 DEF Distinct
  <2>1. j \in 2..(Len(s) + 1)
    BY <1>1
  <2>2. CASE i = 1
    BY <1>1, <1>4, <2>1, <2>2 DEF Elements
  <2>3. CASE i \in 2..(Len(s) + 1)
    <3>1. i - 1 # j - 1
      BY <2>1, <2>3
    <3> QED BY <1>1, <1>4, <2>1, <2>3, <3>1 DEF Distinct
  <2> QED BY <1>1, <2>2, <2>3
<1> QED BY <1>1, <1>3, <1>4 DEF t

(* Keeping the first k of a list splits who was on it.                     *)
LEMMA SplitElements ==
    ASSUME NEW S, NEW s \in Seq(S), NEW k \in 0..Len(s), Distinct(s)
    PROVE  LET kept == SubSeq(s, 1, k)
               rest == {s[i] : i \in (k + 1)..Len(s)}
           IN  /\ kept \in Seq(S)
               /\ DOMAIN kept = 1..k
               /\ \A i \in 1..k : kept[i] = s[i]
               /\ Distinct(kept)
               /\ Elements(kept) \cup rest = Elements(s)
               /\ Elements(kept) \cap rest = {}
<1> DEFINE kept == SubSeq(s, 1, k)
           rest == {s[i] : i \in (k + 1)..Len(s)}
<1>1. /\ Len(s) \in Nat /\ DOMAIN s = 1..Len(s)
      /\ kept \in Seq(S) /\ DOMAIN kept = 1..k
      /\ \A i \in 1..k : kept[i] = s[i]
      /\ \A i \in DOMAIN s : i \in 1..k \/ i \in (k + 1)..Len(s)
      /\ \A i \in 1..k : i \in DOMAIN s /\ i \notin (k + 1)..Len(s)
      /\ \A i \in (k + 1)..Len(s) : i \in DOMAIN s
  BY SubSeqProperties
<1> HIDE DEF kept
<1>2. Distinct(kept)
  BY <1>1 DEF Distinct
<1>3. Elements(kept) \cup rest = Elements(s)
  BY <1>1 DEF Elements
<1>4. Elements(kept) \cap rest = {}
  BY <1>1 DEF Elements, Distinct
<1> QED BY <1>1, <1>2, <1>3, <1>4 DEF kept
-----------------------------------------------------------------------------
(* Types, of every definition's state: the ids on the channels and on the  *)
(* idle list are addresses, and no inbox goes below zero.                  *)
THEOREM TypeCorrect == WQSpec => []TypeOK
<1>1. WQInit => TypeOK
  <2>1. <<>> \in Seq(Ids)
    BY EmptySeq
  <2> SUFFICES ASSUME WQInit PROVE TypeOK
    OBVIOUS
  <2>2. idle \in Seq(Ids) /\ acks \in Seq(Ids) /\ errs \in Seq(Ids)
    BY <2>1 DEF WQInit
  <2>3. /\ last \in [Ids -> Nat] /\ inbox \in [Ids -> Nat]
        /\ thread \in [Ids -> {"none", "waiting", "working", "panicked", "exited"}]
    BY DEF WQInit
  <2>4. clock \in Nat /\ booksAt \in Nat /\ panicking \in BOOLEAN
    BY DEF WQInit
  <2> QED BY <2>2, <2>3, <2>4 DEF WQInit, TypeOK
<1>2. TypeOK /\ [WQNext]_vars => TypeOK'
  <2> SUFFICES ASSUME TypeOK, [WQNext]_vars PROVE TypeOK'
    OBVIOUS
  <2> USE DEF TypeOK
  <2>1. ASSUME NEW c \in {"queue", "keep_books"}, Call(c) PROVE TypeOK'
    BY <2>1 DEF Call, books
  <2>2. CASE Drop
    BY <2>2 DEF Drop
  <2>3. CASE TakeAck
    <3>1. Head(acks) \in Ids /\ Tail(acks) \in Seq(Ids)
      BY <2>3, TailElements DEF TakeAck
    <3>2. <<Head(acks)>> \o idle \in Seq(Ids)
      BY <3>1, PushElements
    <3> QED BY <2>3, <3>1, <3>2 DEF TakeAck
  <2>4. CASE AcksTaken \/ ErrsTaken
    BY <2>4 DEF AcksTaken, ErrsTaken, books
  <2>5. CASE TakeErr
    BY <2>5, TailElements DEF TakeErr
  <2>6. CASE Reap
    <3>1. PICK k \in 0..Len(idle) :
            /\ joining' = {idle[i] : i \in (k + 1)..Len(idle)}
            /\ idle' = SubSeq(idle, 1, k)
      BY <2>6 DEF Reap
    <3>2. idle' \in Seq(Ids) /\ joining' \subseteq Ids
      BY SMTT(20), <3>1, SubSeqProperties
    <3> QED BY <2>6, <3>2 DEF Reap
  <2>7. ASSUME NEW id \in Ids, Join(id) PROVE TypeOK'
    BY <2>7 DEF Join, books
  <2>8. CASE ReapJoined \/ Dropped
    BY <2>8 DEF ReapJoined, Dropped, books
  <2>9. CASE UseIdle
    <3>1. Head(idle) \in Ids /\ Tail(idle) \in Seq(Ids)
      BY <2>9, TailElements DEF UseIdle
    <3> QED BY <2>9, <3>1 DEF UseIdle
  <2>10. ASSUME NEW id \in Ids, Spawn(id) PROVE TypeOK'
    BY <2>10 DEF Spawn
  <2>11. ASSUME NEW id \in Ids, DropPanics(id) PROVE TypeOK'
    BY <2>11 DEF DropPanics, books
  <2>12. ASSUME NEW id \in Ids, Receive(id) PROVE TypeOK'
    BY <2>12 DEF Receive, owner, books
  <2>13. ASSUME NEW id \in Ids, Ack(id) \/ Panic(id) PROVE TypeOK'
    <3>1. Append(acks, id) \in Seq(Ids) /\ Append(errs, id) \in Seq(Ids)
      BY AppendElements
    <3> QED BY <2>13, <3>1 DEF Ack, Panic, owner, books
  <2>14. ASSUME NEW id \in Ids, Exit(id) PROVE TypeOK'
    BY <2>14 DEF Exit, owner, books
  <2>15. CASE Tick
    BY <2>15 DEF Tick, owner, books
  <2>16. CASE UNCHANGED vars
    BY <2>16 DEF vars, owner, books
  <2> QED BY <2>1, <2>2, <2>3, <2>4, <2>5, <2>6, <2>7, <2>8, <2>9, <2>10, <2>11,
             <2>12, <2>13, <2>14, <2>15, <2>16 DEF WQNext, InCall, Thread
<1> QED BY <1>1, <1>2, PTL DEF WQSpec
-----------------------------------------------------------------------------
(* The books: a worker's ack or panic is on its way exactly when it is not *)
(* busy and not idle, so that every lookup finds a worker and none twice.  *)
PoolGood == PoolInv /\ OwnedInv

LEMMA BookedAtFirst == WQInit => PoolGood
BY DEF WQInit, PoolGood, PoolInv, OwnedInv, Known, Owned, Busy, Elements, Distinct

LEMMA OwnerKeepsBooks ==
    ASSUME TypeOK, PoolGood, InCall \/ Drop \/ \E c \in {"queue", "keep_books"} : Call(c)
    PROVE  PoolGood'
<1> USE DEF TypeOK, PoolGood, PoolInv, OwnedInv, Known, Owned, Busy
<1>1. ASSUME NEW c \in {"queue", "keep_books"}, Call(c) PROVE PoolGood'
  BY <1>1 DEF Call, books
<1>2. CASE Drop
  <2>1. Elements(idle') = {} /\ Distinct(idle')
    BY <1>2 DEF Drop, Elements, Distinct
  <2> QED BY <1>2, <2>1 DEF Drop
<1>3. CASE TakeAck
  <2>1. /\ Head(acks) \in Elements(acks)
        /\ Elements(acks') = Elements(acks) \ {Head(acks)}
        /\ Distinct(acks')
    BY <1>3, TailElements DEF TakeAck
  <2>2. Elements(idle') = Elements(idle) \cup {Head(acks)} /\ Distinct(idle')
    <3>1. Head(acks) \in Ids /\ Head(acks) \notin Elements(idle)
      BY <1>3, <2>1, TailElements DEF TakeAck
    <3> QED BY <1>3, <3>1, PushElements DEF TakeAck
  <2>3. Known' = Known /\ Elements(errs') = Elements(errs)
    <3>1. errs' = errs
      BY <1>3 DEF TakeAck
    <3>2. Elements(errs') = Elements(errs)
      BY <3>1 DEF Elements
    <3> QED BY <2>1, <2>2, <3>2
  <2>4. PoolInv'
    BY <1>3, <2>1, <2>2, <2>3 DEF TakeAck
  <2>5. OwnedInv'
    BY <1>3, <2>3 DEF TakeAck
  <2> QED BY <2>4, <2>5
<1>4. CASE AcksTaken \/ ErrsTaken
  BY <1>4 DEF AcksTaken, ErrsTaken, books
<1>5. CASE TakeErr
  <2>1. /\ Head(errs) \in Elements(errs) /\ Head(errs) \in Ids
        /\ Elements(errs') = Elements(errs) \ {Head(errs)}
        /\ Distinct(errs')
    BY <1>5, TailElements DEF TakeErr
  <2> QED BY <1>5, <2>1 DEF TakeErr
<1>6. CASE Reap
  <2>1. PICK k \in 0..Len(idle) :
            /\ joining' = {idle[i] : i \in (k + 1)..Len(idle)}
            /\ idle' = SubSeq(idle, 1, k)
    BY <1>6 DEF Reap
  <2>2. /\ Distinct(idle')
        /\ Elements(idle') \cup joining' = Elements(idle)
        /\ Elements(idle') \cap joining' = {}
    BY <2>1, SplitElements
  <2>3. /\ Known' = Known \ joining'
        /\ joining' \subseteq workers /\ joining' \cap Elements(errs) = {}
        /\ errs' = errs
    BY <1>6, <2>2 DEF Reap
  <2>4. \A id \in joining' : thread[id] = "waiting" /\ inbox[id] = 0
    BY <1>6, <2>2, <2>3 DEF Reap
  <2>5. PoolInv'
    BY <1>6, <2>2, <2>3 DEF Reap
  <2>6. OwnedInv'
    <3>1. pc' = "join" /\ joining = {} /\ workers' = workers \ joining'
      BY <1>6 DEF Reap
    <3>2. thread' = thread /\ inbox' = inbox
      BY <1>6 DEF Reap
    <3>3. \A id \in workers : /\ thread[id] \in {"waiting", "working", "panicked"}
                              /\ thread[id] = "panicked" <=> id \in Elements(errs)
                              /\ ~Busy(id) => id \in Known
      BY <1>6 DEF Reap
    <3>4. \A id \in Ids \ workers : inbox[id] = 0 /\ thread[id] = "none"
      BY <1>6, <3>1 DEF Reap
    <3>5. Known \subseteq workers
      BY <1>6 DEF Reap
    <3> QED BY <2>3, <2>4, <3>1, <3>2, <3>3, <3>4, <3>5
  <2> QED BY <2>5, <2>6
<1>7. ASSUME NEW id \in Ids, Join(id) PROVE PoolGood'
  BY <1>7 DEF Join, books
<1>8. CASE ReapJoined \/ Dropped
  BY <1>8 DEF ReapJoined, Dropped, books
<1>9. CASE UseIdle
  <2>1. /\ Head(idle) \in Elements(idle) /\ Head(idle) \in Ids
        /\ Elements(idle') = Elements(idle) \ {Head(idle)}
        /\ Distinct(idle')
    BY <1>9, TailElements DEF UseIdle
  <2> QED BY <1>9, <2>1 DEF UseIdle
<1>10. ASSUME NEW id \in Ids, Spawn(id) PROVE PoolGood'
  <2>1. id \notin workers
    BY <1>10 DEF Spawn, Free
  <2> QED BY <1>10, <2>1 DEF Spawn
<1>11. ASSUME NEW id \in Ids, DropPanics(id) PROVE PoolGood'
  BY <1>11 DEF DropPanics, books
<1> QED BY <1>1, <1>2, <1>3, <1>4, <1>5, <1>6, <1>7, <1>8, <1>9, <1>10, <1>11 DEF InCall

LEMMA ThreadsKeepBooks ==
    ASSUME TypeOK, PoolGood, NEW id \in Ids, Thread(id)
    PROVE  PoolGood'
<1> USE DEF TypeOK, PoolGood, PoolInv, OwnedInv, Known, Owned, Busy
<1>1. CASE Receive(id)
  BY <1>1 DEF Receive, owner, books
<1>2. CASE Ack(id)
  <2>1. Elements(acks') = Elements(acks) \cup {id} /\ Distinct(acks')
    BY <1>2, AppendElements DEF Ack
  <2> QED BY SMTT(20), <1>2, <2>1 DEF Ack, owner, books
<1>3. CASE Panic(id)
  <2>1. Elements(errs') = Elements(errs) \cup {id} /\ Distinct(errs')
    BY <1>3, AppendElements DEF Panic
  <2>2. Known' = Known \cup {id} /\ id \notin Known
    BY <1>3, <2>1 DEF Panic, owner, books
  <2>3. PoolInv'
    BY <1>3, <2>1, <2>2 DEF Panic, owner, books
  <2>4. OwnedInv'
    <3>1. CASE Owned
      <4>1. Owned' /\ UNCHANGED <<pc, workers, joining, inbox>>
        BY <1>3, <3>1 DEF Panic, owner, books
      <4>2. thread' = [thread EXCEPT ![id] = "panicked"]
        BY <1>3 DEF Panic
      <4>3. id \in workers /\ thread[id] = "working" /\ id \notin Elements(errs)
        BY <1>3, <2>2, <3>1 DEF Panic
      <4>4. \A w \in workers :
                /\ thread'[w] \in {"waiting", "working", "panicked"}
                /\ thread'[w] = "panicked" <=> w \in Elements(errs')
                /\ ~Busy(w)' => w \in Known'
        BY <2>1, <2>2, <3>1, <4>1, <4>2, <4>3
      <4> QED BY <2>2, <3>1, <4>1, <4>2, <4>3, <4>4
    <3>2. CASE ~Owned
      BY <1>3, <3>2 DEF Panic, owner, books
    <3> QED BY <3>1, <3>2
  <2> QED BY <2>3, <2>4
<1>4. CASE Exit(id)
  BY <1>4 DEF Exit, owner, books
<1> QED BY <1>1, <1>2, <1>3, <1>4 DEF Thread

THEOREM BooksKept == WQSpec => []PoolGood
<1>1. TypeOK /\ PoolGood /\ [WQNext]_vars => PoolGood'
  <2> SUFFICES ASSUME TypeOK, PoolGood, [WQNext]_vars PROVE PoolGood'
    OBVIOUS
  <2>1. CASE Tick \/ UNCHANGED vars
    BY <2>1 DEF Tick, vars, owner, books, PoolGood, PoolInv, OwnedInv, Known, Owned, Busy
  <2> QED BY <2>1, OwnerKeepsBooks, ThreadsKeepBooks DEF WQNext
<1> QED BY BookedAtFirst, TypeCorrect, <1>1, PTL DEF WQSpec

(* Every worker of the map is busy or known to be done, never both.        *)
THEOREM AllAccounted == WQSpec => []Accounted
<1>1. PoolGood /\ TypeOK => Accounted
  BY DEF PoolGood, PoolInv, OwnedInv, Accounted, TypeOK
<1> QED BY BooksKept, TypeCorrect, <1>1, PTL

(* queue() never puts work behind other work.                              *)
THEOREM WorkStartsAtOnce == WQSpec => []NeverQueuedBehind
<1>1. PoolGood => NeverQueuedBehind
  BY DEF PoolGood, PoolInv, NeverQueuedBehind
<1> QED BY BooksKept, <1>1, PTL
-----------------------------------------------------------------------------
(* The idle list is in the order of last activity, so that what keep_books *)
(* finds from its back are all that have timed out.                        *)
LEMMA AckKeepsOrder ==
    ASSUME TypeOK, PoolGood, OrderInv, TakeAck
    PROVE  OrderInv'
<1> USE DEF TypeOK, OrderInv
<1>1. Head(acks) \in Ids /\ Head(acks) \notin Elements(idle)
  BY TailElements DEF TakeAck, PoolGood, PoolInv
<1>2. /\ idle' = <<Head(acks)>> \o idle
      /\ last' = [last EXCEPT ![Head(acks)] = booksAt]
      /\ booksAt' = booksAt /\ clock' = clock /\ pc' = "acks"
  BY DEF TakeAck
<1>3. /\ DOMAIN idle' = 1..(Len(idle) + 1) /\ DOMAIN idle = 1..Len(idle)
      /\ Len(idle) \in Nat
      /\ idle'[1] = Head(acks)
      /\ \A i \in 2..(Len(idle) + 1) : i - 1 \in DOMAIN idle /\ idle'[i] = idle[i - 1]
  BY <1>1, <1>2, PushElements
<1>4. last'[idle'[1]] = booksAt
  BY <1>1, <1>2, <1>3
<1>5. \A i \in 2..(Len(idle) + 1) : last'[idle'[i]] = last[idle[i - 1]]
  <2> SUFFICES ASSUME NEW i \in 2..(Len(idle) + 1) PROVE last'[idle'[i]] = last[idle[i - 1]]
    OBVIOUS
  <2>1. idle[i - 1] # Head(acks)
    BY <1>1, <1>3 DEF Elements
  <2>2. idle[i - 1] \in Ids
    BY <1>3
  <2> QED BY <1>2, <1>3, <2>1, <2>2
<1>6. \A i \in DOMAIN idle' : i = 1 \/ i \in 2..(Len(idle) + 1)
  BY <1>3
<1>7. \A i \in DOMAIN idle' : last'[idle'[i]] <= booksAt
  <2> SUFFICES ASSUME NEW i \in DOMAIN idle' PROVE last'[idle'[i]] <= booksAt
    OBVIOUS
  <2>1. CASE i = 1
    BY <1>4, <2>1
  <2>2. CASE i \in 2..(Len(idle) + 1)
    BY <1>3, <1>5, <2>2
  <2> QED BY <1>6, <2>1, <2>2
<1>8. ASSUME NEW i \in DOMAIN idle', NEW j \in DOMAIN idle', i < j
      PROVE  last'[idle'[i]] >= last'[idle'[j]]
  <2>1. j \in 2..(Len(idle) + 1)
    BY <1>3, <1>8
  <2>2. CASE i = 1
    BY <1>3, <1>4, <1>5, <2>1, <2>2
  <2>3. CASE i \in 2..(Len(idle) + 1)
    <3>1. i - 1 \in DOMAIN idle /\ j - 1 \in DOMAIN idle
      BY <1>3, <2>1, <2>3
    <3>2. i - 1 < j - 1
      BY <1>8, <2>1, <2>3
    <3>3. last[idle[i - 1]] >= last[idle[j - 1]]
      BY <3>1, <3>2
    <3> QED BY <1>5, <2>1, <2>3, <3>3
  <2> QED BY <1>6, <2>2, <2>3
<1> QED BY <1>2, <1>7, <1>8

LEMMA ReapKeepsOrder ==
    ASSUME TypeOK, PoolGood, OrderInv, Reap
    PROVE  OrderInv'
<1> USE DEF TypeOK, OrderInv
<1>1. PICK k \in 0..Len(idle) : Kept(k) /\ idle' = SubSeq(idle, 1, k)
  BY DEF Reap
<1>2. /\ DOMAIN idle' = 1..k
      /\ \A i \in 1..k : idle'[i] = idle[i]
  BY <1>1, SplitElements DEF PoolGood, PoolInv
<1>3. /\ DOMAIN idle = 1..Len(idle) /\ Len(idle) \in Nat
      /\ \A i \in 1..k : i \in DOMAIN idle /\ idle[i] \in Ids
  OBVIOUS
<1>4. last' = last /\ booksAt' = booksAt /\ clock' = clock
  BY DEF Reap
<1>5. ASSUME NEW i \in 1..k PROVE ~TimedOut(idle[i])
  <2>1. k \in 1..k /\ k \in DOMAIN idle /\ i \in DOMAIN idle /\ (i < k \/ i = k)
    BY <1>3, <1>5
  <2>2. last[idle[i]] \in Nat
    BY <1>3, <1>5
  <2>3. last[idle[i]] >= last[idle[k]]
    <3>1. CASE i < k
      BY <2>1, <3>1
    <3>2. CASE i = k
      BY <2>2, <3>2
    <3> QED BY <2>1, <3>1, <3>2
  <2>4. ~(booksAt - last[idle[k]] >= Timeout)
    BY <1>1, <2>1 DEF Kept, TimedOut
  <2>5. last[idle[k]] \in Nat /\ booksAt \in Nat /\ Timeout \in Nat
    BY <1>3, <2>1, TimeAssumption
  <2> HIDE DEF TypeOK, OrderInv
  <2>6. ~(booksAt - last[idle[i]] >= Timeout)
    BY <2>2, <2>3, <2>4, <2>5
  <2> QED BY <2>6 DEF TimedOut
<1>6. \A i \in DOMAIN idle' : ~TimedOut(idle[i])'
  BY <1>2, <1>4, <1>5 DEF TimedOut
<1>7. \A i, j \in DOMAIN idle' : i < j => last'[idle'[i]] >= last'[idle'[j]]
  BY <1>2, <1>3, <1>4
<1>8. \A i \in DOMAIN idle' : last'[idle'[i]] <= booksAt'
  BY <1>2, <1>3, <1>4
<1>9. \A i \in DOMAIN idle' : ~TimedOut(idle[i])'
  BY <1>6
<1> QED BY <1>2, <1>4, <1>5, <1>7, <1>8 DEF TimedOut

LEMMA UseKeepsOrder ==
    ASSUME TypeOK, OrderInv, UseIdle
    PROVE  OrderInv'
<1>1. /\ Len(idle) \in Nat /\ DOMAIN idle = 1..Len(idle)
      /\ DOMAIN idle' = 1..(Len(idle) - 1)
      /\ \A i \in 1..(Len(idle) - 1) : idle'[i] = idle[i + 1]
  BY DEF TypeOK, UseIdle
<1>2. last' = last /\ booksAt' = booksAt /\ clock' = clock /\ pc' = "user"
  BY DEF UseIdle
<1>3. \A i \in DOMAIN idle' : i + 1 \in DOMAIN idle /\ idle'[i] = idle[i + 1]
  BY <1>1
<1>4. \A i, j \in DOMAIN idle' : i < j => i + 1 < j + 1
  BY <1>1
<1>5. \A i, j \in DOMAIN idle' : i < j => last[idle'[i]] >= last[idle'[j]]
  BY <1>3, <1>4 DEF OrderInv
<1>6. \A i \in DOMAIN idle' : last[idle'[i]] <= booksAt
  BY <1>3 DEF OrderInv
<1> QED BY <1>2, <1>5, <1>6 DEF OrderInv

(* keep_books() lets go of every worker that has been idle for too long.   *)
THEOREM IdleLetGo == WQSpec => []IdleReaped
<1>1. WQInit => OrderInv
  BY DEF WQInit, OrderInv
<1>2. TypeOK /\ PoolGood /\ OrderInv /\ [WQNext]_vars => OrderInv'
  <2> SUFFICES ASSUME TypeOK, PoolGood, OrderInv, [WQNext]_vars PROVE OrderInv'
    OBVIOUS
  <2> USE DEF TypeOK, OrderInv, TimedOut
  <2>1. ASSUME NEW c \in {"queue", "keep_books"}, Call(c) PROVE OrderInv'
    <3>1. \A i \in DOMAIN idle : last[idle[i]] <= clock
      OBVIOUS
    <3> QED BY <2>1, <3>1 DEF Call, books
  <2>2. CASE Drop
    BY <2>2 DEF Drop
  <2>3. CASE TakeAck
    BY <2>3, AckKeepsOrder
  <2>4. CASE AcksTaken \/ TakeErr \/ ErrsTaken \/ Dropped
    BY <2>4 DEF AcksTaken, TakeErr, ErrsTaken, Dropped, books
  <2>5. CASE Reap
    BY <2>5, ReapKeepsOrder
  <2>6. CASE ReapJoined \/ \E id \in Ids : Join(id) \/ DropPanics(id)
    BY SMTT(20), <2>6 DEF ReapJoined, Join, DropPanics, books
  <2>7. CASE UseIdle
    BY <2>7, UseKeepsOrder
  <2>8. ASSUME NEW id \in Ids, Spawn(id) PROVE OrderInv'
    BY <2>8 DEF Spawn
  <2>9. ASSUME NEW id \in Ids, Thread(id) PROVE OrderInv'
    BY <2>9 DEF Thread, Receive, Ack, Panic, Exit, owner, books
  <2>10. CASE Tick \/ UNCHANGED vars
    BY <2>10 DEF Tick, vars, owner, books
  <2> QED BY <2>1, <2>2, <2>3, <2>4, <2>5, <2>6, <2>7, <2>8, <2>9, <2>10
          DEF WQNext, InCall
<1>3. OrderInv => IdleReaped
  BY DEF OrderInv, IdleReaped
<1> QED BY BooksKept, TypeCorrect, <1>1, <1>2, <1>3, PTL DEF WQSpec
=============================================================================
