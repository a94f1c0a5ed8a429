--------------------------- MODULE GroupCommitRuns ---------------------------
(***************************************************************************)
(* The order in which the writer runs what is queued, what its runs leave  *)
(* in the store, and what the callers are told of it, proved for every set *)
(* of calls, keys, capacity, group size and number of faults and crashes.  *)
(***************************************************************************)
EXTENDS GroupCommitProofs

Entries == [ticket : Tickets, number : Nat]

(* Where the writer's holder stands.                                       *)
Stage == IF holder = Nobody THEN "free" ELSE pc[holder]

(* What the requests run so far have left: the group's transaction while   *)
(* it runs, the durable store otherwise.                                   *)
World == IF Stage \in {"run", "commit"} THEN tx ELSE db

(* The calls queued; with them those of the group that are still to run;   *)
(* and with them those that run again should the group be rolled back.     *)
InQueue == {u \in Tickets : \E j \in 1..Len(waiting) : waiting[j] = u}

ToRun ==
  InQueue \cup
  {u \in Tickets :
     /\ Stage \in {"begin", "run", "commit"} \/ (Stage = "alone" /\ MayBegin)
     /\ \E i \in 1..Len(group) : i >= at /\ group[i] = u}

MayRunAgain ==
  ToRun \cup
  {u \in Tickets :
     /\ Stage \in {"begin", "run", "commit"}
     /\ \E i \in 1..Len(group) : group[i] = u}

-----------------------------------------------------------------------------
(* The order of arrival: a call in the sequence a, and one before another. *)
Has(a, t) == \E i \in 1..Len(a) : a[i] = t
Precedes(a, t, u) == \E i, j \in 1..Len(a) : i < j /\ a[i] = t /\ a[j] = u

InOrder(a, q) ==
  /\ \A i \in 1..Len(q) : Has(a, q[i])
  /\ \A i, j \in 1..Len(q) : i < j => Precedes(a, q[i], q[j])

(* A log is in the order of arrival, and before all that is yet to run.    *)
LogOrdered(a, log, pending) ==
  /\ \A i \in 1..Len(log) : Has(a, log[i].ticket)
  /\ \A i, j \in 1..Len(log) : i < j => Precedes(a, log[i].ticket, log[j].ticket)
  /\ \A i \in 1..Len(log), u \in pending : Precedes(a, log[i].ticket, u)

ArrivedOK ==
  /\ \A i, j \in 1..Len(arrived) : arrived[i] = arrived[j] => i = j
  /\ \A t \in Tickets : pc[t] = "idle" <=> ~Has(arrived, t)

LineOK ==
  /\ InOrder(arrived, waiting) /\ InOrder(arrived, group)
  /\ \A i \in 1..Len(group), j \in 1..Len(waiting) :
       Precedes(arrived, group[i], waiting[j])
  /\ group # <<>> => Stage \in OnGroup \cup {"release"}

LogOK ==
  /\ LogOrdered(arrived, db.log, MayRunAgain)
  /\ LogOrdered(arrived, World.log, ToRun)

OrderInv == ArrivedOK /\ LineOK /\ LogOK

LEMMA PrecedesGrows ==
  ASSUME NEW a \in Seq(Tickets), NEW t \in Tickets
  PROVE  /\ \A x : Has(a, x) => Has(Append(a, t), x)
         /\ Has(Append(a, t), t)
         /\ \A x : Has(Append(a, t), x) => x = t \/ Has(a, x)
         /\ \A x, y : Precedes(a, x, y) => Precedes(Append(a, t), x, y)
         /\ \A x : Has(a, x) => Precedes(Append(a, t), x, t)
<1> DEFINE b == Append(a, t)
<1>1. /\ Len(a) \in Nat /\ Len(b) = Len(a) + 1 /\ b[Len(a) + 1] = t
      /\ \A i \in 1..Len(a) : b[i] = a[i]
  OBVIOUS
<1>2. \A i \in 1..Len(a) : i \in 1..Len(b) /\ i < Len(b)
  BY <1>1
<1>3. Len(b) \in 1..Len(b)
  BY <1>1
<1>4. \A i \in 1..Len(b) : i = Len(b) \/ i \in 1..Len(a)
  BY <1>1
<1> HIDE DEF b
<1>5. QED
  <2>1. \A x : Has(a, x) => Has(b, x)
    BY <1>1, <1>2 DEF Has
  <2>2. Has(b, t)
    BY <1>1, <1>3 DEF Has
  <2>3. \A x : Has(b, x) => x = t \/ Has(a, x)
    BY <1>1, <1>4 DEF Has
  <2>4. \A x, y : Precedes(a, x, y) => Precedes(b, x, y)
    BY <1>1, <1>2 DEF Precedes
  <2>5. \A x : Has(a, x) => Precedes(b, x, t)
    BY <1>1, <1>2, <1>3 DEF Precedes, Has
  <2>6. QED
    BY <2>1, <2>2, <2>3, <2>4, <2>5 DEF b

(* The store after a run: its log as it was, or with the call's entry.     *)
Grown(log, new, t) ==
  \/ new = log
  \/ \E e \in Entries : e.ticket = t /\ new = Append(log, e)

LEMMA LogGrows ==
  ASSUME NEW a, NEW log \in Seq(Entries), NEW new, NEW t \in Tickets,
         NEW P, NEW Q, Grown(log, new, t),
         LogOrdered(a, log, P), t \in P, Has(a, t),
         \A u \in Q : u \in P /\ Precedes(a, t, u)
  PROVE  LogOrdered(a, new, Q)
<1>1. CASE new = log
  BY <1>1 DEF LogOrdered
<1>2. ASSUME NEW e \in Entries, e.ticket = t, new = Append(log, e)
      PROVE  LogOrdered(a, new, Q)
  <2>1. /\ Len(log) \in Nat /\ Len(new) = Len(log) + 1 /\ new[Len(log) + 1] = e
        /\ \A i \in 1..Len(log) : new[i] = log[i]
    BY <1>2
  <2>2. \A i \in 1..Len(new) : i = Len(log) + 1 \/ i \in 1..Len(log)
    BY <2>1
  <2>3. \A i, j \in 1..Len(new) : i < j => i \in 1..Len(log)
    BY <2>1
  <2>4. \A i \in 1..Len(new) : Has(a, new[i].ticket)
    BY <2>1, <2>2, <1>2 DEF LogOrdered
  <2>5. \A i, j \in 1..Len(new) :
          i < j => Precedes(a, new[i].ticket, new[j].ticket)
    BY <2>1, <2>2, <2>3, <1>2 DEF LogOrdered
  <2>6. \A i \in 1..Len(new), u \in Q : Precedes(a, new[i].ticket, u)
    BY <2>1, <2>2, <1>2 DEF LogOrdered
  <2>7. QED
    BY <2>4, <2>5, <2>6 DEF LogOrdered
<1>3. QED
  BY <1>1, <1>2 DEF Grown

LEMMA DecidedGrows ==
  ASSUME NEW d, GoodStore(d), NEW t \in Tickets
  PROVE  /\ d.log \in Seq(Entries)
         /\ Grown(d.log, Decided(d, t).db.log, t)
         /\ Logged(d, t).log = d.log
         /\ \A left \in LeftByError(d, t) : Grown(d.log, left.log, t)
<1>1. d.log \in Seq(Entries) /\ d.next \in Nat
  BY DEF GoodStore, Store, Entries
<1>2. Drawn(d).log = d.log /\ Logged(d, t).log = d.log
      /\ Logged(Drawn(d), t).log = d.log
  BY DEF Drawn, Logged, GoodStore, Store
<1>3. Applied(d, t).log = Append(d.log, [ticket |-> t, number |-> d.next])
  BY DEF Applied, GoodStore, Store
<1>4. Grown(d.log, Applied(d, t).log, t)
  BY <1>1, <1>3 DEF Grown, Entries
<1>5. Decided(d, t).db \in {d, Logged(d, t), Applied(d, t), Logged(Drawn(d), t)}
  BY DEF Decided
<1>6. Grown(d.log, Decided(d, t).db.log, t)
  BY <1>2, <1>4, <1>5 DEF Grown
<1>7. QED
  BY <1>1, <1>2, <1>6 DEF LeftByError, Grown

-----------------------------------------------------------------------------
(* Where the holder stands before and after a step of a thread.            *)

LEMMA StageTyped ==
  ASSUME WriterInv
  PROVE  /\ Stage \in Leading \cup {"free"}
         /\ Stage = "free" <=> holder = Nobody
         /\ \A t \in Tickets : pc[t] \in Leading => holder = t /\ Stage = pc[t]
         /\ Stage \in {"run", "commit"} => tx # NoTx
  BY GroupCommitAssumption
     DEF WriterInv, TypeOK, ThreadsOK, StoresOK, Stage, Leading

LEMMA StageStays ==
  ASSUME WriterInv, NEW t \in Tickets, NEW place, Goto(t, place),
         holder' = holder, pc[t] \notin Leading
  PROVE  Stage' = Stage
  BY DEF WriterInv, TypeOK, ThreadsOK, Stage, Goto

LEMMA StageMoves ==
  ASSUME WriterInv, NEW t \in Tickets, NEW place, Goto(t, place), holder' = t
  PROVE  Stage' = place
  BY GroupCommitAssumption DEF WriterInv, TypeOK, ThreadsOK, Stage, Goto

LEMMA StageFreed ==
  ASSUME holder' = Nobody
  PROVE  Stage' = "free"
  BY DEF Stage

(* A thread past its queueing stays past it.                               *)
LEMMA ArrivedKept ==
  ASSUME WriterInv, OrderInv, NEW t \in Tickets, NEW place, Goto(t, place),
         pc[t] # "idle", place # "idle", arrived' = arrived
  PROVE  ArrivedOK'
<1>1. \A u \in Tickets : pc'[u] = "idle" <=> pc[u] = "idle"
  BY DEF Goto, WriterInv, TypeOK, ThreadsOK
<1>2. QED
  BY <1>1 DEF OrderInv, ArrivedOK

(* A log that stays, with no more before it than was, stays in order.      *)
LEMMA LogKept ==
  ASSUME OrderInv, arrived' = arrived,
         \/ db'.log = db.log /\ MayRunAgain' \subseteq MayRunAgain
         \/ db'.log = World.log /\ MayRunAgain' \subseteq ToRun,
         \/ World'.log = db.log /\ ToRun' \subseteq MayRunAgain
         \/ World'.log = World.log /\ ToRun' \subseteq ToRun
  PROVE  LogOK'
<1>1. \A log, P, Q : LogOrdered(arrived, log, P) /\ Q \subseteq P =>
        LogOrdered(arrived, log, Q)
  BY DEF LogOrdered
<1>2. LogOrdered(arrived, db.log, MayRunAgain)
      /\ LogOrdered(arrived, World.log, ToRun)
  BY DEF OrderInv, LogOK
<1>3. LogOrdered(arrived', db'.log, MayRunAgain')
  BY <1>1, <1>2
<1>4. LogOrdered(arrived', World'.log, ToRun')
  BY <1>1, <1>2
<1>5. QED
  BY <1>3, <1>4 DEF LogOK

(* A step after which nothing runs that could not have run before it.      *)
NoMore == InQueue' \subseteq InQueue /\ MayRunAgain' \subseteq MayRunAgain

LEMMA SameLine ==
  ASSUME LineOK, UNCHANGED <<arrived, waiting, group>>,
         group # <<>> => Stage' \in OnGroup \cup {"release"}
  PROVE  LineOK'
  BY DEF LineOK, InOrder

-----------------------------------------------------------------------------
(* One step lemma for each part of queued.                                 *)

LEMMA QueueOrdered ==
  ASSUME WriterInv, OrderInv, NEW t \in Tickets, Queue(t)
  PROVE  OrderInv'
<1>1. /\ pc[t] = "idle" /\ Goto(t, "locking") /\ holder' = holder
      /\ waiting' = Append(waiting, t) /\ arrived' = Append(arrived, t)
      /\ UNCHANGED <<group, at, answers, db, tx, conn>>
  BY DEF Queue, Pushed, groupVars, storeVars
<1>2. Stage' = Stage
  BY <1>1, StageStays DEF Leading
<1>3. arrived \in Seq(Tickets) /\ waiting \in Seq(Tickets) /\ ~Has(arrived, t)
  BY <1>1 DEF WriterInv, TypeOK, QueueOK, OrderInv, ArrivedOK
<1>4. ArrivedOK'
  <2>1. \A i, j \in 1..Len(arrived') : arrived'[i] = arrived'[j] => i = j
    BY <1>1, <1>3 DEF OrderInv, ArrivedOK, Has
  <2>2. \A u \in Tickets : pc'[u] = IF u = t THEN "locking" ELSE pc[u]
    BY <1>1 DEF Goto, WriterInv, TypeOK, ThreadsOK
  <2>3. \A u \in Tickets : pc'[u] = "idle" <=> ~Has(arrived', u)
    BY <1>1, <1>3, <2>2, PrecedesGrows DEF OrderInv, ArrivedOK
  <2>4. QED
    BY <2>1, <2>3 DEF ArrivedOK
<1>5. /\ Len(waiting) \in Nat /\ Len(waiting') = Len(waiting) + 1
      /\ waiting'[Len(waiting) + 1] = t
      /\ \A i \in 1..Len(waiting) : waiting'[i] = waiting[i]
      /\ \A i \in 1..Len(waiting') : i = Len(waiting) + 1 \/ i \in 1..Len(waiting)
      /\ \A i, j \in 1..Len(waiting') : i < j => i \in 1..Len(waiting)
  BY <1>1, <1>3
<1>6. LineOK'
  <2>1. InOrder(arrived', waiting')
    BY <1>1, <1>3, <1>5, PrecedesGrows DEF OrderInv, LineOK, InOrder
  <2>2. InOrder(arrived', group')
    BY <1>1, <1>3, PrecedesGrows DEF OrderInv, LineOK, InOrder
  <2>3. \A i \in 1..Len(group'), j \in 1..Len(waiting') :
          Precedes(arrived', group'[i], waiting'[j])
    BY <1>1, <1>3, <1>5, PrecedesGrows DEF OrderInv, LineOK, InOrder
  <2>4. QED
    BY <1>1, <1>2, <2>1, <2>2, <2>3 DEF OrderInv, LineOK
<1>7. /\ MayRunAgain' \subseteq MayRunAgain \cup {t}
      /\ ToRun' \subseteq ToRun \cup {t}
      /\ World' = World /\ db' = db
  BY <1>1, <1>2, <1>5 DEF MayRunAgain, ToRun, InQueue, World, MayBegin
<1>8. ASSUME NEW log, NEW P, NEW Q, LogOrdered(arrived, log, P), Q \subseteq P \cup {t}
      PROVE  LogOrdered(arrived', log, Q)
  <2>1. /\ \A x : Has(arrived, x) => Has(arrived', x) /\ Precedes(arrived', x, t)
        /\ \A x, y : Precedes(arrived, x, y) => Precedes(arrived', x, y)
    BY <1>1, <1>3, PrecedesGrows
  <2>2. QED
    BY <1>8, <2>1 DEF LogOrdered
<1>9. LogOK'
  BY <1>7, <1>8 DEF OrderInv, LogOK
<1>10. QED
  BY <1>4, <1>6, <1>9 DEF OrderInv

LEMMA LockOrdered ==
  ASSUME WriterInv, OrderInv, NEW t \in Tickets, Locked(t)
  PROVE  OrderInv' /\ NoMore
<1>1. /\ pc[t] = "locking" /\ holder = Nobody
      /\ UNCHANGED <<waiting, arrived, group, db>>
      /\ \/ Goto(t, "holding") /\ holder' = t
         \/ Goto(t, "refused") /\ holder' = Nobody
  BY DEF Locked, Lock, LockLatched, LockFindsStoreLost, LockReopens,
         LockUnreachable, LockRefused, MayLock, storeVars, groupVars
<1>2. Stage = "free" /\ Stage' \in {"free", "holding"}
  BY <1>1, StageTyped, StageMoves, StageFreed
<1>3. ArrivedOK'
  BY <1>1, ArrivedKept
<1>4. LineOK'
  BY <1>1, <1>2, SameLine DEF OrderInv, LineOK, OnGroup
<1>5. /\ MayRunAgain' \subseteq MayRunAgain /\ ToRun' \subseteq ToRun
      /\ World' = db' /\ World = db
  BY <1>1, <1>2 DEF MayRunAgain, ToRun, InQueue, World
<1>6. LogOK'
  BY <1>1, <1>5, LogKept
<1>7. InQueue' = InQueue
  BY <1>1 DEF InQueue
<1>8. QED
  BY <1>3, <1>4, <1>5, <1>6, <1>7 DEF OrderInv, NoMore

(* A queue without a ticket holds the others, in the order they had.       *)
LEMMA WithoutKept ==
  ASSUME NEW q \in Seq(Tickets), NEW t \in Tickets, NEW w, w = Without(q, t)
  PROVE  /\ \A i \in 1..Len(w) :
              \E k \in 1..Len(q) : w[i] = q[k]
         /\ \A a : InOrder(a, q) => InOrder(a, w)
         /\ \A k \in 1..Len(q) : q[k] # t =>
              \E i \in 1..Len(w) : w[i] = q[k]
<1>1. CASE ~\E i \in DOMAIN q : q[i] = t
  BY <1>1 DEF Without
<1>2. CASE \E i \in DOMAIN q : q[i] = t
  <2> DEFINE m == CHOOSE i \in DOMAIN q : q[i] = t
  <2>1. Len(q) \in Nat /\ m \in 1..Len(q) /\ q[m] = t
    BY <1>2
  <2>2. w = [j \in 1..Len(q) - 1 |-> IF j < m THEN q[j] ELSE q[j + 1]]
    BY <1>2 DEF Without
  <2> HIDE DEF m
  <2>3. /\ Len(w) = Len(q) - 1
        /\ \A j \in 1..Len(q) - 1 : w[j] = IF j < m THEN q[j] ELSE q[j + 1]
    BY <2>1, <2>2
  <2> DEFINE From(i) == IF i < m THEN i ELSE i + 1
  <2>4. \A i \in 1..Len(w) : From(i) \in 1..Len(q) /\ w[i] = q[From(i)] /\ From(i) # m
    BY <2>1, <2>3
  <2>5. \A i, j \in 1..Len(w) : i < j => From(i) < From(j)
    BY <2>1, <2>3
  <2>6. \A k \in 1..Len(q) : k # m => \E i \in 1..Len(w) : From(i) = k
    <3>1. SUFFICES ASSUME NEW k \in 1..Len(q), k # m
                   PROVE  \E i \in 1..Len(w) : From(i) = k
      OBVIOUS
    <3>2. CASE k < m
      BY <2>1, <2>3, <3>1, <3>2
    <3>3. CASE k > m
      <4>1. k - 1 \in 1..Len(w) /\ From(k - 1) = k
        BY <2>1, <2>3, <3>1, <3>3
      <4>2. QED
        BY <4>1
    <3>4. QED
      BY <2>1, <3>1, <3>2, <3>3
  <2> HIDE DEF From
  <2>7. /\ \A i \in 1..Len(w) : \E k \in 1..Len(q) : w[i] = q[k]
        /\ \A a : InOrder(a, q) => InOrder(a, w)
    BY <2>4, <2>5 DEF InOrder
  <2>8. \A k \in 1..Len(q) : q[k] # t => \E i \in 1..Len(w) : w[i] = q[k]
    BY <2>1, <2>4, <2>6
  <2>9. QED
    BY <2>7, <2>8
<1>3. QED
  BY <1>1, <1>2

(* A ticket the queue held once is no longer in it.                        *)
LEMMA WithoutIt ==
  ASSUME NEW q \in Seq(Tickets), NEW t \in Tickets, NEW w, w = Without(q, t),
         \A k, l \in 1..Len(q) : q[k] = q[l] => k = l,
         NEW i \in 1..Len(w)
  PROVE  w[i] # t
<1>1. CASE ~\E k \in DOMAIN q : q[k] = t
  BY <1>1 DEF Without
<1>2. CASE \E k \in DOMAIN q : q[k] = t
  <2> DEFINE m == CHOOSE k \in DOMAIN q : q[k] = t
  <2>1. Len(q) \in Nat /\ m \in 1..Len(q) /\ q[m] = t
    BY <1>2
  <2>2. w = [j \in 1..Len(q) - 1 |-> IF j < m THEN q[j] ELSE q[j + 1]]
    BY <1>2 DEF Without
  <2> HIDE DEF m
  <2>3. i \in 1..Len(q) - 1 /\ w[i] = IF i < m THEN q[i] ELSE q[i + 1]
    BY <2>1, <2>2
  <2>4. QED
    BY <2>1, <2>3
<1>3. QED
  BY <1>1, <1>2

LEMMA LeaveOrdered ==
  ASSUME WriterInv, OrderInv, NEW t \in Tickets,
         TakeRefused(t) \/ Leave(t) \/ AnsweredFirst(t) \/ Check(t)
  PROVE  OrderInv' /\ NoMore
<1>1. /\ UNCHANGED <<arrived, group, at, db, tx, conn>>
      /\ \/ pc[t] = "holding" /\ holder' = Nobody
         \/ pc[t] \in {"refused", "leaving", "check"} /\ holder' = holder
      /\ waiting' = waiting \/ waiting' = Without(waiting, t)
  BY DEF TakeRefused, Leave, AnsweredFirst, Check, groupVars, storeVars
<1>2. PICK place \in {"done", "leaving", "locking"} : Goto(t, place)
  BY DEF TakeRefused, Leave, AnsweredFirst, Check, Reply
<1>3. Stage' = Stage \/ (Stage = "holding" /\ Stage' = "free")
  BY <1>1, <1>2, StageTyped, StageStays, StageFreed DEF Leading
<1>4. ArrivedOK'
  BY <1>1, <1>2, ArrivedKept
<1>5. /\ \A i \in 1..Len(waiting') : \E k \in 1..Len(waiting) : waiting'[i] = waiting[k]
      /\ InOrder(arrived, waiting')
  <2>1. waiting \in Seq(Tickets) /\ InOrder(arrived, waiting)
    BY DEF WriterInv, TypeOK, QueueOK, OrderInv, LineOK
  <2>2. CASE waiting' = waiting
    BY <2>1, <2>2
  <2>3. CASE waiting' = Without(waiting, t)
    BY <2>1, <2>3, WithoutKept
  <2>4. QED
    BY <1>1, <2>2, <2>3
<1>6. LineOK'
  <2>1. InOrder(arrived', waiting')
    BY <1>1, <1>5
  <2>2. \A i \in 1..Len(group'), j \in 1..Len(waiting') :
          Precedes(arrived', group'[i], waiting'[j])
    BY <1>1, <1>5 DEF OrderInv, LineOK
  <2>3. QED
    BY <1>1, <1>3, <2>1, <2>2 DEF OrderInv, LineOK, OnGroup
<1>7. /\ MayRunAgain' \subseteq MayRunAgain /\ ToRun' \subseteq ToRun
      /\ World' = World /\ InQueue' \subseteq InQueue
  <2>1. ASSUME NEW u \in InQueue' PROVE u \in InQueue
    <3>1. PICK i \in 1..Len(waiting') : waiting'[i] = u
      BY <2>1 DEF InQueue
    <3>2. PICK k \in 1..Len(waiting) : waiting'[i] = waiting[k]
      BY <1>5
    <3>3. QED
      BY <2>1, <3>1, <3>2 DEF InQueue
  <2>2. QED
    BY <1>1, <1>3, <2>1 DEF MayRunAgain, ToRun, World, MayBegin
<1>8. LogOK'
  BY <1>1, <1>7, LogKept
<1>9. QED
  BY <1>4, <1>6, <1>8, <1>7 DEF OrderInv, NoMore

(* A queue drained: its first n tickets in the group, the rest after them. *)
LEMMA Drained ==
  ASSUME WriterInv, NEW t \in Tickets, Drain(t)
  PROVE  \E n \in 0..Len(waiting) :
           /\ Len(group') = n /\ Len(waiting') = Len(waiting) - n
           /\ \A i \in 1..n : group'[i] = waiting[i]
           /\ \A j \in 1..Len(waiting') : waiting'[j] = waiting[n + j]
<1> DEFINE n == Least(Len(waiting), GroupMost)
<1>1. waiting \in Seq(Tickets) /\ n \in 0..Len(waiting)
  BY GroupCommitAssumption DEF WriterInv, TypeOK, QueueOK, Least
<1>2. group' = SubSeq(waiting, 1, n)
      /\ waiting' = SubSeq(waiting, n + 1, Len(waiting))
  BY DEF Drain, After
<1> HIDE DEF n
<1>3. QED
  BY <1>1, <1>2

LEMMA DrainOrdered ==
  ASSUME WriterInv, OrderInv, NEW t \in Tickets, Drain(t)
  PROVE  OrderInv' /\ NoMore
<1>1. /\ pc[t] = "holding" /\ at' = 1
      /\ UNCHANGED <<holder, arrived, db, tx, conn>>
  BY DEF Drain, storeVars
<1>2. PICK place \in {"alone", "begin"} : Goto(t, place)
  BY DEF Drain
<1>3. Stage = "holding" /\ Stage' = place
  BY <1>1, <1>2, StageTyped, StageMoves DEF Leading
<1>4. ArrivedOK'
  BY <1>1, <1>2, ArrivedKept
<1>5. PICK n \in 0..Len(waiting) :
           /\ Len(group') = n /\ Len(waiting') = Len(waiting) - n
           /\ \A i \in 1..n : group'[i] = waiting[i]
           /\ \A j \in 1..Len(waiting') : waiting'[j] = waiting[n + j]
  BY Drained
<1>6. /\ \A i \in 1..n : i \in 1..Len(waiting)
      /\ \A j \in 1..Len(waiting') : n + j \in 1..Len(waiting)
      /\ \A i \in 1..n, j \in 1..Len(waiting') : i < n + j
      /\ \A i, j \in 1..Len(waiting') : i < j => n + i < n + j
  BY <1>5 DEF WriterInv, TypeOK, QueueOK
<1>7. LineOK'
  <2>1. InOrder(arrived, waiting)
    BY DEF OrderInv, LineOK
  <2>2. InOrder(arrived', waiting')
    BY <1>1, <1>5, <1>6, <2>1 DEF InOrder
  <2>3. InOrder(arrived', group')
    BY <1>1, <1>5, <1>6, <2>1 DEF InOrder
  <2>4. \A i \in 1..Len(group'), j \in 1..Len(waiting') :
          Precedes(arrived', group'[i], waiting'[j])
    BY <1>1, <1>5, <1>6, <2>1 DEF InOrder
  <2>5. QED
    BY <1>3, <2>2, <2>3, <2>4 DEF LineOK, OnGroup
<1>8. MayRunAgain' \subseteq InQueue /\ ToRun' \subseteq InQueue
  BY <1>5, <1>6 DEF MayRunAgain, ToRun, InQueue
<1>9. InQueue \subseteq MayRunAgain /\ InQueue \subseteq ToRun
      /\ World = db /\ World' = db'
  BY <1>1, <1>3 DEF MayRunAgain, ToRun, World
<1>10. LogOK'
  BY <1>1, <1>8, <1>9, LogKept
<1>11. InQueue' \subseteq InQueue
  BY <1>8 DEF ToRun
<1>12. QED
  BY <1>4, <1>7, <1>8, <1>9, <1>10, <1>11 DEF OrderInv, NoMore

LEMMA ReleaseOrdered ==
  ASSUME WriterInv, OrderInv, NEW t \in Tickets, Release(t)
  PROVE  OrderInv' /\ NoMore
<1>1. /\ pc[t] = "release" /\ Goto(t, "check") /\ holder' = Nobody
      /\ group' = <<>> /\ UNCHANGED <<waiting, arrived, db, tx, conn>>
  BY DEF Release, storeVars
<1>2. Stage = "release" /\ Stage' = "free"
  BY <1>1, StageTyped, StageFreed DEF Leading
<1>3. ArrivedOK'
  BY <1>1, ArrivedKept
<1>4. LineOK'
  BY <1>1 DEF OrderInv, LineOK, InOrder
<1>5. /\ MayRunAgain' \subseteq MayRunAgain /\ ToRun' \subseteq ToRun
      /\ World' = db' /\ World = db /\ InQueue' = InQueue
  BY <1>1, <1>2 DEF MayRunAgain, ToRun, InQueue, World
<1>6. LogOK'
  BY <1>1, <1>5, LogKept
<1>7. QED
  BY <1>3, <1>4, <1>6, <1>5 DEF OrderInv, NoMore

-----------------------------------------------------------------------------
(* One for each part of run_group and alone, from what every step of the   *)
(* holder on its group leaves alone.                                       *)

LEMMA HolderOrdered ==
  ASSUME WriterInv, OrderInv, NEW t \in Tickets, pc[t] \in OnGroup,
         NEW place \in OnGroup \cup {"release"}, Goto(t, place),
         UNCHANGED <<holder, waiting, arrived, group>>
  PROVE  /\ Stage = pc[t] /\ Stage' = place
         /\ ArrivedOK' /\ LineOK' /\ InQueue' = InQueue
<1>1. Stage = pc[t] /\ holder = t
  BY StageTyped DEF OnGroup, Leading
<1>2. Stage' = place
  BY <1>1, StageMoves
<1>3. ArrivedOK'
  BY ArrivedKept DEF OnGroup
<1>4. LineOK'
  BY <1>2, SameLine DEF OrderInv
<1>5. QED
  BY <1>1, <1>2, <1>3, <1>4 DEF InQueue

LEMMA GroupFailsOrdered ==
  ASSUME WriterInv, OrderInv, NEW t \in Tickets,
         BeginGroupFails(t) \/ RunFails(t) \/ RunPanics(t) \/ CommitFails(t)
  PROVE  OrderInv' /\ NoMore
<1>1. /\ pc[t] \in {"begin", "run", "commit"} /\ EachAlone(t)
      /\ UNCHANGED <<waiting, holder, arrived, db>>
  BY DEF BeginGroupFails, RunFails, RunPanics, CommitFails
<1>2. PICK place \in {"release", "alone"} : Goto(t, place)
  BY <1>1 DEF EachAlone
<1>3. group' = group
  BY <1>1 DEF EachAlone
<1>4. /\ Stage = pc[t] /\ Stage' = place
      /\ ArrivedOK' /\ LineOK' /\ InQueue' = InQueue
  BY <1>1, <1>2, <1>3, HolderOrdered DEF OnGroup
<1>5. /\ MayRunAgain' \subseteq MayRunAgain /\ ToRun' \subseteq MayRunAgain
      /\ World' = db'
  BY <1>1, <1>3, <1>4 DEF MayRunAgain, ToRun, World
<1>6. LogOK'
  BY <1>1, <1>5, LogKept
<1>7. QED
  BY <1>4, <1>6, <1>5 DEF OrderInv, NoMore

LEMMA BeginGroupOrdered ==
  ASSUME WriterInv, OrderInv, NEW t \in Tickets, BeginGroup(t)
  PROVE  OrderInv' /\ NoMore
<1>1. /\ pc[t] = "begin" /\ tx' = db
      /\ UNCHANGED <<waiting, holder, arrived, group, at, db>>
  BY DEF BeginGroup, MayBegin, Begun, groupVars
<1>2. PICK place \in {"commit", "run"} : Goto(t, place)
  BY DEF BeginGroup
<1>3. /\ Stage = "begin" /\ Stage' = place
      /\ ArrivedOK' /\ LineOK' /\ InQueue' = InQueue
  BY <1>1, <1>2, HolderOrdered DEF OnGroup
<1>4. /\ MayRunAgain' \subseteq MayRunAgain /\ ToRun' \subseteq MayRunAgain
      /\ World' = db
  BY <1>1, <1>3 DEF MayRunAgain, ToRun, World
<1>5. LogOK'
  BY <1>1, <1>4, LogKept
<1>6. QED
  BY <1>3, <1>5, <1>4 DEF OrderInv, NoMore

(* The next request of the group, before all that is left to run after it. *)
LEMMA NextPrecedes ==
  ASSUME WriterInv, OrderInv, at \in 1..Len(group)
  PROVE  /\ group[at] \in Tickets /\ Has(arrived, group[at])
         /\ \A u \in InQueue : Precedes(arrived, group[at], u)
         /\ \A i \in 1..Len(group) : i > at => Precedes(arrived, group[at], group[i])
<1>1. group \in Seq(Tickets) /\ at \in Nat
  BY DEF WriterInv, TypeOK, GroupOK
<1>2. group[at] \in Tickets /\ Has(arrived, group[at])
  BY <1>1 DEF OrderInv, LineOK, InOrder
<1>3. \A u \in InQueue : Precedes(arrived, group[at], u)
  BY DEF OrderInv, LineOK, InQueue
<1>4. \A i \in 1..Len(group) : i > at => Precedes(arrived, group[at], group[i])
  BY <1>1 DEF OrderInv, LineOK, InOrder
<1>5. QED
  BY <1>2, <1>3, <1>4

LEMMA RunNextOrdered ==
  ASSUME WriterInv, OrderInv, NEW t \in Tickets, RunNext(t)
  PROVE  OrderInv' /\ NoMore
<1>1. /\ pc[t] = "run" /\ tx' = Decided(tx, group[at]).db /\ at' = at + 1
      /\ UNCHANGED <<waiting, holder, arrived, group, db>>
  BY DEF RunNext, GroupWorld
<1>2. PICK place \in {"commit", "run"} : Goto(t, place)
  BY DEF RunNext
<1>3. /\ Stage = "run" /\ Stage' = place
      /\ ArrivedOK' /\ LineOK' /\ InQueue' = InQueue
  BY <1>1, <1>2, HolderOrdered DEF OnGroup
<1>4. /\ GoodStore(tx) /\ at \in 1..Len(group) /\ at \in Nat
      /\ World = tx /\ World' = tx'
  BY <1>1, <1>3, HolderFacts DEF World
<1>5. group[at] \in ToRun
  BY <1>3, <1>4, NextPrecedes DEF ToRun
<1>6. \A u \in ToRun' : u \in ToRun /\ Precedes(arrived, group[at], u)
  <2>1. \A u \in ToRun' : u \in InQueue \/ \E i \in 1..Len(group) :
          i >= at + 1 /\ group[i] = u
    BY <1>1, <1>3 DEF ToRun
  <2>2. \A i \in 1..Len(group) : i >= at + 1 => i >= at /\ i > at
    BY <1>4
  <2>3. \A u \in ToRun' : u \in ToRun
    BY <1>3, <2>1, <2>2, HolderFacts DEF ToRun
  <2>4. QED
    BY <1>4, <2>1, <2>2, <2>3, NextPrecedes
<1>7. MayRunAgain' \subseteq MayRunAgain
  <2>1. ToRun' \subseteq ToRun
    BY <1>6
  <2>2. QED
    BY <1>1, <1>3, <2>1 DEF MayRunAgain
<1>8. LogOrdered(arrived, World'.log, ToRun')
  <2>1. Grown(tx.log, tx'.log, group[at]) /\ tx.log \in Seq(Entries)
    BY <1>1, <1>4, DecidedGrows, NextPrecedes
  <2>2. LogOrdered(arrived, tx.log, ToRun)
    BY <1>4 DEF OrderInv, LogOK
  <2>3. QED
    BY <1>4, <1>5, <1>6, <2>1, <2>2, LogGrows, NextPrecedes
<1>9. LogOK'
  <2>1. LogOrdered(arrived, db.log, MayRunAgain')
    BY <1>7 DEF OrderInv, LogOK, LogOrdered
  <2>2. QED
    BY <1>1, <1>8, <2>1 DEF LogOK
<1>10. QED
  BY <1>3, <1>9, <1>7 DEF OrderInv, NoMore

LEMMA CommitOrdered ==
  ASSUME WriterInv, OrderInv, NEW t \in Tickets, CommitGroup(t) \/ CommitInDoubt(t)
  PROVE  OrderInv' /\ NoMore
<1>1. /\ pc[t] = "commit" /\ db' = tx
      /\ UNCHANGED <<waiting, holder, arrived, group>>
      /\ Goto(t, "give") \/ conn' = "given_up"
  BY DEF CommitGroup, CommitInDoubt, EachAlone, groupVars
<1>2. PICK place \in {"give", "release", "alone"} :
        Goto(t, place) /\ (place = "alone" => conn' = "given_up")
  BY DEF CommitGroup, CommitInDoubt, EachAlone
<1>3. /\ Stage = "commit" /\ Stage' = place
      /\ ArrivedOK' /\ LineOK' /\ InQueue' = InQueue
  BY <1>1, <1>2, HolderOrdered DEF OnGroup
<1>4. MayRunAgain' = InQueue /\ ToRun' = InQueue /\ InQueue \subseteq ToRun
      /\ World' = tx /\ World = tx
  BY <1>1, <1>2, <1>3 DEF MayRunAgain, ToRun, World, MayBegin
<1>5. LogOK'
  BY <1>1, <1>4, LogKept
<1>6. InQueue \subseteq MayRunAgain /\ MayRunAgain' = InQueue
  BY <1>4 DEF MayRunAgain
<1>7. QED
  BY <1>3, <1>5, <1>6 DEF OrderInv, NoMore

LEMMA GiveOrdered ==
  ASSUME WriterInv, OrderInv, NEW t \in Tickets, GiveAnswers(t)
  PROVE  OrderInv' /\ NoMore
<1>1. /\ pc[t] = "give" /\ Goto(t, "release")
      /\ UNCHANGED <<waiting, holder, arrived, group, db>>
  BY DEF GiveAnswers, groupVars, storeVars
<1>2. /\ Stage = "give" /\ Stage' = "release"
      /\ ArrivedOK' /\ LineOK' /\ InQueue' = InQueue
  BY <1>1, HolderOrdered DEF OnGroup
<1>3. /\ MayRunAgain' \subseteq MayRunAgain /\ ToRun' \subseteq ToRun
      /\ World' = db /\ World = db
  BY <1>1, <1>2 DEF MayRunAgain, ToRun, World
<1>4. LogOK'
  BY <1>1, <1>3, LogKept
<1>5. QED
  BY <1>2, <1>4, <1>3 DEF OrderInv, NoMore

(* A request run alone: what it leaves of the store's log, and what is     *)
(* still to run after it.                                                  *)
LEMMA AloneSummary ==
  ASSUME WriterInv, NEW t \in Tickets, Alone(t)
  PROVE  /\ pc[t] = "alone" /\ at' = at + 1 /\ at \in 1..Len(group)
         /\ group[at] \in Tickets
         /\ \E place \in {"release", "alone"} : Goto(t, place)
         /\ UNCHANGED <<waiting, holder, arrived, group, reply, latched>>
         /\ \/ MayBegin /\ Grown(db.log, db'.log, group[at])
            \/ ~MayBegin /\ ~MayBegin' /\ UNCHANGED <<db, outcome>>
<1>1. /\ pc[t] = "alone" /\ at' = at + 1
      /\ \E place \in {"release", "alone"} : Goto(t, place)
      /\ UNCHANGED <<waiting, holder, arrived, group, reply, latched>>
  BY DEF Alone, AloneAnswers, AloneExhausted, AloneErrs, AlonePanics,
         AloneRefused, GiveAlone
<1>2. at \in 1..Len(group) /\ GoodStore(db) /\ group[at] \in Tickets
  BY <1>1, HolderFacts, AloneFacts
<1>3. ASSUME ~AloneRefused(t)
      PROVE  MayBegin /\ Grown(db.log, db'.log, group[at])
  <2>1. /\ Grown(db.log, Decided(db, group[at]).db.log, group[at])
        /\ Logged(db, group[at]).log = db.log
        /\ \A left \in LeftByError(db, group[at]) :
             Grown(db.log, left.log, group[at])
    BY <1>2, DecidedGrows
  <2>2. /\ MayBegin
        /\ \/ db' = Decided(db, group[at]).db
           \/ db' \in {db, Logged(db, group[at])}
           \/ \E left \in LeftByError(db, group[at]) : db' = left
    BY <1>3 DEF Alone, AloneAnswers, AloneExhausted, AloneErrs, AlonePanics, Leaves,
       MayBegin, Begun
  <2>3. Grown(db.log, db.log, group[at])
    BY DEF Grown
  <2>4. QED
    BY <2>1, <2>2, <2>3
<1>4. ASSUME AloneRefused(t)
      PROVE  ~MayBegin /\ ~MayBegin' /\ UNCHANGED <<db, outcome>>
  BY <1>4 DEF AloneRefused, BeginRefused, MayBegin
<1>5. QED
  BY <1>1, <1>2, <1>3, <1>4

LEMMA AloneOrdered ==
  ASSUME WriterInv, OrderInv, NEW t \in Tickets, Alone(t)
  PROVE  OrderInv' /\ NoMore
<1>1. /\ pc[t] = "alone" /\ at' = at + 1 /\ at \in 1..Len(group) /\ at \in Nat
      /\ group[at] \in Tickets
      /\ UNCHANGED <<waiting, holder, arrived, group>>
  BY AloneSummary, HolderFacts
<1>2. PICK place \in {"release", "alone"} : Goto(t, place)
  BY AloneSummary
<1>3. /\ Stage = "alone" /\ Stage' = place
      /\ ArrivedOK' /\ LineOK' /\ InQueue' = InQueue
  BY <1>1, <1>2, HolderOrdered DEF OnGroup
<1>4. /\ MayRunAgain = ToRun /\ MayRunAgain' = ToRun' /\ World = db /\ World' = db'
  BY <1>3 DEF MayRunAgain, World
<1>5. CASE ~MayBegin /\ ~MayBegin' /\ UNCHANGED db
  <2>1. ToRun' = ToRun
    BY <1>3, <1>5 DEF ToRun
  <2>2. LogOK'
    BY <1>1, <1>4, <1>5, <2>1, LogKept
  <2>3. QED
    BY <1>3, <1>4, <2>1, <2>2 DEF OrderInv, NoMore
<1>6. CASE MayBegin /\ Grown(db.log, db'.log, group[at])
  <2>1. group[at] \in ToRun
    BY <1>1, <1>3, <1>6 DEF ToRun
  <2>2. \A u \in ToRun' : u \in ToRun /\ Precedes(arrived, group[at], u)
    <3>1. \A u \in ToRun' : u \in InQueue \/ \E i \in 1..Len(group) :
            i >= at + 1 /\ group[i] = u
      BY <1>1, <1>3 DEF ToRun
    <3>2. \A i \in 1..Len(group) : i >= at + 1 => i >= at /\ i > at
      BY <1>1
    <3>3. \A u \in ToRun' : u \in ToRun
      BY <1>3, <1>6, <3>1, <3>2, HolderFacts DEF ToRun
    <3>4. QED
      BY <1>1, <3>1, <3>2, <3>3, NextPrecedes
  <2>3. LogOrdered(arrived, db.log, ToRun) /\ db.log \in Seq(Entries)
        /\ Has(arrived, group[at])
    BY <1>1, <1>4, HolderFacts, DecidedGrows, NextPrecedes DEF OrderInv, LogOK
  <2>4. LogOrdered(arrived, db'.log, ToRun')
    BY <1>1, <1>6, <2>1, <2>2, <2>3, LogGrows
  <2>5. LogOK'
    BY <1>1, <1>4, <2>4 DEF LogOK
  <2>6. QED
    BY <1>3, <1>4, <2>2, <2>5 DEF OrderInv, NoMore
<1>7. QED
  BY <1>5, <1>6, AloneSummary

-----------------------------------------------------------------------------
LEMMA CrashOrdered ==
  ASSUME WriterInv, OrderInv, Crash
  PROVE  OrderInv'
<1>1. /\ waiting' = <<>> /\ group' = <<>> /\ holder' = Nobody
      /\ UNCHANGED <<arrived, db>>
  BY DEF Crash
<1>2. \A u \in Tickets : pc'[u] = "idle" <=> pc[u] = "idle"
  BY DEF Crash, Open
<1>3. ArrivedOK'
  BY <1>1, <1>2 DEF OrderInv, ArrivedOK
<1>4. LineOK'
  BY <1>1 DEF LineOK, InOrder
<1>5. MayRunAgain' = {} /\ ToRun' = {} /\ World' = db
  BY <1>1, StageFreed DEF MayRunAgain, ToRun, InQueue, World
<1>6. LogOK'
  BY <1>1, <1>5, LogKept
<1>7. QED
  BY <1>3, <1>4, <1>6 DEF OrderInv

LEMMA OrderInvInit ==
  ASSUME Init
  PROVE  OrderInv
<1>1. /\ arrived = <<>> /\ waiting = <<>> /\ group = <<>> /\ holder = Nobody
      /\ db.log = <<>> /\ \A t \in Tickets : pc[t] = "idle"
  BY DEF Init, EmptyStore
<1>2. ArrivedOK
  BY <1>1 DEF ArrivedOK, Has
<1>3. LineOK
  BY <1>1 DEF LineOK, InOrder
<1>4. World = db
  BY <1>1 DEF World, Stage
<1>5. LogOK
  BY <1>1, <1>4 DEF LogOK, LogOrdered
<1>6. QED
  BY <1>2, <1>3, <1>5 DEF OrderInv

LEMMA OrderInvStep ==
  ASSUME WriterInv, OrderInv, [Next]_vars
  PROVE  OrderInv'
<1>1. ASSUME NEW t \in Tickets, Queued(t) PROVE OrderInv'
  BY <1>1, LockOrdered, LeaveOrdered, DrainOrdered, ReleaseOrdered DEF Queued
<1>2. ASSUME NEW t \in Tickets, Grouped(t) PROVE OrderInv'
  BY <1>2, GroupFailsOrdered, BeginGroupOrdered, RunNextOrdered, CommitOrdered,
     GiveOrdered DEF Grouped
<1>3. ASSUME NEW t \in Tickets, Queue(t) \/ Step(t) PROVE OrderInv'
  BY <1>1, <1>2, <1>3, QueueOrdered, AloneOrdered DEF Step
<1>4. CASE UNCHANGED vars
  BY <1>4 DEF vars, OrderInv, ArrivedOK, LineOK, LogOK, World, ToRun, MayRunAgain,
              InQueue, Stage, MayBegin
<1>5. QED
  BY <1>3, <1>4, CrashOrdered DEF Next, Finished

LEMMA OrderInvAlways == Spec => [](WriterInv /\ OrderInv)
<1>1. Init => WriterInv /\ OrderInv
  BY WriterInvInit, OrderInvInit
<1>2. WriterInv /\ OrderInv /\ [Next]_vars => (WriterInv /\ OrderInv)'
  BY WriterInvStep, OrderInvStep
<1>3. QED
  BY <1>1, <1>2, PTL DEF Spec

(* Requests apply in the order they queued (main.rs, queued, which drains  *)
(* from the front), through groups cut at GROUP_MOST, rolled back, run     *)
(* again alone and left in doubt, callers leaving the queue, and restarts. *)
THEOREM AppliesInOrder == Spec => []QueueOrder
<1>1. WriterInv /\ OrderInv => QueueOrder
  <2>1. SUFFICES ASSUME WriterInv, OrderInv,
                        NEW i \in DOMAIN db.log, NEW j \in DOMAIN db.log, i < j
                 PROVE  ArrivedBefore(db.log[i].ticket, db.log[j].ticket)
    BY DEF QueueOrder
  <2>2. i \in 1..Len(db.log) /\ j \in 1..Len(db.log) /\ DOMAIN arrived = 1..Len(arrived)
    BY <2>1 DEF WriterInv, TypeOK, StoresOK, QueueOK, Store
  <2>3. Precedes(arrived, db.log[i].ticket, db.log[j].ticket)
    BY <2>1, <2>2 DEF OrderInv, LogOK, LogOrdered
  <2>4. QED
    BY <2>2, <2>3 DEF Precedes, ArrivedBefore
<1>2. QED
  BY <1>1, OrderInvAlways, PTL

(* A call that arrived before another is another call.                     *)
LEMMA PrecedesApart ==
  ASSUME WriterInv, OrderInv, NEW x, NEW y, Precedes(arrived, x, y)
  PROVE  x # y
<1>1. PICK i, j \in 1..Len(arrived) : i < j /\ arrived[i] = x /\ arrived[j] = y
  BY DEF Precedes
<1>2. QED
  BY <1>1 DEF OrderInv, ArrivedOK

(* No call applies twice, a group rolled back and run again alone          *)
(* (run_group and alone in main.rs) included.                              *)
THEOREM CallsOnce == Spec => []CallsApplyOnce
<1>1. WriterInv /\ OrderInv => CallsApplyOnce
  <2>1. SUFFICES ASSUME WriterInv, OrderInv,
                        NEW i \in DOMAIN db.log, NEW j \in DOMAIN db.log, i # j
                 PROVE  db.log[i].ticket # db.log[j].ticket
    BY DEF CallsApplyOnce
  <2>2. i \in 1..Len(db.log) /\ j \in 1..Len(db.log) /\ (i < j \/ j < i)
    BY <2>1 DEF WriterInv, TypeOK, StoresOK, Store
  <2>3. \/ Precedes(arrived, db.log[i].ticket, db.log[j].ticket)
        \/ Precedes(arrived, db.log[j].ticket, db.log[i].ticket)
    BY <2>1, <2>2 DEF OrderInv, LogOK, LogOrdered
  <2>4. QED
    BY <2>1, <2>3, PrecedesApart
<1>2. QED
  BY <1>1, OrderInvAlways, PTL

-----------------------------------------------------------------------------
(* How a request run alone may end: with what it decided, told or lost to  *)
(* an error; with its retries exhausted; or with an error before anything  *)
(* but its number was kept.                                                *)
Ended(u, a) ==
  \/ /\ db' = Decided(db, u).db
     /\ outcome' = [outcome EXCEPT ![u] = Decided(db, u).answer]
     /\ a \in {Fault, Decided(db, u).answer}
  \/ /\ db' \in {db, Logged(db, u)}
     /\ outcome' = [outcome EXCEPT ![u] = Exhausted]
     /\ a = Exhausted
  \/ /\ db' \in {db, Drawn(db)}
     /\ outcome' = outcome
     /\ a = Fault

LEMMA LeavesEnded ==
  ASSUME NEW u, NEW left \in LeftByError(db, u), Leaves(u, left)
  PROVE  Ended(u, Fault)
<1>1. left \in {db, Decided(db, u).db, Drawn(db)} /\ db' = left
  BY DEF LeftByError, Leaves
<1>2. CASE left = Decided(db, u).db /\ left # db
  BY <1>1, <1>2 DEF Ended, Leaves, Ran
<1>3. CASE ~(left = Decided(db, u).db /\ left # db)
  BY <1>1, <1>3 DEF Ended, Leaves
<1>4. QED
  BY <1>2, <1>3

LEMMA AnswersApart ==
  /\ NoAnswer # Fault /\ NoAnswer # Lost /\ NoAnswer # Exhausted
  /\ \A a \in {NoAnswer, Fault, Lost, Exhausted} :
       a.verdict \notin {"satisfied", "refused", "key_reused"}
  /\ Fault.verdict = "fault" /\ Lost.verdict = "lost"
  BY DEF NoAnswer, Fault, Lost, Exhausted, Answer

LEMMA AloneEnds ==
  ASSUME WriterInv, NEW t \in Tickets, Alone(t)
  PROVE  \E a \in Answers \ {NoAnswer} :
           /\ answer' = [answer EXCEPT ![group[at]] = a]
           /\ \/ MayBegin /\ Ended(group[at], a)
              \/ /\ ~MayBegin /\ ~MayBegin' /\ UNCHANGED <<db, outcome>>
                 /\ a = Fault
<1>1. pc[t] = "alone"
  BY DEF Alone, AloneAnswers, AloneExhausted, AloneErrs, AlonePanics, AloneRefused
<1>2. GoodStore(db) /\ group[at] \in Tickets
  BY <1>1, AloneFacts, HolderFacts
<1>3. Decided(db, group[at]).answer \in Answers \ {NoAnswer}
  BY <1>2, DecidedGood
<1>4. Fault \in Answers \ {NoAnswer} /\ Exhausted \in Answers \ {NoAnswer}
  BY AnswerTypes, AnswersApart
<1>5. CASE AloneAnswers(t)
  BY <1>3, <1>5 DEF AloneAnswers, GiveAlone, MayBegin, Begun, Ran, Ended
<1>6. CASE AloneExhausted(t)
  BY <1>4, <1>6 DEF AloneExhausted, GiveAlone, Ran, Ended
<1>7. CASE AloneErrs(t)
  <2>1. MayBegin /\ answer' = [answer EXCEPT ![group[at]] = Fault]
    BY <1>7 DEF AloneErrs, GiveAlone
  <2>2. CASE \E left \in LeftByError(db, group[at]) : Leaves(group[at], left)
    BY <1>4, <2>1, <2>2, LeavesEnded
  <2>3. CASE UNCHANGED <<db, outcome>>
    BY <1>4, <2>1, <2>3 DEF Ended
  <2>4. QED
    BY <1>7, <2>2, <2>3 DEF AloneErrs
<1>8. CASE AlonePanics(t)
  <2>1. MayBegin /\ answer' = [answer EXCEPT ![group[at]] = Fault]
    BY <1>8 DEF AlonePanics, GiveAlone
  <2>2. Ended(group[at], Fault)
    BY <1>8, LeavesEnded DEF AlonePanics
  <2>3. QED
    BY <1>4, <2>1, <2>2
<1>9. CASE AloneRefused(t)
  BY <1>4, <1>9, AloneSummary DEF AloneRefused, GiveAlone, BeginRefused, MayBegin
<1>10. QED
  BY <1>5, <1>6, <1>7, <1>8, <1>9 DEF Alone

-----------------------------------------------------------------------------
(* What is yet to run has not run and is not answered, but for a call that *)
(* left the queue of a PostgreSQL store as its group was drained; and what *)
(* a caller is told is what its run left, or a fault.                      *)
PendingOK ==
  /\ \A u \in InQueue : pc[u] # "done"
  /\ \A u \in MayRunAgain :
       /\ answer[u] = NoAnswer /\ outcome[u] = NoAnswer
       /\ pc[u] = "done" => reply[u] = Fault /\ Backend = "postgres"

ToldOK ==
  \A t \in Tickets :
    /\ answer[t] \in {NoAnswer, Fault, outcome[t]}
    /\ reply[t] \in {NoAnswer, Fault, Lost, outcome[t]}
    /\ pc[t] # "done" => reply[t] = NoAnswer
    /\ pc[t] = "idle" => answer[t] = NoAnswer /\ outcome[t] = NoAnswer

(* A group committed holds the answers its commit left.                    *)
InGroup(u) == \E i \in DOMAIN group : group[i] = u
GroupAnswer(u) == answers[CHOOSE i \in DOMAIN group : group[i] = u]
GiveOK ==
  Stage = "give" =>
    \A u \in Tickets : InGroup(u) => outcome[u] = GroupAnswer(u)

(* A store latched is held by nobody; a SQLite caller is refused by a      *)
(* latched store only.                                                     *)
LatchOK ==
  /\ latched => holder = Nobody
  /\ Backend = "sqlite" =>
       \A t \in Tickets : pc[t] \in {"refused", "leaving"} => latched

PendingInv == PendingOK /\ ToldOK /\ GiveOK /\ LatchOK

(* A group's calls are apart, and apart from those still queued.           *)
LEMMA GroupApart ==
  ASSUME WriterInv, OrderInv
  PROVE  /\ \A i, j \in 1..Len(group) : group[i] = group[j] => i = j
         /\ \A i, j \in 1..Len(waiting) : waiting[i] = waiting[j] => i = j
         /\ \A u \in InQueue : ~InGroup(u)
         /\ \A u : InGroup(u) <=> \E i \in 1..Len(group) : group[i] = u
         /\ \A u : InGroup(u) => Has(arrived, u) /\ u \in Tickets /\ pc[u] # "idle"
<1>1. group \in Seq(Tickets) /\ waiting \in Seq(Tickets)
  BY DEF WriterInv, TypeOK, GroupOK, QueueOK
<1>2. \A u : InGroup(u) <=> \E i \in 1..Len(group) : group[i] = u
  BY <1>1 DEF InGroup
<1>3. \A i, j \in 1..Len(group) : group[i] = group[j] => i = j
  BY <1>1, PrecedesApart DEF OrderInv, LineOK, InOrder
<1>4. \A i, j \in 1..Len(waiting) : waiting[i] = waiting[j] => i = j
  BY <1>1, PrecedesApart DEF OrderInv, LineOK, InOrder
<1>5. \A u \in InQueue : ~InGroup(u)
  BY <1>2, PrecedesApart DEF OrderInv, LineOK, InQueue
<1>6. \A u : InGroup(u) => Has(arrived, u) /\ u \in Tickets
  BY <1>1, <1>2 DEF OrderInv, LineOK, InOrder
<1>7. \A u : InGroup(u) => pc[u] # "idle"
  BY <1>6 DEF OrderInv, ArrivedOK
<1>8. QED
  BY <1>2, <1>3, <1>4, <1>5, <1>6, <1>7

(* A step that answers nobody keeps it all, where no more is to run.       *)
LEMMA PendingKept ==
  ASSUME WriterInv, PendingInv, NEW t \in Tickets, NEW place, Goto(t, place),
         place \notin {"idle", "done"}, pc[t] \notin {"idle", "done"},
         UNCHANGED <<answer, reply, outcome>>,
         InQueue' \subseteq InQueue, MayRunAgain' \subseteq MayRunAgain
  PROVE  PendingOK' /\ ToldOK'
<1>1. \A u \in Tickets : pc'[u] = IF u = t THEN place ELSE pc[u]
  BY DEF Goto, WriterInv, TypeOK, ThreadsOK
<1>2. InQueue' \subseteq Tickets /\ MayRunAgain' \subseteq Tickets
  BY DEF InQueue, MayRunAgain, ToRun
<1>3. ToldOK'
  BY <1>1 DEF PendingInv, ToldOK
<1>4. PendingOK'
  BY <1>1, <1>2 DEF PendingInv, PendingOK
<1>5. QED
  BY <1>3, <1>4

LEMMA LatchKept ==
  ASSUME WriterInv, PendingInv, NEW t \in Tickets, NEW place, Goto(t, place),
         UNCHANGED <<holder, latched>>, place \notin {"refused", "leaving"}
  PROVE  LatchOK'
  BY DEF PendingInv, LatchOK, Goto, WriterInv, TypeOK, ThreadsOK

LEMMA QueuePending ==
  ASSUME WriterInv, OrderInv, PendingInv, NEW t \in Tickets, Queue(t)
  PROVE  PendingInv'
<1>1. /\ pc[t] = "idle" /\ Goto(t, "locking") /\ holder' = holder
      /\ waiting' = Append(waiting, t)
      /\ UNCHANGED <<answer, reply, outcome, group, at, answers, tx, conn, latched>>
  BY DEF Queue, Pushed, groupVars, storeVars
<1>2. Stage' = Stage
  BY <1>1, StageStays DEF Leading
<1>3. \A u \in Tickets : pc'[u] = IF u = t THEN "locking" ELSE pc[u]
  BY <1>1 DEF Goto, WriterInv, TypeOK, ThreadsOK
<1>4. /\ InQueue' \subseteq InQueue \cup {t}
      /\ MayRunAgain' \subseteq MayRunAgain \cup {t}
  <2>1. waiting \in Seq(Tickets)
    BY DEF WriterInv, TypeOK, QueueOK
  <2>2. \A j \in 1..Len(waiting') : waiting'[j] = t \/ \E i \in 1..Len(waiting) :
          waiting'[j] = waiting[i]
    BY <1>1, <2>1
  <2>3. InQueue' \subseteq InQueue \cup {t}
    BY <2>2 DEF InQueue
  <2>4. QED
    BY <1>1, <1>2, <2>3 DEF MayRunAgain, ToRun, MayBegin
<1>5. ToldOK'
  BY <1>1, <1>3 DEF PendingInv, ToldOK
<1>6. PendingOK'
  <2>1. InQueue' \subseteq Tickets /\ MayRunAgain' \subseteq Tickets
    BY DEF InQueue, MayRunAgain, ToRun
  <2>2. QED
    BY <1>1, <1>3, <1>4, <2>1 DEF PendingInv, PendingOK, ToldOK
<1>7. GiveOK'
  BY <1>1, <1>2 DEF PendingInv, GiveOK, InGroup, GroupAnswer
<1>8. LatchOK'
  BY <1>1, LatchKept
<1>9. QED
  BY <1>5, <1>6, <1>7, <1>8 DEF PendingInv

LEMMA LockPending ==
  ASSUME WriterInv, OrderInv, PendingInv, NEW t \in Tickets, Locked(t)
  PROVE  PendingInv'
<1>1. /\ pc[t] = "locking" /\ holder = Nobody
      /\ UNCHANGED <<answer, reply, outcome>>
      /\ \/ Goto(t, "holding") /\ holder' = t /\ ~latched /\ ~latched'
         \/ /\ Goto(t, "refused") /\ holder' = Nobody
            /\ latched' = TRUE \/ (latched' = latched /\ Backend = "postgres")
  <2>1. latched \in BOOLEAN
    BY DEF WriterInv, TypeOK, StoresOK
  <2>2. QED
    BY <2>1 DEF Locked, Lock, LockLatched, LockFindsStoreLost, LockReopens,
         LockUnreachable, LockRefused, MayLock, LostHere, storeVars
<1>2. Stage' \in {"free", "holding"}
  BY <1>1, StageMoves, StageFreed
<1>3. PendingOK' /\ ToldOK'
  BY <1>1, LockOrdered, PendingKept DEF NoMore
<1>4. GiveOK'
  BY <1>2 DEF GiveOK
<1>5. LatchOK'
  <2>1. CASE Goto(t, "holding") /\ holder' = t /\ ~latched /\ ~latched'
    <3>1. \A u \in Tickets : pc'[u] = IF u = t THEN "holding" ELSE pc[u]
      BY <2>1 DEF Goto, WriterInv, TypeOK, ThreadsOK
    <3>2. Backend = "sqlite" =>
            \A u \in Tickets : pc[u] \notin {"refused", "leaving"}
      BY <2>1 DEF PendingInv, LatchOK
    <3>3. QED
      BY <2>1, <3>1, <3>2 DEF LatchOK
  <2>2. CASE /\ Goto(t, "refused") /\ holder' = Nobody
             /\ latched' = TRUE \/ (latched' = latched /\ Backend = "postgres")
    BY <2>2 DEF LatchOK
  <2>3. QED
    BY <1>1, <2>1, <2>2
<1>6. QED
  BY <1>3, <1>4, <1>5 DEF PendingInv

(* A caller answered what its ticket holds.                                *)
LEMMA ReplyPending ==
  ASSUME WriterInv, OrderInv, PendingInv, NEW t \in Tickets, answer[t] # NoAnswer,
         Reply(t, answer[t]), NoMore, outcome' = outcome
  PROVE  PendingOK' /\ ToldOK'
<1>1. /\ \A u \in Tickets : pc'[u] = IF u = t THEN "done" ELSE pc[u]
      /\ \A u \in Tickets : reply'[u] = IF u = t THEN answer[t] ELSE reply[u]
      /\ \A u \in Tickets : answer'[u] = IF u = t THEN NoAnswer ELSE answer[u]
  BY DEF Reply, Goto, WriterInv, TypeOK, ThreadsOK, AnswersOK
<1>2. t \notin MayRunAgain /\ t \notin InQueue
  BY DEF PendingInv, PendingOK, MayRunAgain, ToRun
<1>3. InQueue' \subseteq Tickets /\ MayRunAgain' \subseteq Tickets
  BY DEF InQueue, MayRunAgain, ToRun
<1>4. PendingOK'
  BY <1>1, <1>2, <1>3 DEF PendingInv, PendingOK, NoMore
<1>5. ToldOK'
  BY <1>1 DEF PendingInv, ToldOK
<1>6. QED
  BY <1>4, <1>5

(* A caller that leaves the queue is no longer in it, and on SQLite no     *)
(* group holds it.                                                         *)
LEMMA LeavePending ==
  ASSUME WriterInv, OrderInv, PendingInv, NEW t \in Tickets, Leave(t)
  PROVE  PendingOK' /\ ToldOK'
<1>1. /\ pc[t] = "leaving" /\ Goto(t, "done") /\ waiting' = Without(waiting, t)
      /\ reply' = [reply EXCEPT ![t] = Fault]
      /\ UNCHANGED <<answer, outcome, holder, group, at, tx, conn, latched>>
  BY DEF Leave, groupVars, storeVars
<1>2. /\ \A u \in Tickets : pc'[u] = IF u = t THEN "done" ELSE pc[u]
      /\ \A u \in Tickets : reply'[u] = IF u = t THEN Fault ELSE reply[u]
  BY <1>1 DEF Goto, WriterInv, TypeOK, ThreadsOK, AnswersOK
<1>3. t \notin InQueue'
  <2>1. waiting \in Seq(Tickets)
    BY DEF WriterInv, TypeOK, QueueOK
  <2>2. \A i, j \in 1..Len(waiting) : waiting[i] = waiting[j] => i = j
    BY GroupApart
  <2>3. \A i \in 1..Len(waiting') : waiting'[i] # t
    BY <1>1, <2>1, <2>2, WithoutIt
  <2>4. QED
    BY <2>3 DEF InQueue
<1>4. t \in MayRunAgain' => Backend = "postgres"
  <2>1. Stage' = Stage
    BY <1>1, StageStays DEF Leading
  <2>2. Backend # "postgres" => Stage = "free"
    BY <1>1, GroupCommitAssumption, StageTyped DEF PendingInv, LatchOK
  <2>3. QED
    BY <1>3, <2>1, <2>2 DEF MayRunAgain, ToRun
<1>5. InQueue' \subseteq Tickets /\ MayRunAgain' \subseteq Tickets
  BY DEF InQueue, MayRunAgain, ToRun
<1>6. PendingOK'
  BY <1>1, <1>2, <1>3, <1>4, <1>5, LeaveOrdered DEF PendingInv, PendingOK, NoMore
<1>7. ToldOK'
  BY <1>1, <1>2 DEF PendingInv, ToldOK
<1>8. QED
  BY <1>6, <1>7

LEMMA LeavesPending ==
  ASSUME WriterInv, OrderInv, PendingInv, NEW t \in Tickets,
         TakeRefused(t) \/ Leave(t) \/ AnsweredFirst(t) \/ Check(t)
  PROVE  PendingInv'
<1>1. /\ UNCHANGED <<group, answers, outcome, latched>>
      /\ \/ pc[t] = "holding" /\ holder' = Nobody
         \/ pc[t] \in {"refused", "leaving", "check"} /\ holder' = holder
  BY DEF TakeRefused, Leave, AnsweredFirst, Check, groupVars, storeVars
<1>2. PICK place \in {"done", "leaving", "locking"} :
        Goto(t, place) /\ (place = "leaving" => pc[t] = "refused")
  BY DEF TakeRefused, Leave, AnsweredFirst, Check, Reply
<1>3. Stage' = Stage \/ Stage' = "free"
  BY <1>1, <1>2, StageStays, StageFreed DEF Leading
<1>4. NoMore
  BY LeaveOrdered
<1>5. PendingOK' /\ ToldOK'
  <2>1. CASE Leave(t)
    BY <2>1, LeavePending
  <2>2. CASE answer[t] # NoAnswer /\ Reply(t, answer[t])
    BY <1>1, <1>4, <2>2, ReplyPending
  <2>3. CASE /\ pc[t] \in {"refused", "check"}
             /\ Goto(t, "leaving") \/ Goto(t, "locking")
             /\ UNCHANGED <<answer, reply>>
    BY <1>1, <1>4, <2>3, PendingKept DEF NoMore
  <2>4. QED
    BY <2>1, <2>2, <2>3 DEF TakeRefused, AnsweredFirst, Check
<1>6. GiveOK'
  BY <1>1, <1>3 DEF PendingInv, GiveOK, InGroup, GroupAnswer
<1>7. LatchOK'
  <2>1. \A u \in Tickets : pc'[u] = IF u = t THEN place ELSE pc[u]
    BY <1>2 DEF Goto, WriterInv, TypeOK, ThreadsOK
  <2>2. QED
    BY <1>1, <1>2, <2>1 DEF PendingInv, LatchOK
<1>8. QED
  BY <1>5, <1>6, <1>7 DEF PendingInv

(* The steps that answer nobody and commit nothing.                        *)
LEMMA QuietPending ==
  ASSUME WriterInv, OrderInv, PendingInv, NEW t \in Tickets,
         Drain(t) \/ Release(t) \/ BeginGroup(t) \/ BeginGroupFails(t)
           \/ RunNext(t) \/ RunFails(t) \/ RunPanics(t) \/ CommitFails(t)
  PROVE  PendingInv'
<1>1. /\ pc[t] \in Leading
      /\ UNCHANGED <<answer, reply, outcome, latched>>
      /\ \/ /\ \E place \in {"alone", "begin", "release", "run", "commit"} :
                 Goto(t, place)
            /\ holder' = holder
         \/ Goto(t, "check") /\ holder' = Nobody
  BY DEF Drain, Release, BeginGroup, BeginGroupFails, RunNext, RunFails, RunPanics,
         CommitFails, EachAlone, storeVars, Leading
<1>2. PICK place \in {"alone", "begin", "release", "run", "commit", "check"} :
           Goto(t, place)
  BY <1>1
<1>3. NoMore
  BY DrainOrdered, ReleaseOrdered, BeginGroupOrdered, GroupFailsOrdered,
     RunNextOrdered
<1>4. Stage' # "give"
  BY <1>1, StageTyped, StageMoves, StageFreed
<1>5. PendingOK' /\ ToldOK'
  BY <1>1, <1>2, <1>3, PendingKept DEF NoMore, Leading
<1>6. GiveOK'
  BY <1>4 DEF GiveOK
<1>7. LatchOK'
  <2>1. \A u \in Tickets : pc'[u] = IF u = t THEN place ELSE pc[u]
    BY <1>2 DEF Goto, WriterInv, TypeOK, ThreadsOK
  <2>2. QED
    BY <1>1, <2>1 DEF PendingInv, LatchOK
<1>8. QED
  BY <1>5, <1>6, <1>7 DEF PendingInv

LEMMA CommitPending ==
  ASSUME WriterInv, OrderInv, PendingInv, NEW t \in Tickets,
         CommitGroup(t) \/ CommitInDoubt(t)
  PROVE  PendingInv'
<1>1. /\ pc[t] = "commit" /\ outcome' = GroupRan
      /\ UNCHANGED <<waiting, holder, arrived, answer, reply, latched, group, answers>>
  BY DEF CommitGroup, CommitInDoubt, EachAlone, groupVars
<1>2. PICK place \in {"give", "release", "alone"} :
        Goto(t, place) /\ (place = "alone" => conn' = "given_up")
  BY DEF CommitGroup, CommitInDoubt, EachAlone
<1>3. Stage = "commit" /\ Stage' = place /\ InQueue' = InQueue
  BY <1>1, <1>2, HolderOrdered DEF OnGroup
<1>4. \A u \in Tickets : outcome'[u] = IF InGroup(u) THEN GroupAnswer(u) ELSE outcome[u]
  BY <1>1 DEF GroupRan, InGroup, GroupAnswer
<1>5. \A u \in Tickets : pc'[u] = IF u = t THEN place ELSE pc[u]
  BY <1>2 DEF Goto, WriterInv, TypeOK, ThreadsOK
<1>6. \A u \in Tickets : InGroup(u) =>
        answer[u] = NoAnswer /\ outcome[u] = NoAnswer /\ pc[u] # "idle"
  BY <1>3, GroupApart DEF MayRunAgain, PendingInv, PendingOK
<1>7. MayRunAgain' \subseteq InQueue /\ InQueue \subseteq MayRunAgain
      /\ InQueue \subseteq Tickets
  BY <1>2, <1>3 DEF MayRunAgain, ToRun, MayBegin, InQueue
<1>8. PendingOK'
  BY <1>1, <1>3, <1>4, <1>5, <1>7, GroupApart DEF PendingInv, PendingOK
<1>9. ToldOK'
  BY <1>1, <1>4, <1>5, <1>6 DEF PendingInv, ToldOK
<1>10. GiveOK'
  BY <1>1, <1>4 DEF GiveOK, InGroup, GroupAnswer
<1>11. LatchOK'
  BY <1>1, <1>2, LatchKept
<1>12. QED
  BY <1>8, <1>9, <1>10, <1>11 DEF PendingInv

LEMMA GivePending ==
  ASSUME WriterInv, OrderInv, PendingInv, NEW t \in Tickets, GiveAnswers(t)
  PROVE  PendingInv'
<1>1. /\ pc[t] = "give" /\ Goto(t, "release")
      /\ UNCHANGED <<waiting, holder, arrived, group, outcome, reply, latched>>
      /\ \A u \in Tickets :
           answer'[u] = IF InGroup(u) THEN GroupAnswer(u) ELSE answer[u]
  BY DEF GiveAnswers, groupVars, storeVars, InGroup, GroupAnswer
<1>2. Stage = "give" /\ Stage' = "release" /\ InQueue' = InQueue
  BY <1>1, HolderOrdered DEF OnGroup
<1>3. \A u \in Tickets : pc'[u] = IF u = t THEN "release" ELSE pc[u]
  BY <1>1 DEF Goto, WriterInv, TypeOK, ThreadsOK
<1>4. MayRunAgain' \subseteq InQueue /\ InQueue \subseteq MayRunAgain
      /\ InQueue \subseteq Tickets
  BY <1>2 DEF MayRunAgain, ToRun, InQueue
<1>5. \A u \in Tickets : InGroup(u) => GroupAnswer(u) = outcome[u] /\ pc[u] # "idle"
  BY <1>2, GroupApart DEF PendingInv, GiveOK
<1>6. PendingOK'
  BY <1>1, <1>2, <1>3, <1>4, GroupApart DEF PendingInv, PendingOK
<1>7. ToldOK'
  BY <1>1, <1>3, <1>5 DEF PendingInv, ToldOK
<1>8. GiveOK' /\ LatchOK'
  BY <1>1, <1>2, LatchKept DEF GiveOK
<1>9. QED
  BY <1>6, <1>7, <1>8 DEF PendingInv

LEMMA AlonePending ==
  ASSUME WriterInv, OrderInv, PendingInv, NEW t \in Tickets, Alone(t)
  PROVE  PendingInv'
<1> DEFINE g == group[at]
<1>1. /\ pc[t] = "alone" /\ at' = at + 1 /\ at \in 1..Len(group) /\ at \in Nat
      /\ g \in Tickets
      /\ UNCHANGED <<waiting, holder, arrived, group, reply, latched>>
  BY AloneSummary, HolderFacts
<1>2. PICK place \in {"release", "alone"} : Goto(t, place)
  BY AloneSummary
<1>3. Stage = "alone" /\ Stage' = place /\ InQueue' = InQueue
  BY <1>1, <1>2, HolderOrdered DEF OnGroup
<1>4. PICK a \in Answers \ {NoAnswer} :
           /\ answer' = [answer EXCEPT ![g] = a]
           /\ \/ MayBegin /\ Ended(g, a)
              \/ /\ ~MayBegin /\ ~MayBegin' /\ UNCHANGED <<db, outcome>>
                 /\ a = Fault
  BY AloneEnds
<1>5. InGroup(g) /\ g \notin InQueue /\ pc[g] # "idle"
  BY <1>1, GroupApart
<1>6. g \notin MayRunAgain'
  <2>1. \A i \in 1..Len(group) : i >= at' => group[i] # g
    BY <1>1, GroupApart
  <2>2. QED
    BY <1>1, <1>3, <1>5, <2>1 DEF MayRunAgain, ToRun
<1>7. MayBegin => outcome[g] = NoAnswer
  BY <1>1, <1>3 DEF PendingInv, PendingOK, MayRunAgain, ToRun
<1> HIDE DEF g
<1>8. /\ \A u \in Tickets : u # g => answer'[u] = answer[u] /\ outcome'[u] = outcome[u]
      /\ answer'[g] = a /\ a \in {Fault, outcome'[g]}
      /\ outcome'[g] = outcome[g] \/ outcome[g] = NoAnswer
  <2>1. answer \in [Tickets -> Answers] /\ outcome \in [Tickets -> Answers]
    BY HolderFacts
  <2>2. QED
    BY <1>1, <1>4, <1>7, <2>1 DEF Ended
<1>9. \A u \in Tickets : pc'[u] = IF u = t THEN place ELSE pc[u]
  BY <1>2 DEF Goto, WriterInv, TypeOK, ThreadsOK
<1>10. PendingOK'
  <2>1. InQueue \subseteq Tickets /\ MayRunAgain' \subseteq Tickets
    BY DEF InQueue, MayRunAgain, ToRun
  <2>2. NoMore
    BY AloneOrdered
  <2>3. QED
    BY <1>1, <1>3, <1>6, <1>8, <1>9, <2>1, <2>2 DEF PendingInv, PendingOK, NoMore
<1>11. ToldOK'
  BY <1>1, <1>5, <1>8, <1>9 DEF PendingInv, ToldOK
<1>12. GiveOK' /\ LatchOK'
  BY <1>1, <1>2, <1>3, LatchKept DEF GiveOK
<1>13. QED
  BY <1>10, <1>11, <1>12 DEF PendingInv

LEMMA CrashPending ==
  ASSUME WriterInv, OrderInv, PendingInv, Crash
  PROVE  PendingInv'
<1>1. /\ waiting' = <<>> /\ group' = <<>> /\ holder' = Nobody /\ latched' = FALSE
      /\ outcome' = outcome
  BY DEF Crash
<1>2. /\ \A u \in Tickets : answer'[u] = NoAnswer
      /\ \A u \in Tickets : pc'[u] = IF pc[u] \notin {"idle", "done"} THEN "done" ELSE pc[u]
      /\ \A u \in Tickets : reply'[u] = IF pc[u] \notin {"idle", "done"} THEN Lost ELSE reply[u]
  BY DEF Crash, Open
<1>3. MayRunAgain' = {} /\ InQueue' = {} /\ Stage' = "free"
  BY <1>1, StageFreed DEF MayRunAgain, ToRun, InQueue
<1>4. PendingOK' /\ GiveOK' /\ LatchOK'
  BY <1>1, <1>2, <1>3 DEF PendingOK, GiveOK, LatchOK
<1>5. ToldOK'
  BY <1>1, <1>2 DEF PendingInv, ToldOK
<1>6. QED
  BY <1>4, <1>5 DEF PendingInv

LEMMA PendingInvInit ==
  ASSUME Init
  PROVE  PendingInv
<1>1. MayRunAgain = {} /\ InQueue = {} /\ Stage = "free"
  BY DEF Init, MayRunAgain, ToRun, InQueue, Stage
<1>2. QED
  BY <1>1 DEF Init, PendingInv, PendingOK, ToldOK, GiveOK, LatchOK

LEMMA PendingInvStep ==
  ASSUME WriterInv, OrderInv, PendingInv, [Next]_vars
  PROVE  PendingInv'
<1>1. ASSUME NEW t \in Tickets, Queued(t) PROVE PendingInv'
  BY <1>1, LockPending, LeavesPending, QuietPending DEF Queued
<1>2. ASSUME NEW t \in Tickets, Grouped(t) PROVE PendingInv'
  BY <1>2, QuietPending, CommitPending, GivePending DEF Grouped
<1>3. ASSUME NEW t \in Tickets, Queue(t) \/ Step(t) PROVE PendingInv'
  BY <1>1, <1>2, <1>3, QueuePending, AlonePending DEF Step
<1>4. CASE UNCHANGED vars
  BY <1>4 DEF vars, PendingInv, PendingOK, ToldOK, GiveOK, LatchOK, InGroup,
              GroupAnswer, ToRun, MayRunAgain, InQueue, Stage, MayBegin
<1>5. QED
  BY <1>3, <1>4, CrashPending DEF Next, Finished

-----------------------------------------------------------------------------
(* The answers held for a group, and those given, are answers.             *)
GivenOK ==
  /\ \A i \in 1..Len(answers) : answers[i] # NoAnswer
  /\ \A i \in 1..Len(group) :
       Stage = "release" \/ (Stage = "alone" /\ i < at) =>
         answer[group[i]] # NoAnswer \/ pc[group[i]] = "done"

Kept(u) == u \in InQueue \/ InGroup(u) \/ answer[u] # NoAnswer
HeldInv ==
  /\ \A u \in Tickets : pc[u] \notin {"idle", "done", "leaving"} => Kept(u)
  /\ GivenOK

(* The threads' own steps: the queue loses at most the caller leaving it,  *)
(* and only a caller answered loses its answer.                            *)
LEMMA ThreadHeld ==
  ASSUME WriterInv, OrderInv, HeldInv, NEW t \in Tickets,
         NEW place \in Places \ {"idle", "release", "alone"}, Goto(t, place),
         pc[t] \notin {"idle", "done"}, pc[t] = "leaving" => place = "done",
         Stage' = Stage \/ Stage' \notin {"release", "alone"},
         UNCHANGED <<group, at, answers>>,
         \A u \in InQueue : u # t => u \in InQueue',
         t \in InQueue => t \in InQueue' \/ place = "done",
         \A u \in Tickets : u # t => answer'[u] = answer[u],
         answer'[t] = answer[t] \/ place = "done"
  PROVE  HeldInv'
<1>1. \A u \in Tickets : pc'[u] = IF u = t THEN place ELSE pc[u]
  BY DEF Goto, WriterInv, TypeOK, ThreadsOK
<1>2. \A u \in Tickets : pc'[u] \notin {"idle", "done", "leaving"} => Kept(u)'
  BY <1>1 DEF HeldInv, Kept, InGroup
<1>3. \A i \in 1..Len(group) : group[i] \in Tickets
  BY DEF WriterInv, TypeOK, GroupOK
<1>4. GivenOK'
  BY <1>1, <1>3 DEF HeldInv, GivenOK
<1>5. QED
  BY <1>2, <1>4 DEF HeldInv

LEMMA QueueHeld ==
  ASSUME WriterInv, OrderInv, HeldInv, NEW t \in Tickets, Queue(t)
  PROVE  HeldInv'
<1>1. /\ pc[t] = "idle" /\ Goto(t, "locking") /\ holder' = holder
      /\ waiting' = Append(waiting, t)
      /\ UNCHANGED <<answer, group, at, answers>>
  BY DEF Queue, Pushed, groupVars
<1>2. Stage' = Stage
  BY <1>1, StageStays DEF Leading
<1>3. \A u \in Tickets : pc'[u] = IF u = t THEN "locking" ELSE pc[u]
  BY <1>1 DEF Goto, WriterInv, TypeOK, ThreadsOK
<1>4. InQueue \subseteq InQueue' /\ t \in InQueue'
  <2>1. waiting \in Seq(Tickets)
    BY DEF WriterInv, TypeOK, QueueOK
  <2>2. /\ \A i \in 1..Len(waiting) : i \in 1..Len(waiting') /\ waiting'[i] = waiting[i]
        /\ Len(waiting) + 1 \in 1..Len(waiting') /\ waiting'[Len(waiting) + 1] = t
    BY <1>1, <2>1
  <2>3. QED
    BY <2>2 DEF InQueue
<1>5. \A u \in Tickets : pc'[u] \notin {"idle", "done", "leaving"} => Kept(u)'
  BY <1>1, <1>3, <1>4 DEF HeldInv, Kept, InGroup
<1>6. GivenOK'
  <2>1. \A i \in 1..Len(group) : group[i] \in Tickets
    BY DEF WriterInv, TypeOK, GroupOK
  <2>2. QED
    BY <1>1, <1>2, <1>3, <2>1 DEF HeldInv, GivenOK
<1>7. QED
  BY <1>5, <1>6 DEF HeldInv

LEMMA LockHeld ==
  ASSUME WriterInv, OrderInv, HeldInv, NEW t \in Tickets, Locked(t)
  PROVE  HeldInv'
<1>1. /\ pc[t] = "locking" /\ holder = Nobody
      /\ UNCHANGED <<waiting, answer, group, at, answers>>
      /\ \/ Goto(t, "holding") /\ holder' = t
         \/ Goto(t, "refused") /\ holder' = Nobody
  BY DEF Locked, Lock, LockLatched, LockFindsStoreLost, LockReopens,
         LockUnreachable, LockRefused, MayLock, storeVars, groupVars
<1>2. Stage' \in {"free", "holding"}
  BY <1>1, StageTyped, StageMoves, StageFreed
<1>3. PICK place \in {"holding", "refused"} : Goto(t, place)
  BY <1>1
<1>4. InQueue' = InQueue
  BY <1>1 DEF InQueue
<1>5. QED
  BY <1>1, <1>2, <1>3, <1>4, ThreadHeld DEF Places, Leading

LEMMA LeaveHeld ==
  ASSUME WriterInv, OrderInv, HeldInv, NEW t \in Tickets,
         TakeRefused(t) \/ Leave(t) \/ AnsweredFirst(t) \/ Check(t)
  PROVE  HeldInv'
<1>1. /\ UNCHANGED <<group, at, answers>>
      /\ \/ pc[t] = "holding" /\ holder' = Nobody
         \/ pc[t] \in {"refused", "leaving", "check"} /\ holder' = holder
  BY DEF TakeRefused, Leave, AnsweredFirst, Check, groupVars
<1>2. PICK place \in {"done", "leaving", "locking"} :
        /\ Goto(t, place)
        /\ pc[t] = "leaving" => place = "done"
        /\ \/ waiting' = waiting
           \/ waiting' = Without(waiting, t) /\ place = "done"
        /\ \/ answer' = answer
           \/ answer' = [answer EXCEPT ![t] = NoAnswer] /\ place = "done"
  BY DEF TakeRefused, Leave, AnsweredFirst, Check, Reply
<1>3. Stage' = Stage \/ Stage' = "free"
  BY <1>1, <1>2, StageStays, StageFreed DEF Leading
<1>4. \A u \in InQueue : u # t => u \in InQueue'
  <2>1. ASSUME NEW u \in InQueue, u # t PROVE u \in InQueue'
    <3>1. PICK k \in 1..Len(waiting) : waiting[k] = u
      BY <2>1 DEF InQueue
    <3>2. waiting \in Seq(Tickets) /\ u \in Tickets
      BY <2>1 DEF WriterInv, TypeOK, QueueOK, InQueue
    <3>3. \E i \in 1..Len(waiting') : waiting'[i] = u
      BY <1>2, <2>1, <3>1, <3>2, WithoutKept
    <3>4. QED
      BY <3>2, <3>3 DEF InQueue
  <2>2. QED
    BY <2>1
<1>5. t \in InQueue => t \in InQueue' \/ place = "done"
  BY <1>2 DEF InQueue
<1>6. /\ \A u \in Tickets : u # t => answer'[u] = answer[u]
      /\ answer'[t] = answer[t] \/ place = "done"
  BY <1>2 DEF WriterInv, TypeOK, AnswersOK
<1>7. QED
  BY <1>1, <1>2, <1>3, <1>4, <1>5, <1>6, ThreadHeld DEF Places, Leading

LEMMA DrainHeld ==
  ASSUME WriterInv, OrderInv, HeldInv, NEW t \in Tickets, Drain(t)
  PROVE  HeldInv'
<1>1. /\ pc[t] = "holding" /\ at' = 1 /\ answers' = <<>>
      /\ UNCHANGED <<holder, answer>>
  BY DEF Drain
<1>2. PICK place \in {"alone", "begin"} : Goto(t, place)
  BY DEF Drain
<1>3. Stage = "holding" /\ Stage' = place
  BY <1>1, <1>2, StageTyped, StageMoves DEF Leading
<1>4. \A u \in Tickets : ~InGroup(u)
  <2>1. group = <<>>
    BY <1>3 DEF OrderInv, LineOK, OnGroup
  <2>2. QED
    BY <2>1 DEF InGroup
<1>5. \A u \in InQueue : u \in InQueue' \/ InGroup(u)'
  <2>1. PICK n \in 0..Len(waiting) :
           /\ Len(group') = n /\ Len(waiting') = Len(waiting) - n
           /\ \A i \in 1..n : group'[i] = waiting[i]
           /\ \A j \in 1..Len(waiting') : waiting'[j] = waiting[n + j]
    BY Drained
  <2>2. waiting \in Seq(Tickets) /\ Len(waiting) \in Nat
    BY DEF WriterInv, TypeOK, QueueOK
  <2>3. DOMAIN group' = 1..Len(group')
    BY DrainStep DEF WriterInv, TypeOK, GroupOK
  <2>4. ASSUME NEW k \in 1..Len(waiting)
        PROVE  \/ \E i \in 1..Len(group') : group'[i] = waiting[k]
               \/ \E j \in 1..Len(waiting') : waiting'[j] = waiting[k]
    <3>1. CASE k <= n
      BY <2>1, <3>1
    <3>2. CASE k > n
      <4>1. k - n \in 1..Len(waiting') /\ n + (k - n) = k
        BY <2>1, <2>2, <3>2
      <4>2. QED
        BY <2>1, <4>1
    <3>3. QED
      BY <2>1, <2>2, <3>1, <3>2
  <2>5. QED
    BY <2>3, <2>4 DEF InQueue, InGroup
<1>6. \A u \in Tickets : pc'[u] = IF u = t THEN place ELSE pc[u]
  BY <1>2 DEF Goto, WriterInv, TypeOK, ThreadsOK
<1>7. \A u \in Tickets : pc'[u] \notin {"idle", "done", "leaving"} => Kept(u)'
  BY <1>1, <1>4, <1>5, <1>6 DEF HeldInv, Kept
<1>8. GivenOK'
  BY <1>1, <1>3 DEF GivenOK
<1>9. QED
  BY <1>7, <1>8 DEF HeldInv

LEMMA ReleaseHeld ==
  ASSUME WriterInv, OrderInv, HeldInv, NEW t \in Tickets, Release(t)
  PROVE  HeldInv'
<1>1. /\ pc[t] = "release" /\ Goto(t, "check") /\ holder' = Nobody
      /\ group' = <<>> /\ answers' = <<>> /\ UNCHANGED <<waiting, answer>>
  BY DEF Release
<1>2. Stage = "release"
  BY <1>1, StageTyped DEF Leading
<1>3. \A u \in Tickets : pc'[u] = IF u = t THEN "check" ELSE pc[u]
  BY <1>1 DEF Goto, WriterInv, TypeOK, ThreadsOK
<1>4. \A u \in Tickets : InGroup(u) => answer[u] # NoAnswer \/ pc[u] = "done"
  BY <1>2, GroupApart DEF HeldInv, GivenOK
<1>5. InQueue' = InQueue
  BY <1>1 DEF InQueue
<1>6. \A u \in Tickets : pc'[u] \notin {"idle", "done", "leaving"} => Kept(u)'
  BY <1>1, <1>3, <1>4, <1>5 DEF HeldInv, Kept
<1>7. GivenOK'
  BY <1>1 DEF GivenOK
<1>8. QED
  BY <1>6, <1>7 DEF HeldInv

(* A step of the holder that takes no answer away.                         *)
LEMMA HolderHeld ==
  ASSUME WriterInv, OrderInv, HeldInv, NEW t \in Tickets, pc[t] \in OnGroup,
         NEW place \in OnGroup \cup {"release"}, Goto(t, place),
         UNCHANGED <<holder, waiting, arrived, group>>,
         \A u \in Tickets : answer[u] # NoAnswer => answer'[u] # NoAnswer,
         GivenOK'
  PROVE  HeldInv'
<1>1. \A u \in Tickets : pc'[u] = IF u = t THEN place ELSE pc[u]
  BY DEF Goto, WriterInv, TypeOK, ThreadsOK
<1>2. InQueue' = InQueue
  BY HolderOrdered
<1>3. \A u \in Tickets : pc'[u] \notin {"idle", "done", "leaving"} => Kept(u)'
  BY <1>1, <1>2 DEF HeldInv, Kept, InGroup, OnGroup
<1>4. QED
  BY <1>3 DEF HeldInv

LEMMA GroupedHeld ==
  ASSUME WriterInv, OrderInv, HeldInv, NEW t \in Tickets, Grouped(t)
  PROVE  HeldInv'
<1>1. pc[t] \in OnGroup /\ UNCHANGED <<holder, waiting, arrived, group>>
  BY DEF Grouped, BeginGroup, BeginGroupFails, RunNext, RunFails, RunPanics,
         CommitGroup, CommitFails, CommitInDoubt, GiveAnswers, EachAlone, groupVars,
         OnGroup
<1>2. CASE GiveAnswers(t)
  <2>1. /\ pc[t] = "give" /\ Goto(t, "release") /\ answers' = answers
        /\ \A u \in Tickets :
             answer'[u] = IF InGroup(u) THEN GroupAnswer(u) ELSE answer[u]
    BY <1>2 DEF GiveAnswers, groupVars, InGroup, GroupAnswer
  <2>2. \A u \in Tickets : InGroup(u) => GroupAnswer(u) # NoAnswer
    <3>1. ASSUME NEW u \in Tickets, InGroup(u) PROVE GroupAnswer(u) # NoAnswer
      <4>1. (CHOOSE i \in DOMAIN group : group[i] = u) \in DOMAIN group
        BY <3>1 DEF InGroup
      <4>2. DOMAIN group = 1..Len(answers)
        BY <2>1, HolderFacts
      <4>3. QED
        BY <4>1, <4>2 DEF GroupAnswer, HeldInv, GivenOK
    <3>2. QED
      BY <3>1
  <2>3. GivenOK'
    BY <1>1, <2>1, <2>2, GroupApart DEF HeldInv, GivenOK
  <2>4. QED
    BY <1>1, <2>1, <2>2, <2>3, HolderHeld
<1>3. CASE ~GiveAnswers(t)
  <2>1. answer' = answer
    BY <1>3 DEF Grouped, BeginGroup, BeginGroupFails, RunNext, RunFails, RunPanics,
         CommitGroup, CommitFails, CommitInDoubt
  <2>2. PICK place \in OnGroup \cup {"release"} :
          /\ Goto(t, place)
          /\ place = "release" => group = <<>>
          /\ place = "alone" => at' = 1
    BY <1>3 DEF Grouped, BeginGroup, BeginGroupFails, RunNext, RunFails, RunPanics,
         CommitGroup, CommitFails, CommitInDoubt, EachAlone, OnGroup
  <2>3. Stage' = place
    BY <1>1, <2>2, HolderOrdered
  <2>4. \A i \in 1..Len(answers') : answers'[i] # NoAnswer
    <3>1. CASE answers' = answers
      BY <3>1 DEF HeldInv, GivenOK
    <3>2. CASE RunNext(t)
      <4>1. /\ answers \in Seq(Answers) /\ GoodStore(tx) /\ group[at] \in Tickets
            /\ answers' = Append(answers, Decided(tx, group[at]).answer)
        BY <3>2, HolderFacts, ElementTyped DEF RunNext, GroupWorld
      <4>2. Decided(tx, group[at]).answer # NoAnswer
        BY <4>1, DecidedGood
      <4>3. QED
        BY <4>1, <4>2 DEF HeldInv, GivenOK
    <3>3. QED
      BY <1>3, <3>1, <3>2 DEF Grouped, BeginGroup, BeginGroupFails, RunFails, RunPanics,
         CommitGroup, CommitFails, CommitInDoubt, EachAlone, groupVars
  <2>5. GivenOK'
    BY <1>1, <2>2, <2>3, <2>4 DEF GivenOK
  <2>6. QED
    BY <1>1, <2>1, <2>2, <2>5, HolderHeld
<1>4. QED
  BY <1>2, <1>3

LEMMA AloneHeld ==
  ASSUME WriterInv, OrderInv, HeldInv, NEW t \in Tickets, Alone(t)
  PROVE  HeldInv'
<1>1. /\ pc[t] = "alone" /\ at' = at + 1 /\ at \in 1..Len(group) /\ at \in Nat
      /\ group[at] \in Tickets
      /\ UNCHANGED <<waiting, holder, arrived, group>>
  BY AloneSummary, HolderFacts
<1>2. PICK place \in {"release", "alone"} :
        Goto(t, place) /\ (place = "release" => at = Len(group))
  BY DEF Alone, AloneAnswers, AloneExhausted, AloneErrs, AlonePanics,
         AloneRefused, GiveAlone
<1>3. answers' = answers
  BY DEF Alone, AloneAnswers, AloneExhausted, AloneErrs, AlonePanics,
         AloneRefused, GiveAlone
<1>4. PICK a \in Answers \ {NoAnswer} : answer' = [answer EXCEPT ![group[at]] = a]
  BY AloneEnds
<1>5. Stage = "alone" /\ Stage' = place
  BY <1>1, <1>2, HolderOrdered DEF OnGroup
<1>6. \A u \in Tickets : answer'[u] = IF u = group[at] THEN a ELSE answer[u]
  BY <1>1, <1>4 DEF WriterInv, TypeOK, AnswersOK
<1>7. \A u \in Tickets : pc[u] = "done" => pc'[u] = "done"
  BY <1>1, <1>2 DEF Goto, WriterInv, TypeOK, ThreadsOK
<1>8. GivenOK'
  <2>1. \A i \in 1..Len(group) : group[i] \in Tickets
    BY DEF WriterInv, TypeOK, GroupOK
  <2>2. \A i \in 1..Len(group) :
          place = "release" \/ i < at' => i < at \/ group[i] = group[at]
    BY <1>1, <1>2
  <2>3. QED
    BY <1>1, <1>3, <1>5, <1>6, <1>7, <2>1, <2>2 DEF HeldInv, GivenOK
<1>9. QED
  BY <1>1, <1>2, <1>6, <1>8, HolderHeld DEF OnGroup

LEMMA HeldInvStep ==
  ASSUME WriterInv, OrderInv, HeldInv, [Next]_vars
  PROVE  HeldInv'
<1>1. ASSUME NEW t \in Tickets, Queue(t) \/ Step(t) PROVE HeldInv'
  BY <1>1, QueueHeld, LockHeld, LeaveHeld, DrainHeld, ReleaseHeld, GroupedHeld,
     AloneHeld DEF Step, Queued
<1>2. ASSUME Crash PROVE HeldInv'
  <2>1. /\ group' = <<>> /\ answers' = <<>>
        /\ \A u \in Tickets : pc'[u] \in {"idle", "done"}
    BY <1>2 DEF Crash, Open
  <2>2. QED
    BY <2>1 DEF HeldInv, GivenOK
<1>3. CASE UNCHANGED vars
  BY <1>3 DEF vars, HeldInv, Kept, GivenOK, InQueue, InGroup, Stage
<1>4. QED
  BY <1>1, <1>2, <1>3 DEF Next, Finished

LEMMA HeldInvAlways == Spec => [](WriterInv /\ HeldInv)
<1>1. Init => HeldInv
  BY DEF Init, HeldInv, GivenOK
<1>2. WriterInv /\ OrderInv /\ HeldInv /\ [Next]_vars => HeldInv'
  BY HeldInvStep
<1>3. QED
  BY <1>1, <1>2, OrderInvAlways, PTL DEF Spec

(* A call that queued and is not answered is in the queue, in the group    *)
(* the writer's holder runs, or has its answer waiting for it: no store    *)
(* error, panic, failed commit or lost connection leaves a thread waiting  *)
(* for an answer nobody will give (main.rs, queued, run_group and alone).  *)
THEOREM NoneIsForgotten == Spec => []NoneForgotten
<1>1. WriterInv /\ HeldInv => NoneForgotten
  <2>1. SUFFICES ASSUME WriterInv, HeldInv, NEW t \in Tickets,
                        pc[t] \notin {"idle", "done", "leaving"}
                 PROVE  \/ \E i \in DOMAIN waiting : waiting[i] = t
                        \/ \E i \in DOMAIN group : group[i] = t
                        \/ answer[t] # NoAnswer
    BY DEF NoneForgotten
  <2>2. DOMAIN waiting = 1..Len(waiting)
    BY <2>1 DEF WriterInv, TypeOK, QueueOK
  <2>3. QED
    BY <2>1, <2>2 DEF HeldInv, Kept, InQueue, InGroup
<1>2. QED
  BY <1>1, HeldInvAlways, PTL
=============================================================================
