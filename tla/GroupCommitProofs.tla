-------------------------- MODULE GroupCommitProofs --------------------------
(***************************************************************************)
(* What GroupCommit's runs show on three calls, proved for every set of    *)
(* calls, keys, capacity, group size and number of faults and crashes.     *)
(***************************************************************************)
EXTENDS GroupCommit, TLAPS

(* Each key's record names the one entry of the log its request made.      *)
KeysRecorded(d) ==
  /\ \A k \in Keys : d.keys[k] \in 0..Len(d.log)
  /\ \A i \in 1..Len(d.log) : Keyed(d.log[i].ticket) =>
       d.keys[KeyOf[d.log[i].ticket]] = i

GoodStore(d) == d \in Store /\ KeysRecorded(d)

LEMMA ElementTyped ==
  ASSUME NEW S, NEW s \in Seq(S), NEW i \in 1..Len(s)
  PROVE  s[i] \in S
  OBVIOUS

LEMMA EntryTyped ==
  ASSUME NEW d, d.log \in Seq([ticket : Tickets, number : Nat]),
         NEW i \in 1..Len(d.log)
  PROVE  d.log[i].ticket \in Tickets /\ d.log[i].number \in Nat
<1>1. d.log[i] \in [ticket : Tickets, number : Nat]
  BY ElementTyped
<1>2. QED
  BY <1>1

-----------------------------------------------------------------------------
(* What a decision leaves of a store is a store, its keys recorded.        *)

LEMMA LoggedGood ==
  ASSUME NEW d, GoodStore(d), NEW t \in Tickets
  PROVE  GoodStore(Logged(d, t))
  BY DEF GoodStore, KeysRecorded, Store, Logged

LEMMA DrawnGood ==
  ASSUME NEW d, GoodStore(d)
  PROVE  GoodStore(Drawn(d))
<1>1. d.next + 1 \in Nat
  BY DEF GoodStore, Store
<1>2. Drawn(d) \in Store
  BY <1>1 DEF GoodStore, Store, Drawn
<1>3. Drawn(d).log = d.log /\ Drawn(d).keys = d.keys
  BY DEF GoodStore, Store, Drawn
<1>4. QED
  BY <1>2, <1>3 DEF GoodStore, KeysRecorded

LEMMA AppliedGood ==
  ASSUME NEW d, GoodStore(d), NEW t \in Tickets, HeldAt(d, t) = 0
  PROVE  GoodStore(Applied(d, t))
<1> DEFINE e == [ticket |-> t, number |-> d.next]
           a == Applied(d, t)
<1>1. /\ d.log \in Seq([ticket : Tickets, number : Nat]) /\ d.next \in Nat
      /\ d.keys \in [Keys -> Nat] /\ d.attempts \in SUBSET Tickets
      /\ Len(d.log) + 1 \in Nat /\ d.next + 1 \in Nat
  BY DEF GoodStore, Store
<1>2. KeyOf[t] \in Keys \cup {NoKey}
  BY RequestAssumption
<1> DEFINE ks == IF Keyed(t) THEN [d.keys EXCEPT ![KeyOf[t]] = Len(d.log) + 1]
                 ELSE d.keys
<1>3. /\ a.log = Append(d.log, e) /\ a.next = d.next + 1
      /\ a.attempts = d.attempts
      /\ a.keys = ks
  BY DEF Applied, GoodStore, Store
<1>4. e \in [ticket : Tickets, number : Nat]
  BY <1>1
<1>5. /\ Len(a.log) = Len(d.log) + 1
      /\ \A i \in 1..Len(d.log) : a.log[i] = d.log[i]
      /\ a.log[Len(d.log) + 1] = e
  BY <1>1, <1>3, <1>4
<1>6. a \in Store
  <2>1. Append(d.log, e) \in Seq([ticket : Tickets, number : Nat])
    BY <1>1, <1>4
  <2>2. ks \in [Keys -> Nat]
    BY <1>1, <1>2 DEF Keyed
  <2>3. a = [d EXCEPT !.log = Append(d.log, e), !.next = d.next + 1, !.keys = ks]
    BY DEF Applied
  <2> HIDE DEF a, e, ks
  <2>4. QED
    BY <2>1, <2>2, <2>3, <1>1 DEF Store, GoodStore
<1>7. \A k \in Keys : a.keys[k] \in 0..Len(a.log)
  BY <1>1, <1>3, <1>5 DEF GoodStore, KeysRecorded, Keyed
<1>8. ASSUME NEW i \in 1..Len(a.log), Keyed(a.log[i].ticket)
      PROVE  a.keys[KeyOf[a.log[i].ticket]] = i
  <2>1. CASE i = Len(d.log) + 1
    BY <2>1, <1>1, <1>2, <1>3, <1>5, <1>8 DEF Keyed
  <2>2. CASE i # Len(d.log) + 1
    <3>1. i \in 1..Len(d.log) /\ a.log[i] = d.log[i]
      BY <2>2, <1>1, <1>5
    <3>2. d.log[i].ticket \in Tickets
      BY <3>1, <1>1, EntryTyped
    <3>3. d.keys[KeyOf[d.log[i].ticket]] = i
      BY <3>1, <1>8 DEF GoodStore, KeysRecorded
    <3>4. KeyOf[d.log[i].ticket] \in Keys
      BY <3>1, <3>2, <1>8, RequestAssumption DEF Keyed
    <3>5. Keyed(t) => KeyOf[d.log[i].ticket] # KeyOf[t]
      BY <3>1, <3>3 DEF HeldAt
    <3>6. QED
      BY <3>1, <3>3, <3>4, <3>5, <1>1, <1>3
  <2>3. QED
    BY <2>1, <2>2
<1>9. QED
  BY <1>6, <1>7, <1>8 DEF GoodStore, KeysRecorded

(* A decision answers with a verdict of a run, never with what stands for  *)
(* no answer.                                                              *)
LEMMA DecidedGood ==
  ASSUME NEW d, GoodStore(d), NEW t \in Tickets
  PROVE  /\ GoodStore(Decided(d, t).db)
         /\ Decided(d, t).answer \in Answers
         /\ Decided(d, t).answer # NoAnswer
<1>1. HeldAt(d, t) # 0 => d.log[HeldAt(d, t)].number \in Nat
  <2>1. SUFFICES ASSUME HeldAt(d, t) # 0
                 PROVE  d.log[HeldAt(d, t)].number \in Nat
    OBVIOUS
  <2>2. KeyOf[t] \in Keys
    BY <2>1, RequestAssumption DEF HeldAt, Keyed
  <2>3. HeldAt(d, t) \in 1..Len(d.log)
    BY <2>1, <2>2 DEF HeldAt, Keyed, GoodStore, KeysRecorded, Store
  <2>4. QED
    BY <2>3, EntryTyped DEF GoodStore, Store
<1>2. d.next \in Nat
  BY DEF GoodStore, Store
<1>3. GoodStore(Logged(d, t)) /\ GoodStore(Logged(Drawn(d), t))
  BY LoggedGood, DrawnGood
<1>4. HeldAt(d, t) = 0 => GoodStore(Applied(d, t))
  BY AppliedGood
<1>5. QED
  BY <1>1, <1>2, <1>3, <1>4 DEF Decided, Answer, Answers, Verdicts, NoAnswer

LEMMA LeftGood ==
  ASSUME NEW d, GoodStore(d), NEW t \in Tickets, NEW left \in LeftByError(d, t)
  PROVE  GoodStore(left)
  BY DecidedGood, DrawnGood DEF LeftByError

-----------------------------------------------------------------------------
(* The inductive invariant: the types, the writer held by one thread, and  *)
(* the keys recorded in the store and in the transaction open on it.       *)
WriterInv ==
  /\ TypeOK
  /\ KeysRecorded(db)
  /\ tx # NoTx => KeysRecorded(tx)

Good == GoodStore(db) /\ (tx = NoTx \/ GoodStore(tx))

LEMMA WriterInvGood ==
  ASSUME WriterInv
  PROVE  Good
  BY GroupCommitAssumption DEF WriterInv, TypeOK, StoresOK, Good, GoodStore

(* A thread that holds the writer holds it alone.                          *)
LEMMA LeaderAlone ==
  ASSUME ThreadsOK, NEW t \in Tickets, pc[t] \in Leading
  PROVE  /\ holder = t
         /\ \A u \in Tickets : u # t => pc[u] \notin Leading
  BY DEF ThreadsOK

(* A thread moves keeping the writer or not holding it, takes it free, or  *)
(* drops it.                                                               *)
LEMMA ThreadMoves ==
  ASSUME ThreadsOK, NEW t \in Tickets, NEW place \in Places, Goto(t, place),
         \/ holder' = holder /\ (pc[t] \in Leading <=> place \in Leading)
         \/ holder = Nobody /\ holder' = t /\ place \in Leading
         \/ pc[t] \in Leading /\ holder' = Nobody /\ place \notin Leading
  PROVE  ThreadsOK'
<1>1. pc' \in [Tickets -> Places] /\ pc'[t] = place
      /\ \A u \in Tickets : u # t => pc'[u] = pc[u]
  BY DEF ThreadsOK, Goto
<1>2. holder' \in Tickets \cup {Nobody}
  BY DEF ThreadsOK
<1>3. \A u \in Tickets : pc'[u] \in Leading <=> holder' = u
  BY <1>1, GroupCommitAssumption DEF ThreadsOK
<1>4. QED
  BY <1>1, <1>2, <1>3 DEF ThreadsOK

(* A step that leaves the group alone, its thread not on its way into it.  *)
OnGroup == {"begin", "run", "commit", "give", "alone"}

LEMMA GroupKept ==
  ASSUME WriterInv, NEW t \in Tickets, NEW place \in Places \ OnGroup,
         Goto(t, place), UNCHANGED groupVars
  PROVE  GroupOK'
<1>1. \A u \in Tickets : pc'[u] \in OnGroup => pc[u] = pc'[u]
  BY DEF WriterInv, TypeOK, ThreadsOK, Goto
<1>2. QED
  BY <1>1 DEF WriterInv, TypeOK, GroupOK, groupVars, OnGroup

(* A step that leaves the store alone, its thread not on its way into a    *)
(* transaction.                                                            *)
LEMMA StoreKept ==
  ASSUME WriterInv, NEW t \in Tickets, NEW place \in Places \ {"run", "commit"},
         Goto(t, place), UNCHANGED <<db, tx>>,
         conn' \in {"usable", "given_up", "none"}, latched' \in BOOLEAN
  PROVE  StoresOK' /\ KeysRecorded(db)' /\ (tx # NoTx => KeysRecorded(tx))'
<1>1. \A u \in Tickets : pc'[u] \in {"run", "commit"} => pc[u] = pc'[u]
  BY DEF WriterInv, TypeOK, ThreadsOK, Goto
<1>2. QED
  BY <1>1 DEF WriterInv, TypeOK, StoresOK, KeysRecorded, Keyed

(* A step of the thread that holds the writer, or takes it free, that      *)
(* leaves good stores and enters a transaction only where one is open.     *)
LEMMA StoreChanged ==
  ASSUME WriterInv, NEW t \in Tickets, NEW place \in Places, Goto(t, place),
         pc[t] \in Leading \/ holder = Nobody,
         GoodStore(db'), tx' = NoTx \/ GoodStore(tx'),
         place \in {"run", "commit"} => tx' # NoTx,
         conn' \in {"usable", "given_up", "none"}, latched' \in BOOLEAN
  PROVE  StoresOK' /\ KeysRecorded(db)' /\ (tx # NoTx => KeysRecorded(tx))'
<1>1. \A u \in Tickets : u # t => pc'[u] \notin {"run", "commit"}
  <2>1. \A u \in Tickets : u # t => pc[u] \notin {"run", "commit"}
    BY GroupCommitAssumption DEF WriterInv, TypeOK, ThreadsOK, Leading
  <2>2. QED
    BY <2>1 DEF WriterInv, TypeOK, ThreadsOK, Goto
<1>2. pc'[t] = place
  BY DEF WriterInv, TypeOK, ThreadsOK, Goto
<1>3. \A u \in Tickets : pc'[u] \in {"run", "commit"} => tx' # NoTx
  BY <1>1, <1>2
<1>4. QED
  BY <1>3 DEF StoresOK, GoodStore, KeysRecorded

(* The same of the group it runs.                                          *)
LEMMA GroupChanged ==
  ASSUME WriterInv, NEW t \in Tickets, NEW place \in Places, Goto(t, place),
         pc[t] \in Leading,
         group' \in Seq(Tickets), Len(group') <= GroupMost,
         at' \in Nat \ {0}, answers' \in Seq(Answers),
         place \in {"run", "alone"} => at' \in 1..Len(group'),
         place \in {"begin", "run"} => Len(answers') = at' - 1,
         place = "begin" => at' = 1,
         place \in {"commit", "give"} => Len(answers') = Len(group')
  PROVE  GroupOK'
<1>1. \A u \in Tickets : u # t => pc'[u] \notin OnGroup
  BY LeaderAlone DEF WriterInv, TypeOK, ThreadsOK, Goto, Leading, OnGroup
<1>2. pc'[t] = place
  BY DEF WriterInv, TypeOK, ThreadsOK, Goto
<1>3. QED
  BY <1>1, <1>2 DEF GroupOK, OnGroup

LEMMA AnswerTypes ==
  /\ NoAnswer \in Answers /\ Fault \in Answers /\ Lost \in Answers
  /\ Exhausted \in Answers
  BY DEF NoAnswer, Fault, Lost, Exhausted, Answers, Answer, Verdicts

LEMMA RepliesTyped ==
  ASSUME AnswersOK, NEW t \in Tickets, NEW a \in Answers, Reply(t, a),
         UNCHANGED outcome
  PROVE  AnswersOK'
  BY AnswerTypes DEF AnswersOK, Reply

(* RollBack and Reopened keep the store's types.                           *)
LEMMA RolledBack ==
  ASSUME WriterInv, RollBack \/ Reopened
  PROVE  /\ tx' = NoTx \/ GoodStore(tx')
         /\ conn' \in {"usable", "given_up", "none"}
<1>1. Good
  BY WriterInvGood
<1>2. conn \in {"usable", "given_up", "none"}
  BY DEF WriterInv, TypeOK, StoresOK
<1>3. QED
  BY <1>1, <1>2 DEF Good, RollBack, Reopened, LeftOpen

-----------------------------------------------------------------------------
(* One step lemma for each part of queued: taking the writer,              *)

LEMMA QueueStep ==
  ASSUME WriterInv, NEW t \in Tickets, Queue(t)
  PROVE  WriterInv'
<1>1. pc[t] = "idle" /\ Goto(t, "locking") /\ UNCHANGED <<groupVars, storeVars>>
  BY DEF Queue
<1>2. ThreadsOK'
  BY <1>1, ThreadMoves DEF Queue, WriterInv, TypeOK, Places, Leading
<1>3. QueueOK'
  BY DEF Queue, Pushed, WriterInv, TypeOK, QueueOK
<1>4. GroupOK'
  BY <1>1, GroupKept DEF Places, Leading, OnGroup
<1>5. AnswersOK'
  BY <1>1 DEF Queue, WriterInv, TypeOK, AnswersOK, storeVars
<1>6. StoresOK' /\ KeysRecorded(db)' /\ (tx # NoTx => KeysRecorded(tx))'
  BY <1>1, StoreKept DEF Places, Leading, storeVars, WriterInv, TypeOK, StoresOK
<1>7. QED
  BY <1>2, <1>3, <1>4, <1>5, <1>6 DEF WriterInv, TypeOK

LEMMA LockStep ==
  ASSUME WriterInv, NEW t \in Tickets, Locked(t)
  PROVE  WriterInv'
<1>1. /\ pc[t] = "locking" /\ holder = Nobody
      /\ UNCHANGED <<waiting, arrived, answer, reply, outcome, groupVars>>
      /\ \/ Goto(t, "holding") /\ holder' = t
         \/ Goto(t, "refused") /\ holder' = Nobody
      /\ db' = db /\ (tx' = tx \/ tx' = NoTx)
      /\ conn' \in {conn, "usable", "none"} /\ latched' \in {latched, TRUE}
  BY DEF Locked, Lock, LockLatched, LockFindsStoreLost, LockReopens,
         LockUnreachable, LockRefused, MayLock, storeVars
<1>2. PICK place \in {"holding", "refused"} : Goto(t, place)
  BY <1>1
<1>3. ThreadsOK'
  BY <1>1, ThreadMoves DEF WriterInv, TypeOK, Places, Leading
<1>4. QueueOK' /\ AnswersOK'
  BY <1>1 DEF WriterInv, TypeOK, QueueOK, AnswersOK
<1>5. GroupOK'
  BY <1>1, <1>2, GroupKept DEF Places, Leading, OnGroup
<1>6. StoresOK' /\ KeysRecorded(db)' /\ (tx # NoTx => KeysRecorded(tx))'
  <2>1. Good /\ conn \in {"usable", "given_up", "none"} /\ latched \in BOOLEAN
    BY WriterInvGood DEF WriterInv, TypeOK, StoresOK
  <2>2. QED
    BY <1>1, <1>2, <2>1, StoreChanged DEF Good, Places, Leading
<1>7. QED
  BY <1>3, <1>4, <1>5, <1>6 DEF WriterInv, TypeOK

LEMMA WithoutTyped ==
  ASSUME NEW q \in Seq(Tickets), NEW t \in Tickets
  PROVE  Without(q, t) \in Seq(Tickets)
<1>1. SUFFICES ASSUME \E i \in DOMAIN q : q[i] = t
               PROVE  Without(q, t) \in Seq(Tickets)
  BY DEF Without
<1> DEFINE i == CHOOSE i \in DOMAIN q : q[i] = t
           w == [j \in 1..Len(q) - 1 |-> IF j < i THEN q[j] ELSE q[j + 1]]
<1>2. Len(q) \in Nat /\ Len(q) - 1 \in Nat
  BY <1>1
<1>3. w \in [1..Len(q) - 1 -> Tickets]
  <2>1. \A j \in 1..Len(q) - 1 : q[j] \in Tickets /\ q[j + 1] \in Tickets
    BY <1>2
  <2>2. QED
    BY <2>1
<1>4. Without(q, t) = w
  BY <1>1 DEF Without
<1>5. QED
  BY <1>2, <1>3, <1>4

(* leaving the queue, the writer dropped and the ticket looked at,         *)

LEMMA LeaveStep ==
  ASSUME WriterInv, NEW t \in Tickets,
         TakeRefused(t) \/ Leave(t) \/ AnsweredFirst(t) \/ Check(t)
  PROVE  WriterInv'
<1>1. /\ UNCHANGED <<arrived, groupVars, storeVars>>
      /\ \/ pc[t] = "holding" /\ holder' = Nobody
         \/ pc[t] \in {"refused", "leaving", "check"} /\ holder' = holder
  BY DEF TakeRefused, Leave, AnsweredFirst, Check
<1>2. PICK place \in {"done", "leaving", "locking"} : Goto(t, place)
  BY DEF TakeRefused, Leave, AnsweredFirst, Check, Reply
<1>3. ThreadsOK'
  BY <1>1, <1>2, ThreadMoves DEF WriterInv, TypeOK, Places, Leading
<1>4. QueueOK'
  <2>1. waiting' = waiting \/ waiting' = Without(waiting, t)
    BY DEF TakeRefused, Leave, AnsweredFirst, Check
  <2>2. Without(waiting, t) \in Seq(Tickets)
    BY WithoutTyped DEF WriterInv, TypeOK, QueueOK
  <2>3. QED
    BY <1>1, <2>1, <2>2 DEF WriterInv, TypeOK, QueueOK
<1>5. GroupOK'
  BY <1>1, <1>2, GroupKept DEF Places, Leading, OnGroup
<1>6. AnswersOK'
  <2>1. outcome' = outcome /\ answer[t] \in Answers
    BY <1>1 DEF storeVars, WriterInv, TypeOK, AnswersOK
  <2>2. \/ Reply(t, answer[t])
        \/ UNCHANGED <<answer, reply>>
        \/ UNCHANGED answer /\ reply' = [reply EXCEPT ![t] = Fault]
    BY DEF TakeRefused, Leave, AnsweredFirst, Check
  <2>3. QED
    BY <2>1, <2>2, RepliesTyped, AnswerTypes DEF WriterInv, TypeOK, AnswersOK
<1>7. StoresOK' /\ KeysRecorded(db)' /\ (tx # NoTx => KeysRecorded(tx))'
  BY <1>1, <1>2, StoreKept
     DEF Places, Leading, storeVars, WriterInv, TypeOK, StoresOK
<1>8. QED
  BY <1>3, <1>4, <1>5, <1>6, <1>7 DEF WriterInv, TypeOK

LEMMA ReleaseStep ==
  ASSUME WriterInv, NEW t \in Tickets, Release(t)
  PROVE  WriterInv'
<1>1. /\ pc[t] = "release" /\ Goto(t, "check") /\ holder' = Nobody
      /\ group' = <<>> /\ at' = 1 /\ answers' = <<>>
      /\ UNCHANGED <<waiting, answer, reply, arrived, storeVars>>
  BY DEF Release
<1>2. ThreadsOK'
  BY <1>1, ThreadMoves DEF WriterInv, TypeOK, Places, Leading
<1>3. QueueOK' /\ AnswersOK'
  BY <1>1 DEF WriterInv, TypeOK, QueueOK, AnswersOK, storeVars
<1>4. GroupOK'
  BY <1>1, GroupChanged, GroupCommitAssumption DEF Places, Leading
<1>5. StoresOK' /\ KeysRecorded(db)' /\ (tx # NoTx => KeysRecorded(tx))'
  BY <1>1, StoreKept DEF Places, Leading, storeVars, WriterInv, TypeOK, StoresOK
<1>6. QED
  BY <1>2, <1>3, <1>4, <1>5 DEF WriterInv, TypeOK

(* the queue drained into a group,                                         *)

LEMMA DrainStep ==
  ASSUME WriterInv, NEW t \in Tickets, Drain(t)
  PROVE  WriterInv'
<1> DEFINE n == Least(Len(waiting), GroupMost)
<1>1. /\ waiting \in Seq(Tickets)
      /\ n \in 0..Len(waiting) /\ n <= GroupMost
  BY GroupCommitAssumption DEF WriterInv, TypeOK, QueueOK, Least
<1>2. /\ pc[t] = "holding"
      /\ group' = SubSeq(waiting, 1, n) /\ waiting' = After(n)
      /\ Goto(t, IF n = 1 THEN "alone" ELSE "begin")
      /\ at' = 1 /\ answers' = <<>>
      /\ UNCHANGED <<holder, answer, reply, arrived, storeVars>>
  BY DEF Drain
<1> HIDE DEF n
<1>3. group' \in Seq(Tickets) /\ Len(group') = n
  BY <1>1, <1>2
<1>4. PICK place \in {"alone", "begin"} :
        Goto(t, place) /\ (place = "alone" => n = 1)
  BY <1>2
<1>5. ThreadsOK'
  BY <1>2, <1>4, ThreadMoves DEF WriterInv, TypeOK, Places, Leading
<1>6. QueueOK' /\ AnswersOK'
  BY <1>1, <1>2 DEF WriterInv, TypeOK, QueueOK, AnswersOK, After, storeVars
<1>7. GroupOK'
  BY <1>1, <1>2, <1>3, <1>4, GroupChanged DEF Places, Leading
<1>8. StoresOK' /\ KeysRecorded(db)' /\ (tx # NoTx => KeysRecorded(tx))'
  BY <1>2, <1>4, StoreKept
     DEF Places, Leading, storeVars, WriterInv, TypeOK, StoresOK
<1>9. QED
  BY <1>5, <1>6, <1>7, <1>8 DEF WriterInv, TypeOK

-----------------------------------------------------------------------------
(* One step lemma for each part of run_group and alone.  What a step of    *)
(* the holder must show to keep the invariant, whatever else it does.      *)
LEMMA HolderStep ==
  ASSUME WriterInv, NEW t \in Tickets, pc[t] \in Leading,
         NEW place \in Leading, Goto(t, place),
         UNCHANGED <<waiting, arrived, holder, reply>>,
         answer' \in [Tickets -> Answers], outcome' \in [Tickets -> Answers],
         GoodStore(db'), tx' = NoTx \/ GoodStore(tx'),
         place \in {"run", "commit"} => tx' # NoTx,
         conn' \in {"usable", "given_up", "none"}, latched' = latched,
         group' = group, at' \in Nat \ {0}, answers' \in Seq(Answers),
         place \in {"run", "alone"} => at' \in 1..Len(group),
         place \in {"begin", "run"} => Len(answers') = at' - 1,
         place = "begin" => at' = 1,
         place \in {"commit", "give"} => Len(answers') = Len(group)
  PROVE  WriterInv'
<1>1. place \in Places /\ latched' \in BOOLEAN
  BY DEF Places, WriterInv, TypeOK, StoresOK
<1>2. ThreadsOK'
  BY <1>1, ThreadMoves DEF WriterInv, TypeOK
<1>3. QueueOK' /\ AnswersOK'
  BY DEF WriterInv, TypeOK, QueueOK, AnswersOK
<1>4. group' \in Seq(Tickets) /\ Len(group') <= GroupMost
  BY DEF WriterInv, TypeOK, GroupOK
<1>5. GroupOK'
  BY <1>1, <1>4, GroupChanged
<1>6. StoresOK' /\ KeysRecorded(db)' /\ (tx # NoTx => KeysRecorded(tx))'
  BY <1>1, StoreChanged
<1>7. QED
  BY <1>2, <1>3, <1>5, <1>6 DEF WriterInv, TypeOK

(* The invariant's facts a step of the holder starts from.                 *)
LEMMA HolderFacts ==
  ASSUME WriterInv, NEW t \in Tickets
  PROVE  /\ answer \in [Tickets -> Answers] /\ outcome \in [Tickets -> Answers]
         /\ GoodStore(db) /\ (tx = NoTx \/ GoodStore(tx))
         /\ conn \in {"usable", "given_up", "none"}
         /\ group \in Seq(Tickets) /\ Len(group) \in Nat
         /\ at \in Nat \ {0} /\ answers \in Seq(Answers)
         /\ pc[t] \in {"run", "alone"} => at \in 1..Len(group)
         /\ pc[t] \in {"begin", "run"} => Len(answers) = at - 1
         /\ pc[t] = "begin" => at = 1
         /\ pc[t] \in {"commit", "give"} => Len(answers) = Len(group)
         /\ pc[t] \in {"run", "commit"} => tx # NoTx
  BY WriterInvGood DEF WriterInv, TypeOK, AnswersOK, GroupOK, StoresOK, Good

(* A group run again alone starts from its first request.                  *)
LEMMA AloneNext ==
  ASSUME WriterInv, NEW t \in Tickets, pc[t] \in Leading, EachAlone(t),
         UNCHANGED <<waiting, arrived, holder, answer, reply, latched>>,
         outcome' \in [Tickets -> Answers],
         GoodStore(db'), tx' = NoTx \/ GoodStore(tx'),
         conn' \in {"usable", "given_up", "none"}
  PROVE  WriterInv'
<1>1. PICK place \in {"release", "alone"} :
        Goto(t, place) /\ (place = "alone" => group # <<>>)
  BY DEF EachAlone
<1>2. at' = 1 /\ UNCHANGED <<group, answers>>
  BY DEF EachAlone
<1>3. group # <<>> => 1 \in 1..Len(group)
  BY HolderFacts
<1>4. place \in Leading /\ place \notin {"run", "commit", "begin", "give"}
  BY DEF Leading
<1>5. QED
  BY <1>1, <1>2, <1>3, <1>4, HolderFacts, HolderStep

(* The answers of a group that has run in full.                            *)
LEMMA AnswersGiven ==
  ASSUME WriterInv, Len(answers) = Len(group), NEW u \in Tickets,
         \E i \in DOMAIN group : group[i] = u
  PROVE  answers[CHOOSE i \in DOMAIN group : group[i] = u] \in Answers
<1>1. (CHOOSE i \in DOMAIN group : group[i] = u) \in DOMAIN group
  OBVIOUS
<1>2. group \in Seq(Tickets) /\ answers \in Seq(Answers)
  BY DEF WriterInv, TypeOK, GroupOK
<1>3. (CHOOSE i \in DOMAIN group : group[i] = u) \in 1..Len(answers)
  BY <1>1, <1>2
<1>4. QED
  BY <1>2, <1>3, ElementTyped

LEMMA GroupRanTyped ==
  ASSUME WriterInv, Len(answers) = Len(group)
  PROVE  GroupRan \in [Tickets -> Answers]
  BY AnswersGiven DEF GroupRan, WriterInv, TypeOK, AnswersOK

(* Every way a group is rolled back.                                       *)
LEMMA GroupFailsStep ==
  ASSUME WriterInv, NEW t \in Tickets,
         BeginGroupFails(t) \/ RunFails(t) \/ RunPanics(t) \/ CommitFails(t)
  PROVE  WriterInv'
<1>1. /\ pc[t] \in Leading /\ EachAlone(t)
      /\ UNCHANGED <<waiting, holder, answer, reply, arrived, db, latched, outcome>>
      /\ BeginRefused \/ RollBack \/ Reopened
  BY DEF BeginGroupFails, RunFails, RunPanics, CommitFails, Leading
<1>2. /\ tx' = NoTx \/ GoodStore(tx')
      /\ conn' \in {"usable", "given_up", "none"}
  BY <1>1, RolledBack, HolderFacts DEF BeginRefused, LeftOpen
<1>3. GoodStore(db') /\ outcome' \in [Tickets -> Answers]
  BY <1>1, HolderFacts
<1>4. QED
  BY <1>1, <1>2, <1>3, AloneNext

LEMMA BeginGroupStep ==
  ASSUME WriterInv, NEW t \in Tickets, BeginGroup(t)
  PROVE  WriterInv'
<1>1. /\ pc[t] = "begin" /\ tx' = db
      /\ UNCHANGED <<waiting, holder, answer, reply, arrived, group, at, answers,
                     db, conn, latched, outcome>>
  BY DEF BeginGroup, MayBegin, Begun, groupVars
<1>2. tx' # NoTx
  BY <1>1, HolderFacts, GroupCommitAssumption DEF GoodStore
<1>3. PICK place \in {"commit", "run"} :
        /\ Goto(t, place)
        /\ place = "commit" => group = <<>>
        /\ place = "run" => group # <<>>
  BY DEF BeginGroup
<1>4. at = 1 /\ Len(answers) = 0
  BY <1>1, HolderFacts
<1>5. /\ place = "commit" => Len(answers) = Len(group)
      /\ place = "run" => at \in 1..Len(group)
  BY <1>3, <1>4, HolderFacts
<1>6. place \in Leading /\ place \notin {"begin", "alone", "give"}
      /\ pc[t] \in Leading
  BY <1>1 DEF Leading
<1>7. QED
  BY <1>1, <1>2, <1>3, <1>4, <1>5, <1>6, HolderFacts, HolderStep

LEMMA RunNextStep ==
  ASSUME WriterInv, NEW t \in Tickets, RunNext(t)
  PROVE  WriterInv'
<1> DEFINE d == Decided(tx, group[at])
<1>1. /\ pc[t] = "run" /\ tx' = d.db /\ answers' = Append(answers, d.answer)
      /\ at' = at + 1
      /\ UNCHANGED <<waiting, holder, answer, reply, arrived, group, db, conn,
                     latched, outcome>>
  BY DEF RunNext, GroupWorld
<1>2. /\ GoodStore(tx) /\ group[at] \in Tickets
      /\ at \in 1..Len(group) /\ Len(answers) = at - 1
  BY <1>1, HolderFacts, ElementTyped
<1>3. GoodStore(d.db) /\ d.answer \in Answers
  BY <1>2, DecidedGood
<1> HIDE DEF d
<1>4. tx' # NoTx
  BY <1>1, <1>3, GroupCommitAssumption DEF GoodStore
<1>5. answers' \in Seq(Answers) /\ Len(answers') = at' - 1 /\ at' \in Nat \ {0}
  BY <1>1, <1>2, <1>3, HolderFacts
<1>6. PICK place \in {"commit", "run"} :
        Goto(t, place) /\ (place = "commit" <=> at = Len(group))
  BY DEF RunNext
<1>7. /\ place = "commit" => Len(answers') = Len(group)
      /\ place = "run" => at' \in 1..Len(group)
  BY <1>1, <1>2, <1>5, <1>6, HolderFacts
<1>8. place \in Leading /\ place \notin {"begin", "alone", "give"}
      /\ pc[t] \in Leading
  BY <1>1 DEF Leading
<1>9. QED
  BY <1>1, <1>3, <1>4, <1>5, <1>6, <1>7, <1>8, HolderFacts, HolderStep

LEMMA CommitStep ==
  ASSUME WriterInv, NEW t \in Tickets, CommitGroup(t) \/ CommitInDoubt(t)
  PROVE  WriterInv'
<1>1. /\ pc[t] = "commit" /\ db' = tx /\ tx' = NoTx /\ outcome' = GroupRan
      /\ UNCHANGED <<waiting, holder, answer, reply, arrived, latched>>
      /\ conn' \in {conn, "given_up"}
  BY DEF CommitGroup, CommitInDoubt
<1>2. /\ GoodStore(db') /\ outcome' \in [Tickets -> Answers]
      /\ conn' \in {"usable", "given_up", "none"}
      /\ Len(answers) = Len(group) /\ pc[t] \in Leading
  BY <1>1, HolderFacts, GroupRanTyped DEF Leading
<1>3. CASE CommitInDoubt(t)
  BY <1>1, <1>2, <1>3, AloneNext DEF CommitInDoubt
<1>4. CASE CommitGroup(t)
  <2>1. Goto(t, "give") /\ UNCHANGED <<group, at, answers>>
    BY <1>4 DEF CommitGroup, groupVars
  <2>2. QED
    BY <1>1, <1>2, <2>1, HolderFacts, HolderStep DEF Leading
<1>5. QED
  BY <1>3, <1>4

LEMMA GiveStep ==
  ASSUME WriterInv, NEW t \in Tickets, GiveAnswers(t)
  PROVE  WriterInv'
<1>1. /\ pc[t] = "give" /\ Goto(t, "release")
      /\ UNCHANGED <<waiting, holder, reply, arrived, group, at, answers, db, tx,
                     conn, latched, outcome>>
  BY DEF GiveAnswers, groupVars, storeVars
<1>2. answer' \in [Tickets -> Answers]
  BY <1>1, HolderFacts, AnswersGiven DEF GiveAnswers
<1>3. QED
  BY <1>1, <1>2, HolderFacts, HolderStep DEF Leading

LEMMA GroupedStep ==
  ASSUME WriterInv, NEW t \in Tickets, Grouped(t)
  PROVE  WriterInv'
  BY GroupFailsStep, BeginGroupStep, RunNextStep, CommitStep, GiveStep DEF Grouped

-----------------------------------------------------------------------------
(* A request run alone, however it ends.                                   *)

LEMMA GiveAloneStep ==
  ASSUME WriterInv, NEW t \in Tickets, NEW a \in Answers, GiveAlone(t, a),
         outcome' \in [Tickets -> Answers],
         GoodStore(db'), tx' = NoTx \/ GoodStore(tx'),
         conn' \in {"usable", "given_up", "none"}
  PROVE  WriterInv'
<1>1. /\ pc[t] = "alone" /\ at' = at + 1 /\ at \in 1..Len(group)
      /\ answer' = [answer EXCEPT ![group[at]] = a]
      /\ UNCHANGED <<waiting, holder, reply, arrived, group, answers, latched>>
  BY HolderFacts DEF GiveAlone
<1>2. answer' \in [Tickets -> Answers]
  BY <1>1, HolderFacts
<1>3. PICK place \in {"release", "alone"} :
        Goto(t, place) /\ (place = "alone" => at # Len(group))
  BY DEF GiveAlone
<1>4. at' \in Nat \ {0} /\ (place = "alone" => at' \in 1..Len(group))
  BY <1>1, <1>3, HolderFacts
<1>5. place \in Leading /\ place \notin {"run", "commit", "begin", "give"}
      /\ pc[t] \in Leading
  BY <1>1 DEF Leading
<1>6. QED
  BY <1>1, <1>2, <1>3, <1>4, <1>5, HolderFacts, HolderStep

(* Alone, group[at] is the request run, and every store a decision of it   *)
(* leaves is good.                                                         *)
LEMMA AloneFacts ==
  ASSUME WriterInv, NEW t \in Tickets, pc[t] = "alone"
  PROVE  /\ group[at] \in Tickets
         /\ GoodStore(Decided(db, group[at]).db)
         /\ Decided(db, group[at]).answer \in Answers
         /\ GoodStore(Logged(db, group[at]))
         /\ \A left \in LeftByError(db, group[at]) : GoodStore(left)
<1>1. group[at] \in Tickets /\ GoodStore(db)
  BY HolderFacts, ElementTyped
<1>2. QED
  BY <1>1, DecidedGood, LoggedGood, LeftGood

LEMMA LeavesTyped ==
  ASSUME WriterInv, NEW t \in Tickets, pc[t] = "alone",
         NEW left \in LeftByError(db, group[at]), Leaves(group[at], left)
  PROVE  GoodStore(db') /\ outcome' \in [Tickets -> Answers]
<1>1. db' = left
  BY DEF Leaves
<1>2. \/ outcome' = outcome
      \/ outcome' = [outcome EXCEPT ![group[at]] = Decided(db, group[at]).answer]
  BY DEF Leaves, Ran
<1>3. outcome' \in [Tickets -> Answers]
  BY <1>2, AloneFacts, HolderFacts
<1>4. QED
  BY <1>1, <1>3, AloneFacts

LEMMA AloneStep ==
  ASSUME WriterInv, NEW t \in Tickets, Alone(t)
  PROVE  WriterInv'
<1>1. pc[t] = "alone"
  BY DEF Alone, AloneAnswers, AloneExhausted, AloneErrs, AlonePanics, AloneRefused
<1>2. ASSUME AloneAnswers(t) PROVE WriterInv'
  <2> DEFINE d == Decided(db, group[at])
  <2>1. /\ db' = d.db /\ GiveAlone(t, d.answer) /\ tx' = NoTx /\ conn' = conn
        /\ outcome' = [outcome EXCEPT ![group[at]] = d.answer]
    BY <1>2 DEF AloneAnswers, MayBegin, Begun, Ran
  <2>2. GoodStore(d.db) /\ d.answer \in Answers
    BY <1>1, AloneFacts
  <2> HIDE DEF d
  <2>3. outcome' \in [Tickets -> Answers]
    BY <2>1, <2>2, HolderFacts
  <2>4. QED
    BY <2>1, <2>2, <2>3, GiveAloneStep, HolderFacts
<1>3. ASSUME AloneExhausted(t) PROVE WriterInv'
  <2>1. /\ db' \in {db, Logged(db, group[at])} /\ GiveAlone(t, Exhausted)
        /\ UNCHANGED <<conn, tx>>
        /\ outcome' = [outcome EXCEPT ![group[at]] = Exhausted]
    BY <1>3 DEF AloneExhausted, Ran
  <2>2. outcome' \in [Tickets -> Answers]
    BY <2>1, HolderFacts, AnswerTypes
  <2>3. GoodStore(db')
    BY <1>1, <2>1, AloneFacts, HolderFacts
  <2>4. QED
    BY <2>1, <2>2, <2>3, GiveAloneStep, AnswerTypes, HolderFacts
<1>4. ASSUME AloneErrs(t) PROVE WriterInv'
  <2>1. GiveAlone(t, Fault)
    BY <1>4 DEF AloneErrs
  <2>2. CASE /\ \E left \in LeftByError(db, group[at]) : Leaves(group[at], left)
             /\ conn' \in {"usable", "given_up"} /\ tx' = NoTx
    BY <1>1, <2>1, <2>2, LeavesTyped, GiveAloneStep, AnswerTypes
  <2>3. CASE /\ tx' = Decided(db, group[at]).db
             /\ UNCHANGED <<db, conn, outcome>>
    BY <1>1, <2>1, <2>3, AloneFacts, HolderFacts, GiveAloneStep, AnswerTypes
  <2>4. QED
    BY <1>4, <2>2, <2>3 DEF AloneErrs
<1>5. ASSUME AlonePanics(t) PROVE WriterInv'
  <2>1. /\ GiveAlone(t, Fault) /\ Reopened
        /\ \E left \in LeftByError(db, group[at]) : Leaves(group[at], left)
    BY <1>5 DEF AlonePanics
  <2>2. GoodStore(db') /\ outcome' \in [Tickets -> Answers]
    BY <1>1, <2>1, LeavesTyped
  <2>3. QED
    BY <2>1, <2>2, RolledBack, GiveAloneStep, AnswerTypes
<1>6. ASSUME AloneRefused(t) PROVE WriterInv'
  <2>1. GiveAlone(t, Fault) /\ BeginRefused /\ UNCHANGED <<db, outcome>>
    BY <1>6 DEF AloneRefused
  <2>2. /\ tx' = NoTx \/ GoodStore(tx')
        /\ conn' \in {"usable", "given_up", "none"}
    BY <2>1, HolderFacts DEF BeginRefused, LeftOpen
  <2>3. QED
    BY <2>1, <2>2, HolderFacts, GiveAloneStep, AnswerTypes
<1>7. QED
  BY <1>2, <1>3, <1>4, <1>5, <1>6 DEF Alone

-----------------------------------------------------------------------------
LEMMA CrashStep ==
  ASSUME WriterInv, Crash
  PROVE  WriterInv'
<1>1. \A t \in Tickets : pc'[t] \in {"idle", "done"}
  BY DEF Crash, Open
<1>2. pc' \in [Tickets -> Places] /\ holder' = Nobody
  BY DEF Crash, WriterInv, TypeOK, ThreadsOK, Places
<1>3. ThreadsOK'
  BY <1>1, <1>2, GroupCommitAssumption DEF ThreadsOK, Leading
<1>4. QueueOK' /\ AnswersOK'
  BY AnswerTypes DEF Crash, WriterInv, TypeOK, QueueOK, AnswersOK
<1>5. GroupOK'
  BY <1>1, GroupCommitAssumption DEF Crash, GroupOK
<1>6. StoresOK' /\ KeysRecorded(db)' /\ (tx # NoTx => KeysRecorded(tx))'
  BY <1>1 DEF Crash, WriterInv, TypeOK, StoresOK, KeysRecorded, Keyed
<1>7. QED
  BY <1>3, <1>4, <1>5, <1>6 DEF WriterInv, TypeOK

LEMMA WriterInvInit ==
  ASSUME Init
  PROVE  WriterInv
<1>1. EmptyStore \in Store /\ KeysRecorded(EmptyStore)
  BY DEF EmptyStore, Store, KeysRecorded
<1>2. \A t \in Tickets : pc[t] = "idle"
  BY DEF Init
<1>3. ThreadsOK
  BY GroupCommitAssumption DEF Init, ThreadsOK, Places, Leading
<1>4. QueueOK /\ AnswersOK
  BY AnswerTypes DEF Init, QueueOK, AnswersOK
<1>5. GroupOK
  BY <1>2, GroupCommitAssumption DEF Init, GroupOK
<1>6. StoresOK
  BY <1>1, <1>2 DEF Init, StoresOK
<1>7. QED
  BY <1>1, <1>3, <1>4, <1>5, <1>6 DEF Init, WriterInv, TypeOK

LEMMA WriterInvStep ==
  ASSUME WriterInv, [Next]_vars
  PROVE  WriterInv'
<1>1. ASSUME NEW t \in Tickets, Queued(t) PROVE WriterInv'
  BY <1>1, LockStep, LeaveStep, DrainStep, ReleaseStep DEF Queued
<1>2. ASSUME NEW t \in Tickets, Queue(t) \/ Step(t) PROVE WriterInv'
  BY <1>1, <1>2, QueueStep, GroupedStep, AloneStep DEF Step
<1>3. CASE UNCHANGED vars
  BY <1>3 DEF vars, WriterInv, TypeOK, ThreadsOK, QueueOK, GroupOK, AnswersOK,
              StoresOK, KeysRecorded
<1>4. QED
  BY <1>2, <1>3, CrashStep DEF Next, Finished

LEMMA WriterInvAlways == Spec => []WriterInv
  BY WriterInvInit, WriterInvStep, PTL DEF Spec

(* The writer's mutex is held by exactly the thread at a step that needs   *)
(* it, a group stays within GROUP_MOST and has an answer held for each     *)
(* request it ran, and a group runs on a transaction still open (queued,   *)
(* locked, run_group and alone in main.rs).                                *)
THEOREM TypeCorrect == Spec => []TypeOK
<1>1. WriterInv => TypeOK
  BY DEF WriterInv
<1>2. QED
  BY <1>1, WriterInvAlways, PTL

(* No key's request applies twice, however its retries are grouped with    *)
(* it, rolled back, run again alone, or run after a restart: each key's    *)
(* record in of_idempotency is the one entry of the log that holds it.     *)
THEOREM KeysOnce == Spec => []KeysApplyOnce
<1>1. WriterInv => KeysApplyOnce
  <2>1. SUFFICES ASSUME WriterInv,
                        NEW i \in DOMAIN db.log, NEW j \in DOMAIN db.log,
                        i # j, Keyed(db.log[i].ticket),
                        KeyOf[db.log[i].ticket] = KeyOf[db.log[j].ticket]
                 PROVE  FALSE
    BY DEF KeysApplyOnce
  <2>2. i \in 1..Len(db.log) /\ j \in 1..Len(db.log)
    BY <2>1 DEF WriterInv, TypeOK, StoresOK, Store
  <2>3. Keyed(db.log[j].ticket)
    BY <2>1 DEF Keyed
  <2>4. QED
    BY <2>1, <2>2, <2>3 DEF WriterInv, KeysRecorded
<1>2. QED
  BY <1>1, WriterInvAlways, PTL
=============================================================================
