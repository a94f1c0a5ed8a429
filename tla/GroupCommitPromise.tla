------------------------- MODULE GroupCommitPromise -------------------------
(***************************************************************************)
(* What a caller is told, against what the durable store holds, and that   *)
(* the groups keep the promise of RecordStore: proved for every set of     *)
(* calls, keys, capacity, group size and number of faults and crashes.     *)
(***************************************************************************)
EXTENDS GroupCommitRuns, FiniteSetTheorems, WellFoundedInduction

(* A store's records are of its log: each number was drawn once, below the *)
(* next, and each key's record names an entry made under the key.          *)
RecordsOK(d) ==
  /\ \A i \in 1..Len(d.log) : d.log[i].number < d.next
  /\ \A i, j \in 1..Len(d.log) : d.log[i].number = d.log[j].number => i = j
  /\ \A k \in Keys : d.keys[k] # 0 => KeyOf[d.log[d.keys[k]].ticket] = k

InLog(d, t) == \E i \in 1..Len(d.log) : d.log[i].ticket = t
NumberInLog(d, n) == \E i \in 1..Len(d.log) : d.log[i].number = n

(* The entry behind a number told: the call's own, or its key's and body's.*)
Backs(d, t, n) ==
  \E i \in 1..Len(d.log) :
    /\ d.log[i].number = n
    /\ \/ d.log[i].ticket = t
       \/ /\ Keyed(t) /\ KeyOf[d.log[i].ticket] = KeyOf[t]
          /\ BodyOf[d.log[i].ticket] = BodyOf[t]

(* What a store holds of a call whose run answered a.                      *)
Shows(d, t, a) ==
  /\ a.verdict = "satisfied" => Backs(d, t, a.number)
  /\ a.verdict \in {"refused", "key_reused"} => t \in d.attempts /\ ~InLog(d, t)
  /\ a.verdict = "refused" => a.number < d.next /\ ~NumberInLog(d, a.number)
  /\ a = NoAnswer => ~InLog(d, t)

Consistent(d, o) ==
  /\ GoodStore(d) /\ RecordsOK(d) /\ o \in [Tickets -> Answers]
  /\ \A t \in Tickets : Shows(d, t, o[t])
  /\ \A t, u \in Tickets :
       o[t].verdict = "refused" /\ o[u].verdict = "refused"
         /\ o[t].number = o[u].number => t = u

LEMMA StoreFields ==
  ASSUME NEW d, GoodStore(d)
  PROVE  /\ d.log \in Seq(Entries) /\ d.next \in Nat /\ d.keys \in [Keys -> Nat]
         /\ Len(d.log) \in Nat
         /\ \A i \in 1..Len(d.log) : d.log[i].number \in Nat /\ d.log[i].ticket \in Tickets
<1>1. d.log \in Seq(Entries) /\ d.next \in Nat /\ d.keys \in [Keys -> Nat]
  BY DEF GoodStore, Store, Entries
<1>2. \A i \in 1..Len(d.log) : d.log[i] \in Entries
  BY <1>1
<1>3. QED
  BY <1>1, <1>2 DEF Entries

LEMMA AnswerFields ==
  /\ \A a \in Answers : a.number \in Nat
  /\ \A v, n : Answer(v, n).verdict = v /\ Answer(v, n).number = n
  BY DEF Answers, Answer

(* One call's answer changed, the store's log left alone.                  *)
LEMMA SameLogConsistent ==
  ASSUME NEW d, NEW o, Consistent(d, o), NEW e, GoodStore(e),
         e.log = d.log, e.keys = d.keys, e.next >= d.next, d.attempts \subseteq e.attempts,
         NEW t \in Tickets, NEW a \in Answers,
         Shows(e, t, a),
         a.verdict = "refused" => a.number = d.next
  PROVE  Consistent(e, [o EXCEPT ![t] = a])
<1> DEFINE p == [o EXCEPT ![t] = a]
<1>1. o \in [Tickets -> Answers] /\ d.next \in Nat /\ e.next \in Nat
  BY StoreFields DEF Consistent
<1>2. p \in [Tickets -> Answers] /\ \A u \in Tickets : p[u] = IF u = t THEN a ELSE o[u]
  BY <1>1
<1> HIDE DEF p
<1>3. RecordsOK(e)
  <2>1. RecordsOK(d) /\ \A i \in 1..Len(d.log) : d.log[i].number \in Nat
    BY StoreFields DEF Consistent
  <2>2. \A i \in 1..Len(e.log) : e.log[i].number < e.next
    <3>1. SUFFICES ASSUME NEW i \in 1..Len(d.log) PROVE d.log[i].number < e.next
      OBVIOUS
    <3>2. d.log[i].number < d.next /\ d.log[i].number \in Nat
      BY <2>1 DEF RecordsOK
    <3>3. QED
      BY <1>1, <3>2
  <2>3. QED
    BY <2>1, <2>2 DEF RecordsOK
<1>4. \A u \in Tickets : Shows(e, u, o[u])
  <2>1. ASSUME NEW u \in Tickets PROVE Shows(e, u, o[u])
    <3>1. Shows(d, u, o[u]) /\ o[u].number \in Nat
      BY <1>1, AnswerFields DEF Consistent
    <3>2. QED
      BY <1>1, <3>1 DEF Shows, Backs, InLog, NumberInLog
  <2>2. QED
    BY <2>1
<1>5. \A u \in Tickets : Shows(e, u, p[u])
  BY <1>2, <1>4
<1>6. \A u \in Tickets : o[u].verdict = "refused" => o[u].number < d.next /\ o[u].number \in Nat
  BY <1>1, AnswerFields DEF Consistent, Shows
<1>7. ASSUME NEW u \in Tickets, NEW v \in Tickets, p[u].verdict = "refused",
             p[v].verdict = "refused", p[u].number = p[v].number
      PROVE  u = v
  BY <1>1, <1>2, <1>6, <1>7 DEF Consistent
<1>8. QED
  BY <1>2, <1>3, <1>5, <1>7 DEF Consistent, p

(* A request applied, with its number, its entry and its key.              *)
LEMMA AppliedConsistent ==
  ASSUME NEW d, NEW o, Consistent(d, o), NEW t \in Tickets,
         HeldAt(d, t) = 0, o[t] = NoAnswer
  PROVE  Consistent(Applied(d, t), [o EXCEPT ![t] = Answer("satisfied", d.next)])
<1> DEFINE e == Applied(d, t)
           a == Answer("satisfied", d.next)
           p == [o EXCEPT ![t] = a]
           n == Len(d.log)
<1>1. /\ GoodStore(d) /\ d.log \in Seq(Entries) /\ d.next \in Nat
      /\ d.keys \in [Keys -> Nat] /\ n \in Nat /\ o \in [Tickets -> Answers]
      /\ \A i \in 1..n : d.log[i].number \in Nat /\ d.log[i].ticket \in Tickets
  BY StoreFields DEF Consistent
<1>2. GoodStore(e)
  BY <1>1, AppliedGood
<1>3. /\ e.log = Append(d.log, [ticket |-> t, number |-> d.next])
      /\ e.next = d.next + 1 /\ e.attempts = d.attempts
      /\ e.keys = IF Keyed(t) THEN [d.keys EXCEPT ![KeyOf[t]] = n + 1] ELSE d.keys
  BY DEF Applied, Consistent, GoodStore, Store
<1>4. [ticket |-> t, number |-> d.next] \in Entries
  BY <1>1 DEF Entries
<1>5. /\ Len(e.log) = n + 1 /\ e.log[n + 1].ticket = t /\ e.log[n + 1].number = d.next
      /\ \A i \in 1..n : e.log[i] = d.log[i]
  BY <1>1, <1>3, <1>4
<1>6. a \in Answers /\ a.verdict = "satisfied" /\ a.number = d.next /\ a # NoAnswer
  BY <1>1 DEF Answers, Answer, Verdicts, NoAnswer
<1>7. p \in [Tickets -> Answers] /\ \A u \in Tickets : p[u] = IF u = t THEN a ELSE o[u]
  BY <1>1, <1>6
<1>8. \A i \in 1..Len(e.log) : i = n + 1 \/ i \in 1..n
  BY <1>1, <1>5
<1>9. \A i \in 1..n : i \in 1..Len(e.log) /\ i # n + 1
  BY <1>1, <1>5
<1>10. n + 1 \in 1..Len(e.log)
  BY <1>1, <1>5
<1> HIDE DEF e, a, p, n
<1>11. RecordsOK(e)
  <2>1. \A i \in 1..n : d.log[i].number < d.next
    BY DEF Consistent, RecordsOK, n
  <2>2. \A i \in 1..Len(e.log) : e.log[i].number < e.next
    <3>1. \A i \in 1..n : d.log[i].number < d.next + 1
      BY <1>1, <2>1
    <3>2. d.next < d.next + 1
      BY <1>1
    <3>3. QED
      BY <1>3, <1>5, <1>8, <3>1, <3>2
  <2>3. ASSUME NEW i \in 1..Len(e.log), NEW j \in 1..Len(e.log),
               e.log[i].number = e.log[j].number
        PROVE  i = j
    <3>1. CASE i \in 1..n /\ j \in 1..n
      BY <1>5, <2>3, <3>1 DEF Consistent, RecordsOK, n
    <3>2. CASE ~(i \in 1..n /\ j \in 1..n)
      BY <1>1, <1>5, <1>8, <2>1, <2>3, <3>2
    <3>3. QED
      BY <3>1, <3>2
  <2>4. ASSUME NEW k \in Keys, e.keys[k] # 0
        PROVE  KeyOf[e.log[e.keys[k]].ticket] = k
    <3>1. CASE Keyed(t) /\ k = KeyOf[t]
      BY <1>1, <1>3, <1>5, <3>1
    <3>2. CASE ~(Keyed(t) /\ k = KeyOf[t])
      <4>1. e.keys[k] = d.keys[k]
        BY <1>1, <1>3, <3>2
      <4>2. d.keys[k] \in 1..n
        BY <1>1, <2>4, <4>1 DEF GoodStore, KeysRecorded, n
      <4>3. QED
        BY <1>5, <2>4, <4>1, <4>2 DEF Consistent, RecordsOK
    <3>3. QED
      BY <3>1, <3>2
  <2>5. QED
    BY <2>2, <2>3, <2>4 DEF RecordsOK
<1>12. ASSUME NEW u \in Tickets PROVE Shows(e, u, p[u])
  <2>1. CASE u = t
    <3>1. Backs(e, t, d.next)
      BY <1>5, <1>10 DEF Backs
    <3>2. QED
      BY <1>6, <1>7, <2>1, <3>1 DEF Shows
  <2>2. CASE u # t
    <3>1. Shows(d, u, o[u]) /\ p[u] = o[u] /\ o[u].number \in Nat
      BY <1>1, <1>7, <2>2, AnswerFields DEF Consistent
    <3>2. \A m : Backs(d, u, m) => Backs(e, u, m)
      BY <1>5, <1>9 DEF Backs, n
    <3>3. ~InLog(d, u) => ~InLog(e, u)
      BY <1>5, <1>8, <2>2 DEF InLog, n
    <3>4. \A m \in Nat : m < d.next /\ ~NumberInLog(d, m) => ~NumberInLog(e, m)
      BY <1>1, <1>5, <1>8 DEF NumberInLog, n
    <3>5. \A m \in Nat : m < d.next => m < e.next
      BY <1>1, <1>3
    <3>6. QED
      BY <1>3, <3>1, <3>2, <3>3, <3>4, <3>5 DEF Shows
  <2>3. QED
    BY <2>1, <2>2
<1>13. \A u, v \in Tickets :
         p[u].verdict = "refused" /\ p[v].verdict = "refused"
           /\ p[u].number = p[v].number => u = v
  BY <1>6, <1>7 DEF Consistent
<1>14. QED
  BY <1>2, <1>7, <1>11, <1>12, <1>13 DEF Consistent, e, p, a

(* What a decision leaves is consistent with what it answers.              *)
LEMMA DecidedConsistent ==
  ASSUME NEW d, NEW o, Consistent(d, o), NEW t \in Tickets, o[t] = NoAnswer
  PROVE  Consistent(Decided(d, t).db, [o EXCEPT ![t] = Decided(d, t).answer])
<1>1. GoodStore(d) /\ ~InLog(d, t) /\ d.next \in Nat
  BY StoreFields DEF Consistent, Shows
<1>2. GoodStore(Logged(d, t)) /\ GoodStore(Logged(Drawn(d), t))
  BY <1>1, LoggedGood, DrawnGood
<1>3. /\ Logged(d, t).log = d.log /\ Logged(d, t).keys = d.keys
      /\ Logged(d, t).next = d.next /\ Logged(d, t).attempts = d.attempts \cup {t}
      /\ Logged(Drawn(d), t).log = d.log /\ Logged(Drawn(d), t).keys = d.keys
      /\ Logged(Drawn(d), t).next = d.next + 1
      /\ Logged(Drawn(d), t).attempts = d.attempts \cup {t}
  BY <1>1 DEF Logged, Drawn, GoodStore, Store
<1>4. CASE HeldAt(d, t) # 0 /\ Replays(d, t)
  <2> DEFINE h == HeldAt(d, t)
             a == Answer("satisfied", d.log[h].number)
  <2>1. Decided(d, t).db = d /\ Decided(d, t).answer = a
    BY <1>4 DEF Decided
  <2>2. Keyed(t) /\ KeyOf[t] \in Keys /\ h = d.keys[KeyOf[t]]
    BY <1>4, RequestAssumption DEF HeldAt, Keyed
  <2>3. h \in 1..Len(d.log) /\ KeyOf[d.log[h].ticket] = KeyOf[t]
    BY <1>1, <1>4, <2>2, StoreFields DEF Consistent, RecordsOK, GoodStore, KeysRecorded
  <2>4. Backs(d, t, d.log[h].number)
    BY <1>4, <2>2, <2>3 DEF Backs, Replays
  <2>5. a \in Answers /\ a.verdict = "satisfied" /\ a.number = d.log[h].number
        /\ a # NoAnswer
    BY <1>1, <2>3, StoreFields DEF Answers, Answer, Verdicts, NoAnswer
  <2> HIDE DEF h, a
  <2>6. Shows(d, t, a)
    BY <2>4, <2>5 DEF Shows
  <2>7. QED
    BY <1>1, <2>1, <2>5, <2>6, SameLogConsistent
<1>5. CASE HeldAt(d, t) # 0 /\ ~Replays(d, t)
  <2> DEFINE a == Answer("key_reused", 0)
  <2>1. Decided(d, t).db = Logged(d, t) /\ Decided(d, t).answer = a
    BY <1>5 DEF Decided
  <2>2. a \in Answers /\ a.verdict = "key_reused" /\ a # NoAnswer
    BY DEF Answers, Answer, Verdicts, NoAnswer
  <2> HIDE DEF a
  <2>3. Shows(Logged(d, t), t, a)
    BY <1>1, <1>3, <2>2 DEF Shows, InLog
  <2>4. QED
    BY <1>1, <1>2, <1>3, <2>1, <2>2, <2>3, SameLogConsistent
<1>6. CASE HeldAt(d, t) = 0 /\ Admits(d)
  BY <1>6, AppliedConsistent DEF Decided
<1>7. CASE HeldAt(d, t) = 0 /\ ~Admits(d)
  <2> DEFINE a == Answer("refused", d.next)
             e == Logged(Drawn(d), t)
  <2>1. Decided(d, t).db = e /\ Decided(d, t).answer = a
    BY <1>7 DEF Decided
  <2>2. a \in Answers /\ a.verdict = "refused" /\ a # NoAnswer /\ a.number = d.next
    BY <1>1 DEF Answers, Answer, Verdicts, NoAnswer
  <2>3. ~NumberInLog(d, d.next)
    BY <1>1, StoreFields DEF Consistent, RecordsOK, NumberInLog
  <2> HIDE DEF a
  <2>4. Shows(e, t, a)
    BY <1>1, <1>3, <2>2, <2>3 DEF Shows, InLog, NumberInLog
  <2>5. e.next >= d.next
    BY <1>1, <1>3
  <2>6. QED
    BY <1>1, <1>2, <1>3, <2>1, <2>2, <2>4, <2>5, SameLogConsistent
<1>8. QED
  BY <1>4, <1>5, <1>6, <1>7

(* A number drawn and lost, and a run the store's lock kept from running.  *)
LEMMA SpoiltConsistent ==
  ASSUME NEW d, NEW o, Consistent(d, o), NEW t \in Tickets, o[t] = NoAnswer
  PROVE  /\ Consistent(Drawn(d), o)
         /\ Consistent(d, [o EXCEPT ![t] = Exhausted])
         /\ Consistent(Logged(d, t), [o EXCEPT ![t] = Exhausted])
<1>1. GoodStore(d) /\ d.next \in Nat /\ ~InLog(d, t) /\ o \in [Tickets -> Answers]
  BY StoreFields DEF Consistent, Shows
<1>2. GoodStore(Logged(d, t)) /\ GoodStore(Drawn(d))
  BY <1>1, LoggedGood, DrawnGood
<1>3. /\ Logged(d, t).log = d.log /\ Logged(d, t).keys = d.keys
      /\ Logged(d, t).next = d.next /\ Logged(d, t).attempts = d.attempts \cup {t}
      /\ Drawn(d).log = d.log /\ Drawn(d).keys = d.keys
      /\ Drawn(d).next = d.next + 1 /\ Drawn(d).attempts = d.attempts
      /\ Drawn(d).next >= d.next /\ Logged(d, t).next >= d.next /\ d.next >= d.next
  BY <1>1 DEF Logged, Drawn, GoodStore, Store
<1>4. /\ Exhausted \in Answers /\ NoAnswer \in Answers
      /\ NoAnswer # Exhausted /\ NoAnswer.verdict = "none"
      /\ Exhausted.verdict \notin {"satisfied", "refused", "key_reused"}
  BY AnswersApart, AnswerTypes DEF NoAnswer, Answer
<1>5. \A e : Shows(e, t, Exhausted)
  BY <1>4 DEF Shows
<1>6. Shows(Drawn(d), t, NoAnswer)
  BY <1>1, <1>3, <1>4 DEF Shows, InLog
<1>7. [o EXCEPT ![t] = NoAnswer] = o
  BY <1>1
<1>8. Consistent(Drawn(d), o)
  BY <1>2, <1>3, <1>4, <1>6, <1>7, SameLogConsistent
<1>9. Consistent(d, [o EXCEPT ![t] = Exhausted])
  BY <1>1, <1>3, <1>4, <1>5, SameLogConsistent
<1>10. Consistent(Logged(d, t), [o EXCEPT ![t] = Exhausted])
  BY <1>2, <1>3, <1>4, <1>5, SameLogConsistent
<1>11. QED
  BY <1>8, <1>9, <1>10

-----------------------------------------------------------------------------
(* While a group runs: the answers of its calls so far, beside what        *)
(* committed before it; the stores its decisions went through, from the    *)
(* durable one to its transaction; and the entries it made.                *)
SoFar ==
  [u \in Tickets |->
     IF \E i \in 1..Len(answers) : group[i] = u
     THEN answers[CHOOSE i \in 1..Len(answers) : group[i] = u]
     ELSE outcome[u]]

IsTrail(f) ==
  /\ f[1] = db /\ f[Len(answers) + 1] = tx
  /\ \A i \in 1..Len(answers) :
       /\ f[i + 1] = Decided(f[i], group[i]).db
       /\ answers[i] = Decided(f[i], group[i]).answer
Trail == \E f \in [1..Len(answers) + 1 -> Store] : IsTrail(f)

Made ==
  /\ Len(db.log) <= Len(tx.log)
  /\ \A i \in 1..Len(tx.log) : i > Len(db.log) => InGroup(tx.log[i].ticket)

TruthInv ==
  /\ Consistent(db, outcome)
  /\ Stage \in {"run", "commit"} => Consistent(tx, SoFar) /\ Trail /\ Made

AllInv == WriterInv /\ OrderInv /\ PendingInv /\ TruthInv

(* A step that commits nothing and runs nothing of a group.                *)
LEMMA TruthKept ==
  ASSUME TruthInv, UNCHANGED <<db, outcome>>,
         \/ Stage' \notin {"run", "commit"}
         \/ Stage' = Stage /\ UNCHANGED <<tx, group, answers>>
  PROVE  TruthInv'
<1>1. Consistent(db', outcome')
  BY DEF TruthInv
<1>2. CASE Stage' \notin {"run", "commit"}
  BY <1>1, <1>2 DEF TruthInv
<1>3. CASE Stage' = Stage /\ UNCHANGED <<tx, group, answers>>
  <2>1. SoFar' = SoFar
    BY <1>3 DEF SoFar
  <2>2. Trail => Trail'
    BY <1>3 DEF Trail, IsTrail
  <2>3. Made => Made'
    BY <1>3 DEF Made, InGroup
  <2>4. QED
    BY <1>1, <1>3, <2>1, <2>2, <2>3 DEF TruthInv
<1>4. QED
  BY <1>2, <1>3

LEMMA QuietTruth ==
  ASSUME AllInv, NEW t \in Tickets,
         Queue(t) \/ Queued(t) \/ GiveAnswers(t) \/ BeginGroupFails(t)
           \/ RunFails(t) \/ RunPanics(t) \/ CommitFails(t)
  PROVE  TruthInv'
<1>1. WriterInv /\ TruthInv
  BY DEF AllInv
<1>2. UNCHANGED <<db, outcome>>
  BY DEF Queue, Queued, Locked, Lock, LockLatched, LockFindsStoreLost, LockReopens,
         LockUnreachable, TakeRefused, Leave, AnsweredFirst, Drain, Release, Check,
         GiveAnswers, BeginGroupFails, RunFails, RunPanics, CommitFails, storeVars
<1>3. CASE \/ Queue(t) \/ TakeRefused(t) \/ Leave(t) \/ AnsweredFirst(t) \/ Check(t)
  <2>1. UNCHANGED <<tx, group, answers>>
    BY <1>3 DEF Queue, TakeRefused, Leave, AnsweredFirst, Check, storeVars, groupVars
  <2>2. /\ \E place : Goto(t, place)
        /\ \/ pc[t] \notin Leading /\ holder' = holder
           \/ holder' = Nobody
    BY <1>3 DEF Queue, TakeRefused, Leave, AnsweredFirst, Check, Reply, Leading
  <2>3. Stage' = Stage \/ Stage' = "free"
    BY <1>1, <2>2, StageStays, StageFreed
  <2>4. QED
    BY <1>1, <1>2, <2>1, <2>3, TruthKept
<1>4. CASE \/ Locked(t) \/ Drain(t) \/ Release(t) \/ GiveAnswers(t)
           \/ BeginGroupFails(t) \/ RunFails(t) \/ RunPanics(t) \/ CommitFails(t)
  <2>1. \/ holder' = Nobody
        \/ /\ \E place \in {"holding", "alone", "begin", "release"} : Goto(t, place)
           /\ holder' = t \/ (pc[t] \in Leading /\ holder' = holder)
    BY <1>4 DEF Locked, Lock, LockLatched, LockFindsStoreLost, LockReopens,
         LockUnreachable, LockRefused, MayLock, Drain, Release, GiveAnswers,
         BeginGroupFails, RunFails, RunPanics, CommitFails, EachAlone, Leading
  <2>2. Stage' \notin {"run", "commit"}
    BY <1>1, <2>1, StageTyped, StageMoves, StageFreed
  <2>3. QED
    BY <1>1, <1>2, <2>2, TruthKept
<1>5. QED
  BY <1>3, <1>4 DEF Queued

LEMMA BeginGroupTruth ==
  ASSUME AllInv, NEW t \in Tickets, BeginGroup(t)
  PROVE  TruthInv'
<1>1. /\ pc[t] = "begin" /\ tx' = db /\ UNCHANGED <<db, outcome, group, answers>>
  BY DEF BeginGroup, MayBegin, Begun, groupVars
<1>2. Len(answers) = 0 /\ GoodStore(db)
  BY <1>1, HolderFacts DEF AllInv
<1>3. Consistent(db', outcome') /\ outcome \in [Tickets -> Answers]
  BY <1>1 DEF AllInv, TruthInv, Consistent
<1>4. SoFar' = outcome
  BY <1>1, <1>2, <1>3 DEF SoFar
<1>5. Trail'
  <2> DEFINE f == [i \in 1..1 |-> db]
  <2>1. f \in [1..Len(answers) + 1 -> Store] /\ f[1] = db
    BY <1>2 DEF GoodStore
  <2>2. IsTrail(f)'
    BY <1>1, <1>2, <2>1 DEF IsTrail
  <2>3. QED
    BY <1>1, <2>1, <2>2 DEF Trail
<1>6. Made'
  <2>1. Len(db.log) \in Nat
    BY <1>2, StoreFields
  <2>2. QED
    BY <1>1, <2>1 DEF Made
<1>7. QED
  BY <1>1, <1>3, <1>4, <1>5, <1>6 DEF TruthInv

(* The answers so far, with the one just decided.                          *)
LEMMA SoFarGrows ==
  ASSUME AllInv, NEW t \in Tickets, RunNext(t), pc[t] = "run"
  PROVE  /\ SoFar[group[at]] = NoAnswer
         /\ SoFar' = [SoFar EXCEPT ![group[at]] = Decided(tx, group[at]).answer]
<1> DEFINE g == group[at]
           a == Decided(tx, g).answer
<1>1. /\ WriterInv /\ OrderInv /\ PendingInv
      /\ answers' = Append(answers, a) /\ UNCHANGED <<group, outcome>>
  BY DEF RunNext, GroupWorld, AllInv
<1>2. /\ at \in 1..Len(group) /\ Len(answers) = at - 1 /\ g \in Tickets
      /\ answers \in Seq(Answers) /\ at \in Nat /\ group \in Seq(Tickets)
  BY <1>1, HolderFacts, ElementTyped
<1>3. a \in Answers
  BY <1>1, <1>2, HolderFacts, DecidedGood
<1>4. \A i \in 1..Len(group) : group[i] = g => i = at
  BY <1>1, <1>2, GroupApart
<1>5. /\ Len(answers') = at /\ answers'[at] = a
      /\ \A i \in 1..at - 1 : answers'[i] = answers[i]
  BY <1>1, <1>2, <1>3
<1>6. outcome[g] = NoAnswer
  <2>1. Stage = "run"
    BY <1>1, StageTyped DEF Leading
  <2>2. g \in MayRunAgain
    BY <1>2, <2>1 DEF MayRunAgain
  <2>3. QED
    BY <1>1, <2>2 DEF PendingInv, PendingOK
<1> HIDE DEF a, g
<1>7. \A i \in 1..Len(answers) : group[i] # g
  BY <1>2, <1>4
<1>8. SoFar[g] = NoAnswer
  BY <1>2, <1>6, <1>7 DEF SoFar
<1>9. ASSUME NEW u \in Tickets
      PROVE  SoFar'[u] = IF u = g THEN a ELSE SoFar[u]
  <2>1. CASE u = g
    <3>1. at \in 1..Len(answers') /\ group'[at] = u
      BY <1>1, <1>2, <1>5, <2>1 DEF g
    <3>2. \A i \in 1..Len(answers') : group'[i] = u => i = at
      BY <1>1, <1>2, <1>4, <1>5, <2>1
    <3>3. (CHOOSE i \in 1..Len(answers') : group'[i] = u) = at
      BY <3>1, <3>2
    <3>4. QED
      BY <1>5, <2>1, <3>1, <3>3 DEF SoFar
  <2>2. CASE u # g
    <3>1. /\ 1..Len(answers) = 1..at - 1
          /\ 1..Len(answers') = 1..at
      BY <1>2, <1>5
    <3>2. \A i \in 1..at : group[i] = u => i \in 1..at - 1
      BY <1>2, <2>2 DEF g
    <3>3. CASE \E i \in 1..at - 1 : group[i] = u
      <4>1. \E i \in 1..at : group'[i] = u
        BY <1>1, <1>2, <3>3
      <4>2. PICK k \in 1..at - 1 : group[k] = u
        BY <3>3
      <4>3. \A i \in 1..at : group[i] = u => i = k
        <5>1. k \in 1..Len(group) /\ \A i \in 1..at : i \in 1..Len(group)
          BY <1>2, <4>2
        <5>2. QED
          BY <1>1, <4>2, <5>1, GroupApart
      <4>4. (CHOOSE i \in 1..at : group'[i] = u) = k
        BY <1>1, <1>2, <4>2, <4>3
      <4>5. (CHOOSE i \in 1..at - 1 : group[i] = u) = k
        BY <1>2, <4>2, <4>3
      <4>6. SoFar'[u] = answers'[k]
        BY <3>1, <4>1, <4>4 DEF SoFar
      <4>7. SoFar[u] = answers[k]
        BY <3>1, <3>3, <4>5 DEF SoFar
      <4>8. QED
        BY <1>5, <2>2, <4>2, <4>6, <4>7
    <3>4. CASE ~\E i \in 1..at - 1 : group[i] = u
      BY <1>1, <2>2, <3>1, <3>2, <3>4 DEF SoFar
    <3>5. QED
      BY <3>3, <3>4
  <2>3. QED
    BY <2>1, <2>2
<1>10. SoFar' = [SoFar EXCEPT ![g] = a]
  <2>1. SoFar' = [u \in Tickets |-> SoFar'[u]] /\ SoFar = [u \in Tickets |-> SoFar[u]]
    BY DEF SoFar
  <2>2. [SoFar EXCEPT ![g] = a] = [u \in Tickets |-> IF u = g THEN a ELSE SoFar[u]]
    BY <2>1
  <2>3. QED
    BY <1>9, <2>1, <2>2
<1>11. QED
  BY <1>8, <1>10 DEF a, g

LEMMA RunNextTruth ==
  ASSUME AllInv, NEW t \in Tickets, RunNext(t)
  PROVE  TruthInv'
<1> DEFINE g == group[at]
           d == Decided(tx, g)
<1>1. /\ WriterInv /\ OrderInv /\ PendingInv /\ TruthInv
      /\ pc[t] = "run" /\ tx' = d.db /\ answers' = Append(answers, d.answer)
      /\ UNCHANGED <<db, outcome, group>>
  BY DEF RunNext, GroupWorld, AllInv
<1>2. /\ at \in 1..Len(group) /\ Len(answers) = at - 1 /\ g \in Tickets
      /\ GoodStore(tx) /\ answers \in Seq(Answers) /\ at \in Nat
  BY <1>1, HolderFacts, ElementTyped
<1>3. Consistent(tx, SoFar) /\ Trail /\ Made
  BY <1>1, StageTyped DEF TruthInv, Leading
<1>4. GoodStore(d.db) /\ d.answer \in Answers
  BY <1>2, DecidedGood
<1>5. Consistent(tx', SoFar')
  <2>1. SoFar[g] = NoAnswer /\ SoFar' = [SoFar EXCEPT ![g] = d.answer]
    BY <1>1, SoFarGrows
  <2>2. Consistent(d.db, [SoFar EXCEPT ![g] = d.answer])
    BY <1>2, <1>3, <2>1, DecidedConsistent
  <2>3. QED
    BY <1>1, <2>1, <2>2
<1>6. /\ Len(answers') = at /\ answers'[at] = d.answer
      /\ \A i \in 1..at - 1 : answers'[i] = answers[i]
  BY <1>1, <1>2, <1>4
<1>7. Trail'
  <2>1. PICK f \in [1..Len(answers) + 1 -> Store] : IsTrail(f)
    BY <1>3 DEF Trail
  <2>2. f \in [1..at -> Store] /\ f[1] = db /\ f[at] = tx
    BY <1>2, <2>1 DEF IsTrail
  <2>3. [i \in 1..at + 1 |-> IF i = at + 1 THEN tx' ELSE f[i]]
          \in [1..at + 1 -> Store]
    BY <1>1, <1>2, <1>4, <2>2 DEF GoodStore
  <2>4. PICK h \in [1..at + 1 -> Store] :
          h[1] = db /\ h[at + 1] = tx' /\ \A i \in 1..at : h[i] = f[i]
    <3> DEFINE h == [i \in 1..at + 1 |-> IF i = at + 1 THEN tx' ELSE f[i]]
    <3>1. h[1] = db /\ h[at + 1] = tx' /\ \A i \in 1..at : h[i] = f[i]
      BY <1>2, <2>2
    <3>2. QED
      BY <2>3, <3>1
  <2>5. ASSUME NEW i \in 1..at
        PROVE  /\ h[i + 1] = Decided(h[i], group[i]).db
               /\ answers'[i] = Decided(h[i], group[i]).answer
    <3>1. CASE i = at
      BY <1>1, <1>2, <1>6, <2>2, <2>4, <3>1
    <3>2. CASE i # at
      <4>1. i \in 1..at - 1 /\ i + 1 \in 1..at
        BY <1>2, <2>5, <3>2
      <4>2. QED
        BY <1>2, <1>6, <2>1, <2>4, <4>1 DEF IsTrail
    <3>3. QED
      BY <3>1, <3>2
  <2>6. IsTrail(h)'
    BY <1>1, <1>6, <2>4, <2>5 DEF IsTrail
  <2>7. QED
    BY <1>6, <2>4, <2>6 DEF Trail
<1>8. Made'
  <2>1. Grown(tx.log, tx'.log, g) /\ tx.log \in Seq(Entries)
    BY <1>1, <1>2, DecidedGrows
  <2>2. InGroup(g)
    BY <1>1, <1>2, GroupApart
  <2>3. Len(db.log) \in Nat
    BY <1>1, HolderFacts, StoreFields
  <2> HIDE DEF g
  <2>4. CASE tx'.log = tx.log
    BY <1>1, <1>3, <2>4 DEF Made, InGroup
  <2>5. ASSUME NEW e \in Entries, e.ticket = g, tx'.log = Append(tx.log, e) PROVE Made'
    <3>1. /\ Len(tx'.log) = Len(tx.log) + 1 /\ tx'.log[Len(tx.log) + 1] = e
          /\ \A i \in 1..Len(tx.log) : tx'.log[i] = tx.log[i]
          /\ \A i \in 1..Len(tx'.log) : i = Len(tx.log) + 1 \/ i \in 1..Len(tx.log)
      BY <2>1, <2>5
    <3>2. Len(db.log) <= Len(tx'.log)
      BY <1>3, <2>1, <2>3, <3>1 DEF Made
    <3>3. \A i \in 1..Len(tx'.log) : i > Len(db.log) => InGroup(tx'.log[i].ticket)
      BY <1>3, <2>2, <2>5, <3>1 DEF Made
    <3>4. QED
      BY <1>1, <3>2, <3>3 DEF Made, InGroup
  <2>6. QED
    BY <2>1, <2>4, <2>5 DEF Grown
<1>9. Consistent(db', outcome')
  BY <1>1 DEF TruthInv
<1>10. QED
  BY <1>5, <1>7, <1>8, <1>9 DEF TruthInv

(* A group's commit leaves its transaction, and its answers.               *)
LEMMA GroupRanSoFar ==
  ASSUME WriterInv, NEW t \in Tickets, pc[t] = "commit"
  PROVE  GroupRan = SoFar
<1>1. DOMAIN group = 1..Len(answers)
  BY HolderFacts
<1>2. QED
  BY <1>1 DEF GroupRan, SoFar

LEMMA CommitTruth ==
  ASSUME AllInv, NEW t \in Tickets, CommitGroup(t) \/ CommitInDoubt(t)
  PROVE  TruthInv'
<1>1. /\ pc[t] = "commit" /\ db' = tx /\ outcome' = GroupRan /\ holder' = holder
      /\ WriterInv /\ TruthInv
  BY DEF CommitGroup, CommitInDoubt, AllInv
<1>2. PICK place \in {"give", "release", "alone"} : Goto(t, place)
  BY DEF CommitGroup, CommitInDoubt, EachAlone
<1>3. Stage = "commit" /\ Stage' = place
  BY <1>1, <1>2, StageTyped, StageMoves DEF Leading
<1>4. Consistent(db', outcome')
  BY <1>1, <1>3, GroupRanSoFar DEF TruthInv
<1>5. QED
  BY <1>3, <1>4 DEF TruthInv

LEMMA AloneTruth ==
  ASSUME AllInv, NEW t \in Tickets, Alone(t)
  PROVE  TruthInv'
<1>1. /\ WriterInv /\ OrderInv /\ PendingInv /\ TruthInv
      /\ pc[t] = "alone" /\ at \in 1..Len(group) /\ group[at] \in Tickets
      /\ UNCHANGED <<holder, waiting, arrived, group>>
  BY AloneSummary DEF AllInv
<1>2. PICK place \in {"release", "alone"} : Goto(t, place)
  BY <1>1, AloneSummary
<1>3. Stage = "alone" /\ Stage' = place
  BY <1>1, <1>2, HolderOrdered DEF OnGroup
<1>4. \/ UNCHANGED <<db, outcome>>
      \/ MayBegin /\ \E a : Ended(group[at], a)
  BY <1>1, AloneEnds
<1>5. Consistent(db, outcome) /\ (MayBegin => outcome[group[at]] = NoAnswer)
  <2>1. MayBegin => group[at] \in MayRunAgain
    BY <1>1, <1>3, HolderFacts DEF MayRunAgain, ToRun
  <2>2. QED
    BY <1>1, <2>1 DEF TruthInv, PendingInv, PendingOK
<1>6. Consistent(db', outcome')
  <2>1. CASE UNCHANGED <<db, outcome>>
    BY <1>5, <2>1
  <2>2. ASSUME NEW a, MayBegin, Ended(group[at], a) PROVE Consistent(db', outcome')
    <3> DEFINE g == group[at]
    <3>1. outcome[g] = NoAnswer /\ g \in Tickets
      BY <1>1, <1>5, <2>2
    <3>2. Consistent(Decided(db, g).db, [outcome EXCEPT ![g] = Decided(db, g).answer])
      BY <1>5, <3>1, DecidedConsistent
    <3>3. /\ Consistent(Drawn(db), outcome)
          /\ Consistent(db, [outcome EXCEPT ![g] = Exhausted])
          /\ Consistent(Logged(db, g), [outcome EXCEPT ![g] = Exhausted])
      BY <1>5, <3>1, SpoiltConsistent
    <3> HIDE DEF g
    <3>4. Ended(g, a)
      BY <2>2 DEF g
    <3>5. QED
      BY <1>5, <3>2, <3>3, <3>4 DEF Ended
  <2>3. QED
    BY <1>4, <2>1, <2>2
<1>7. QED
  BY <1>3, <1>6 DEF TruthInv

LEMMA TruthInvStep ==
  ASSUME AllInv, [Next]_vars
  PROVE  TruthInv'
<1>1. ASSUME NEW t \in Tickets, Queue(t) \/ Step(t) PROVE TruthInv'
  BY <1>1, QuietTruth, BeginGroupTruth, RunNextTruth, CommitTruth, AloneTruth
     DEF Step, Grouped
<1>2. ASSUME Crash PROVE TruthInv'
  <2>1. UNCHANGED <<db, outcome>> /\ holder' = Nobody
    BY <1>2 DEF Crash
  <2>2. QED
    BY <2>1, StageFreed, TruthKept DEF AllInv
<1>3. CASE UNCHANGED vars
  BY <1>3, TruthKept DEF vars, AllInv, Stage
<1>4. QED
  BY <1>1, <1>2, <1>3 DEF Next, Finished

LEMMA TruthInvInit ==
  ASSUME Init
  PROVE  TruthInv
<1>1. /\ db = EmptyStore /\ outcome = [t \in Tickets |-> NoAnswer]
      /\ Stage = "free" /\ WriterInv
  BY WriterInvInit DEF Init, Stage
<1>2. GoodStore(db) /\ db.log = <<>> /\ \A k \in Keys : db.keys[k] = 0
  BY <1>1, WriterInvGood DEF Good, EmptyStore
<1>3. RecordsOK(db)
  BY <1>2 DEF RecordsOK
<1>4. outcome \in [Tickets -> Answers] /\ \A t \in Tickets : outcome[t] = NoAnswer
  BY <1>1, AnswerTypes
<1>5. \A t \in Tickets : Shows(db, t, NoAnswer)
  BY <1>2, AnswersApart DEF Shows, InLog
<1>6. QED
  BY <1>1, <1>2, <1>3, <1>4, <1>5, AnswersApart DEF TruthInv, Consistent

LEMMA AllInvAlways == Spec => []AllInv
<1>1. Init => AllInv
  BY WriterInvInit, OrderInvInit, PendingInvInit, TruthInvInit DEF AllInv
<1>2. AllInv /\ [Next]_vars => AllInv'
  BY WriterInvStep, OrderInvStep, PendingInvStep, TruthInvStep DEF AllInv
<1>3. QED
  BY <1>1, <1>2, PTL DEF Spec

-----------------------------------------------------------------------------
(* What every caller is told, from what its run left.                      *)
LEMMA ToldTrue ==
  ASSUME AllInv, NEW t \in Tickets,
         reply[t].verdict \in {"satisfied", "refused", "key_reused"}
  PROVE  reply[t] = outcome[t] /\ Shows(db, t, reply[t])
<1>1. reply[t] \in {NoAnswer, Fault, Lost, outcome[t]}
  BY DEF AllInv, PendingInv, ToldOK
<1>2. reply[t] = outcome[t]
  BY <1>1, AnswersApart
<1>3. QED
  BY <1>2 DEF AllInv, TruthInv, Consistent

(* A caller answered satisfied has its request, or the one its key         *)
(* replays, in the durable store with the number it was told, through any  *)
(* rollback, panic, lost connection and restart after it (run_group in     *)
(* main.rs gives its answers once commit_group has returned).              *)
THEOREM AnswersAreDurable == Spec => []AnsweredIsDurable
<1>1. AllInv => AnsweredIsDurable
  <2>1. SUFFICES ASSUME AllInv, NEW t \in Tickets, reply[t].verdict = "satisfied"
                 PROVE  \E i \in DOMAIN db.log :
                          /\ db.log[i].number = reply[t].number
                          /\ \/ db.log[i].ticket = t
                             \/ /\ Keyed(t) /\ KeyOf[db.log[i].ticket] = KeyOf[t]
                                /\ BodyOf[db.log[i].ticket] = BodyOf[t]
    BY DEF AnsweredIsDurable
  <2>2. Backs(db, t, reply[t].number)
    BY <2>1, ToldTrue DEF Shows
  <2>3. DOMAIN db.log = 1..Len(db.log)
    BY <2>1 DEF AllInv, WriterInv, TypeOK, StoresOK, Store
  <2>4. QED
    BY <2>2, <2>3 DEF Backs
<1>2. QED
  BY <1>1, AllInvAlways, PTL

(* A caller told its request was refused finds its row in the attempt log  *)
(* and nothing of it applied, whether it ran in a group, was rolled back   *)
(* with it, or ran alone (record_attempt in store.rs).                     *)
THEOREM RefusalsAreLogged == Spec => []RefusedLeavesItsRow
<1>1. AllInv => RefusedLeavesItsRow
  <2>1. SUFFICES ASSUME AllInv, NEW t \in Tickets,
                        reply[t].verdict \in {"refused", "key_reused"}
                 PROVE  t \in db.attempts /\ \A i \in DOMAIN db.log : db.log[i].ticket # t
    BY DEF RefusedLeavesItsRow
  <2>2. t \in db.attempts /\ ~InLog(db, t)
    BY <2>1, ToldTrue DEF Shows
  <2>3. DOMAIN db.log = 1..Len(db.log)
    BY <2>1 DEF AllInv, WriterInv, TypeOK, StoresOK, Store
  <2>4. QED
    BY <2>2, <2>3 DEF InLog
<1>2. QED
  BY <1>1, AllInvAlways, PTL

(* No two calls are told one number, but a key's replays of what it        *)
(* applied: a number a refused request drew is kept past its rollback, in  *)
(* a group as alone (the draws transact_grouped writes again in store.rs). *)
THEOREM NumbersAreApart == Spec => []NumbersNotReused
<1>1. AllInv => NumbersNotReused
  <2>1. SUFFICES ASSUME AllInv, NEW t \in Tickets, NEW u \in Tickets,
                        reply[t].verdict \in {"satisfied", "refused"},
                        reply[u].verdict \in {"satisfied", "refused"},
                        t # u, reply[t].number = reply[u].number
                 PROVE  /\ Keyed(t) /\ KeyOf[t] = KeyOf[u]
                        /\ reply[t].verdict = "satisfied"
                        /\ reply[u].verdict = "satisfied"
    BY DEF NumbersNotReused
  <2>2. /\ Shows(db, t, reply[t]) /\ Shows(db, u, reply[u])
        /\ reply[t] = outcome[t] /\ reply[u] = outcome[u]
        /\ RecordsOK(db)
    BY <2>1, ToldTrue DEF AllInv, TruthInv, Consistent
  <2>3. ~(reply[t].verdict = "refused" /\ reply[u].verdict = "refused")
    BY <2>1, <2>2 DEF AllInv, TruthInv, Consistent
  <2>4. \A v, n : Backs(db, v, n) => NumberInLog(db, n)
    BY DEF Backs, NumberInLog
  <2>5. reply[t].verdict = "satisfied" /\ reply[u].verdict = "satisfied"
    BY <2>1, <2>2, <2>3, <2>4 DEF Shows
  <2>6. Backs(db, t, reply[t].number) /\ Backs(db, u, reply[u].number)
    BY <2>2, <2>5 DEF Shows
  <2>7. PICK i \in 1..Len(db.log) :
          /\ db.log[i].number = reply[t].number
          /\ db.log[i].ticket = t \/ (Keyed(t) /\ KeyOf[db.log[i].ticket] = KeyOf[t])
    BY <2>6 DEF Backs
  <2>8. PICK j \in 1..Len(db.log) :
          /\ db.log[j].number = reply[u].number
          /\ db.log[j].ticket = u \/ (Keyed(u) /\ KeyOf[db.log[j].ticket] = KeyOf[u])
    BY <2>6 DEF Backs
  <2>9. i = j
    BY <2>1, <2>2, <2>7, <2>8 DEF RecordsOK
  <2>10. QED
    BY <2>1, <2>5, <2>7, <2>8, <2>9 DEF Keyed
<1>2. QED
  BY <1>1, AllInvAlways, PTL

(* On SQLite no later group runs a request whose caller was answered a     *)
(* fault (the comment in queued, main.rs): a store that refuses a caller   *)
(* is latched, and a latched store runs no group.  On PostgreSQL the run   *)
(* GroupCommit_late finds one that does.                                   *)
THEOREM FaultedRunsNoMore == Backend = "sqlite" => (Spec => FaultedNeverRuns)
<1> DEFINE Never == \A t \in Tickets : reply[t] = Fault =>
             \A i \in DOMAIN db'.log \ DOMAIN db.log : db'.log[i].ticket # t
<1>1. ASSUME Backend = "sqlite", AllInv, AllInv', [Next]_vars PROVE Never
  <2>1. /\ WriterInv /\ OrderInv /\ PendingInv /\ TruthInv
        /\ DOMAIN db.log = 1..Len(db.log) /\ DOMAIN db'.log = 1..Len(db'.log)
        /\ Len(db.log) \in Nat /\ db.log \in Seq(Entries)
    BY <1>1 DEF AllInv, WriterInv, TypeOK, StoresOK, Store, Entries
  <2>2. \A u \in MayRunAgain : reply[u] # Fault
    <3>1. MayRunAgain \subseteq Tickets
      BY DEF MayRunAgain, ToRun, InQueue
    <3>2. QED
      BY <1>1, <2>1, <3>1, AnswersApart DEF PendingInv, PendingOK, ToldOK
  <2>3. SUFFICES ASSUME NEW i \in DOMAIN db'.log \ DOMAIN db.log
                 PROVE  db'.log[i].ticket \in MayRunAgain
    BY <2>2
  <2>4. CASE db' = db
    BY <2>4
  <2>5. ASSUME NEW t \in Tickets, CommitGroup(t) \/ CommitInDoubt(t)
        PROVE  db'.log[i].ticket \in MayRunAgain
    <3>1. pc[t] = "commit" /\ db' = tx
      BY <2>5 DEF CommitGroup, CommitInDoubt
    <3>2. Stage = "commit" /\ Made
      BY <2>1, <3>1, StageTyped DEF TruthInv, Leading
    <3>3. i \in 1..Len(tx.log) /\ i > Len(db.log)
      BY <2>1, <2>3, <3>1
    <3>4. InGroup(tx.log[i].ticket)
      BY <3>2, <3>3 DEF Made
    <3>5. QED
      BY <2>1, <3>1, <3>2, <3>4, GroupApart DEF MayRunAgain
  <2>6. ASSUME NEW t \in Tickets, Alone(t)
        PROVE  db'.log[i].ticket \in MayRunAgain
    <3>1. /\ pc[t] = "alone" /\ at \in 1..Len(group) /\ group[at] \in Tickets
      BY <2>1, <2>6, AloneSummary
    <3>2. CASE MayBegin /\ Grown(db.log, db'.log, group[at])
      <4>1. PICK e \in Entries : e.ticket = group[at] /\ db'.log = Append(db.log, e)
        BY <2>3, <3>2 DEF Grown
      <4>2. db'.log[i] = e
        BY <2>1, <2>3, <4>1
      <4>3. Stage = "alone"
        BY <2>1, <3>1, StageTyped DEF Leading
      <4>4. group[at] \in MayRunAgain
        BY <2>1, <3>1, <3>2, <4>3, HolderFacts DEF MayRunAgain, ToRun
      <4>5. QED
        BY <4>1, <4>2, <4>4
    <3>3. QED
      BY <2>1, <2>4, <2>6, <3>2, AloneSummary
  <2>7. ASSUME NEW t \in Tickets, Queue(t) \/ Step(t), ~Alone(t),
               ~CommitGroup(t), ~CommitInDoubt(t)
        PROVE  db' = db
    BY <2>7 DEF Step, Queue, Queued, Locked, Lock, LockLatched, LockFindsStoreLost,
       LockReopens, LockUnreachable, TakeRefused, Leave, AnsweredFirst, Drain, Release,
       Check, Grouped, GiveAnswers, BeginGroup, RunNext, BeginGroupFails, RunFails,
       RunPanics, CommitFails, storeVars
  <2>8. CASE Crash \/ UNCHANGED vars
    BY <2>4, <2>8 DEF Crash, vars
  <2>9. QED
    BY <1>1, <2>4, <2>5, <2>6, <2>7, <2>8 DEF Next, Finished
<1>2. ASSUME Backend = "sqlite" PROVE Spec => FaultedNeverRuns
  <2>1. AllInv /\ AllInv' /\ [Next]_vars => [Never]_vars
    BY <1>1, <1>2
  <2>2. Spec => [][Never]_vars
    BY <2>1, AllInvAlways, PTL DEF Spec
  <2>3. QED
    BY <2>2 DEF FaultedNeverRuns
<1>3. QED
  BY <1>2

-----------------------------------------------------------------------------
(* The promise of RecordStore kept.  Its operators are this module's.      *)
LEMMA SameDecided ==
  \A d, t : /\ Promise!Decided(d, t) = Decided(d, t)
            /\ Promise!Logged(d, t) = Logged(d, t) /\ Promise!Drawn(d) = Drawn(d)
  BY DEF Promise!Decided, Decided, Promise!HeldAt, HeldAt, Promise!Replays, Replays,
    Promise!Admits, Admits, Promise!Applied, Applied, Promise!Logged, Logged,
    Promise!Drawn, Drawn, Promise!Keyed, Keyed, Promise!Answer, Answer

(* A set of numbers that is not empty has a least one.                     *)
LEMMA NatMin ==
  ASSUME NEW T, T \subseteq Nat, T # {}
  PROVE  \E x \in T : \A y \in T : x <= y
<1> DEFINE R == OpToRel(<, Nat)
<1>1. IsWellFoundedOn(R, Nat)
  BY NatLessThanWellFounded
<1>2. \A x, y \in Nat : x < y => <<x, y>> \in R
  BY Zenon DEF OpToRel
<1> HIDE DEF R
<1>3. PICK x \in T : \A y \in T : ~(<<y, x>> \in R)
  BY <1>1, WFMin
<1>4. \A y \in T : ~(y < x)
  BY <1>2, <1>3
<1>5. QED
  BY <1>4

(* The stores the promise runs calls through are those of a trail: two     *)
(* sequences that start alike and go on alike are one.                     *)
LEMMA BeforeIs ==
  ASSUME NEW n \in Nat, NEW ts \in [1..n -> Tickets], Len(ts) = n,
         NEW f \in [1..n + 1 -> Store], f[1] = db,
         \A i \in 1..n : f[i + 1] = Decided(f[i], ts[i]).db
  PROVE  Promise!Before(ts) = f
<1> DEFINE G(d) == [i \in 1..n + 1 |-> IF i = 1 THEN db ELSE Promise!Decided(d[i - 1], ts[i - 1]).db]
           b == Promise!Before(ts)
<1>1. f = G(f)
  <2>1. ASSUME NEW i \in 1..n + 1
        PROVE  f[i] = IF i = 1 THEN db ELSE Promise!Decided(f[i - 1], ts[i - 1]).db
    <3>1. CASE i = 1
      BY <3>1
    <3>2. CASE i # 1
      <4>1. i - 1 \in 1..n /\ (i - 1) + 1 = i
        BY <3>2
      <4>2. QED
        BY <3>2, <4>1, SameDecided
    <3>3. QED
      BY <3>1, <3>2
  <2>2. QED
    BY <2>1
<1>2. b = CHOOSE d : d = G(d)
  BY DEF Promise!Before
<1>3. b = G(b)
  BY <1>1, <1>2
<1> HIDE DEF b
<1>4. /\ DOMAIN b = 1..n + 1
      /\ \A i \in 1..n + 1 : b[i] = IF i = 1 THEN db ELSE Promise!Decided(b[i - 1], ts[i - 1]).db
  <2>1. /\ DOMAIN G(b) = 1..n + 1
        /\ \A i \in 1..n + 1 : G(b)[i] = IF i = 1 THEN db ELSE Promise!Decided(b[i - 1], ts[i - 1]).db
    OBVIOUS
  <2> HIDE DEF G
  <2>2. QED
    BY <1>3, <2>1
<1> DEFINE T == {i \in 1..n + 1 : b[i] # f[i]}
<1>5. T = {}
  <2>1. SUFFICES ASSUME T # {} PROVE FALSE
    OBVIOUS
  <2>2. T \subseteq Nat
    OBVIOUS
  <2> HIDE DEF T
  <2>3. PICK i \in T : \A j \in T : i <= j
    BY <2>1, <2>2, NatMin
  <2> USE DEF T
  <2>4. i \in 1..n + 1 /\ i # 1
    BY <1>4
  <2>5. i - 1 \in 1..n /\ (i - 1) + 1 = i /\ i - 1 \in 1..n + 1 /\ ~(i <= i - 1)
    BY <2>4
  <2>6. b[i - 1] = f[i - 1]
    BY <2>3, <2>5
  <2>7. b[i] = Decided(f[i - 1], ts[i - 1]).db
    BY <1>4, <2>4, <2>6, SameDecided
  <2>8. f[i] = Decided(f[i - 1], ts[i - 1]).db
    BY <2>5
  <2>9. QED
    BY <2>7, <2>8
<1>6. \A i \in 1..n + 1 : b[i] = f[i]
  BY <1>5
<1>7. QED
  BY <1>3, <1>4, <1>6 DEF b

(* What the promise calls each call: idle, open or closed.                 *)
CallOf == [t \in Tickets |->
             IF pc[t] = "idle" THEN "idle"
             ELSE IF pc[t] = "done" THEN "closed" ELSE "open"]

LEMMA SameCall ==
  ASSUME WriterInv, NEW t \in Tickets, NEW place, Goto(t, place)
  PROVE  /\ \A u \in Tickets : pc'[u] = IF u = t THEN place ELSE pc[u]
         /\ pc[t] \notin {"idle", "done"} /\ place \notin {"idle", "done"} => CallOf' = CallOf
<1>1. \A u \in Tickets : pc'[u] = IF u = t THEN place ELSE pc[u]
  BY DEF Goto, WriterInv, TypeOK, ThreadsOK
<1>2. QED
  BY <1>1 DEF CallOf

LEMMA CountTo ==
  ASSUME NEW n \in Nat
  PROVE  IsFiniteSet(1..n) /\ Cardinality(1..n) = n
  BY FS_Interval

(* The calls that may run, finitely many, having arrived.                  *)
LEMMA MayRunFinite ==
  ASSUME AllInv
  PROVE  LET S == {t \in Tickets : Promise!MayRun(t)}
         IN IsFiniteSet(S) /\ Cardinality(S) \in Nat
<1> DEFINE n == Len(arrived)
           R == {u \in Tickets : Has(arrived, u)}
           S == {t \in Tickets : Promise!MayRun(t)}
<1>1. arrived \in Seq(Tickets) /\ n \in Nat /\ arrived \in [1..n -> Tickets]
  BY DEF AllInv, WriterInv, TypeOK, QueueOK
<1>2. arrived \in Surjection(1..n, R)
  BY <1>1 DEF Surjection, Has
<1>3. IsFiniteSet(1..n)
  BY <1>1, CountTo
<1>4. IsFiniteSet(R)
  BY <1>2, <1>3, FS_Surjection
<1>5. S \subseteq R
  <2>1. ASSUME NEW t \in Tickets, Promise!MayRun(t) PROVE pc[t] # "idle"
    BY <2>1, AnswersApart DEF Promise!MayRun, AllInv, PendingInv, ToldOK
  <2>2. QED
    BY <2>1 DEF AllInv, OrderInv, ArrivedOK
<1> HIDE DEF R, S
<1>6. QED
  BY <1>4, <1>5, FS_Subset, FS_CardinalityType DEF S

(* A call the queue or the group still holds may run.                      *)
LEMMA MayRunIs ==
  ASSUME AllInv, NEW t \in Tickets, t \in MayRunAgain, pc[t] # "idle"
  PROVE  Promise!MayRun(t)
<1>1. /\ outcome[t] = NoAnswer
      /\ pc[t] = "done" => reply[t] = Fault /\ Backend = "postgres"
  BY DEF AllInv, PendingInv, PendingOK
<1>2. QED
  BY <1>1 DEF Promise!MayRun

(* Calls that may run, each decided on what the one before it left, are    *)
(* one step of the promise.                                                *)
LEMMA Serves ==
  ASSUME AllInv, NEW n \in Nat \ {0}, NEW ts \in [1..n -> Tickets], Len(ts) = n,
         \A i \in 1..n : ts[i] \in MayRunAgain /\ pc[ts[i]] # "idle",
         \A i, j \in 1..n : ts[i] = ts[j] => i = j,
         NEW f \in [1..n + 1 -> Store], f[1] = db,
         \A i \in 1..n : f[i + 1] = Decided(f[i], ts[i]).db,
         db' = f[n + 1],
         outcome' = [u \in Tickets |-> outcome'[u]],
         \A i \in 1..n : outcome'[ts[i]] = Decided(f[i], ts[i]).answer,
         \A u \in Tickets : (\A i \in 1..n : ts[i] # u) => outcome'[u] = outcome[u],
         CallOf' = CallOf, reply' = reply
  PROVE  Promise!Serve
<1> DEFINE S == {t \in Tickets : Promise!MayRun(t)}
<1>1. Promise!Before(ts) = f
  BY BeforeIs
<1>2. \A i \in 1..n : ts[i] \in S
  BY MayRunIs
<1>3. ts \in [1..n -> S]
  BY <1>2
<1>4. n \in 1..Cardinality(S)
  <2>1. IsFiniteSet(S) /\ Cardinality(S) \in Nat
    BY MayRunFinite
  <2> HIDE DEF S
  <2>2. ts \in Injection(1..n, S)
    BY <1>3 DEF Injection, IsInjective
  <2>3. Cardinality(1..n) = n
    BY CountTo
  <2>4. Cardinality(1..n) <= Cardinality(S)
    BY <2>1, <2>2, FS_Injection
  <2>5. QED
    BY <2>1, <2>3, <2>4
<1>5. ts \in Promise!Orders(S)
  <2> HIDE DEF S
  <2> DEFINE O(k) == {q \in [1..k -> S] : \A i, j \in 1..k : q[i] = q[j] => i = j}
  <2>1. ts \in O(n)
    BY <1>3
  <2>2. Promise!Orders(S) = UNION {O(k) : k \in 1..Cardinality(S)}
    BY Zenon DEF Promise!Orders, Promise!Cardinality, Cardinality
  <2> HIDE DEF O
  <2>3. QED
    BY <1>4, <2>1, <2>2
<1>6. Promise!Runs(ts)
  <2>1. DOMAIN ts = 1..n
    OBVIOUS
  <2>2. db' = Promise!Before(ts)[Len(ts) + 1]
    BY <1>1
  <2>3. outcome' = [t \in Tickets |->
       IF \E i \in DOMAIN ts : ts[i] = t
       THEN LET i == CHOOSE i \in DOMAIN ts : ts[i] = t
            IN Promise!Decided(Promise!Before(ts)[i], t).answer
       ELSE outcome[t]]
    <3>1. ASSUME NEW t \in Tickets, \E i \in 1..n : ts[i] = t
          PROVE  outcome'[t] =
                   Promise!Decided(Promise!Before(ts)[CHOOSE i \in 1..n : ts[i] = t], t).answer
      BY <1>1, <3>1, SameDecided
    <3>2. QED
      BY <2>1, <3>1
  <2>4. QED
    BY <2>2, <2>3 DEF Promise!Runs, CallOf
<1>7. QED
  BY <1>5, <1>6 DEF Promise!Serve

(* A group committed serves its calls, an empty one changes nothing.       *)
LEMMA CommitServes ==
  ASSUME AllInv, NEW t \in Tickets, CommitGroup(t) \/ CommitInDoubt(t)
  PROVE  Promise!Serve \/ UNCHANGED Promise!vars
<1>1. /\ WriterInv /\ OrderInv /\ PendingInv /\ TruthInv /\ pc[t] = "commit"
      /\ db' = tx /\ outcome' = GroupRan /\ reply' = reply
  BY DEF AllInv, CommitGroup, CommitInDoubt
<1>2. CallOf' = CallOf
  <2>1. PICK place \in {"give", "release", "alone"} : Goto(t, place)
    BY DEF CommitGroup, CommitInDoubt, EachAlone
  <2>2. QED
    BY <1>1, <2>1, SameCall
<1>3. Stage = "commit" /\ Trail
  BY <1>1, StageTyped DEF TruthInv, Leading
<1> DEFINE n == Len(group)
<1>4. group \in Seq(Tickets) /\ Len(answers) = n /\ n \in Nat /\ group \in [1..n -> Tickets]
      /\ DOMAIN group = 1..n /\ db \in Store
  BY <1>1, HolderFacts DEF GoodStore
<1>5. PICK f \in [1..n + 1 -> Store] : IsTrail(f)
  BY <1>3, <1>4 DEF Trail
<1>6. /\ f[1] = db /\ f[n + 1] = tx
      /\ \A i \in 1..n : f[i + 1] = Decided(f[i], group[i]).db
      /\ \A i \in 1..n : answers[i] = Decided(f[i], group[i]).answer
  BY <1>4, <1>5 DEF IsTrail
<1>7. /\ outcome' = [u \in Tickets |-> outcome'[u]]
      /\ \A i \in 1..n : outcome'[group[i]] = Decided(f[i], group[i]).answer
      /\ \A u \in Tickets : (\A i \in 1..n : group[i] # u) => outcome'[u] = outcome[u]
  <2>1. \A i, j \in 1..n : group[i] = group[j] => i = j
    BY <1>1, GroupApart
  <2>2. \A i \in 1..n : (CHOOSE j \in DOMAIN group : group[j] = group[i]) = i
    BY <1>4, <2>1
  <2>3. \A i \in 1..n : outcome'[group[i]] = answers[i]
    BY <1>1, <1>4, <2>2 DEF GroupRan
  <2>4. QED
    BY <1>1, <1>4, <1>6, <2>3 DEF GroupRan
<1>8. CASE n = 0
  <2>1. db' = db
    BY <1>1, <1>6, <1>8
  <2>2. outcome' = outcome
    <3>1. outcome \in [Tickets -> Answers] /\ \A u \in Tickets : outcome'[u] = outcome[u]
      BY <1>1, <1>7, <1>8, HolderFacts
    <3>2. QED
      BY <1>7, <3>1
  <2>3. QED
    BY <1>1, <1>2, <2>1, <2>2 DEF Promise!vars, CallOf
<1>9. CASE n # 0
  <2>1. \A i \in 1..n : group[i] \in MayRunAgain /\ pc[group[i]] # "idle"
    BY <1>1, <1>3, <1>4, GroupApart DEF MayRunAgain
  <2>2. \A i, j \in 1..n : group[i] = group[j] => i = j
    BY <1>1, GroupApart
  <2> HIDE DEF n
  <2>3. n \in Nat \ {0} /\ Len(group) = n /\ db' = f[n + 1]
    BY <1>1, <1>4, <1>6, <1>9 DEF n
  <2>4. Promise!Serve
    BY <1>1, <1>2, <1>4, <1>6, <1>7, <2>1, <2>2, <2>3, Serves
  <2>5. QED
    BY <2>4
<1>10. QED
  BY <1>8, <1>9

(* A call run alone is served, or spoilt, or left unrun.                   *)
LEMMA AloneServes ==
  ASSUME AllInv, NEW t \in Tickets, Alone(t)
  PROVE  \/ Promise!Serve \/ UNCHANGED Promise!vars
         \/ \E u \in Tickets : Promise!Spoil(u)
<1> DEFINE g == group[at]
<1>1. /\ WriterInv /\ OrderInv /\ PendingInv /\ TruthInv /\ pc[t] = "alone"
      /\ at \in 1..Len(group) /\ g \in Tickets /\ reply' = reply
  BY AloneSummary DEF AllInv
<1>2. CallOf' = CallOf
  <2>1. PICK place \in {"release", "alone"} : Goto(t, place)
    BY <1>1, AloneSummary
  <2>2. QED
    BY <1>1, <2>1, SameCall
<1>3. CASE UNCHANGED <<db, outcome>>
  BY <1>1, <1>2, <1>3 DEF Promise!vars, CallOf
<1>4. ASSUME NEW a, MayBegin, Ended(g, a)
      PROVE  \/ Promise!Serve \/ UNCHANGED Promise!vars
             \/ \E u \in Tickets : Promise!Spoil(u)
  <2>1. Stage = "alone"
    BY <1>1, StageTyped DEF Leading
  <2>2. g \in MayRunAgain /\ pc[g] # "idle"
    BY <1>1, <1>4, <2>1, HolderFacts, GroupApart DEF MayRunAgain, ToRun
  <2>3. Promise!MayRun(g)
    BY <1>1, <2>2, MayRunIs
  <2> HIDE DEF g
  <2>4. CASE /\ db' = Decided(db, g).db
             /\ outcome' = [outcome EXCEPT ![g] = Decided(db, g).answer]
    <3> DEFINE ts == <<g>>
               f == [i \in 1..2 |-> IF i = 1 THEN db ELSE Decided(db, g).db]
    <3>1. GoodStore(db) /\ db \in Store /\ Decided(db, g).db \in Store
          /\ outcome \in [Tickets -> Answers]
      BY <1>1, HolderFacts, DecidedGood DEF GoodStore
    <3>2. 1..1 = {1} /\ 1..(1 + 1) = {1, 2} /\ 1..2 = {1, 2} /\ 1 + 1 = 2 /\ 1 \in Nat \ {0}
      OBVIOUS
    <3>3. ts \in [1..1 -> Tickets] /\ Len(ts) = 1 /\ ts[1] = g
      BY <1>1
    <3>4. f \in [1..(1 + 1) -> Store] /\ f[1] = db /\ f[2] = Decided(db, g).db
      BY <3>1, <3>2
    <3> HIDE DEF ts, f
    <3>5. \A i \in 1..1 : f[i + 1] = Decided(f[i], ts[i]).db
      BY <3>2, <3>3, <3>4
    <3>6. /\ outcome' = [u \in Tickets |-> outcome'[u]]
          /\ \A i \in 1..1 : outcome'[ts[i]] = Decided(f[i], ts[i]).answer
          /\ \A u \in Tickets : (\A i \in 1..1 : ts[i] # u) => outcome'[u] = outcome[u]
      BY <1>1, <2>4, <3>1, <3>2, <3>3, <3>4 DEF g
    <3>7. (\A i \in 1..1 : ts[i] \in MayRunAgain /\ pc[ts[i]] # "idle")
          /\ (\A i, j \in 1..1 : ts[i] = ts[j] => i = j)
          /\ db' = f[1 + 1]
      BY <2>2, <2>4, <3>2, <3>3, <3>4
    <3>8. Promise!Serve
      BY <1>1, <1>2, <3>2, <3>3, <3>4, <3>5, <3>6, <3>7, Serves
    <3>9. QED
      BY <3>8
  <2>5. CASE db' \in {db, Logged(db, g)} /\ outcome' = [outcome EXCEPT ![g] = Exhausted]
    <3>1. Promise!Spoil(g)
      BY <1>1, <1>2, <2>3, <2>5, SameDecided DEF Promise!Spoil, CallOf
    <3>2. QED
      BY <1>1, <3>1 DEF g
  <2>6. CASE db' = Drawn(db) /\ outcome' = outcome
    <3>1. Promise!Spoil(g)
      BY <1>1, <1>2, <2>3, <2>6, SameDecided DEF Promise!Spoil, CallOf
    <3>2. QED
      BY <1>1, <3>1 DEF g
  <2>7. QED
    BY <1>3, <1>4, <2>4, <2>5, <2>6 DEF Ended
<1>5. QED
  BY <1>1, <1>3, <1>4, AloneEnds

(* A caller is told what its run decided, or a fault.                      *)
LEMMA RepliesKept ==
  ASSUME AllInv, NEW t \in Tickets, NEW a \in {answer[t], Fault}, a # NoAnswer,
         pc[t] \notin {"idle", "done"}, Goto(t, "done"),
         reply' = [reply EXCEPT ![t] = a], UNCHANGED <<db, outcome>>
  PROVE  \E b \in {outcome[t], Fault} : Promise!Reply(t, b)
<1>1. WriterInv /\ a \in {outcome[t], Fault} \ {NoAnswer}
  BY AnswersApart DEF AllInv, PendingInv, ToldOK
<1>2. CallOf' = [CallOf EXCEPT ![t] = "closed"] /\ CallOf[t] = "open"
  BY <1>1, SameCall DEF CallOf
<1>3. Promise!Reply(t, a)
  BY <1>1, <1>2 DEF Promise!Reply, CallOf
<1>4. QED
  BY <1>1, <1>3

LEMMA StepKeepsPromise ==
  ASSUME AllInv, [Next]_vars
  PROVE  [Promise!Next]_Promise!vars
<1>1. WriterInv
  BY DEF AllInv
<1>2. ASSUME NEW t \in Tickets, Queue(t) PROVE Promise!Next
  <2>1. CallOf' = [CallOf EXCEPT ![t] = "open"] /\ CallOf[t] = "idle"
    <3>1. /\ pc[t] = "idle"
          /\ \A u \in Tickets : pc'[u] = IF u = t THEN "locking" ELSE pc[u]
      BY <1>1, <1>2, SameCall DEF Queue
    <3>2. QED
      BY <3>1 DEF CallOf
  <2>2. Promise!Call(t)
    BY <1>2, <2>1 DEF Promise!Call, CallOf, Queue, storeVars
  <2>3. QED
    BY <2>2 DEF Promise!Next
<1>3. ASSUME NEW t \in Tickets,
             \/ pc[t] = "refused" /\ TakeRefused(t) /\ answer[t] # NoAnswer
             \/ pc[t] = "check" /\ Check(t) /\ answer[t] # NoAnswer
             \/ AnsweredFirst(t) \/ Leave(t)
      PROVE  Promise!Next
  <2>1. /\ pc[t] \notin {"idle", "done"} /\ Goto(t, "done") /\ UNCHANGED <<db, outcome>>
        /\ \E a \in {answer[t], Fault} : a # NoAnswer /\ reply' = [reply EXCEPT ![t] = a]
    BY <1>3, AnswersApart DEF TakeRefused, Check, AnsweredFirst, Leave, Reply, storeVars
  <2>2. \E b \in {outcome[t], Fault} : Promise!Reply(t, b)
    BY <2>1, RepliesKept
  <2>3. QED
    BY <2>2 DEF Promise!Next
<1>4. ASSUME NEW t \in Tickets,
             \/ Locked(t) \/ Drain(t) \/ Release(t)
             \/ TakeRefused(t) /\ answer[t] = NoAnswer
             \/ Check(t) /\ answer[t] = NoAnswer
             \/ BeginGroup(t) \/ BeginGroupFails(t) \/ RunNext(t) \/ RunFails(t)
             \/ RunPanics(t) \/ CommitFails(t) \/ GiveAnswers(t)
      PROVE  UNCHANGED Promise!vars
  <2>1. UNCHANGED <<db, outcome, reply>>
    BY <1>4 DEF Locked, Lock, LockLatched, LockFindsStoreLost, LockReopens,
       LockUnreachable, LockRefused, Drain, Release, TakeRefused, Check, BeginGroup,
       BeginGroupFails, RunNext, RunFails, RunPanics, CommitFails, GiveAnswers, storeVars
  <2>2. /\ pc[t] \notin {"idle", "done"}
        /\ \E place : place \notin {"idle", "done"} /\ Goto(t, place)
    <3> DEFINE Stays == /\ pc[t] \notin {"idle", "done"}
                        /\ \E place : place \notin {"idle", "done"} /\ Goto(t, place)
    <3>1. Locked(t) => Stays
      BY DEF Locked, Lock, LockLatched, LockFindsStoreLost, LockReopens,
         LockUnreachable, LockRefused, MayLock
    <3>2. Drain(t) => Stays
      BY DEF Drain
    <3>3. /\ Release(t) => Stays
          /\ TakeRefused(t) /\ answer[t] = NoAnswer => Stays
          /\ Check(t) /\ answer[t] = NoAnswer => Stays
          /\ GiveAnswers(t) => Stays
      BY DEF Release, TakeRefused, Check, GiveAnswers
    <3>4. (BeginGroup(t) => Stays) /\ (RunNext(t) => Stays)
      BY DEF BeginGroup, RunNext
    <3>5. /\ BeginGroupFails(t) => Stays
          /\ RunFails(t) => Stays
          /\ RunPanics(t) => Stays
          /\ CommitFails(t) => Stays
      BY DEF BeginGroupFails, RunFails, RunPanics, CommitFails, EachAlone
    <3> HIDE DEF Stays
    <3>6. Stays
      BY <1>4, <3>1, <3>2, <3>3, <3>4, <3>5
    <3>7. QED
      BY <3>6 DEF Stays
  <2>3. CallOf' = CallOf
    BY <1>1, <2>2, SameCall
  <2>4. QED
    BY <2>1, <2>3 DEF Promise!vars, CallOf
<1>5. ASSUME NEW t \in Tickets,
             CommitGroup(t) \/ CommitInDoubt(t) \/ Alone(t)
      PROVE  Promise!Next \/ UNCHANGED Promise!vars
  BY <1>5, CommitServes, AloneServes DEF Promise!Next
<1>6. ASSUME NEW t \in Tickets, Step(t) PROVE Promise!Next \/ UNCHANGED Promise!vars
  <2>1. CASE TakeRefused(t) \/ Check(t)
    BY <1>3, <1>4, <2>1 DEF TakeRefused, Check
  <2>2. CASE ~(TakeRefused(t) \/ Check(t))
    BY <1>3, <1>4, <1>5, <1>6, <2>2 DEF Step, Queued, Grouped
  <2>3. QED
    BY <2>1, <2>2
<1>7. ASSUME Crash PROVE Promise!Next
  <2>1. pc \in [Tickets -> Places]
    BY <1>1 DEF WriterInv, TypeOK, ThreadsOK
  <2>2. \A t \in Tickets : pc'[t] = IF Open(t) THEN "done" ELSE pc[t]
    BY <1>7 DEF Crash
  <2>3. CallOf' = [t \in Tickets |-> IF CallOf[t] = "open" THEN "closed" ELSE CallOf[t]]
    BY <2>1, <2>2 DEF CallOf, Open
  <2>4. \A t \in Tickets : Open(t) <=> CallOf[t] = "open"
    BY DEF Open, CallOf
  <2>5. Promise!Stop
    BY <1>7, <2>3, <2>4 DEF Promise!Stop, CallOf, Crash
  <2>6. QED
    BY <2>5 DEF Promise!Next
<1>8. CASE UNCHANGED vars
  BY <1>8 DEF vars, Promise!vars
<1>9. QED
  BY <1>2, <1>6, <1>7, <1>8 DEF Next, Finished

(* The groups commit what their requests would have left run one by one,   *)
(* each against what the ones before it left, no call twice, and each      *)
(* caller is told what its run decided (main.rs, queued and run_group;     *)
(* store.rs, transact_grouped): the writer implements RecordStore.         *)
THEOREM PromiseKept == Spec => KeepsItsPromise
<1>1. Init => Promise!Init
  BY DEF Init, Promise!Init, EmptyStore, Promise!EmptyStore
<1>2. AllInv /\ [Next]_vars => [Promise!Next]_Promise!vars
  BY StepKeepsPromise
<1>3. QED
  BY <1>1, <1>2, AllInvAlways, PTL DEF Spec, KeepsItsPromise, Promise!Spec
=============================================================================
