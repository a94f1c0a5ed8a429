----------------------------- MODULE GroupCommit -----------------------------
(***************************************************************************)
(* The writer of ObjectFlow's service (objectflow-service, main.rs): the   *)
(* requests of POST /v1/request queue, whichever takes the writer's mutex  *)
(* next runs those waiting as one group on one transaction of the store,   *)
(* and each is answered once the group commits (ADR-0208).  A store error, *)
(* a panic or a failed commit rolls the group back and runs each of its    *)
(* requests again alone.  A connection whose rollback failed is given up:  *)
(* on SQLite the service latches and serves no more until a restart, on    *)
(* PostgreSQL the store is opened again before the next write.             *)
(*                                                                         *)
(* Each thread's step between two operations on shared state (the queue's  *)
(* mutex, the writer's mutex, a ticket's answer, the store's file) is one  *)
(* action.  The process may be killed between any two of them.             *)
(***************************************************************************)
EXTENDS Requests

CONSTANTS
  Backend,    \* "sqlite" or "postgres": the database the store is in
  GroupMost,  \* GROUP_MOST, the most requests one group holds
  MaxFaults,  \* bound: store errors, panics and losses in a behaviour
  MaxCrashes, \* bound: how often the process is killed
  Nobody,     \* the writer's holder while its mutex is free
  NoTx        \* the transaction open on the connection while none is

ASSUME GroupCommitAssumption ==
  /\ Backend \in {"sqlite", "postgres"}
  /\ GroupMost \in Nat \ {0}
  /\ MaxFaults \in Nat /\ MaxCrashes \in Nat
  /\ Nobody \notin Tickets
  /\ NoTx \notin Store

VARIABLES
  pc,        \* where each call's thread stands
  waiting,   \* Groups.waiting, the tickets queued
  holder,    \* the thread holding the writer's mutex
  answer,    \* Ticket.answer, taken when the caller is answered
  reply,     \* what each caller was answered
  group,     \* the tickets the holder drained
  at,        \* the index of the group's ticket run next
  answers,   \* the group's answers held until its commit
  db,        \* the store's durable state
  tx,        \* what the transaction open on the connection would commit
  conn,      \* the store's connection: "usable", "given_up" or "none"
  latched,   \* Watch.latched: the store served no more until a restart
  arrived,   \* history: every ticket in the order it queued
  outcome,   \* history: what the durable store holds of each call's run
  faults, crashes

vars == <<pc, waiting, holder, answer, reply, group, at, answers, db, tx, conn,
          latched, arrived, outcome, faults, crashes>>
threadVars == <<pc, waiting, holder, answer, reply, arrived>>
groupVars == <<group, at, answers>>
storeVars == <<db, tx, conn, latched, outcome>>
boundVars == <<faults, crashes>>

NoAnswer == Answer("none", 0)
Fault == Answer("fault", 0)
Lost == Answer("lost", 0)      \* the process ended before it answered
Exhausted == Answer("retries_exhausted", 0)

(* The steps a call's thread takes holding the writer.                     *)
Leading == {"holding", "begin", "run", "commit", "give", "alone", "release"}
Places == Leading \cup {"idle", "locking", "refused", "leaving", "check", "done"}

Init ==
  /\ pc = [t \in Tickets |-> "idle"]
  /\ waiting = <<>>
  /\ holder = Nobody
  /\ answer = [t \in Tickets |-> NoAnswer]
  /\ reply = [t \in Tickets |-> NoAnswer]
  /\ group = <<>> /\ at = 1 /\ answers = <<>>
  /\ db = EmptyStore /\ tx = NoTx
  /\ conn = "usable" /\ latched = FALSE
  /\ arrived = <<>>
  /\ outcome = [t \in Tickets |-> NoAnswer]
  /\ faults = 0 /\ crashes = 0

Goto(t, place) == pc' = [pc EXCEPT ![t] = place]
FaultHappens == faults < MaxFaults /\ faults' = faults + 1 /\ UNCHANGED crashes

-----------------------------------------------------------------------------
(* queued: the ticket pushed, then the loop that takes the writer.         *)

(* A slip: the newest first.                                               *)
PushedFirst(t) == <<t>> \o waiting
Pushed(t) == Append(waiting, t)

Queue(t) ==
  /\ pc[t] = "idle"
  /\ waiting' = Pushed(t)
  /\ arrived' = Append(arrived, t)
  /\ Goto(t, "locking")
  /\ UNCHANGED <<holder, answer, reply, groupVars, storeVars, boundVars>>

(* locked: the mutex taken, then its checks made holding it.  Where they   *)
(* refuse, the guard drops as locked returns.                              *)
MayLockHeld(t) == pc[t] = "locking"   \* a slip: the mutex not waited for
MayLock(t) == pc[t] = "locking" /\ holder = Nobody

LockRefused(t) ==
  /\ Goto(t, "refused")
  /\ UNCHANGED <<waiting, holder, answer, reply, arrived, groupVars>>

Lock(t) ==
  /\ MayLock(t) /\ ~latched /\ conn = "usable"
  /\ holder' = t
  /\ Goto(t, "holding")
  /\ UNCHANGED <<waiting, answer, reply, arrived, groupVars, storeVars, boundVars>>

(* A latched store, or a SQLite connection given up, which latches it.     *)
LockLatched(t) ==
  /\ MayLock(t)
  /\ latched \/ (Backend = "sqlite" /\ conn # "usable")
  /\ latched' = TRUE
  /\ LockRefused(t)
  /\ UNCHANGED <<db, tx, conn, outcome, boundVars>>

(* A slip: what was found lost is looked for afresh by the next write.     *)
LockFindsStoreLostOnce(t) ==
  /\ MayLock(t) /\ ~latched
  /\ Backend = "sqlite" \/ conn # "usable"
  /\ FaultHappens
  /\ LockRefused(t)
  /\ UNCHANGED storeVars

(* store_lost, or a reopened database that is not the store's: latched     *)
(* whatever the connection is.                                             *)
LockFindsStoreLost(t) ==
  /\ MayLock(t) /\ ~latched
  /\ Backend = "sqlite" \/ conn # "usable"
  /\ FaultHappens
  /\ latched' = TRUE
  /\ LockRefused(t)
  /\ UNCHANGED <<db, tx, conn, outcome>>

(* PostgreSQL's connection opened again before this write, the server      *)
(* having ended what the one lost left open; or not reached yet, the store *)
(* let go and this write refused.                                          *)
LostHere == Backend = "postgres" /\ conn # "usable" /\ ~latched

LockReopens(t) ==
  /\ MayLock(t) /\ LostHere
  /\ conn' = "usable" /\ tx' = NoTx
  /\ holder' = t
  /\ Goto(t, "holding")
  /\ UNCHANGED <<waiting, answer, reply, arrived, groupVars, db, latched, outcome,
                 boundVars>>

LockUnreachable(t) ==
  /\ MayLock(t) /\ LostHere
  /\ FaultHappens
  /\ conn' = "none" /\ tx' = NoTx
  /\ LockRefused(t)
  /\ UNCHANGED <<db, latched, outcome>>

(* locked answered a fault: the caller is given its group's answer where   *)
(* one ran, and otherwise leaves the queue, two steps on two locks.        *)
Reply(t, a) ==
  /\ reply' = [reply EXCEPT ![t] = a]
  /\ answer' = [answer EXCEPT ![t] = NoAnswer]
  /\ Goto(t, "done")

TakeRefused(t) ==
  /\ pc[t] = "refused"
  /\ IF answer[t] # NoAnswer
     THEN Reply(t, answer[t])
     ELSE Goto(t, "leaving") /\ UNCHANGED <<answer, reply>>
  /\ UNCHANGED <<waiting, holder, arrived, groupVars, storeVars, boundVars>>

(* The queue without a ticket, which it holds once at most.                *)
Without(q, t) ==
  IF \E i \in DOMAIN q : q[i] = t
  THEN LET i == CHOOSE i \in DOMAIN q : q[i] = t
       IN [j \in 1..Len(q) - 1 |-> IF j < i THEN q[j] ELSE q[j + 1]]
  ELSE q

Leave(t) ==
  /\ pc[t] = "leaving"
  /\ waiting' = Without(waiting, t)
  /\ reply' = [reply EXCEPT ![t] = Fault]
  /\ Goto(t, "done")
  /\ UNCHANGED <<holder, answer, arrived, groupVars, storeVars, boundVars>>

(* The writer held: an answer an earlier group gave is returned, the       *)
(* writer dropped; otherwise the group is drained.                         *)
AnsweredFirst(t) ==
  /\ pc[t] = "holding" /\ answer[t] # NoAnswer
  /\ Reply(t, answer[t])
  /\ holder' = Nobody
  /\ UNCHANGED <<waiting, arrived, groupVars, storeVars, boundVars>>

Least(a, b) == IF a <= b THEN a ELSE b

(* A slip: the group's tickets read, and not taken off the queue.          *)
AfterNone(n) == waiting
After(n) == SubSeq(waiting, n + 1, Len(waiting))

Drain(t) ==
  /\ pc[t] = "holding" /\ answer[t] = NoAnswer
  /\ LET n == Least(Len(waiting), GroupMost) IN
       /\ group' = SubSeq(waiting, 1, n)
       /\ waiting' = After(n)
       /\ Goto(t, IF n = 1 THEN "alone" ELSE "begin")
  /\ at' = 1 /\ answers' = <<>>
  /\ UNCHANGED <<holder, answer, reply, arrived, storeVars, boundVars>>

-----------------------------------------------------------------------------
(* run_group, begin_group, transact_grouped, commit_group, abort_group.    *)

(* A begin is refused on a connection given up, and one that finds a       *)
(* transaction never ended gives its connection up.                        *)
MayBegin == conn = "usable" /\ tx = NoTx

(* What a transaction begun reads: the durable store, or what a            *)
(* transaction left open holds, which a begin would join.                  *)
Begun == IF tx = NoTx THEN db ELSE tx

(* A connection closed ends its transaction at PostgreSQL's server; a      *)
(* SQLite connection given up stays open, holding it.                      *)
LeftOpen == IF Backend = "postgres" THEN NoTx ELSE tx

BeginRefused ==
  /\ conn' = IF conn = "usable" THEN "given_up" ELSE conn
  /\ tx' = LeftOpen

(* roll_back: it ends the transaction, or gives the connection up.         *)
RollBack ==
  \/ tx' = NoTx /\ UNCHANGED conn
  \/ tx' = LeftOpen /\ conn' = "given_up"

(* reopened: the store opened again from its file or database; where it    *)
(* cannot be, SQLite keeps the one it has, and PostgreSQL holds none.      *)
Reopened ==
  \/ tx' = NoTx /\ conn' = "usable"
  \/ Backend = "sqlite" /\ RollBack
  \/ Backend = "postgres" /\ tx' = NoTx /\ conn' = "none"

(* A slip: the group's requests given no answer once it is rolled back.    *)
Abandoned(t) == Goto(t, "release") /\ at' = 1 /\ UNCHANGED <<group, answers>>
EachAlone(t) ==
  /\ Goto(t, IF group = <<>> THEN "release" ELSE "alone")
  /\ at' = 1
  /\ UNCHANGED <<group, answers>>

BeginGroup(t) ==
  /\ pc[t] = "begin"
  /\ MayBegin
  /\ tx' = Begun
  /\ Goto(t, IF group = <<>> THEN "commit" ELSE "run")
  /\ UNCHANGED <<waiting, holder, answer, reply, arrived, groupVars, db, conn,
                 latched, outcome, boundVars>>

BeginGroupFails(t) ==
  /\ pc[t] = "begin"
  /\ \/ ~MayBegin /\ BeginRefused /\ UNCHANGED boundVars
     \/ MayBegin /\ FaultHappens /\ RollBack
  /\ EachAlone(t)
  /\ UNCHANGED <<waiting, holder, answer, reply, arrived, db, latched, outcome>>

(* What each request of the group is decided on: the transaction as the    *)
(* requests before it left it.                                             *)
GroupWorld == tx

(* A request of the group on a savepoint of its transaction: what applies  *)
(* is released into it, what is refused rolled back to it, the numbers it  *)
(* drew and its attempt kept.                                              *)
RunNext(t) ==
  /\ pc[t] = "run"
  /\ LET d == Decided(GroupWorld, group[at]) IN
       /\ tx' = d.db
       /\ answers' = Append(answers, d.answer)
  /\ Goto(t, IF at = Len(group) THEN "commit" ELSE "run")
  /\ at' = at + 1
  /\ UNCHANGED <<waiting, holder, answer, reply, arrived, group, db, conn, latched,
                 outcome, boundVars>>

RunFails(t) ==
  /\ pc[t] = "run"
  /\ FaultHappens
  /\ RollBack
  /\ EachAlone(t)
  /\ UNCHANGED <<waiting, holder, answer, reply, arrived, db, latched, outcome>>

RunPanics(t) ==
  /\ pc[t] = "run"
  /\ FaultHappens
  /\ Reopened
  /\ EachAlone(t)
  /\ UNCHANGED <<waiting, holder, answer, reply, arrived, db, latched, outcome>>

GroupRan ==
  [u \in Tickets |->
     IF \E i \in DOMAIN group : group[i] = u
     THEN answers[CHOOSE i \in DOMAIN group : group[i] = u]
     ELSE outcome[u]]

CommitGroup(t) ==
  /\ pc[t] = "commit"
  /\ db' = tx /\ tx' = NoTx
  /\ outcome' = GroupRan
  /\ Goto(t, "give")
  /\ UNCHANGED <<waiting, holder, answer, reply, arrived, groupVars, conn, latched,
                 boundVars>>

(* A slip: the answers given whatever the commit answered.                 *)
CommitFailsAnswered(t) ==
  /\ pc[t] = "commit"
  /\ FaultHappens
  /\ RollBack
  /\ Goto(t, "give")
  /\ UNCHANGED <<waiting, holder, answer, reply, arrived, groupVars, db, latched,
                 outcome>>

CommitFails(t) ==
  /\ pc[t] = "commit"
  /\ FaultHappens
  /\ RollBack
  /\ EachAlone(t)
  /\ UNCHANGED <<waiting, holder, answer, reply, arrived, db, latched, outcome>>

(* A slip: the connection kept, its loss not noticed.                      *)
CommitInDoubtKept(t) ==
  /\ pc[t] = "commit" /\ Backend = "postgres"
  /\ FaultHappens
  /\ db' = tx /\ tx' = NoTx
  /\ outcome' = GroupRan
  /\ EachAlone(t)
  /\ UNCHANGED <<waiting, holder, answer, reply, arrived, conn, latched>>

(* PostgreSQL committed and its answer was lost with the connection.       *)
CommitInDoubt(t) ==
  /\ pc[t] = "commit" /\ Backend = "postgres"
  /\ FaultHappens
  /\ db' = tx /\ tx' = NoTx /\ conn' = "given_up"
  /\ outcome' = GroupRan
  /\ EachAlone(t)
  /\ UNCHANGED <<waiting, holder, answer, reply, arrived, latched>>

GiveAnswers(t) ==
  /\ pc[t] = "give"
  /\ answer' = [u \in Tickets |->
                  IF \E i \in DOMAIN group : group[i] = u
                  THEN answers[CHOOSE i \in DOMAIN group : group[i] = u]
                  ELSE answer[u]]
  /\ Goto(t, "release")
  /\ UNCHANGED <<waiting, holder, reply, arrived, groupVars, storeVars, boundVars>>

-----------------------------------------------------------------------------
(* alone: a request in transactions of its own, given its answer at once.  *)

GiveAlone(t, a) ==
  /\ pc[t] = "alone"
  /\ answer' = [answer EXCEPT ![group[at]] = a]
  /\ Goto(t, IF at = Len(group) THEN "release" ELSE "alone")
  /\ at' = at + 1
  /\ UNCHANGED <<waiting, holder, reply, arrived, group, answers, latched>>

Ran(u, a) == outcome' = [outcome EXCEPT ![u] = a]

AloneAnswers(t) ==
  /\ pc[t] = "alone" /\ MayBegin
  /\ LET d == Decided(Begun, group[at]) IN
       /\ db' = d.db
       /\ Ran(group[at], d.answer)
       /\ GiveAlone(t, d.answer)
  /\ tx' = NoTx
  /\ UNCHANGED <<conn, boundVars>>

(* The write lock held past every retry: a verdict, its attempt's row      *)
(* written where the lock has come free.                                   *)
AloneExhausted(t) ==
  /\ pc[t] = "alone" /\ MayBegin
  /\ FaultHappens
  /\ db' \in {db, Logged(db, group[at])}
  /\ Ran(group[at], Exhausted)
  /\ GiveAlone(t, Exhausted)
  /\ UNCHANGED <<conn, tx>>

(* What of the request an error left, told apart in the history.           *)
Leaves(u, left) ==
  /\ db' = left
  /\ IF left = Decided(db, u).db /\ left # db
     THEN Ran(u, Decided(db, u).answer)
     ELSE UNCHANGED outcome

(* A store error, whose commit on SQLite may leave its transaction open.   *)
AloneErrs(t) ==
  /\ pc[t] = "alone" /\ MayBegin
  /\ FaultHappens
  /\ \/ /\ \E left \in LeftByError(db, group[at]) : Leaves(group[at], left)
        /\ conn' \in {"usable", "given_up"}
        /\ tx' = NoTx
     \/ /\ Backend = "sqlite"
        /\ tx' = Decided(db, group[at]).db
        /\ UNCHANGED <<db, conn, outcome>>
  /\ GiveAlone(t, Fault)

AlonePanics(t) ==
  /\ pc[t] = "alone" /\ MayBegin
  /\ FaultHappens
  /\ \E left \in LeftByError(db, group[at]) : Leaves(group[at], left)
  /\ Reopened
  /\ GiveAlone(t, Fault)

AloneRefused(t) ==
  /\ pc[t] = "alone" /\ ~MayBegin
  /\ BeginRefused
  /\ GiveAlone(t, Fault)
  /\ UNCHANGED <<db, outcome, boundVars>>

(* The writer dropped, then the ticket's answer taken; without one, the    *)
(* group having been full before it, the loop runs again.                  *)
Release(t) ==
  /\ pc[t] = "release"
  /\ holder' = Nobody
  /\ group' = <<>> /\ at' = 1 /\ answers' = <<>>
  /\ Goto(t, "check")
  /\ UNCHANGED <<waiting, answer, reply, arrived, storeVars, boundVars>>

Check(t) ==
  /\ pc[t] = "check"
  /\ IF answer[t] # NoAnswer
     THEN Reply(t, answer[t])
     ELSE Goto(t, "locking") /\ UNCHANGED <<answer, reply>>
  /\ UNCHANGED <<waiting, holder, arrived, groupVars, storeVars, boundVars>>

-----------------------------------------------------------------------------
(* The process killed and started again on its store: every call open is   *)
(* answered nothing, and what was not committed is gone.                   *)
Open(t) == pc[t] \notin {"idle", "done"}

Crash ==
  /\ crashes < MaxCrashes /\ crashes' = crashes + 1
  /\ pc' = [t \in Tickets |-> IF Open(t) THEN "done" ELSE pc[t]]
  /\ reply' = [t \in Tickets |-> IF Open(t) THEN Lost ELSE reply[t]]
  /\ answer' = [t \in Tickets |-> NoAnswer]
  /\ waiting' = <<>> /\ holder' = Nobody
  /\ group' = <<>> /\ at' = 1 /\ answers' = <<>>
  /\ tx' = NoTx /\ conn' = "usable" /\ latched' = FALSE
  /\ UNCHANGED <<arrived, db, outcome, faults>>

(* Every call answered: nothing is left to do.                             *)
Finished == (\A t \in Tickets : pc[t] = "done") /\ UNCHANGED vars

Locked(t) ==
  \/ Lock(t) \/ LockLatched(t) \/ LockFindsStoreLost(t)
  \/ LockReopens(t) \/ LockUnreachable(t)

Grouped(t) ==
  \/ BeginGroup(t) \/ BeginGroupFails(t)
  \/ RunNext(t) \/ RunFails(t) \/ RunPanics(t)
  \/ CommitGroup(t) \/ CommitFails(t) \/ CommitInDoubt(t)
  \/ GiveAnswers(t)

Alone(t) ==
  \/ AloneAnswers(t) \/ AloneExhausted(t) \/ AloneErrs(t) \/ AlonePanics(t)
  \/ AloneRefused(t)

Queued(t) ==
  \/ Locked(t) \/ TakeRefused(t) \/ Leave(t) \/ AnsweredFirst(t) \/ Drain(t)
  \/ Release(t) \/ Check(t)

Step(t) == Queued(t) \/ Grouped(t) \/ Alone(t)

Next ==
  \/ \E t \in Tickets : Queue(t) \/ Step(t)
  \/ Crash
  \/ Finished

Spec == Init /\ [][Next]_vars

(* A thread with a step to take takes it; whether a call is made, and the  *)
(* process killed, is its environment's.                                   *)
FairSpec == Spec /\ \A t \in Tickets : WF_vars(Step(t))

-----------------------------------------------------------------------------
(* Properties.                                                             *)

(* The writer's mutex: exactly the thread holding it is at a step that     *)
(* needs it (main.rs, queued and locked).                                  *)
ThreadsOK ==
  /\ pc \in [Tickets -> Places]
  /\ holder \in Tickets \cup {Nobody}
  /\ \A t \in Tickets : pc[t] \in Leading <=> holder = t

QueueOK == waiting \in Seq(Tickets) /\ arrived \in Seq(Tickets)

(* A group drained holds GROUP_MOST requests at most, is run within its    *)
(* bounds, and has an answer held for each of its requests run.            *)
GroupOK ==
  /\ group \in Seq(Tickets) /\ Len(group) <= GroupMost
  /\ at \in Nat \ {0} /\ answers \in Seq(Answers)
  /\ \A t \in Tickets :
       /\ pc[t] \in {"run", "alone"} => at \in 1..Len(group)
       /\ pc[t] \in {"begin", "run"} => Len(answers) = at - 1
       /\ pc[t] = "begin" => at = 1
       /\ pc[t] \in {"commit", "give"} => Len(answers) = Len(group)

AnswersOK ==
  /\ answer \in [Tickets -> Answers] /\ reply \in [Tickets -> Answers]
  /\ outcome \in [Tickets -> Answers]

(* A group runs and commits on a transaction of its own, still open.       *)
StoresOK ==
  /\ db \in Store /\ tx \in Store \cup {NoTx}
  /\ conn \in {"usable", "given_up", "none"} /\ latched \in BOOLEAN
  /\ \A t \in Tickets : pc[t] \in {"run", "commit"} => tx # NoTx

TypeOK == ThreadsOK /\ QueueOK /\ GroupOK /\ AnswersOK /\ StoresOK

(* A caller answered satisfied has its request, or the one its key         *)
(* replays, in the durable store with the number it was told, through any  *)
(* rollback, panic, lost connection and restart after it.                  *)
AnsweredIsDurable ==
  \A t \in Tickets : reply[t].verdict = "satisfied" =>
    \E i \in DOMAIN db.log :
      /\ db.log[i].number = reply[t].number
      /\ \/ db.log[i].ticket = t
         \/ /\ Keyed(t) /\ KeyOf[db.log[i].ticket] = KeyOf[t]
            /\ BodyOf[db.log[i].ticket] = BodyOf[t]

(* No call applies twice, a group rolled back and run again alone          *)
(* included.                                                               *)
CallsApplyOnce ==
  \A i, j \in DOMAIN db.log : i # j => db.log[i].ticket # db.log[j].ticket

(* No key's request applies twice, however its retries are grouped with it *)
(* or run beside it, and whatever is rolled back between them.             *)
KeysApplyOnce ==
  \A i, j \in DOMAIN db.log : i # j /\ Keyed(db.log[i].ticket) =>
    KeyOf[db.log[i].ticket] # KeyOf[db.log[j].ticket]

(* A caller told its request was refused finds its row in the attempt log  *)
(* and nothing of it applied, whether it ran in a group, was rolled back   *)
(* with it, or ran alone (record_attempt).                                 *)
RefusedLeavesItsRow ==
  \A t \in Tickets : reply[t].verdict \in {"refused", "key_reused"} =>
    /\ t \in db.attempts
    /\ \A i \in DOMAIN db.log : db.log[i].ticket # t

(* No two calls draw one number, but a key's replays of what it applied: a *)
(* number a refused request drew is kept past its rollback, in a group as  *)
(* alone, and never drawn by what runs after it.                           *)
NumbersNotReused ==
  LET drew == {t \in Tickets : reply[t].verdict \in {"satisfied", "refused"}}
  IN \A t, u \in drew : t # u /\ reply[t].number = reply[u].number =>
       /\ Keyed(t) /\ KeyOf[t] = KeyOf[u]
       /\ reply[t].verdict = "satisfied" /\ reply[u].verdict = "satisfied"

(* Requests apply in the order they queued (main.rs, queued), through      *)
(* groups rolled back and run again alone.                                 *)
ArrivedBefore(t, u) ==
  \E i, j \in DOMAIN arrived : i < j /\ arrived[i] = t /\ arrived[j] = u
QueueOrder ==
  \A i, j \in DOMAIN db.log : i < j =>
    ArrivedBefore(db.log[i].ticket, db.log[j].ticket)

(* A call that queued and is not answered is in the queue, in the group    *)
(* the writer's holder runs, or has its answer waiting for it: no rollback *)
(* or panic leaves a thread waiting for an answer nobody will give.        *)
NoneForgotten ==
  \A t \in Tickets : pc[t] \notin {"idle", "done", "leaving"} =>
    \/ \E i \in DOMAIN waiting : waiting[i] = t
    \/ \E i \in DOMAIN group : group[i] = t
    \/ answer[t] # NoAnswer

(* No later group runs a request whose caller was answered a fault         *)
(* (main.rs, the comment in queued).                                       *)
FaultedNeverRuns ==
  [][\A t \in Tickets : reply[t] = Fault =>
       \A i \in DOMAIN db'.log \ DOMAIN db.log : db'.log[i].ticket # t]_vars

(* Every call made is answered, or lost with the process.                  *)
EveryCallAnswered == \A t \in Tickets : pc[t] = "locking" ~> pc[t] = "done"

(* The groups commit what the requests would have left run one by one.     *)
Promise ==
  INSTANCE RecordStore WITH
    call <- [t \in Tickets |->
               IF pc[t] = "idle" THEN "idle"
               ELSE IF pc[t] = "done" THEN "closed" ELSE "open"],
    MayRunLate <- Backend = "postgres"
KeepsItsPromise == Promise!Spec
=============================================================================
