------------------------------ MODULE Admission ------------------------------
(***************************************************************************)
(* The pools a service's heavy reads wait their turn in and the cut of the *)
(* write-ahead log that holds them back (objectflow-service, main.rs:      *)
(* Admission, Slot, reading_until, dry_running, cut_back, ADR-0189,        *)
(* ADR-0194, ADR-0205).  A read takes a slot of its pool, registers its    *)
(* stop there and opens its read of the store, which remembers where the   *)
(* stop stood; a change's dry run opens two, its checks run between them   *)
(* with none.  A cut bars every pool, waits a moment for those running,    *)
(* and where it is urgent moves their stops and waits for the read         *)
(* deadline before it truncates the log under the writer.                  *)
(*                                                                         *)
(* A pool's mutex and its condition variable are separate: whether to wait *)
(* is decided holding the mutex, a notification wakes only threads already *)
(* asleep, and bar and release take no mutex.                              *)
(***************************************************************************)
EXTENDS Integers, Sequences, FiniteSets

CONSTANTS
  Reads,      \* the heavy reads, each asked for once
  Pools,      \* the pools, in the order cut_back takes them
  DryRuns,    \* the pool of a change's dry runs
  Most,       \* how many reads each pool runs at once
  MaxWrites,  \* bound: writes in a behaviour
  Nobody      \* the holder of a mutex that is free

PoolSet == {Pools[i] : i \in DOMAIN Pools}

ASSUME AdmissionAssumption ==
  /\ Pools \in Seq(PoolSet) /\ Pools # <<>>
  /\ \A i, j \in DOMAIN Pools : i # j => Pools[i] # Pools[j]
  /\ DryRuns \in PoolSet
  /\ Most \in [PoolSet -> Nat \ {0}]
  /\ MaxWrites \in Nat
  /\ Nobody \notin Reads

VARIABLES
  poolOf,   \* the pool each read waits in, by what it asks for and who asks
  pc,       \* where each read stands
  late,     \* the reads waiting or running past their deadline
  moved,    \* the reads whose stop has moved since their read was opened
  running,  \* Admission.running of each pool
  mutex,    \* the read holding the mutex of running, deciding to wait
  barred,   \* Admission.barred of each pool
  readers,  \* Admission.readers: the reads whose stop each pool keeps
  cut,      \* where cut_back stands
  turn,     \* the pool it is at, an index of Pools
  urgent,   \* whether the cut is urgent
  told,     \* whether it has stopped the reads and waits for them again
  drained,  \* whether every pool it waited on drained
  past,     \* whether what it waits until has passed
  before,   \* history: the reads with a slot as its last bar was raised
  writer,   \* the writer's mutex: "free" or held by a "write" or the "cut"
  log,      \* the log's size: "short", past WAL_LIMIT, or past it WAL_URGENT times
  due,      \* Store.checkpoint_due: an erasure's truncation is due
  writes    \* how many writes have begun

vars == <<poolOf, pc, late, moved, running, mutex, barred, readers, cut, turn, urgent,
          told, drained, past, before, writer, log, due, writes>>
readVars == <<poolOf, pc, late, moved, readers>>
poolVars == <<running, mutex, barred>>
cutVars == <<cut, turn, urgent, told, drained, past, before>>
storeVars == <<writer, log, due, writes>>

ReadPlaces ==
  {"idle", "taking", "deciding", "asleep", "taken", "registered", "reading",
   "checking", "second", "ending", "leaving", "notifying", "done"}
(* A read's places while it has its slot, and its read of the store open.  *)
Slotted == {"taken", "registered", "reading", "checking", "second", "ending", "leaving"}
Opened == {"reading", "second"}
CutPlaces ==
  {"idle", "barring", "holding", "asleep", "stopping", "locking", "truncating",
   "releasing", "lowered"}

Init ==
  /\ poolOf \in [Reads -> PoolSet]
  /\ pc = [r \in Reads |-> "idle"] /\ late = {} /\ moved = {}
  /\ running = [p \in PoolSet |-> 0]
  /\ mutex = [p \in PoolSet |-> Nobody]
  /\ barred = [p \in PoolSet |-> FALSE]
  /\ readers = [p \in PoolSet |-> {}]
  /\ cut = "idle" /\ turn = 1 /\ urgent = FALSE /\ told = FALSE
  /\ drained = TRUE /\ past = FALSE /\ before = {}
  /\ writer = "free" /\ log = "short" /\ due = FALSE /\ writes = 0

Goto(r, place) == pc' = [pc EXCEPT ![r] = place]

FreeAlways(p) == TRUE   \* a slip: the mutex not waited for
Free(p) == mutex[p] = Nobody

-----------------------------------------------------------------------------
(* take, Slot and the read it is for.                                      *)

Ask(r) ==
  /\ pc[r] = "idle"
  /\ Goto(r, "taking")
  /\ UNCHANGED <<poolOf, late, moved, readers, poolVars, cutVars, storeVars>>

(* A slip: a slot taken where one is free, whatever holds the pool back.   *)
HasTurnUnbarred(p) == running[p] < Most[p]
HasTurn(p) == running[p] < Most[p] /\ ~barred[p]

(* The mutex locked: a slot taken, the read answered read_timeout past its *)
(* deadline, or the wait decided, the mutex kept until the thread sleeps.  *)
TakeSlot(r) ==
  /\ pc[r] = "taking" /\ Free(poolOf[r]) /\ HasTurn(poolOf[r])
  /\ running' = [running EXCEPT ![poolOf[r]] = @ + 1]
  /\ Goto(r, "taken")
  /\ UNCHANGED <<poolOf, late, moved, readers, mutex, barred, cutVars, storeVars>>

TakeTimesOut(r) ==
  /\ pc[r] = "taking" /\ Free(poolOf[r]) /\ ~HasTurn(poolOf[r])
  /\ r \in late /\ late' = late \ {r}
  /\ Goto(r, "done")
  /\ UNCHANGED <<poolOf, moved, readers, poolVars, cutVars, storeVars>>

TakeDecides(r) ==
  /\ pc[r] = "taking" /\ Free(poolOf[r]) /\ ~HasTurn(poolOf[r])
  /\ r \notin late
  /\ mutex' = [mutex EXCEPT ![poolOf[r]] = r]
  /\ Goto(r, "deciding")
  /\ UNCHANGED <<poolOf, late, moved, readers, running, barred, cutVars, storeVars>>

TakeSleeps(r) ==
  /\ pc[r] = "deciding"
  /\ mutex' = [mutex EXCEPT ![poolOf[r]] = Nobody]
  /\ Goto(r, "asleep")
  /\ UNCHANGED <<poolOf, late, moved, readers, running, barred, cutVars, storeVars>>

TakeWakesLate(r) ==
  /\ pc[r] = "asleep" /\ r \in late
  /\ Goto(r, "taking")
  /\ UNCHANGED <<poolOf, late, moved, readers, poolVars, cutVars, storeVars>>

(* The slot's stop kept with the pool's, after the mutex is let go.        *)
Register(r) ==
  /\ pc[r] = "taken"
  /\ readers' = [readers EXCEPT ![poolOf[r]] = @ \cup {r}]
  /\ Goto(r, "registered")
  /\ UNCHANGED <<poolOf, late, moved, poolVars, cutVars, storeVars>>

(* reading_until: a read of the store opened, stopped where its stop moves *)
(* from where it stands now.                                               *)
OpenRead(r) ==
  /\ pc[r] \in {"registered", "checking"}
  /\ Goto(r, IF pc[r] = "registered" THEN "reading" ELSE "second")
  /\ moved' = moved \ {r}
  /\ UNCHANGED <<poolOf, late, readers, poolVars, cutVars, storeVars>>

(* A read of the store ends: a dry run's first leads to its checks, where  *)
(* there is a change to check.                                             *)
EndRead(r) ==
  /\ pc[r] \in Opened
  /\ \/ Goto(r, "ending")
     \/ poolOf[r] = DryRuns /\ pc[r] = "reading" /\ Goto(r, "checking")
  /\ UNCHANGED <<poolOf, late, moved, readers, poolVars, cutVars, storeVars>>

(* No read opened: a store lost, or checks that could not run.             *)
OpenFails(r) ==
  /\ pc[r] \in {"registered", "checking"}
  /\ Goto(r, "ending")
  /\ UNCHANGED <<poolOf, late, moved, readers, poolVars, cutVars, storeVars>>

(* World::due: a read stopped, or past its deadline, ends at its next step *)
(* (a dry run's checks at their deadline alone).  A slip: no deadline.     *)
DueStopped(r) == r \in moved
Due(r) == r \in moved \/ r \in late

StopRead(r) ==
  /\ \/ pc[r] \in Opened /\ Due(r)
     \/ pc[r] = "checking" /\ r \in late
  /\ Goto(r, "ending")
  /\ UNCHANGED <<poolOf, late, moved, readers, poolVars, cutVars, storeVars>>

(* The slot dropped: its stop taken from the pool's, then its place given  *)
(* back, each under its own lock, then every thread waiting notified.      *)
DropStop(r) ==
  /\ pc[r] = "ending"
  /\ readers' = [readers EXCEPT ![poolOf[r]] = @ \ {r}]
  /\ late' = late \ {r} /\ moved' = moved \ {r}
  /\ Goto(r, "leaving")
  /\ UNCHANGED <<poolOf, poolVars, cutVars, storeVars>>

GivenBackNone(p) == running   \* a slip: the place kept
GivenBack(p) == [running EXCEPT ![p] = @ - 1]

DropSlot(r) ==
  /\ pc[r] = "leaving" /\ Free(poolOf[r])
  /\ running' = GivenBack(poolOf[r])
  /\ Goto(r, "notifying")
  /\ UNCHANGED <<poolOf, late, moved, readers, mutex, barred, cutVars, storeVars>>

(* notify_all of a pool: its reads asleep wake to look again, and the cut  *)
(* where it waits on the pool.                                             *)
Woken(p) ==
  [r \in Reads |->
     IF pc[r] = "asleep" /\ poolOf[r] = p THEN "taking" ELSE pc[r]]
CutWoken(p) == IF cut = "asleep" /\ Pools[turn] = p THEN "holding" ELSE cut

DropNotifies(r) ==
  /\ pc[r] = "notifying"
  /\ pc' = [Woken(poolOf[r]) EXCEPT ![r] = "done"]
  /\ cut' = CutWoken(poolOf[r])
  /\ UNCHANGED <<poolOf, late, moved, readers, poolVars, turn, urgent, told, drained,
                 past, before, storeVars>>

Deadline(r) ==
  /\ pc[r] \notin {"idle", "ending", "leaving", "notifying", "done"} /\ r \notin late
  /\ late' = late \cup {r}
  /\ UNCHANGED <<poolOf, pc, moved, readers, poolVars, cutVars, storeVars>>

-----------------------------------------------------------------------------
(* cut_back, one thread that looks every CUT_EVERY.                        *)

(* From the pool at its turn on to the next, or to what follows the last.  *)
ToNext(place, after) ==
  IF turn < Len(Pools)
  THEN turn' = turn + 1 /\ cut' = place
  ELSE turn' = 1 /\ cut' = after

(* The log long, or an erasure's truncation due, read under the writer.    *)
CutLooks ==
  /\ cut = "idle" /\ writer = "free"
  /\ log # "short" \/ due
  /\ urgent' = (due \/ log = "urgent")
  /\ cut' = "barring" /\ turn' = 1
  /\ UNCHANGED <<told, drained, past, before, readVars, poolVars, storeVars>>

BarredAtItsTurn(p) == barred   \* a slip: no pool barred before it is held
Barred(p) == [barred EXCEPT ![p] = TRUE]

CutBars ==
  /\ cut = "barring"
  /\ barred' = Barred(Pools[turn])
  /\ ToNext("barring", "holding")
  /\ before' = {r \in Reads : pc[r] \in Slotted}
  /\ UNCHANGED <<urgent, told, drained, past, readVars, running, mutex, storeVars>>

(* What follows once every pool was waited on: the writer taken, the cut   *)
(* left for the next look, the reads running stopped, or the cut missed.   *)
DeferredUnreleased == "idle"   \* a slip: the held reads not let in
Deferred == "releasing"
AfterHold(all) ==
  IF all THEN "locking"
  ELSE IF told THEN "releasing"
  ELSE IF urgent THEN "stopping"
  ELSE Deferred

(* hold: a pool barred again, then waited on until none runs in it.        *)
CutHolds ==
  LET p == Pools[turn] IN
  /\ cut = "holding" /\ Free(p)
  /\ barred' = [barred EXCEPT ![p] = TRUE]
  /\ IF running[p] = 0 \/ past
     THEN /\ drained' = (drained /\ running[p] = 0)
          /\ ToNext("holding", AfterHold(drained'))
     ELSE cut' = "asleep" /\ UNCHANGED <<turn, drained>>
  /\ UNCHANGED <<urgent, told, past, before, readVars, running, mutex, storeVars>>

CutMomentPasses ==
  /\ cut \in {"holding", "asleep"} /\ ~past
  /\ past' = TRUE
  /\ cut' = "holding"
  /\ UNCHANGED <<turn, urgent, told, drained, before, readVars, poolVars, storeVars>>

(* stop_readers: the stops a pool keeps moved.                             *)
CutStops ==
  /\ cut = "stopping"
  /\ moved' = moved \cup readers[Pools[turn]]
  /\ ToNext("stopping", "holding")
  /\ told' = TRUE /\ drained' = TRUE /\ past' = FALSE
  /\ UNCHANGED <<poolOf, urgent, before, pc, late, readers, poolVars, storeVars>>

CutLocks ==
  /\ cut = "locking" /\ writer = "free"
  /\ writer' = "cut" /\ cut' = "truncating"
  /\ UNCHANGED <<turn, urgent, told, drained, past, before, readVars, poolVars,
                 log, due, writes>>

(* truncate_log: done where no read is open on the log, missed where a     *)
(* short one, which takes no slot, outlasts CUT_WAIT.                      *)
ReadOpen == \E r \in Reads : pc[r] \in Opened

CutTruncates ==
  /\ cut = "truncating"
  /\ \/ ~ReadOpen /\ log' = "short" /\ due' = FALSE
     \/ UNCHANGED <<log, due>>
  /\ writer' = "free" /\ cut' = "releasing"
  /\ UNCHANGED <<turn, urgent, told, drained, past, before, readVars, poolVars,
                 writes>>

(* release: the bar lowered, then every thread waiting notified.           *)
CutLowers ==
  /\ cut = "releasing"
  /\ barred' = [barred EXCEPT ![Pools[turn]] = FALSE]
  /\ cut' = "lowered"
  /\ UNCHANGED <<turn, urgent, told, drained, past, before, readVars, running, mutex,
                 storeVars>>

CutNotifies ==
  /\ cut = "lowered"
  /\ pc' = Woken(Pools[turn])
  /\ ToNext("releasing", "idle")
  /\ IF turn < Len(Pools)
     THEN UNCHANGED <<urgent, told, drained, past, before>>
     ELSE /\ urgent' = FALSE /\ told' = FALSE /\ drained' = TRUE
          /\ past' = FALSE /\ before' = {}
  /\ UNCHANGED <<poolOf, late, moved, readers, poolVars, storeVars>>

CutStep ==
  \/ CutBars \/ CutHolds \/ CutMomentPasses \/ CutStops \/ CutLocks
  \/ CutTruncates \/ CutLowers \/ CutNotifies

-----------------------------------------------------------------------------
(* The writes, which make the log longer and may erase.                    *)
WriteBegins ==
  /\ writer = "free" /\ writes < MaxWrites
  /\ writer' = "write" /\ writes' = writes + 1
  /\ UNCHANGED <<log, due, readVars, poolVars, cutVars>>

(* after_erasure: an erasure's truncation tried at once, due again where a *)
(* read, a short one among them, is open on the log.                       *)
WriteEnds ==
  /\ writer = "write"
  /\ \E erased \in BOOLEAN :
       \/ (erased \/ due) /\ ~ReadOpen /\ log' = "short" /\ due' = FALSE
       \/ due' = (erased \/ due) /\ log' \in {log, "long", "urgent"}
  /\ writer' = "free"
  /\ UNCHANGED <<writes, readVars, poolVars, cutVars>>

ReadStep(r) ==
  \/ TakeSlot(r) \/ TakeTimesOut(r) \/ TakeDecides(r) \/ TakeSleeps(r)
  \/ TakeWakesLate(r) \/ Register(r) \/ StopRead(r) \/ DropStop(r)
  \/ DropSlot(r) \/ DropNotifies(r)

Next ==
  \/ \E r \in Reads :
       \/ Ask(r) \/ ReadStep(r) \/ OpenRead(r) \/ EndRead(r) \/ OpenFails(r)
       \/ Deadline(r)
  \/ CutLooks \/ CutStep
  \/ WriteBegins \/ WriteEnds

Spec == Init /\ [][Next]_vars

(* Time passes, threads run, and a write ends; how long a read or its      *)
(* checks take, within their deadline, is left open.                       *)
FairSpec ==
  /\ Spec
  /\ \A r \in Reads : /\ WF_vars(ReadStep(r)) /\ WF_vars(Deadline(r))
                       /\ WF_vars(OpenRead(r))
  /\ WF_vars(CutStep) /\ WF_vars(WriteEnds)

-----------------------------------------------------------------------------
(* Properties.                                                             *)

(* Each pool's mutex is held by exactly the read deciding to wait on it.   *)
TypeOK ==
  /\ poolOf \in [Reads -> PoolSet] /\ pc \in [Reads -> ReadPlaces]
  /\ late \in SUBSET Reads /\ moved \in SUBSET Reads
  /\ running \in [PoolSet -> Int]
  /\ mutex \in [PoolSet -> Reads \cup {Nobody}]
  /\ \A r \in Reads : pc[r] = "deciding" <=> mutex[poolOf[r]] = r
  /\ barred \in [PoolSet -> BOOLEAN]
  /\ readers \in [PoolSet -> SUBSET Reads]
  /\ cut \in CutPlaces /\ turn \in DOMAIN Pools
  /\ urgent \in BOOLEAN /\ told \in BOOLEAN /\ drained \in BOOLEAN
  /\ past \in BOOLEAN /\ before \in SUBSET Reads
  /\ writer \in {"free", "write", "cut"} /\ log \in {"short", "long", "urgent"}
  /\ due \in BOOLEAN /\ writes \in 0..MaxWrites

Running(p) == {r \in Reads : poolOf[r] = p /\ pc[r] \in Slotted}

(* A pool's count is the reads that hold its slots, however each of them   *)
(* ends, and never more than it runs at once (Admission, Slot's drop).     *)
SlotsBounded ==
  \A p \in PoolSet : running[p] = Cardinality(Running(p)) /\ running[p] <= Most[p]

(* No read that takes a slot is running, nor begins, while the cut has the *)
(* writer and truncates the log (cut_back, hold).                          *)
NoneRunsAtTheCut == cut = "truncating" => \A p \in PoolSet : Running(p) = {}

(* An urgent cut stops no read that began after it barred the pools: "no   *)
(* read begins in one while the cut waits on another, to be found running  *)
(* and stopped" (cut_back).                                                *)
StopsOnlyEarlier ==
  [][cut = "stopping" /\ moved' # moved => (moved' \ moved) \subseteq before]_vars

(* The reads a cut holds back are let in again, however it ends (release). *)
BarsLifted == \A p \in PoolSet : barred[p] ~> ~barred[p]

(* Each read asked for is answered, waiting and running within its         *)
(* deadline (take, World::due).                                            *)
EveryReadAnswered == \A r \in Reads : pc[r] = "taking" ~> pc[r] = "done"

(* "release lets the held ones in": no read sleeps on a pool no longer     *)
(* held, with a slot free and nobody left to wake it (Admission::release). *)
ReleaseLetsHeldIn ==
  \A r \in Reads : pc[r] = "asleep" /\ HasTurn(poolOf[r]) =>
    \/ r \in late
    \/ cut = "lowered" /\ Pools[turn] = poolOf[r]
    \/ \E u \in Reads : pc[u] = "notifying" /\ poolOf[u] = poolOf[r]
=============================================================================
