--------------------------- MODULE AdmissionProofs ---------------------------
(***************************************************************************)
(* The slots of the pools and the cut that waits on them, proved for every *)
(* set of reads, number of pools and of slots: a pool counts exactly the   *)
(* reads that hold its slots, a cut truncates the log with none running,   *)
(* and stops none that began after it barred the pools.                    *)
(***************************************************************************)
EXTENDS Admission, FiniteSetTheorems, TLAPS

(* The places of a cut that holds every pool back.                         *)
Holding == {"holding", "asleep", "stopping", "locking", "truncating"}

SlotsOK ==
  \A p \in PoolSet :
    /\ IsFiniteSet(Running(p))
    /\ running[p] = Cardinality(Running(p)) /\ running[p] <= Most[p]

(* A stop kept with a pool is of a read that has one of its slots, and has *)
(* not begun to give it back.                                              *)
KeptOK ==
  \A p \in PoolSet :
    readers[p] \subseteq Running(p) /\ \A r \in readers[p] : pc[r] # "leaving"

(* No read begins to give its slot back.                                   *)
NoneLeaves == \A u \in Reads : pc[u] # "leaving" => pc'[u] # "leaving"

(* The pools barred so far; and once every one is, none gains a read.      *)
BarsOK ==
  /\ cut = "barring" => \A i \in 1..Len(Pools) : i < turn => barred[Pools[i]]
  /\ cut \in Holding =>
       \A p \in PoolSet : barred[p] /\ Running(p) \subseteq before

(* The pools found drained so far stay so, being barred.                   *)
DrainedOK ==
  /\ cut \in {"holding", "asleep"} /\ drained =>
       \A i \in 1..Len(Pools) : i < turn => Running(Pools[i]) = {}
  /\ cut \in {"locking", "truncating"} => \A p \in PoolSet : Running(p) = {}

AdmissionInv == TypeOK /\ SlotsOK /\ KeptOK /\ BarsOK /\ DrainedOK


-----------------------------------------------------------------------------
(* The constants and the places, as the steps below use them.              *)
LEMMA PoolFacts ==
  /\ Len(Pools) \in Nat \ {0} /\ DOMAIN Pools = 1..Len(Pools)
  /\ \A i \in 1..Len(Pools) : Pools[i] \in PoolSet
  /\ \A p \in PoolSet : \E i \in 1..Len(Pools) : Pools[i] = p
  /\ 1 \in DOMAIN Pools
<1>1. Pools \in Seq(PoolSet) /\ Pools # <<>>
  BY AdmissionAssumption
<1>2. Len(Pools) \in Nat \ {0} /\ DOMAIN Pools = 1..Len(Pools)
  BY <1>1
<1>3. QED
  BY <1>1, <1>2 DEF PoolSet

LEMMA TurnTypes ==
  ASSUME TypeOK, NEW place, NEW after, ToNext(place, after)
  PROVE  /\ turn' \in DOMAIN Pools /\ cut' \in {place, after}
         /\ \/ turn < Len(Pools) /\ turn' = turn + 1 /\ cut' = place
            \/ turn = Len(Pools) /\ turn' = 1 /\ cut' = after
  BY PoolFacts DEF TypeOK, ToNext

LEMMA TypeInit ==
  ASSUME Init
  PROVE  TypeOK
<1>1. 1 \in DOMAIN Pools /\ 0 \in 0..MaxWrites
  BY PoolFacts, AdmissionAssumption
<1>2. \A r \in Reads : pc[r] # "deciding" /\ mutex[poolOf[r]] # r
  BY AdmissionAssumption DEF Init
<1>3. /\ poolOf \in [Reads -> PoolSet] /\ pc \in [Reads -> ReadPlaces]
      /\ running \in [PoolSet -> Int] /\ mutex \in [PoolSet -> Reads \cup {Nobody}]
  BY DEF Init, ReadPlaces
<1>4. barred \in [PoolSet -> BOOLEAN] /\ readers \in [PoolSet -> SUBSET Reads]
  BY DEF Init
<1>5. QED
  BY <1>1, <1>2, <1>3, <1>4 DEF Init, TypeOK, CutPlaces

LEMMA ReadTypes ==
  ASSUME TypeOK, NEW r \in Reads,
         Ask(r) \/ ReadStep(r) \/ OpenRead(r) \/ EndRead(r) \/ OpenFails(r) \/ Deadline(r)
  PROVE  TypeOK'
<1> USE DEF ReadPlaces, Goto, readVars, poolVars, cutVars, storeVars
<1>1. CASE Ask(r) \/ TakeWakesLate(r) \/ Deadline(r)
  BY <1>1 DEF Ask, TakeWakesLate, Deadline, TypeOK
<1>2. CASE TakeSlot(r)
  BY <1>2 DEF TakeSlot, TypeOK
<1>3. CASE TakeTimesOut(r)
  BY <1>3 DEF TakeTimesOut, TypeOK
<1>4. CASE TakeDecides(r)
  BY <1>4, AdmissionAssumption DEF TakeDecides, TypeOK, Free
<1>5. CASE TakeSleeps(r)
  BY <1>5, AdmissionAssumption DEF TakeSleeps, TypeOK
<1>6. CASE Register(r)
  BY <1>6 DEF Register, TypeOK
<1>7. CASE OpenRead(r) \/ EndRead(r)
  BY <1>7 DEF OpenRead, EndRead, TypeOK, Opened
<1>8. CASE OpenFails(r) \/ StopRead(r)
  BY <1>8 DEF OpenFails, StopRead, TypeOK, Opened
<1>9. CASE DropStop(r) \/ DropSlot(r)
  BY <1>9 DEF DropStop, DropSlot, GivenBack, TypeOK
<1>10. CASE DropNotifies(r)
  <2>1. cut' \in CutPlaces
    BY <1>10 DEF DropNotifies, CutWoken, TypeOK, CutPlaces
  <2>2. \A u \in Reads : pc'[u] = IF u = r THEN "done"
                                  ELSE IF pc[u] = "asleep" /\ poolOf[u] = poolOf[r]
                                       THEN "taking" ELSE pc[u]
    BY <1>10 DEF DropNotifies, Woken
  <2>3. pc' \in [Reads -> ReadPlaces]
    BY <1>10, <2>2 DEF DropNotifies, Woken, TypeOK
  <2>4. pc[r] = "notifying" /\ UNCHANGED <<poolOf, late, moved, readers, poolVars, turn,
             urgent, told, drained, past, before, storeVars>>
    BY <1>10 DEF DropNotifies
  <2>5. QED
    BY <2>1, <2>2, <2>3, <2>4 DEF TypeOK
<1>11. QED
  BY <1>1, <1>2, <1>3, <1>4, <1>5, <1>6, <1>7, <1>8, <1>9, <1>10 DEF ReadStep

LEMMA CutTypes ==
  ASSUME TypeOK, CutLooks \/ CutStep
  PROVE  TypeOK'
<1> USE DEF CutPlaces, readVars, poolVars, cutVars, storeVars
<1>0. CASE CutLooks
  <2>1. urgent' \in BOOLEAN
    BY <1>0 DEF CutLooks
  <2>2. QED
    BY <1>0, <2>1, PoolFacts DEF CutLooks, TypeOK
<1>1. CASE CutMomentPasses \/ CutLocks
  BY <1>1 DEF CutMomentPasses, CutLocks, TypeOK
<1>2. CASE CutBars
  BY <1>2, TurnTypes DEF CutBars, Barred, TypeOK
<1>3. CASE CutHolds
  <2>1. AfterHold(drained') \in {"locking", "releasing", "stopping"}
    BY DEF AfterHold, Deferred
  <2>2. turn' \in DOMAIN Pools /\ cut' \in CutPlaces /\ drained' \in BOOLEAN
    BY <1>3, <2>1, TurnTypes DEF CutHolds, TypeOK
  <2>3. QED
    BY <1>3, <2>2 DEF CutHolds, TypeOK
<1>4. CASE CutStops
  BY <1>4, TurnTypes, PoolFacts DEF CutStops, TypeOK
<1>5. CASE CutTruncates \/ CutLowers
  BY <1>5 DEF CutTruncates, CutLowers, TypeOK
<1>6. CASE CutNotifies
  <2>1. turn' \in DOMAIN Pools /\ cut' \in CutPlaces
    BY <1>6, TurnTypes DEF CutNotifies
  <2>2. \A u \in Reads : pc'[u] = IF pc[u] = "asleep" /\ poolOf[u] = Pools[turn]
                                  THEN "taking" ELSE pc[u]
    BY <1>6 DEF CutNotifies, Woken
  <2>3. pc' \in [Reads -> ReadPlaces]
    BY <1>6, <2>2 DEF CutNotifies, Woken, TypeOK, ReadPlaces
  <2>4. /\ UNCHANGED <<poolOf, late, moved, readers, poolVars, storeVars>>
        /\ urgent' \in BOOLEAN /\ told' \in BOOLEAN /\ drained' \in BOOLEAN
        /\ past' \in BOOLEAN /\ before' \in SUBSET Reads
    BY <1>6 DEF CutNotifies, TypeOK
  <2>5. QED
    BY <2>1, <2>2, <2>3, <2>4 DEF TypeOK
<1>7. QED
  BY <1>0, <1>1, <1>2, <1>3, <1>4, <1>5, <1>6 DEF CutStep

LEMMA WriteTypes ==
  ASSUME TypeOK, WriteBegins \/ WriteEnds
  PROVE  TypeOK'
<1>1. CASE WriteBegins
  BY <1>1, AdmissionAssumption DEF WriteBegins, TypeOK, readVars, poolVars, cutVars
<1>2. CASE WriteEnds
  BY <1>2 DEF WriteEnds, TypeOK, readVars, poolVars, cutVars
<1>3. QED
  BY <1>1, <1>2


-----------------------------------------------------------------------------
(* The reads with a slot of each pool, through the steps of the reads.     *)
LEMMA SameRunning ==
  ASSUME poolOf' = poolOf,
         \A u \in Reads : pc'[u] \in Slotted <=> pc[u] \in Slotted
  PROVE  \A p \in PoolSet : Running(p)' = Running(p)
  BY DEF Running

SafeOK == SlotsOK /\ KeptOK /\ BarsOK /\ DrainedOK

(* A step that gives and takes no slot and moves the cut at most from      *)
(* sleep to waking.                                                        *)
LEMMA QuietSafe ==
  ASSUME AdmissionInv, NoneLeaves, \A p \in PoolSet : Running(p)' = Running(p),
         UNCHANGED <<running, readers, barred, turn, drained, before>>,
         cut' = cut \/ (cut \in {"asleep", "holding"} /\ cut' = "holding")
  PROVE  SafeOK'
<1>0. \A p \in PoolSet : \A r \in readers[p] : r \in Reads
  BY DEF AdmissionInv, TypeOK
<1>1. SlotsOK' /\ KeptOK'
  BY <1>0 DEF AdmissionInv, SlotsOK, KeptOK, NoneLeaves
<1>2. BarsOK'
  BY DEF AdmissionInv, BarsOK, Holding
<1>3. DrainedOK'
  BY PoolFacts DEF AdmissionInv, DrainedOK
<1>4. QED
  BY <1>1, <1>2, <1>3 DEF SafeOK

LEMMA QuietReadSafe ==
  ASSUME AdmissionInv, NEW r \in Reads,
         \/ Ask(r) \/ TakeTimesOut(r) \/ TakeDecides(r) \/ TakeSleeps(r)
         \/ TakeWakesLate(r) \/ StopRead(r) \/ DropNotifies(r) \/ OpenRead(r)
         \/ EndRead(r) \/ OpenFails(r) \/ Deadline(r)
  PROVE  SafeOK'
<1>1. TypeOK
  BY DEF AdmissionInv
<1>2. CASE DropNotifies(r)
  <2>1. \A u \in Reads : pc'[u] = IF u = r THEN "done"
                                  ELSE IF pc[u] = "asleep" /\ poolOf[u] = poolOf[r]
                                       THEN "taking" ELSE pc[u]
    BY <1>2 DEF DropNotifies, Woken
  <2>2. /\ poolOf' = poolOf /\ NoneLeaves
        /\ \A u \in Reads : pc'[u] \in Slotted <=> pc[u] \in Slotted
    BY <1>2, <2>1 DEF DropNotifies, Slotted, NoneLeaves
  <2>3. /\ UNCHANGED <<running, readers, barred, turn, drained, before>>
        /\ cut' = cut \/ (cut = "asleep" /\ cut' = "holding")
    BY <1>2 DEF DropNotifies, CutWoken, poolVars
  <2>4. QED
    BY <2>2, <2>3, SameRunning, QuietSafe
<1>3. CASE ~DropNotifies(r)
  <2>1. /\ poolOf' = poolOf
        /\ UNCHANGED <<running, readers, barred, turn, drained, before, cut>>
    BY <1>3 DEF Ask, TakeTimesOut, TakeDecides, TakeSleeps, TakeWakesLate, StopRead,
       OpenRead, EndRead, OpenFails, Deadline, readVars, poolVars, cutVars
  <2>2. NoneLeaves /\ \A u \in Reads : pc'[u] \in Slotted <=> pc[u] \in Slotted
    <3>1. CASE Deadline(r)
      BY <3>1 DEF Deadline, NoneLeaves
    <3>2. CASE \/ Ask(r) \/ TakeTimesOut(r) \/ TakeDecides(r) \/ TakeSleeps(r)
               \/ TakeWakesLate(r)
      BY <1>1, <3>2 DEF Ask, TakeTimesOut, TakeDecides, TakeSleeps, TakeWakesLate,
         Goto, TypeOK, Slotted, NoneLeaves
    <3>3. CASE StopRead(r) \/ OpenRead(r) \/ EndRead(r) \/ OpenFails(r)
      BY <1>1, <3>3 DEF StopRead, OpenRead, EndRead, OpenFails, Goto, TypeOK, Slotted,
         Opened, NoneLeaves
    <3>4. QED
      BY <1>3, <3>1, <3>2, <3>3
  <2>3. QED
    BY <2>1, <2>2, SameRunning, QuietSafe
<1>4. QED
  BY <1>2, <1>3

(* A slot is taken of a pool that is not barred, so of none a cut holds.   *)
LEMMA TakeSlotSafe ==
  ASSUME AdmissionInv, NEW r \in Reads, TakeSlot(r)
  PROVE  SafeOK'
<1>0. PICK q \in PoolSet : q = poolOf[r]
  BY DEF AdmissionInv, TypeOK
<1>1. /\ TypeOK /\ ~barred[q] /\ running[q] < Most[q]
      /\ pc[r] = "taking" /\ running' = [running EXCEPT ![q] = @ + 1]
      /\ UNCHANGED <<poolOf, readers, barred, cut, turn, drained, before>>
  BY <1>0 DEF AdmissionInv, TypeOK, TakeSlot, HasTurn, cutVars
<1>2. \A u \in Reads : pc'[u] = IF u = r THEN "taken" ELSE pc[u]
  BY <1>1 DEF TakeSlot, Goto, TypeOK
<1>3. r \notin Running(q) /\ Running(q)' = Running(q) \cup {r}
  BY <1>0, <1>1, <1>2 DEF Running, Slotted
<1>4. \A p \in PoolSet : p # q => Running(p)' = Running(p)
  BY <1>0, <1>1, <1>2 DEF Running
<1>5. SlotsOK'
  <2>1. SUFFICES ASSUME NEW p \in PoolSet
                 PROVE  /\ IsFiniteSet(Running(p)')
                        /\ running'[p] = Cardinality(Running(p)')
                        /\ running'[p] <= Most[p]
    BY DEF SlotsOK
  <2>2. /\ IsFiniteSet(Running(p)) /\ running[p] = Cardinality(Running(p))
        /\ running[p] <= Most[p] /\ running[p] \in Int /\ Most[p] \in Nat
    BY <1>1, AdmissionAssumption DEF AdmissionInv, SlotsOK, TypeOK
  <2>3. CASE p # q
    BY <1>1, <1>4, <2>2, <2>3 DEF TypeOK
  <2>4. CASE p = q
    <3>1. running'[p] = running[p] + 1
      BY <1>1, <2>4 DEF TypeOK
    <3>2. IsFiniteSet(Running(p) \cup {r}) /\ Cardinality(Running(p) \cup {r}) = Cardinality(Running(p)) + 1
      BY <1>3, <2>2, <2>4, FS_AddElement
    <3>3. QED
      BY <1>1, <1>3, <2>2, <2>4, <3>1, <3>2
  <2>5. QED
    BY <2>3, <2>4
<1>6. KeptOK'
  BY <1>1, <1>2, <1>3, <1>4 DEF AdmissionInv, KeptOK, TypeOK
<1>7. cut \notin Holding
  BY <1>1 DEF AdmissionInv, BarsOK
<1>8. BarsOK' /\ DrainedOK'
  BY <1>1, <1>7 DEF AdmissionInv, BarsOK, DrainedOK, Holding
<1>9. QED
  BY <1>5, <1>6, <1>8 DEF SafeOK

LEMMA RegisterSafe ==
  ASSUME AdmissionInv, NEW r \in Reads, Register(r)
  PROVE  SafeOK'
<1>1. /\ TypeOK /\ poolOf[r] \in PoolSet /\ pc[r] = "taken"
      /\ readers' = [readers EXCEPT ![poolOf[r]] = @ \cup {r}]
      /\ UNCHANGED <<poolOf, running, barred, cut, turn, drained, before>>
  BY DEF AdmissionInv, TypeOK, Register, poolVars, cutVars
<1>2. \A u \in Reads : pc'[u] = IF u = r THEN "registered" ELSE pc[u]
  BY <1>1 DEF Register, Goto, TypeOK
<1>3. \A p \in PoolSet : Running(p)' = Running(p)
  BY <1>1, <1>2, SameRunning DEF Slotted
<1>4. r \in Running(poolOf[r])
  BY <1>1 DEF Running, Slotted
<1>5. KeptOK'
  BY <1>1, <1>2, <1>3, <1>4 DEF AdmissionInv, KeptOK, TypeOK
<1>6. SlotsOK' /\ BarsOK'
  BY <1>1, <1>3 DEF AdmissionInv, SlotsOK, BarsOK
<1>7. DrainedOK'
  BY <1>1, <1>3, PoolFacts DEF AdmissionInv, DrainedOK
<1>8. QED
  BY <1>5, <1>6, <1>7 DEF SafeOK

(* The stop is taken away before the place: what a pool keeps is running.  *)
LEMMA DropStopSafe ==
  ASSUME AdmissionInv, NEW r \in Reads, DropStop(r)
  PROVE  SafeOK'
<1>1. /\ TypeOK /\ pc[r] = "ending"
      /\ readers' = [readers EXCEPT ![poolOf[r]] = @ \ {r}]
      /\ UNCHANGED <<poolOf, running, barred, cut, turn, drained, before>>
  BY DEF AdmissionInv, TypeOK, DropStop, poolVars, cutVars
<1>2. \A u \in Reads : pc'[u] = IF u = r THEN "leaving" ELSE pc[u]
  BY <1>1 DEF DropStop, Goto, TypeOK
<1>3. \A p \in PoolSet : Running(p)' = Running(p)
  BY <1>1, <1>2, SameRunning DEF Slotted
<1>4. KeptOK'
  <2>1. SUFFICES ASSUME NEW p \in PoolSet, NEW u \in readers'[p]
                 PROVE  u \in Running(p) /\ pc'[u] # "leaving"
    BY <1>3 DEF KeptOK
  <2>2. u \in readers[p] /\ (p = poolOf[r] => u # r)
    BY <1>1, <2>1 DEF TypeOK
  <2>3. u \in Running(p) /\ pc[u] # "leaving"
    BY <2>2 DEF AdmissionInv, KeptOK
  <2>4. u # r /\ u \in Reads
    BY <2>2, <2>3 DEF Running
  <2>5. QED
    BY <1>2, <2>3, <2>4
<1>5. SlotsOK' /\ BarsOK'
  BY <1>1, <1>3 DEF AdmissionInv, SlotsOK, BarsOK
<1>6. DrainedOK'
  BY <1>1, <1>3, PoolFacts DEF AdmissionInv, DrainedOK
<1>7. QED
  BY <1>4, <1>5, <1>6 DEF SafeOK

LEMMA DropSlotSafe ==
  ASSUME AdmissionInv, NEW r \in Reads, DropSlot(r)
  PROVE  SafeOK'
<1>0. PICK q \in PoolSet : q = poolOf[r]
  BY DEF AdmissionInv, TypeOK
<1>1. /\ TypeOK /\ pc[r] = "leaving"
      /\ running' = [running EXCEPT ![q] = @ - 1]
      /\ UNCHANGED <<poolOf, readers, barred, cut, turn, drained, before>>
  BY <1>0 DEF AdmissionInv, TypeOK, DropSlot, GivenBack, cutVars
<1>2. \A u \in Reads : pc'[u] = IF u = r THEN "notifying" ELSE pc[u]
  BY <1>1 DEF DropSlot, Goto, TypeOK
<1>3. r \in Running(q) /\ Running(q)' = Running(q) \ {r}
  BY <1>0, <1>1, <1>2 DEF Running, Slotted
<1>4. \A p \in PoolSet : p # q => Running(p)' = Running(p)
  BY <1>0, <1>1, <1>2 DEF Running
<1>5. SlotsOK'
  <2>1. SUFFICES ASSUME NEW p \in PoolSet
                 PROVE  /\ IsFiniteSet(Running(p)')
                        /\ running'[p] = Cardinality(Running(p)')
                        /\ running'[p] <= Most[p]
    BY DEF SlotsOK
  <2>2. /\ IsFiniteSet(Running(p)) /\ running[p] = Cardinality(Running(p))
        /\ running[p] <= Most[p] /\ running[p] \in Int /\ Most[p] \in Nat
    BY <1>1, AdmissionAssumption DEF AdmissionInv, SlotsOK, TypeOK
  <2>3. CASE p # q
    BY <1>1, <1>4, <2>2, <2>3 DEF TypeOK
  <2>4. CASE p = q
    <3>1. running'[p] = running[p] - 1
      BY <1>1, <2>4 DEF TypeOK
    <3>2. IsFiniteSet(Running(p) \ {r}) /\ Cardinality(Running(p) \ {r}) = Cardinality(Running(p)) - 1
      BY <1>3, <2>2, <2>4, FS_RemoveElement
    <3>3. QED
      BY <1>1, <1>3, <2>2, <2>4, <3>1, <3>2
  <2>5. QED
    BY <2>3, <2>4
<1>6. KeptOK'
  BY <1>1, <1>2, <1>3, <1>4 DEF AdmissionInv, KeptOK, TypeOK
<1>7. \A p \in PoolSet : Running(p)' \subseteq Running(p)
  BY <1>3, <1>4
<1>8. BarsOK'
  BY <1>1, <1>7 DEF AdmissionInv, BarsOK
<1>9. DrainedOK'
  BY <1>1, <1>7, PoolFacts DEF AdmissionInv, DrainedOK
<1>10. QED
  BY <1>5, <1>6, <1>8, <1>9 DEF SafeOK


-----------------------------------------------------------------------------
(* The cut, step by step.                                                  *)

(* A step that leaves the slots alone leaves each pool's count right.      *)
LEMMA SlotsKept ==
  ASSUME AdmissionInv, NoneLeaves, \A p \in PoolSet : Running(p)' = Running(p),
         UNCHANGED <<running, readers>>
  PROVE  SlotsOK' /\ KeptOK'
<1>1. \A p \in PoolSet : \A r \in readers[p] : r \in Reads
  BY DEF AdmissionInv, TypeOK
<1>2. QED
  BY <1>1 DEF AdmissionInv, SlotsOK, KeptOK, NoneLeaves

LEMMA CutSame ==
  ASSUME AdmissionInv, CutLooks \/ CutStep
  PROVE  /\ NoneLeaves /\ \A p \in PoolSet : Running(p)' = Running(p)
         /\ UNCHANGED <<running, readers>>
<1>1. UNCHANGED <<poolOf, running, readers>>
  BY DEF CutLooks, CutStep, CutBars, CutHolds, CutMomentPasses, CutStops, CutLocks,
     CutTruncates, CutLowers, CutNotifies, readVars, poolVars
<1>2. CASE CutNotifies
  <2>1. \A u \in Reads : pc'[u] = IF pc[u] = "asleep" /\ poolOf[u] = Pools[turn]
                                  THEN "taking" ELSE pc[u]
    BY <1>2 DEF CutNotifies, Woken
  <2>2. NoneLeaves /\ \A u \in Reads : pc'[u] \in Slotted <=> pc[u] \in Slotted
    BY <2>1 DEF Slotted, NoneLeaves
  <2>3. QED
    BY <1>1, <2>2, SameRunning
<1>3. CASE ~CutNotifies
  <2>1. pc' = pc
    BY <1>3 DEF CutLooks, CutStep, CutBars, CutHolds, CutMomentPasses, CutStops,
       CutLocks, CutTruncates, CutLowers, readVars
  <2>2. QED
    BY <1>1, <2>1, SameRunning DEF NoneLeaves
<1>4. QED
  BY <1>2, <1>3

(* A cut that looks bars none yet; one that has truncated, or lowers a     *)
(* bar, holds no pool any more.                                            *)
LEMMA CutLoose ==
  ASSUME AdmissionInv, CutLooks \/ CutTruncates \/ CutLowers \/ CutNotifies
  PROVE  SafeOK'
<1>1. SlotsOK' /\ KeptOK'
  BY CutSame, SlotsKept DEF CutStep
<1>2. \/ cut' = "barring" /\ turn' = 1
      \/ cut' \in {"releasing", "lowered", "idle"}
  BY DEF CutLooks, CutTruncates, CutLowers, CutNotifies, ToNext
<1>3. BarsOK' /\ DrainedOK'
  BY <1>2 DEF BarsOK, DrainedOK, Holding
<1>4. QED
  BY <1>1, <1>3 DEF SafeOK

(* A bar raised; the last one leaves every pool barred, and whatever has a *)
(* slot began before it.                                                   *)
LEMMA CutBarsSafe ==
  ASSUME AdmissionInv, CutBars
  PROVE  SafeOK'
<1>1. /\ TypeOK /\ SlotsOK' /\ KeptOK' /\ \A p \in PoolSet : Running(p)' = Running(p)
  BY CutSame, SlotsKept DEF CutStep, AdmissionInv
<1>2. /\ cut = "barring" /\ turn \in 1..Len(Pools)
      /\ \A p \in PoolSet : p = Pools[turn] \/ barred[p] => barred'[p]
      /\ before' = {r \in Reads : pc[r] \in Slotted}
  <2>1. barred' = [barred EXCEPT ![Pools[turn]] = TRUE]
    BY DEF CutBars, Barred
  <2>2. QED
    BY <1>1, <2>1, PoolFacts DEF CutBars, TypeOK
<1>3. \/ turn < Len(Pools) /\ turn' = turn + 1 /\ cut' = "barring"
      \/ turn = Len(Pools) /\ turn' = 1 /\ cut' = "holding"
  BY <1>1, TurnTypes DEF CutBars
<1>4. \A i \in 1..Len(Pools) : i <= turn => barred'[Pools[i]]
  <2>1. ASSUME NEW i \in 1..Len(Pools), i <= turn PROVE barred'[Pools[i]]
    <3>1. Pools[i] \in PoolSet /\ (i = turn \/ i < turn)
      BY <1>2, <2>1, PoolFacts
    <3>2. QED
      BY <1>2, <3>1 DEF AdmissionInv, BarsOK
  <2>2. QED
    BY <2>1
<1>5. CASE cut' = "barring"
  <2>1. \A i \in 1..Len(Pools) : i < turn' => i <= turn
    BY <1>2, <1>3, <1>5
  <2>2. QED
    BY <1>1, <1>4, <1>5, <2>1 DEF SafeOK, BarsOK, DrainedOK, Holding
<1>6. CASE cut' = "holding"
  <2>1. turn = Len(Pools) /\ turn' = 1
    BY <1>3, <1>6
  <2>2. \A p \in PoolSet : barred'[p]
    BY <1>4, <2>1, PoolFacts
  <2>3. \A p \in PoolSet : Running(p) \subseteq before'
    BY <1>2 DEF Running
  <2>4. QED
    BY <1>1, <1>6, <2>1, <2>2, <2>3 DEF SafeOK, BarsOK, DrainedOK, Holding
<1>7. QED
  BY <1>3, <1>5, <1>6

(* A step that keeps the bars up.                                          *)
LEMMA BarsKept ==
  ASSUME AdmissionInv, cut \in Holding, cut' # "barring", before' = before,
         \A p \in PoolSet : Running(p)' = Running(p),
         \A p \in PoolSet : barred[p] => barred'[p]
  PROVE  BarsOK'
  BY DEF AdmissionInv, BarsOK

(* A pool waited on: drained, it stays so, and once the last is the cut    *)
(* goes on to truncate with none running.                                  *)
LEMMA CutHoldsSafe ==
  ASSUME AdmissionInv, CutHolds
  PROVE  SafeOK'
<1>1. /\ TypeOK /\ SlotsOK' /\ KeptOK' /\ \A p \in PoolSet : Running(p)' = Running(p)
  BY CutSame, SlotsKept DEF CutStep, AdmissionInv
<1>2. PICK q \in PoolSet : q = Pools[turn]
  BY <1>1, PoolFacts DEF TypeOK
<1>3. /\ cut = "holding" /\ turn \in 1..Len(Pools) /\ before' = before
      /\ \A p \in PoolSet : barred[p] => barred'[p]
  BY <1>1, PoolFacts DEF CutHolds, TypeOK
<1>4. running[q] = 0 <=> Running(q) = {}
  BY <1>2, FS_EmptySet DEF AdmissionInv, SlotsOK
<1>5. CASE cut' = "asleep" /\ UNCHANGED <<turn, drained>>
  <2>1. BarsOK'
    BY <1>1, <1>3, <1>5, BarsKept DEF Holding
  <2>2. DrainedOK'
    BY <1>1, <1>3, <1>5, PoolFacts DEF AdmissionInv, DrainedOK
  <2>3. QED
    BY <1>1, <2>1, <2>2 DEF SafeOK
<1>6. CASE /\ drained' = (drained /\ running[q] = 0)
           /\ ToNext("holding", AfterHold(drained'))
  <2>1. \/ turn < Len(Pools) /\ turn' = turn + 1 /\ cut' = "holding"
        \/ turn = Len(Pools) /\ turn' = 1 /\ cut' = AfterHold(drained')
    BY <1>1, <1>6, TurnTypes
  <2>2. AfterHold(drained') \in {"locking", "releasing", "stopping"}
        /\ (AfterHold(drained') = "locking" => drained')
    BY DEF AfterHold, Deferred
  <2>3. BarsOK'
    BY <1>1, <1>3, <2>1, <2>2, BarsKept DEF Holding
  <2>4. drained' => \A i \in 1..Len(Pools) : i <= turn => Running(Pools[i])' = {}
    <3>1. SUFFICES ASSUME drained', NEW i \in 1..Len(Pools), i <= turn
                   PROVE  Running(Pools[i])' = {}
      OBVIOUS
    <3>2. drained /\ running[q] = 0
      BY <1>6, <3>1
    <3>3. Pools[i] \in PoolSet /\ (i = turn \/ i < turn)
      BY <1>3, <3>1, PoolFacts
    <3>4. Running(Pools[i]) = {}
      BY <1>2, <1>3, <1>4, <3>2, <3>3 DEF AdmissionInv, DrainedOK
    <3>5. QED
      BY <1>1, <3>3, <3>4
  <2>5. DrainedOK'
    <3>1. CASE cut' = "holding"
      <4>1. turn' = turn + 1
        BY <2>1, <2>2, <3>1
      <4>2. \A i \in 1..Len(Pools) : i < turn' => i <= turn
        BY <1>3, <4>1
      <4>3. QED
        BY <2>4, <3>1, <4>2 DEF DrainedOK
    <3>2. CASE cut' = "locking"
      <4>1. turn = Len(Pools) /\ drained'
        BY <2>1, <2>2, <3>2
      <4>2. \A i \in 1..Len(Pools) : Running(Pools[i])' = {}
        BY <1>3, <2>4, <4>1
      <4>3. \A p \in PoolSet : Running(p)' = {}
        BY <4>2, PoolFacts
      <4>4. QED
        BY <3>2, <4>3 DEF DrainedOK
    <3>3. CASE cut' \in {"releasing", "stopping"}
      BY <3>3 DEF DrainedOK
    <3>4. QED
      BY <2>1, <2>2, <3>1, <3>2, <3>3
  <2>6. QED
    BY <1>1, <2>3, <2>5 DEF SafeOK
<1>7. QED
  BY <1>2, <1>5, <1>6 DEF CutHolds

LEMMA CutWaitsSafe ==
  ASSUME AdmissionInv, CutMomentPasses \/ CutStops \/ CutLocks
  PROVE  SafeOK'
<1>1. /\ TypeOK /\ SlotsOK' /\ KeptOK' /\ \A p \in PoolSet : Running(p)' = Running(p)
  BY CutSame, SlotsKept DEF CutStep, AdmissionInv
<1>2. /\ cut \in Holding /\ cut' \in Holding /\ before' = before /\ barred' = barred
  BY DEF CutMomentPasses, CutStops, CutLocks, ToNext, Holding, poolVars
<1>3. BarsOK'
  BY <1>1, <1>2, BarsKept DEF Holding
<1>4. DrainedOK'
  <2>1. CASE CutMomentPasses
    BY <1>1, <2>1, PoolFacts DEF AdmissionInv, DrainedOK, CutMomentPasses
  <2>2. CASE CutStops
    <3>1. cut' = "stopping" \/ (cut' = "holding" /\ turn' = 1)
      BY <2>2 DEF CutStops, ToNext
    <3>2. QED
      BY <3>1 DEF DrainedOK
  <2>3. CASE CutLocks
    BY <1>1, <2>3 DEF AdmissionInv, DrainedOK, CutLocks
  <2>4. QED
    BY <2>1, <2>2, <2>3
<1>5. QED
  BY <1>1, <1>3, <1>4 DEF SafeOK

LEMMA AdmissionInvInit ==
  ASSUME Init
  PROVE  AdmissionInv
<1>1. TypeOK
  BY TypeInit
<1>2. \A p \in PoolSet : Running(p) = {} /\ readers[p] = {} /\ running[p] = 0
  BY DEF Init, Running, Slotted
<1>3. IsFiniteSet({}) /\ Cardinality({}) = 0
  BY FS_EmptySet
<1>4. \A p \in PoolSet : Most[p] \in Nat
  BY AdmissionAssumption
<1>5. SlotsOK /\ KeptOK
  <2>1. \A p \in PoolSet : IsFiniteSet(Running(p)) /\ Cardinality(Running(p)) = 0
    BY <1>2, <1>3, Zenon
  <2>2. \A p \in PoolSet : running[p] <= Most[p]
    BY <1>2, <1>4
  <2>3. QED
    BY <1>2, <2>1, <2>2 DEF SlotsOK, KeptOK
<1>6. BarsOK /\ DrainedOK
  BY DEF Init, BarsOK, DrainedOK, Holding
<1>7. QED
  BY <1>1, <1>5, <1>6 DEF AdmissionInv

LEMMA AdmissionInvStep ==
  ASSUME AdmissionInv, [Next]_vars
  PROVE  AdmissionInv'
<1>1. TypeOK
  BY DEF AdmissionInv
<1>2. ASSUME NEW r \in Reads,
             Ask(r) \/ ReadStep(r) \/ OpenRead(r) \/ EndRead(r) \/ OpenFails(r) \/ Deadline(r)
      PROVE  TypeOK' /\ SafeOK'
  BY <1>1, <1>2, ReadTypes, QuietReadSafe, TakeSlotSafe, RegisterSafe, DropStopSafe, DropSlotSafe
     DEF ReadStep
<1>3. ASSUME CutLooks \/ CutStep PROVE TypeOK' /\ SafeOK'
  BY <1>1, <1>3, CutTypes, CutLoose, CutBarsSafe, CutHoldsSafe, CutWaitsSafe DEF CutStep
<1>4. ASSUME WriteBegins \/ WriteEnds PROVE TypeOK' /\ SafeOK'
  <2>1. /\ UNCHANGED <<poolOf, pc, running, readers, barred, turn, drained, before, cut>>
    BY <1>4 DEF WriteBegins, WriteEnds, readVars, poolVars, cutVars
  <2>2. QED
    BY <1>1, <1>4, <2>1, WriteTypes, SameRunning, QuietSafe DEF NoneLeaves
<1>5. ASSUME UNCHANGED vars PROVE TypeOK' /\ SafeOK'
  <2>1. TypeOK'
    BY <1>1, <1>5 DEF vars, TypeOK
  <2>2. QED
    BY <1>5, <2>1, SameRunning, QuietSafe DEF vars, NoneLeaves
<1>6. QED
  BY <1>2, <1>3, <1>4, <1>5 DEF Next, AdmissionInv, SafeOK

LEMMA AdmissionInvAlways == Spec => []AdmissionInv
<1>1. Init => AdmissionInv
  BY AdmissionInvInit
<1>2. AdmissionInv /\ [Next]_vars => AdmissionInv'
  BY AdmissionInvStep
<1>3. QED
  BY <1>1, <1>2, PTL DEF Spec

-----------------------------------------------------------------------------
(* The state of the pools, the reads and the cut has its types, and each   *)
(* pool's mutex is held by exactly the read deciding to wait on it (take). *)
THEOREM AdmissionTyped == Spec => []TypeOK
<1>1. AdmissionInv => TypeOK
  BY DEF AdmissionInv
<1>2. QED
  BY <1>1, AdmissionInvAlways, PTL

(* A pool's count is the reads that hold its slots, however each of them   *)
(* ends, and never more than it runs at once (Admission::take, Slot's      *)
(* drop), whatever the number of reads.                                    *)
THEOREM SlotsAreCounted == Spec => []SlotsBounded
<1>1. AdmissionInv => SlotsBounded
  BY DEF AdmissionInv, SlotsOK, SlotsBounded
<1>2. QED
  BY <1>1, AdmissionInvAlways, PTL

(* No read that takes a slot is running, nor begins, while the cut has the *)
(* writer and truncates the log: a pool found drained stays so while it is *)
(* barred (cut_back, hold).                                                *)
THEOREM CutRunsAlone == Spec => []NoneRunsAtTheCut
<1>1. AdmissionInv => NoneRunsAtTheCut
  BY DEF AdmissionInv, DrainedOK, NoneRunsAtTheCut
<1>2. QED
  BY <1>1, AdmissionInvAlways, PTL

(* An urgent cut stops no read that began after it barred the pools        *)
(* (cut_back, stop_readers).                                               *)
THEOREM StopsNoLaterRead == Spec => StopsOnlyEarlier
<1> DEFINE Earlier == cut = "stopping" /\ moved' # moved => (moved' \ moved) \subseteq before
<1>1. ASSUME AdmissionInv, [Next]_vars, cut = "stopping" PROVE (moved' \ moved) \subseteq before
  <2>1. \A p \in PoolSet : readers[p] \subseteq before
    BY <1>1 DEF AdmissionInv, KeptOK, BarsOK, Holding
  <2>2. CASE CutStops
    <3>1. Pools[turn] \in PoolSet
      BY <1>1, PoolFacts DEF AdmissionInv, TypeOK
    <3>2. moved' = moved \cup readers[Pools[turn]]
      BY <2>2 DEF CutStops
    <3>3. QED
      BY <2>1, <3>1, <3>2
  <2>3. ASSUME NEW r \in Reads,
               Ask(r) \/ ReadStep(r) \/ OpenRead(r) \/ EndRead(r) \/ OpenFails(r) \/ Deadline(r)
        PROVE  moved' \subseteq moved
    BY <2>3 DEF Ask, ReadStep, TakeSlot, TakeTimesOut, TakeDecides, TakeSleeps,
       TakeWakesLate, Register, StopRead, DropStop, DropSlot, DropNotifies, OpenRead, EndRead,
       OpenFails, Deadline
  <2>4. CASE \/ CutLooks \/ (CutStep /\ ~CutStops) \/ WriteBegins \/ WriteEnds
             \/ UNCHANGED vars
    BY <2>4 DEF CutLooks, CutStep, CutBars, CutHolds, CutMomentPasses, CutLocks,
       CutTruncates, CutLowers, CutNotifies, WriteBegins, WriteEnds, readVars, vars
  <2>5. QED
    BY <1>1, <2>2, <2>3, <2>4 DEF Next
<1>2. AdmissionInv /\ [Next]_vars => [Earlier]_vars
  BY <1>1
<1>3. Spec => [][Earlier]_vars
  BY <1>2, AdmissionInvAlways, PTL DEF Spec
<1>4. QED
  BY <1>3 DEF StopsOnlyEarlier
=============================================================================
