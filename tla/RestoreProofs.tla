--------------------------- MODULE RestoreProofs ---------------------------
(***************************************************************************)
(* Proofs about what a store hands out and what a subscriber reads of it,  *)
(* for any scopes, margins, pages and number of copies, restores and late  *)
(* acknowledgements.                                                       *)
(*                                                                         *)
(* The argument has three parts.  Of every store, the one served and each  *)
(* copy kept: its positions are tiled by its events and its gaps (Tiled).  *)
(* Of the store served and a copy a restore may put in its place: the copy *)
(* is its beginning, and what the store has handed out since is no more    *)
(* than what it has recorded since (Behind), which is what the margin of   *)
(* a restore covers.  Of the subscriber: each cursor it keeps, is about to *)
(* keep or has sent is within what the store has handed out, and past no   *)
(* event it has not handled where the store honours it (ReaderOK).         *)
(***************************************************************************)
EXTENDS Restore, FiniteSetTheorems, NaturalsInduction, WellFoundedInduction, TLAPS

(* What a store is, as a record of its parts.                              *)
Stores ==
  [log : Seq(Event), position : Nat, last : [Scopes -> Nat], attempts : Seq(Nat),
   gaps : SUBSET [from : Nat, to : Nat], floor : Nat, acked : Nat]

(* Nothing a store holds was recorded after the time t.                    *)
Dated(d, t) ==
  /\ \A i \in DOMAIN d.log : d.log[i].at <= t
  /\ \A i \in DOMAIN d.attempts : d.attempts[i] <= t

(* Each position handed out is an event's or in a gap, and never both.     *)
Tiled(d) ==
  /\ \A i \in DOMAIN d.log : d.log[i].position >= 1 /\ d.log[i].id <= MaxRecords
  /\ \A g \in d.gaps : g.to <= d.position
  /\ \A c \in 1..d.position :
       Skipped(d, c) <=> ~\E i \in DOMAIN d.log : d.log[i].position = c

Sound(d, t) == d \in Stores /\ StoreOK(d) /\ Dated(d, t) /\ Tiled(d)

Copies == [store : Stores, recorded : 0..MaxRecords, restores : 0..MaxRestores]

StoresOK ==
  /\ now \in 0..MaxTime /\ recorded \in 0..MaxRecords /\ restores \in 0..MaxRestores
  /\ Sound(db, now)
  /\ copies \subseteq Copies
  /\ \A c \in copies : Sound(c.store, now) /\ c.restores <= restores /\ c.recorded <= recorded
  /\ handed \subseteq Event

(* What the next number of a scope is one past.                            *)
Drawn(d, s) == IF d.last[s] = 0 THEN d.floor ELSE d.last[s]

(* A copy made since the last restore.                                     *)
Behind(c) ==
  /\ Len(c.store.log) <= Len(db.log)
  /\ \A i \in DOMAIN c.store.log : c.store.log[i] = db.log[i]
  /\ c.store.gaps = db.gaps /\ c.store.floor = db.floor
  /\ db.position <= c.store.position + (recorded - c.recorded)

BehindOK == \A c \in copies : c.restores = restores => Behind(c)

ReaderTypes ==
  /\ kept \in Nat \cup {None} /\ acks \in SUBSET Nat /\ forgets \in 0..MaxForgets
  /\ page # None => page.settled \in Nat /\ page.events \in SUBSET (1..MaxRecords)
  /\ handled \in SUBSET (1..MaxRecords)

StoreInv == StoresOK /\ ReaderTypes

(* A cursor the store honours is past no event selected that is not done.  *)
Good(d, k, done) ==
  Accepts(d, k) =>
    \A i \in DOMAIN d.log :
      Selects(d.log[i]) /\ d.log[i].position <= k => d.log[i].id \in done

(* Nor is the one a store keeps as acknowledged.                           *)
AckedOK(d, done) ==
  \A i \in DOMAIN d.log :
    Selects(d.log[i]) /\ d.log[i].position <= d.acked => d.log[i].id \in done

ReaderOK ==
  /\ \A c \in acks : c <= db.position /\ Good(db, c, handled)
  /\ kept # None => kept <= db.position /\ Good(db, kept, handled)
  /\ page # None =>
       page.settled <= db.position /\ Good(db, page.settled, handled \cup page.events)
  /\ AckedOK(db, handled) /\ \A c \in copies : AckedOK(c.store, handled)

(* What has been drawn since a copy, where a request draws one number.     *)
DrawnBehind ==
  \A c \in copies : c.restores = restores =>
    \A s \in Scopes : Drawn(db, s) <= Drawn(c.store, s) + (recorded - c.recorded)

HandedOK ==
  /\ \A e \in handed : e.position <= db.position /\ e.number <= Drawn(db, e.scope)
  /\ HandedOutOnce

FeedInv == StoreInv /\ BehindOK /\ ReaderOK
DrawsInv == StoreInv /\ BehindOK /\ DrawnBehind /\ HandedOK

-----------------------------------------------------------------------------
(* Numbers.                                                                *)

(* A set of numbers that is not empty has a least one.                     *)
LEMMA LeastIs ==
  ASSUME NEW T, T \subseteq Nat, T # {}
  PROVE  \E x \in T : \A y \in T : x <= y
<1> DEFINE R == OpToRel(<, Nat)
<1>1. IsWellFoundedOn(R, Nat)
  BY NatLessThanWellFounded
<1>2. \A x, y \in Nat : x < y => <<x, y>> \in R
  BY Zenon DEF OpToRel
<1> HIDE DEF R
<1>3. PICK x \in T : \A y \in T : ~(<<y, x>> \in R)
  BY <1>1, WFMin
<1>4. \A y \in T : ~(y < x)
  BY <1>2, <1>3
<1>5. QED
  BY <1>4

(* One that is bounded has a largest, and Largest is it.                   *)
LEMMA LargestIs ==
  ASSUME NEW S, S \subseteq Nat, S # {}, NEW b \in Nat, \A n \in S : n <= b
  PROVE  Largest(S) \in S /\ \A n \in S : n <= Largest(S)
<1> DEFINE T == {k \in Nat : \A n \in S : n <= k}
<1>1. T \subseteq Nat /\ b \in T
  OBVIOUS
<1>2. T # {}
  BY <1>1
<1> HIDE DEF T
<1>3. PICK x \in T : \A y \in T : x <= y
  BY <1>1, <1>2, LeastIs
<1> USE DEF T
<1>4. x \in Nat /\ \A n \in S : n <= x
  OBVIOUS
<1>5. x \in S
  <2>1. SUFFICES ASSUME x \notin S PROVE FALSE
    OBVIOUS
  <2>2. \A n \in S : n < x
    BY <1>4, <2>1
  <2>3. PICK n \in S : n < x /\ n \in Nat
    BY <2>2
  <2>5. x - 1 \in Nat /\ \A k \in S : k <= x - 1
    BY <1>4, <2>2, <2>3
  <2>6. x - 1 \in T
    BY <2>5
  <2>4. QED
    BY <1>3, <1>4, <2>6
<1>6. QED
  BY <1>4, <1>5 DEF Largest

(* The places of a sequence that a test picks are at most all of them.     *)
LEMMA Places ==
  ASSUME NEW n \in Nat, NEW T, T \subseteq 1..n
  PROVE  IsFiniteSet(T) /\ Cardinality(T) \in Nat /\ Cardinality(T) <= n
<1>1. IsFiniteSet(1..n) /\ Cardinality(1..n) = n
  BY FS_Interval
<1>2. IsFiniteSet(T) /\ Cardinality(T) <= Cardinality(1..n)
  BY <1>1, FS_Subset
<1>3. QED
  BY <1>1, <1>2, FS_CardinalityType

LEMMA DuringIs ==
  ASSUME NEW d \in Stores, NEW a \in Int, NEW b \in Int
  PROVE  During(d, a, b) \in Nat /\ During(d, a, b) <= Len(d.log) + Len(d.attempts)
<1> DEFINE L == {i \in DOMAIN d.log : d.log[i].at \in a..b}
           A == {i \in DOMAIN d.attempts : d.attempts[i] \in a..b}
<1>1. /\ Len(d.log) \in Nat /\ DOMAIN d.log = 1..Len(d.log)
      /\ Len(d.attempts) \in Nat /\ DOMAIN d.attempts = 1..Len(d.attempts)
  BY DEF Stores
<1>2. L \subseteq 1..Len(d.log) /\ A \subseteq 1..Len(d.attempts)
  BY <1>1
<1>3. During(d, a, b) = Cardinality(L) + Cardinality(A)
  BY DEF During
<1> HIDE DEF L, A
<1>4. Cardinality(L) \in Nat /\ Cardinality(L) <= Len(d.log)
  BY <1>1, <1>2, Places
<1>5. Cardinality(A) \in Nat /\ Cardinality(A) <= Len(d.attempts)
  BY <1>1, <1>2, Places
<1> DEFINE nl == Cardinality(L)
           na == Cardinality(A)
           ll == Len(d.log)
           la == Len(d.attempts)
           all == During(d, a, b)
<1> HIDE DEF nl, na, ll, la, all
<1>6. nl \in Nat /\ na \in Nat /\ ll \in Nat /\ la \in Nat /\ nl <= ll /\ na <= la /\ all = nl + na
  BY <1>1, <1>3, <1>4, <1>5 DEF nl, na, ll, la, all
<1>7. all \in Nat /\ all <= ll + la
  BY <1>6
<1>8. QED
  BY <1>7 DEF all, ll, la

(* The margin is a number, and no less than the least.                     *)
LEMMA MarginIs ==
  ASSUME NEW d, now \in Nat, Sound(d, now)
  PROVE  Margin(d) \in Nat /\ Margin(d) >= Least /\ Margin(d) > 0
<1> USE RestoreAssumption
<1> DEFINE age == now - Largest(Times(d))
           counts == {During(d, t - age, t) : t \in Times(d)}
           most == Len(d.log) + Len(d.attempts)
<1>1. /\ d \in Stores /\ Len(d.log) \in Nat /\ Len(d.attempts) \in Nat
      /\ Len(d.log) > 0 /\ Dated(d, now)
  BY DEF Sound, StoreOK, LogOK, Stores
<1>2. Times(d) \subseteq Nat /\ Times(d) # {} /\ \A t \in Times(d) : t <= now
  <2>6. \A i \in DOMAIN d.log : d.log[i] \in Event
    BY <1>1 DEF Stores
  <2>1. \A i \in DOMAIN d.log : d.log[i].at \in Nat /\ d.log[i].at <= now
    BY <1>1, <2>6 DEF Dated, Event
  <2>2. \A i \in DOMAIN d.attempts : d.attempts[i] \in Nat /\ d.attempts[i] <= now
    BY <1>1 DEF Dated, Stores
  <2>3. 1 \in DOMAIN d.log
    BY <1>1 DEF Stores
  <2>4. d.log[1].at \in Times(d)
    BY <2>3 DEF Times
  <2>5. QED
    BY <2>1, <2>2, <2>4 DEF Times
<1>3. Largest(Times(d)) \in Times(d)
  BY <1>2, LargestIs
<1>4. age \in Int
  BY <1>2, <1>3
<1> HIDE DEF age
<1>11. most \in Nat
  <2> DEFINE ll == Len(d.log)
             la == Len(d.attempts)
  <2>1. ll \in Nat /\ la \in Nat
    BY <1>1
  <2> HIDE DEF ll, la
  <2>2. ll + la \in Nat
    BY <2>1
  <2>3. QED
    BY <2>2 DEF ll, la
<1>5. ASSUME NEW t \in Times(d)
      PROVE  During(d, t - age, t) \in Nat /\ During(d, t - age, t) <= most
  <2>1. t \in Int /\ t - age \in Int
    BY <1>2, <1>4
  <2>2. QED
    BY <1>1, <2>1, DuringIs
<1> HIDE DEF most
<1>6. counts \subseteq Nat /\ counts # {} /\ \A n \in counts : n <= most
  BY <1>2, <1>5
<1> HIDE DEF counts
<1>7. Largest(counts) \in Nat
  BY <1>6, <1>11, LargestIs
<1> DEFINE two == {2 * Largest(counts), Least}
           top == 2 * Largest(counts) + Least
<1>8. two \subseteq Nat /\ two # {} /\ top \in Nat /\ \A n \in two : n <= top
  BY <1>7
<1>9. Least \in two /\ Margin(d) = Largest(two)
  BY DEF Margin, age, counts
<1> HIDE DEF two, top
<1>10. Largest(two) \in two /\ \A n \in two : n <= Largest(two)
  BY <1>8, LargestIs
<1>12. Margin(d) \in Nat /\ Least <= Margin(d)
  BY <1>8, <1>9, <1>10
<1>13. QED
  BY <1>12

(* A counter is advanced past its margin.                                  *)
LEMMA PastIs ==
  ASSUME NEW v \in Nat, NEW m \in Nat
  PROVE  Past(v, m) \in Nat /\ Past(v, m) >= v + m
<1> USE RestoreAssumption
<1> DEFINE x == v + m + Round - 1
           q == x \div Round
           r == x % Round
<1>1. x \in Nat
  OBVIOUS
<1>2. q \in Nat /\ r \in 0..Round - 1 /\ x = Round * q + r
  BY <1>1
<1>3. Past(v, m) = q * Round
  BY DEF Past
<1> HIDE DEF q, r
<1>4. q * Round = Round * q /\ q * Round \in Nat
  BY <1>2
<1>5. QED
  BY <1>2, <1>3, <1>4


-----------------------------------------------------------------------------
(* A store, through each thing that changes it.                            *)

LEMMA Events ==
  ASSUME NEW d \in Stores
  PROVE  /\ Len(d.log) \in Nat /\ DOMAIN d.log = 1..Len(d.log)
         /\ \A i \in DOMAIN d.log :
              /\ d.log[i] \in Event /\ d.log[i].id \in Nat /\ d.log[i].position \in Nat
              /\ d.log[i].at \in Nat
<1>1. Len(d.log) \in Nat /\ DOMAIN d.log = 1..Len(d.log) /\ \A i \in DOMAIN d.log : d.log[i] \in Event
  BY DEF Stores
<1>2. \A e \in Event : e.id \in Nat /\ e.position \in Nat /\ e.at \in Nat
  BY DEF Event
<1>3. QED
  BY <1>1, <1>2

(* What it holds stays no later than the clock.                            *)
LEMMA StaysSound ==
  ASSUME NEW d, NEW t \in Nat, NEW u \in Nat, t <= u, Sound(d, t)
  PROVE  Sound(d, u)
<1>1. d \in Stores /\ Dated(d, t)
  BY DEF Sound
<1>2. \A i \in DOMAIN d.log : d.log[i].at \in Nat
  BY <1>1, Events
<1>3. \A i \in DOMAIN d.attempts : d.attempts[i] \in Nat
  BY <1>1 DEF Stores
<1>4. Dated(d, u)
  BY <1>1, <1>2, <1>3 DEF Dated
<1>5. QED
  BY <1>4 DEF Sound

(* The last event is the latest, at most at the counter's position.        *)
LEMMA LastIs ==
  ASSUME NEW d \in Stores, LogOK(d)
  PROVE  /\ Len(d.log) \in DOMAIN d.log /\ LastPosition(d) \in Nat
         /\ LastPosition(d) <= d.position /\ d.position \in Nat
         /\ \A i \in DOMAIN d.log : d.log[i].position <= LastPosition(d)
<1>1. Len(d.log) \in Nat /\ Len(d.log) > 0 /\ DOMAIN d.log = 1..Len(d.log)
  BY Events DEF LogOK
<1>2. Len(d.log) \in DOMAIN d.log
  BY <1>1
<1>3. LastPosition(d) = d.log[Len(d.log)].position /\ LastPosition(d) \in Nat
  BY <1>2, Events DEF LastPosition
<1>4. ASSUME NEW i \in DOMAIN d.log
      PROVE  d.log[i].position <= LastPosition(d)
  <2>1. d.log[i].position \in Nat /\ (i = Len(d.log) \/ i < Len(d.log))
    BY <1>1, Events
  <2>2. CASE i = Len(d.log)
    BY <1>3, <2>2
  <2>3. CASE i < Len(d.log)
    <3>1. d.log[i].position < d.log[Len(d.log)].position
      BY <1>2, <2>3 DEF LogOK
    <3>2. QED
      BY <1>3, <2>1, <3>1
  <2>4. QED
    BY <2>1, <2>2, <2>3
<1>5. QED
  BY <1>2, <1>3, <1>4 DEF LogOK, Stores

(* The cursors a store honours are its events' positions, and 0.           *)
LEMMA AcceptsIs ==
  ASSUME NEW d, NEW t, Sound(d, t), NEW c \in 0..d.position
  PROVE  Accepts(d, c) <=> c = 0 \/ \E i \in DOMAIN d.log : d.log[i].position = c
<1>1. d \in Stores /\ LogOK(d) /\ Tiled(d)
  BY DEF Sound, StoreOK
<1>2. /\ LastPosition(d) \in Nat
      /\ LastPosition(d) <= d.position /\ d.position \in Nat
      /\ \A i \in DOMAIN d.log : d.log[i].position <= LastPosition(d)
  BY <1>1, LastIs
<1>3. CASE c = 0
  <2>1. \A g \in d.gaps : g.from \in Nat
    BY <1>1 DEF Stores
  <2>2. ~Skipped(d, c)
    BY <1>3, <2>1 DEF Skipped
  <2>3. QED
    BY <1>2, <1>3, <2>2 DEF Accepts
<1>4. CASE c # 0
  <2>1. c \in 1..d.position /\ c \in Nat
    BY <1>2, <1>4
  <2>2. Skipped(d, c) <=> ~\E i \in DOMAIN d.log : d.log[i].position = c
    BY <1>1, <2>1 DEF Tiled
  <2>3. QED
    BY <1>2, <1>4, <2>1, <2>2 DEF Accepts
<1>5. QED
  BY <1>3, <1>4

(* The stores the writes leave.                                            *)
Appended(d, e, s, n) == [d EXCEPT !.log = Append(@, e), !.position = e.position, !.last[s] = n]
Declined(d, t, s, n) == [d EXCEPT !.last[s] = n, !.attempts = Append(@, t)]
Moved(d, c) == [d EXCEPT !.acked = c]

(* f is d with the event e after its log, at the next position.            *)
Extended(f, d, e, s, n, t) ==
  /\ Sound(f, t) /\ LastPosition(f) = e.position
  /\ \A c \in 0..d.position : Skipped(f, c) <=> Skipped(d, c)
  /\ f.position = e.position /\ f.gaps = d.gaps /\ f.floor = d.floor /\ f.acked = d.acked
  /\ f.last = [d.last EXCEPT ![s] = n]
  /\ Len(f.log) = Len(d.log) + 1
  /\ \A i \in DOMAIN d.log : i \in DOMAIN f.log /\ f.log[i] = d.log[i]
  /\ Len(f.log) \in DOMAIN f.log /\ f.log[Len(f.log)] = e
  /\ \A i \in DOMAIN f.log : i \in DOMAIN d.log \/ i = Len(f.log)

(* An event is added at the position after the last handed out.            *)
LEMMA AppendSound ==
  ASSUME NEW d, NEW t \in Nat, Sound(d, t), NEW s \in Scopes, NEW n \in Nat,
         NEW e \in Event, e.position = d.position + 1, e.at <= t, e.id <= MaxRecords,
         NEW f, f = Appended(d, e, s, n)
  PROVE  Extended(f, d, e, s, n, t)
<1> DEFINE L == Len(d.log)
<1>1. d \in Stores /\ StoreOK(d) /\ LogOK(d) /\ Dated(d, t) /\ Tiled(d)
  BY DEF Sound, StoreOK
<1>2. L \in Nat /\ L > 0 /\ DOMAIN d.log = 1..L /\ d.position \in Nat /\ d.last \in [Scopes -> Nat]
  BY <1>1, Events DEF LogOK, StoreOK
<1>3. f \in Stores /\ f.log = Append(d.log, e) /\ f.position = e.position
      /\ f.last = [d.last EXCEPT ![s] = n] /\ f.attempts = d.attempts
      /\ f.gaps = d.gaps /\ f.floor = d.floor /\ f.acked = d.acked
  <2>1. e.position \in Nat
    BY DEF Event
  <2>2. Append(d.log, e) \in Seq(Event)
    BY <1>1 DEF Stores
  <2>3. [d.last EXCEPT ![s] = n] \in [Scopes -> Nat]
    BY <1>2
  <2>4. QED
    BY <1>1, <2>1, <2>2, <2>3 DEF Stores, Appended
<1>4. /\ Len(f.log) = L + 1 /\ DOMAIN f.log = 1..L + 1 /\ f.log[L + 1] = e
      /\ \A i \in 1..L : f.log[i] = d.log[i]
  BY <1>1, <1>2, <1>3 DEF Stores
<1>5. LastPosition(f) = e.position
  BY <1>4 DEF LastPosition
<1>6. /\ e.position \in Nat /\ \A i \in 1..L : d.log[i].position \in Nat /\ d.log[i].position < e.position
  <2>1. \A i \in 1..L : d.log[i].position \in Nat /\ d.log[i].position <= LastPosition(d)
    BY <1>1, <1>2, LastIs, Events
  <2>2. LastPosition(d) \in Nat /\ LastPosition(d) <= d.position
    BY <1>1, LastIs
  <2>3. QED
    BY <1>2, <2>1, <2>2
<1>7. LogOK(f)
  <2>1. ASSUME NEW i \in 1..L + 1, NEW j \in 1..L + 1, i < j
        PROVE  f.log[i].position < f.log[j].position
    <3>1. i \in 1..L /\ (j \in 1..L \/ j = L + 1)
      BY <1>2, <2>1
    <3>2. CASE j \in 1..L
      BY <1>1, <1>2, <1>4, <2>1, <3>1, <3>2 DEF LogOK
    <3>3. CASE j = L + 1
      BY <1>4, <1>6, <3>1, <3>3
    <3>4. QED
      BY <3>1, <3>2, <3>3
  <2>2. f.log \in Seq(Event)
    BY <1>3 DEF Stores
  <2>3. Len(f.log) > 0 /\ LastPosition(f) <= f.position
    BY <1>2, <1>3, <1>4, <1>5, <1>6
  <2>4. QED
    BY <1>4, <2>1, <2>2, <2>3 DEF LogOK
<1>8. d.acked \in 0..LastPosition(f)
  <2>1. d.acked \in 0..LastPosition(d) /\ LastPosition(d) \in Nat /\ LastPosition(d) <= d.position
    BY <1>1, LastIs DEF StoreOK
  <2>2. QED
    BY <1>2, <1>5, <1>6, <2>1
<1>9. StoreOK(f)
  BY <1>1, <1>3, <1>7, <1>8 DEF StoreOK, Stores
<1>10. Dated(f, t)
  <2>1. \A i \in 1..L + 1 : i \in 1..L \/ i = L + 1
    BY <1>2
  <2>2. \A i \in 1..L + 1 : f.log[i].at <= t
    BY <1>1, <1>2, <1>4, <2>1 DEF Dated
  <2>3. QED
    BY <1>1, <1>3, <1>4, <2>2 DEF Dated
<1>11. \A c : Skipped(f, c) <=> Skipped(d, c)
  BY <1>3 DEF Skipped
<1>12. Tiled(f)
  <2>1. ASSUME NEW i \in 1..L + 1
        PROVE  f.log[i].position >= 1 /\ f.log[i].id <= MaxRecords
    <3>1. i \in 1..L \/ i = L + 1
      BY <1>2
    <3>2. \A j \in 1..L : d.log[j].position >= 1 /\ d.log[j].id <= MaxRecords
      BY <1>1, <1>2 DEF Tiled
    <3>3. e.position >= 1
      BY <1>2
    <3>4. CASE i \in 1..L
      BY <1>4, <3>2, <3>4
    <3>5. CASE i = L + 1
      BY <1>4, <3>3, <3>5
    <3>6. QED
      BY <3>1, <3>4, <3>5
  <2>2. \A g \in f.gaps : g.to \in Nat /\ g.to <= d.position
    BY <1>1, <1>3 DEF Tiled, StoreOK
  <2>3. \A g \in f.gaps : g.to <= f.position
    BY <1>2, <1>3, <2>2
  <2>4. ASSUME NEW c \in 1..f.position
        PROVE  Skipped(f, c) <=> ~\E i \in DOMAIN f.log : f.log[i].position = c
    <3>1. c \in 1..d.position \/ c = e.position
      BY <1>2, <1>3
    <3>2. CASE c \in 1..d.position
      <4>1. c # e.position
        BY <1>2, <3>2
      <4>2. (\E i \in 1..L + 1 : f.log[i].position = c) <=> \E i \in 1..L : d.log[i].position = c
        <5>1. \A i \in 1..L + 1 : i \in 1..L \/ i = L + 1
          BY <1>2
        <5>2. \A i \in 1..L : i \in 1..L + 1
          BY <1>2
        <5>3. QED
          BY <1>4, <4>1, <5>1, <5>2
      <4>3. Skipped(d, c) <=> ~\E i \in 1..L : d.log[i].position = c
        BY <1>1, <1>2, <3>2 DEF Tiled
      <4>4. QED
        BY <1>4, <1>11, <4>2, <4>3
    <3>3. CASE c = e.position
      <4>1. ~Skipped(f, c)
        BY <1>2, <1>6, <2>2, <3>3 DEF Skipped
      <4>2. L + 1 \in DOMAIN f.log /\ f.log[L + 1].position = c
        BY <1>2, <1>4, <3>3
      <4>3. QED
        BY <4>1, <4>2
    <3>4. QED
      BY <3>1, <3>2, <3>3
  <2>5. QED
    BY <1>4, <2>1, <2>3, <2>4 DEF Tiled
<1>13. \A i \in 1..L : i \in DOMAIN f.log
  BY <1>2, <1>4
<1>14. L + 1 \in DOMAIN f.log /\ \A i \in DOMAIN f.log : i \in 1..L \/ i = L + 1
  BY <1>2, <1>4
<1>15. QED
  BY <1>2, <1>3, <1>4, <1>5, <1>9, <1>10, <1>11, <1>12, <1>13, <1>14 DEF Sound, Extended


(* A refusal is dated, and draws.                                          *)
LEMMA RefuseSound ==
  ASSUME NEW d, NEW t \in Nat, Sound(d, t), NEW s \in Scopes, NEW n \in Nat,
         NEW f, f = Declined(d, t, s, n)
  PROVE  /\ Sound(f, t) /\ f.log = d.log /\ f.position = d.position /\ f.gaps = d.gaps
         /\ f.floor = d.floor /\ f.acked = d.acked /\ f.last = [d.last EXCEPT ![s] = n]
<1>1. d \in Stores /\ StoreOK(d) /\ LogOK(d) /\ Dated(d, t) /\ Tiled(d)
  BY DEF Sound, StoreOK
<1>2. [d.last EXCEPT ![s] = n] \in [Scopes -> Nat] /\ Append(d.attempts, t) \in Seq(Nat)
  BY <1>1 DEF Stores
<1>3. f \in Stores /\ f.log = d.log /\ f.position = d.position
      /\ f.last = [d.last EXCEPT ![s] = n] /\ f.attempts = Append(d.attempts, t)
      /\ f.gaps = d.gaps /\ f.floor = d.floor /\ f.acked = d.acked
  BY <1>1, <1>2 DEF Stores, Declined
<1>4. LastPosition(f) = LastPosition(d) /\ \A c : Skipped(f, c) <=> Skipped(d, c)
  BY <1>3 DEF LastPosition, Skipped
<1>5. LogOK(f)
  BY <1>1, <1>3, <1>4 DEF LogOK
<1>6. StoreOK(f)
  <2>1. f.last \in [Scopes -> Nat] /\ f.attempts \in Seq(Nat)
    BY <1>2, <1>3
  <2>2. QED
    BY <1>1, <1>3, <1>4, <1>5, <2>1 DEF StoreOK
<1>7. Dated(f, t)
  <2> DEFINE L == Len(d.attempts)
  <2>1. d.attempts \in Seq(Nat)
    BY <1>1 DEF Stores
  <2>2. /\ L \in Nat /\ DOMAIN d.attempts = 1..L /\ DOMAIN f.attempts = 1..L + 1
        /\ f.attempts[L + 1] = t /\ \A i \in 1..L : f.attempts[i] = d.attempts[i]
    BY <1>3, <2>1
  <2>3. \A i \in 1..L + 1 : i \in 1..L \/ i = L + 1
    BY <2>2
  <2>4. \A i \in 1..L + 1 : f.attempts[i] <= t
    <3>1. \A i \in 1..L : d.attempts[i] <= t
      BY <1>1, <2>2 DEF Dated
    <3>2. QED
      BY <2>2, <2>3, <3>1
  <2>5. QED
    BY <1>1, <1>3, <2>2, <2>4 DEF Dated
<1>8. Tiled(f)
  BY <1>1, <1>3, <1>4 DEF Tiled
<1>9. QED
  BY <1>3, <1>6, <1>7, <1>8 DEF Sound

(* A cursor the store honours is acknowledged.                             *)
LEMMA AcknowledgeSound ==
  ASSUME NEW d, NEW t \in Nat, Sound(d, t), NEW c \in Nat, Accepts(d, c),
         NEW f, f = Moved(d, c)
  PROVE  /\ Sound(f, t) /\ f.log = d.log /\ f.position = d.position /\ f.gaps = d.gaps
         /\ f.floor = d.floor /\ f.last = d.last /\ f.acked = c
<1>1. d \in Stores /\ StoreOK(d) /\ LogOK(d) /\ Dated(d, t) /\ Tiled(d)
  BY DEF Sound, StoreOK
<1>2. f \in Stores /\ f.log = d.log /\ f.position = d.position
      /\ f.last = d.last /\ f.attempts = d.attempts
      /\ f.gaps = d.gaps /\ f.floor = d.floor /\ f.acked = c
  BY <1>1 DEF Stores, Moved
<1>3. LastPosition(f) = LastPosition(d) /\ \A k : Skipped(f, k) <=> Skipped(d, k)
  BY <1>2 DEF LastPosition, Skipped
<1>4. LogOK(f) /\ Dated(f, t) /\ Tiled(f)
  BY <1>1, <1>2, <1>3 DEF LogOK, Dated, Tiled
<1>5. c \in 0..LastPosition(d)
  BY <1>1, LastIs DEF Accepts
<1>6. StoreOK(f)
  BY <1>1, <1>2, <1>3, <1>4, <1>5 DEF StoreOK
<1>7. QED
  BY <1>2, <1>4, <1>6 DEF Sound

(* A copy restored: its counters past its margin, the gap recorded.        *)
LEMMA RestoredSound ==
  ASSUME NEW d, now \in Nat, Sound(d, now), NEW f, f = Restored(d)
  PROVE  /\ Sound(f, now) /\ f.log = d.log /\ f.acked = d.acked
         /\ LastPosition(f) = LastPosition(d)
         /\ f.position \in Nat /\ f.position >= d.position + Margin(d)
         /\ \A s \in Scopes : Drawn(f, s) \in Nat /\ Drawn(f, s) >= Drawn(d, s) + Margin(d)
         /\ \A c \in 0..d.position : Skipped(f, c) <=> Skipped(d, c)
<1> DEFINE m == Margin(d)
           p == Past(d.position, m)
           w == [s \in Scopes |-> IF d.last[s] = 0 THEN 0 ELSE Past(d.last[s], m)]
           gap == [from |-> d.position, to |-> p]
           gaps == d.gaps \cup {gap}
           fl == Past(d.floor, m)
<1>1. d \in Stores /\ StoreOK(d) /\ LogOK(d) /\ Dated(d, now) /\ Tiled(d)
  BY DEF Sound, StoreOK
<1>2. m \in Nat /\ m > 0
  BY MarginIs
<1>3. d.position \in Nat /\ d.floor \in Nat /\ d.last \in [Scopes -> Nat]
  BY <1>1 DEF StoreOK
<1>4. f = [d EXCEPT !.position = p, !.last = w, !.gaps = gaps, !.floor = fl]
  BY <1>1 DEF Restored, Stores
<1> HIDE DEF m
<1>5. p \in Nat /\ p >= d.position + m /\ fl \in Nat /\ fl >= d.floor + m
  BY <1>2, <1>3, PastIs
<1>6. \A s \in Scopes : d.last[s] \in Nat /\ Past(d.last[s], m) \in Nat /\ Past(d.last[s], m) >= d.last[s] + m
  BY <1>2, <1>3, PastIs
<1>7. w \in [Scopes -> Nat] /\ \A s \in Scopes : w[s] = IF d.last[s] = 0 THEN 0 ELSE Past(d.last[s], m)
  BY <1>6
<1>8. gap \in [from : Nat, to : Nat] /\ gap.from = d.position /\ gap.to = p
  BY <1>3, <1>5
<1> HIDE DEF p, w, gap, fl
<1>9. f \in Stores /\ f.log = d.log /\ f.position = p /\ f.last = w /\ f.attempts = d.attempts
      /\ f.gaps = d.gaps \cup {gap} /\ f.floor = fl /\ f.acked = d.acked
  <2>1. gaps \in SUBSET [from : Nat, to : Nat]
    BY <1>1, <1>8 DEF Stores
  <2> HIDE DEF gaps
  <2>2. f \in Stores /\ f.log = d.log /\ f.position = p /\ f.last = w /\ f.attempts = d.attempts
        /\ f.gaps = gaps /\ f.floor = fl /\ f.acked = d.acked
    BY <1>1, <1>4, <1>5, <1>7, <2>1 DEF Stores
  <2>3. QED
    BY <2>2 DEF gaps
<1>10. LastPosition(f) = LastPosition(d)
  BY <1>9 DEF LastPosition
<1>11. LastPosition(d) \in Nat /\ LastPosition(d) <= d.position
       /\ \A i \in DOMAIN d.log : d.log[i].position <= LastPosition(d) /\ d.log[i].position \in Nat
  BY <1>1, LastIs, Events
<1>12. d.position < p
  BY <1>2, <1>3, <1>5
<1>13. LogOK(f)
  <2>1. LastPosition(f) <= f.position
    BY <1>3, <1>5, <1>9, <1>10, <1>11, <1>12
  <2>2. QED
    BY <1>1, <1>9, <2>1 DEF LogOK
<1>14. StoreOK(f)
  <2>1. \A g \in f.gaps : g.from \in Nat /\ g.to \in Nat /\ g.from < g.to
    BY <1>1, <1>3, <1>5, <1>8, <1>9, <1>12 DEF StoreOK
  <2>2. QED
    BY <1>1, <1>5, <1>7, <1>9, <1>10, <1>13, <2>1 DEF StoreOK
<1>15. Dated(f, now)
  BY <1>1, <1>9 DEF Dated
<1>16. \A c \in 0..d.position : Skipped(f, c) <=> Skipped(d, c)
  BY <1>3, <1>8, <1>9 DEF Skipped
<1>17. Tiled(f)
  <2>1. \A g \in f.gaps : g.to <= f.position
    <3>1. \A g \in d.gaps : g.to <= d.position /\ g.to \in Nat
      BY <1>1 DEF Tiled, StoreOK
    <3>2. QED
      BY <1>3, <1>5, <1>8, <1>9, <1>12, <3>1
  <2>2. ASSUME NEW c \in 1..f.position
        PROVE  Skipped(f, c) <=> ~\E i \in DOMAIN f.log : f.log[i].position = c
    <3>1. CASE c \in 1..d.position
      <4>1. Skipped(f, c) <=> Skipped(d, c)
        BY <1>3, <1>16, <3>1
      <4>2. QED
        BY <1>1, <1>9, <3>1, <4>1 DEF Tiled
    <3>2. CASE c > d.position
      <4>1. Skipped(f, c)
        BY <1>3, <1>8, <1>9, <3>2 DEF Skipped
      <4>2. ~\E i \in DOMAIN d.log : d.log[i].position = c
        BY <1>3, <1>11, <3>2
      <4>3. QED
        BY <1>9, <4>1, <4>2
    <3>3. QED
      BY <1>3, <1>5, <1>9, <3>1, <3>2
  <2>3. QED
    BY <1>1, <1>9, <2>1, <2>2 DEF Tiled
<1>18. ASSUME NEW s \in Scopes
       PROVE  Drawn(f, s) \in Nat /\ Drawn(f, s) >= Drawn(d, s) + m
  <2>1. CASE d.last[s] = 0
    BY <1>5, <1>7, <1>9, <2>1 DEF Drawn
  <2>2. CASE d.last[s] # 0
    BY <1>2, <1>6, <1>7, <1>9, <2>2 DEF Drawn
  <2>3. QED
    BY <2>1, <2>2
<1>19. QED
  BY <1>5, <1>9, <1>10, <1>14, <1>15, <1>16, <1>17, <1>18 DEF Sound, m


-----------------------------------------------------------------------------
(* Each store stays sound, and the subscriber's state of its type.         *)

LEMMA DrawIs ==
  ASSUME NEW d, NEW t, Sound(d, t), NEW s \in Scopes
  PROVE  Drawn(d, s) \in Nat /\ Draw(d, s) = Drawn(d, s) + 1 /\ Draw(d, s) \in Nat
<1>1. d.last[s] \in Nat /\ d.floor \in Nat
  BY DEF Sound, StoreOK
<1>2. QED
  BY <1>1 DEF Drawn, Draw

LEMMA StoreInit == Init => StoreInv /\ BehindOK /\ ReaderOK /\ DrawnBehind /\ HandedOK
<1> USE RestoreAssumption
<1>1. SUFFICES ASSUME Init PROVE StoreInv /\ BehindOK /\ ReaderOK /\ DrawnBehind /\ HandedOK
  OBVIOUS
<1>2. Subscribed \in Event /\ Subscribed.position = 1 /\ Subscribed.at = 0 /\ Subscribed.id = 0
  <2>1. (CHOOSE s \in Scopes : TRUE) \in Scopes
    OBVIOUS
  <2>2. QED
    BY <2>1 DEF Subscribed, Event
<1> DEFINE l == <<Subscribed>>
<1>3. l \in Seq(Event) /\ Len(l) = 1 /\ DOMAIN l = {1} /\ l[1] = Subscribed
  BY <1>2
<1> HIDE DEF l
<1>4. /\ db.log = l /\ db.position = 1 /\ db.last = [s \in Scopes |-> 0]
      /\ db.attempts = <<>> /\ db.gaps = {} /\ db.floor = 0 /\ db.acked = 1
  BY <1>1 DEF Init, l
<1>5. db \in Stores
  <2>1. db = [log |-> l, position |-> 1, last |-> [s \in Scopes |-> 0],
              attempts |-> <<>>, gaps |-> {}, floor |-> 0, acked |-> 1]
    BY <1>1 DEF Init, l
  <2>2. [s \in Scopes |-> 0] \in [Scopes -> Nat] /\ <<>> \in Seq(Nat)
    OBVIOUS
  <2>3. QED
    BY <1>3, <2>1, <2>2 DEF Stores
<1>6. LastPosition(db) = 1 /\ LogOK(db)
  <2>1. LastPosition(db) = 1
    BY <1>2, <1>3, <1>4 DEF LastPosition
  <2>2. db.log \in Seq(Event) /\ Len(db.log) > 0 /\ DOMAIN db.log = {1}
    <3>1. db.log \in Seq(Event) /\ Len(db.log) = 1 /\ DOMAIN db.log = {1}
      BY <1>3, <1>4, Zenon
    <3>2. QED
      BY <3>1
  <2>3. \A i, j \in {1} : ~(i < j)
    OBVIOUS
  <2>4. QED
    BY <1>4, <2>1, <2>2, <2>3 DEF LogOK
<1>7. StoreOK(db)
  <2>1. db.last \in [Scopes -> Nat] /\ db.attempts \in Seq(Nat)
    BY <1>5 DEF Stores
  <2>2. QED
    BY <1>4, <1>6, <2>1 DEF StoreOK
<1>8. Dated(db, 0)
  BY <1>2, <1>3, <1>4 DEF Dated
<1>9. Tiled(db)
  <2>1. \A c \in 1..1 : c = 1
    OBVIOUS
  <2>2. \A c : ~Skipped(db, c)
    BY <1>4 DEF Skipped
  <2>3. QED
    BY <1>2, <1>3, <1>4, <2>1, <2>2 DEF Tiled
<1>10. StoresOK
  BY <1>1, <1>5, <1>7, <1>8, <1>9 DEF StoresOK, Sound, Init
<1>11. ReaderTypes
  BY <1>1 DEF ReaderTypes, Init
<1>12. BehindOK /\ DrawnBehind /\ HandedOK
  BY <1>1 DEF BehindOK, DrawnBehind, HandedOK, HandedOutOnce, Init
<1>13. ReaderOK
  <2>1. AckedOK(db, handled)
    BY <1>2, <1>3, <1>4 DEF AckedOK, Selects
  <2>2. QED
    BY <1>1, <2>1 DEF ReaderOK, Init
<1>14. QED
  BY <1>10, <1>11, <1>12, <1>13 DEF StoreInv

(* What Apply adds, and the store it leaves.                               *)
Added(s) ==
  [id |-> recorded + 1, position |-> NextPosition(db), at |-> now,
   scope |-> s, number |-> Draw(db, s)]

LEMMA ApplyAdds ==
  ASSUME StoresOK, NEW s \in Scopes, Apply(s)
  PROVE  /\ recorded' = recorded + 1 /\ recorded' \in 0..MaxRecords
         /\ handed' = handed \cup {Added(s)} /\ now' = now
         /\ copies' = copies /\ restores' = restores /\ UNCHANGED readerVars
         /\ Added(s) \in Event /\ Added(s).id = recorded + 1 /\ Added(s).position = db.position + 1
         /\ Added(s).scope = s /\ Added(s).number = Draw(db, s)
         /\ Sound(db', now) /\ LastPosition(db') = db.position + 1
         /\ \A c \in 0..db.position : Skipped(db', c) <=> Skipped(db, c)
         /\ db'.position = db.position + 1 /\ db'.gaps = db.gaps /\ db'.floor = db.floor
         /\ db'.acked = db.acked /\ db'.last = [db.last EXCEPT ![s] = Draw(db, s)]
         /\ Len(db'.log) = Len(db.log) + 1
         /\ \A i \in DOMAIN db.log : i \in DOMAIN db'.log /\ db'.log[i] = db.log[i]
         /\ \A i \in DOMAIN db'.log :
              i \in DOMAIN db.log \/ (i = Len(db'.log) /\ db'.log[i] = Added(s))
<1> USE RestoreAssumption
<1> DEFINE e == Added(s)
<1>1. recorded' = recorded + 1 /\ recorded' \in 0..MaxRecords /\ now \in Nat
      /\ recorded \in Nat /\ recorded + 1 <= MaxRecords
  BY DEF Apply, StoresOK
<1>2. Sound(db, now) /\ db.position \in Nat /\ Draw(db, s) \in Nat
  BY DrawIs DEF StoresOK, Sound, StoreOK
<1>3. e \in Event /\ e.id = recorded + 1 /\ e.position = db.position + 1 /\ e.at = now
      /\ e.scope = s /\ e.number = Draw(db, s)
  BY <1>1, <1>2 DEF Added, Event, NextPosition
<1>4. db' = [db EXCEPT !.log = Append(@, e), !.position = e.position, !.last[s] = Draw(db, s)]
  BY <1>3 DEF Apply, Added
<1>5. handed' = handed \cup {e} /\ now' = now /\ copies' = copies /\ restores' = restores
      /\ UNCHANGED readerVars
  BY DEF Apply, Added
<1> HIDE DEF e
<1>6. e.at <= now /\ e.id <= MaxRecords
  BY <1>1, <1>3
<1> DEFINE f == db'
           n == Draw(db, s)
<1>7. f = Appended(db, e, s, n) /\ n \in Nat
  BY <1>2, <1>4 DEF Appended
<1> HIDE DEF f, n
<1>8. Extended(f, db, e, s, n, now)
  BY <1>1, <1>2, <1>3, <1>6, <1>7, AppendSound
<1>9. QED
  BY <1>1, <1>3, <1>5, <1>8 DEF Extended, e, f, n


(* What Refuse leaves.                                                     *)
LEMMA RefuseKeeps ==
  ASSUME StoresOK, NEW s \in Scopes, Refuse(s)
  PROVE  /\ recorded' = recorded + 1 /\ recorded' \in 0..MaxRecords
         /\ handed' = handed /\ now' = now /\ copies' = copies /\ restores' = restores
         /\ UNCHANGED readerVars
         /\ Sound(db', now) /\ db'.log = db.log /\ db'.position = db.position
         /\ db'.gaps = db.gaps /\ db'.floor = db.floor /\ db'.acked = db.acked
         /\ \E n \in 1..DrawMost : db'.last = [db.last EXCEPT ![s] = Draw(db, s) + n - 1]
<1> USE RestoreAssumption
<1>1. /\ recorded' = recorded + 1 /\ recorded' \in 0..MaxRecords /\ now \in Nat
      /\ handed' = handed /\ now' = now /\ copies' = copies /\ restores' = restores
      /\ UNCHANGED readerVars
  BY DEF Refuse, StoresOK
<1>2. PICK k \in 1..DrawMost :
        db' = [db EXCEPT !.last[s] = Draw(db, s) + k - 1, !.attempts = Append(@, now)]
  BY DEF Refuse
<1>3. Sound(db, now) /\ Draw(db, s) \in Nat
  BY DrawIs DEF StoresOK
<1> DEFINE f == db'
           n == Draw(db, s) + k - 1
<1>4. n \in Nat /\ f = Declined(db, now, s, n)
  BY <1>2, <1>3 DEF Declined
<1> HIDE DEF f, n
<1>5. /\ Sound(f, now) /\ f.log = db.log /\ f.position = db.position /\ f.gaps = db.gaps
      /\ f.floor = db.floor /\ f.acked = db.acked /\ f.last = [db.last EXCEPT ![s] = n]
  BY <1>1, <1>3, <1>4, RefuseSound
<1>6. QED
  BY <1>1, <1>5 DEF f, n

(* What Acknowledge leaves: the store, or its cursor moved to one it       *)
(* honours.                                                                *)
LEMMA AcknowledgeKeeps ==
  ASSUME StoresOK, ReaderTypes, Acknowledge
  PROVE  /\ UNCHANGED <<kept, page, handled, forgets, storeVars>> /\ acks' \subseteq acks
         /\ Sound(db', now) /\ db'.log = db.log /\ db'.position = db.position
         /\ db'.gaps = db.gaps /\ db'.floor = db.floor /\ db'.last = db.last
         /\ db'.acked = db.acked \/ \E c \in acks : Accepts(db, c) /\ db'.acked = c
<1> USE RestoreAssumption
<1>1. PICK c \in acks :
        /\ db' = IF Accepts(db, c) THEN [db EXCEPT !.acked = c] ELSE db
        /\ acks' \in {acks, acks \ {c}}
  BY DEF Acknowledge
<1>2. UNCHANGED <<kept, page, handled, forgets, storeVars>>
  BY DEF Acknowledge
<1>3. Sound(db, now) /\ c \in Nat /\ now \in Nat
  BY DEF StoresOK, ReaderTypes
<1>4. CASE Accepts(db, c)
  <2> DEFINE f == db'
  <2>1. f = Moved(db, c)
    BY <1>1, <1>4 DEF Moved
  <2> HIDE DEF f
  <2>2. /\ Sound(f, now) /\ f.log = db.log /\ f.position = db.position /\ f.gaps = db.gaps
        /\ f.floor = db.floor /\ f.last = db.last /\ f.acked = c
    BY <1>3, <1>4, <2>1, AcknowledgeSound
  <2>3. QED
    BY <1>1, <1>2, <1>4, <2>2 DEF f
<1>5. CASE ~Accepts(db, c)
  <2>1. db' = db
    BY <1>1, <1>5
  <2>2. QED
    BY <1>1, <1>2, <1>3, <2>1
<1>6. QED
  BY <1>4, <1>5

(* What Restore puts in the store's place.                                 *)
LEMMA RestoreKeeps ==
  ASSUME StoresOK, Restore
  PROVE  /\ restores' = restores + 1 /\ restores' \in 0..MaxRestores
         /\ UNCHANGED <<now, copies, recorded, handed, readerVars>>
         /\ \E c \in copies :
              /\ recorded - c.recorded <= Margin(c.store) /\ (Again \/ c.restores = restores)
              /\ Sound(db', now) /\ db'.log = c.store.log /\ db'.acked = c.store.acked
              /\ LastPosition(db') = LastPosition(c.store)
              /\ Margin(c.store) \in Nat
              /\ db'.position \in Nat /\ db'.position >= c.store.position + Margin(c.store)
              /\ \A s \in Scopes :
                   Drawn(db', s) \in Nat /\ Drawn(db', s) >= Drawn(c.store, s) + Margin(c.store)
              /\ \A k \in 0..c.store.position : Skipped(db', k) <=> Skipped(c.store, k)
<1> USE RestoreAssumption
<1>1. restores' = restores + 1 /\ restores' \in 0..MaxRestores
      /\ UNCHANGED <<now, copies, recorded, handed, readerVars>>
  BY DEF Restore, StoresOK
<1>2. PICK c \in copies : Covers(c) /\ (Again \/ c.restores = restores) /\ db' = Restored(c.store)
  BY DEF Restore
<1>3. now \in Nat /\ Sound(c.store, now)
  BY DEF StoresOK
<1> DEFINE f == db'
           d == c.store
<1>4. f = Restored(d) /\ Sound(d, now)
  BY <1>2, <1>3
<1>5. recorded - c.recorded <= Margin(d)
  BY <1>2 DEF Covers
<1> HIDE DEF f, d
<1>6. Margin(d) \in Nat
  BY <1>3, <1>4, MarginIs
<1>7. /\ Sound(f, now) /\ f.log = d.log /\ f.acked = d.acked
      /\ LastPosition(f) = LastPosition(d)
      /\ f.position \in Nat /\ f.position >= d.position + Margin(d)
      /\ \A s \in Scopes : Drawn(f, s) \in Nat /\ Drawn(f, s) >= Drawn(d, s) + Margin(d)
      /\ \A k \in 0..d.position : Skipped(f, k) <=> Skipped(d, k)
  BY <1>3, <1>4, RestoredSound
<1>8. QED
  BY <1>1, <1>2, <1>5, <1>6, <1>7 DEF f, d

(* The page a pull answers.                                                *)
LEMMA PageIs ==
  ASSUME StoresOK, NEW from \in Nat, NEW fit \in Fits(Pending(from))
  PROVE  /\ fit \subseteq Pending(from)
         /\ {db.log[i].id : i \in fit} \in SUBSET (1..MaxRecords)
         /\ Settled(Pending(from), fit) \in Nat /\ Settled(Pending(from), fit) <= LastPosition(db)
         /\ \A i \in Pending(from) : db.log[i].position <= Settled(Pending(from), fit) => i \in fit
<1> DEFINE pending == Pending(from)
           last == Settled(pending, fit)
<1>1. db \in Stores /\ LogOK(db) /\ Tiled(db)
  BY DEF StoresOK, Sound, StoreOK
<1>2. /\ Len(db.log) \in Nat /\ DOMAIN db.log = 1..Len(db.log)
      /\ \A i \in DOMAIN db.log : db.log[i].id \in Nat /\ db.log[i].position \in Nat
  BY <1>1, Events
<1>3. LastPosition(db) \in Nat /\ \A i \in DOMAIN db.log : db.log[i].position <= LastPosition(db)
  BY <1>1, LastIs
<1>4. /\ fit \subseteq pending /\ pending \subseteq DOMAIN db.log
      /\ \A i \in fit, j \in pending : j < i => j \in fit
      /\ fit = {} => pending = {}
  BY DEF Fits, Pending
<1>5. \A i \in pending : db.log[i].id \in 1..MaxRecords
  <2>1. \A i \in pending : db.log[i].id > 0
    BY DEF Pending, Selects
  <2>2. \A i \in pending : db.log[i].id \in Nat /\ db.log[i].id <= MaxRecords
    BY <1>1, <1>2, <1>4 DEF Tiled
  <2>3. MaxRecords \in Nat
    BY RestoreAssumption
  <2>4. QED
    BY <2>1, <2>2, <2>3
<1>6. CASE fit \in {{}, pending}
  <2>1. last = LastPosition(db) /\ fit = pending
    BY <1>4, <1>6 DEF Settled
  <2>2. QED
    BY <1>3, <1>4, <1>5, <2>1
<1>7. CASE fit \notin {{}, pending}
  <2> DEFINE top == Largest(fit)
  <2>1. fit \subseteq Nat /\ fit # {} /\ \A n \in fit : n <= Len(db.log)
    BY <1>2, <1>4, <1>7
  <2>2. top \in fit /\ \A n \in fit : n <= top
    BY <1>2, <2>1, LargestIs
  <2> HIDE DEF top
  <2>3. last = db.log[top].position
    BY <1>7 DEF Settled, top
  <2>4. last \in Nat /\ last <= LastPosition(db)
    BY <1>2, <1>3, <1>4, <2>2, <2>3
  <2>5. ASSUME NEW i \in pending, db.log[i].position <= last, i \notin fit
        PROVE  FALSE
    <3>1. i \in 1..Len(db.log) /\ top \in 1..Len(db.log) /\ i # top
      BY <1>2, <1>4, <2>2, <2>5
    <3>2. ~(i < top)
      BY <1>4, <2>2, <2>5
    <3>3. top < i
      BY <1>2, <3>1, <3>2
    <3>4. db.log[top].position < db.log[i].position
      BY <1>1, <1>2, <3>1, <3>3 DEF LogOK
    <3>5. QED
      BY <1>2, <2>3, <2>5, <3>1, <3>4
  <2>6. QED
    BY <1>4, <1>5, <2>4, <2>5
<1>8. QED
  BY <1>6, <1>7


LEMMA StoreStep == StoreInv /\ [Next]_vars => StoreInv'
<1> USE RestoreAssumption
<1>1. SUFFICES ASSUME StoreInv, [Next]_vars PROVE StoreInv'
  OBVIOUS
<1>2. StoresOK /\ ReaderTypes
  BY <1>1 DEF StoreInv
<1>3. ASSUME NEW s \in Scopes, Apply(s)
      PROVE  StoreInv'
  <2>1. /\ recorded' = recorded + 1 /\ recorded' \in 0..MaxRecords
        /\ handed' = handed \cup {Added(s)} /\ now' = now
        /\ copies' = copies /\ restores' = restores /\ UNCHANGED readerVars
        /\ Added(s) \in Event /\ Sound(db', now)
    BY <1>2, <1>3, ApplyAdds
  <2>2. StoresOK'
    BY <1>2, <2>1 DEF StoresOK, Copies
  <2>3. ReaderTypes'
    BY <1>2, <2>1 DEF ReaderTypes, readerVars
  <2>4. QED
    BY <2>2, <2>3 DEF StoreInv
<1>4. ASSUME NEW s \in Scopes, Refuse(s)
      PROVE  StoreInv'
  <2>1. /\ recorded' = recorded + 1 /\ recorded' \in 0..MaxRecords
        /\ handed' = handed /\ now' = now /\ copies' = copies /\ restores' = restores
        /\ UNCHANGED readerVars /\ Sound(db', now)
    BY <1>2, <1>4, RefuseKeeps
  <2>2. StoresOK'
    BY <1>2, <2>1 DEF StoresOK, Copies
  <2>3. ReaderTypes'
    BY <1>2, <2>1 DEF ReaderTypes, readerVars
  <2>4. QED
    BY <2>2, <2>3 DEF StoreInv
<1>5. CASE Tick
  <2>1. /\ now \in Nat /\ now' \in Nat /\ now <= now' /\ now' \in 0..MaxTime
        /\ UNCHANGED <<db, copies, restores, recorded, handed, readerVars>>
    BY <1>2, <1>5 DEF Tick, StoresOK
  <2>2. Sound(db, now') /\ \A c \in copies : Sound(c.store, now')
    BY <1>2, <2>1, StaysSound DEF StoresOK
  <2>3. StoresOK'
    BY <1>2, <2>1, <2>2 DEF StoresOK
  <2>4. ReaderTypes'
    BY <1>2, <2>1 DEF ReaderTypes, readerVars
  <2>5. QED
    BY <2>3, <2>4 DEF StoreInv
<1>6. CASE Copy
  <2> DEFINE k == [store |-> db, recorded |-> recorded, restores |-> restores]
  <2>1. copies' = copies \cup {k} /\ UNCHANGED <<db, now, restores, recorded, handed, readerVars>>
    BY <1>6 DEF Copy
  <2>2. /\ k \in Copies /\ Sound(k.store, now) /\ k.restores <= restores /\ k.recorded <= recorded
    BY <1>2 DEF StoresOK, Copies, Sound
  <2> HIDE DEF k
  <2>3. StoresOK'
    BY <1>2, <2>1, <2>2 DEF StoresOK
  <2>4. ReaderTypes'
    BY <1>2, <2>1 DEF ReaderTypes, readerVars
  <2>5. QED
    BY <2>3, <2>4 DEF StoreInv
<1>7. CASE Restore
  <2>1. restores' = restores + 1 /\ restores' \in 0..MaxRestores
        /\ UNCHANGED <<now, copies, recorded, handed, readerVars>> /\ Sound(db', now)
    BY <1>2, <1>7, RestoreKeeps
  <2>2. StoresOK'
    BY <1>2, <2>1 DEF StoresOK, Copies
  <2>3. ReaderTypes'
    BY <1>2, <2>1 DEF ReaderTypes, readerVars
  <2>4. QED
    BY <2>2, <2>3 DEF StoreInv
<1>8. CASE Pull
  <2>1. UNCHANGED <<db, handled, acks, forgets, storeVars>>
    BY <1>8 DEF Pull
  <2>2. CASE kept # None /\ ~Accepts(db, kept)
    <3>1. kept' = None /\ page' = page
      BY <1>8, <2>2 DEF Pull
    <3>2. QED
      BY <1>2, <2>1, <3>1 DEF StoreInv, StoresOK, ReaderTypes, storeVars
  <2>3. CASE ~(kept # None /\ ~Accepts(db, kept))
    <3> DEFINE from == IF kept = None THEN db.acked ELSE kept
    <3>1. PICK fit \in Fits(Pending(from)) :
            /\ page' = [events |-> {db.log[i].id : i \in fit},
                        settled |-> Settled(Pending(from), fit)]
            /\ kept' = kept
      BY <1>8, <2>3 DEF Pull
    <3>2. from \in Nat
      BY <1>2 DEF StoresOK, ReaderTypes, Sound, Stores
    <3> HIDE DEF from
    <3>3. /\ {db.log[i].id : i \in fit} \in SUBSET (1..MaxRecords)
          /\ Settled(Pending(from), fit) \in Nat
      BY <1>2, <3>1, <3>2, PageIs
    <3>4. page'.settled \in Nat /\ page'.events \in SUBSET (1..MaxRecords)
      BY <3>1, <3>3
    <3>5. QED
      BY <1>2, <2>1, <3>1, <3>4 DEF StoreInv, StoresOK, ReaderTypes, storeVars
  <2>4. QED
    BY <2>2, <2>3
<1>9. CASE Handle
  <2>1. /\ page # None /\ handled' = handled \cup page.events /\ kept' = page.settled
        /\ acks' \in {acks, acks \cup {page.settled}} /\ page' = None
        /\ UNCHANGED <<db, forgets, storeVars>>
    BY <1>9 DEF Handle
  <2>2. ReaderTypes'
    BY <1>2, <2>1 DEF ReaderTypes
  <2>3. QED
    BY <1>2, <2>1, <2>2 DEF StoreInv, StoresOK, storeVars
<1>10. CASE Acknowledge
  <2>1. /\ UNCHANGED <<kept, page, handled, forgets, storeVars>> /\ acks' \subseteq acks
        /\ Sound(db', now)
    BY <1>2, <1>10, AcknowledgeKeeps
  <2>2. ReaderTypes'
    BY <1>2, <2>1 DEF ReaderTypes
  <2>3. StoresOK'
    BY <1>2, <2>1 DEF StoresOK, storeVars
  <2>4. QED
    BY <2>2, <2>3 DEF StoreInv
<1>11. CASE Forget
  <2>1. ReaderTypes'
    BY <1>2, <1>11 DEF ReaderTypes, Forget
  <2>2. StoresOK'
    BY <1>2, <1>11 DEF StoresOK, Forget, storeVars
  <2>3. QED
    BY <2>1, <2>2 DEF StoreInv
<1>12. CASE UNCHANGED vars
  BY <1>2, <1>12 DEF StoreInv, StoresOK, ReaderTypes, vars
<1>13. QED
  BY <1>1, <1>3, <1>4, <1>5, <1>6, <1>7, <1>8, <1>9, <1>10, <1>11, <1>12 DEF Next

(* The store, each copy of it and the subscriber's state are of their      *)
(* type, for any scopes, margins, copies and restores: the log of each     *)
(* store in position order and within its counter, each gap ahead of where *)
(* it starts, and the cursor acknowledged within the log (store.rs).       *)
THEOREM RestoreTyped == Spec => []TypeOK
<1>1. Spec => []StoreInv
  BY StoreInit, StoreStep, PTL DEF Spec
<1>2. StoreInv => TypeOK
  BY DEF StoreInv, StoresOK, ReaderTypes, TypeOK, Sound
<1>3. QED
  BY <1>1, <1>2, PTL

(* The cursors the store honours are its own events' positions, and 0,     *)
(* after any restores, of copies of any age: a cursor into what a restore  *)
(* lost is refused for good (pull_page, Restore::skipped_position).        *)
THEOREM CursorsAreItsOwn == Spec => []HonoursItsOwn
<1>1. Spec => []StoreInv
  BY StoreInit, StoreStep, PTL DEF Spec
<1>2. StoreInv => HonoursItsOwn
  BY AcceptsIs DEF StoreInv, StoresOK, HonoursItsOwn
<1>3. QED
  BY <1>1, <1>2, PTL


-----------------------------------------------------------------------------
(* A copy made since the last restore is the store's beginning.            *)

LEMMA StoreFacts ==
  ASSUME StoreInv
  PROVE  /\ StoresOK /\ ReaderTypes /\ Sound(db, now) /\ db \in Stores /\ db.position \in Nat
         /\ recorded \in Nat /\ restores \in Nat /\ handed \subseteq Event
         /\ db.last \in [Scopes -> Nat]
         /\ \A c \in copies : /\ Sound(c.store, now) /\ c.store \in Stores
                              /\ c.store.position \in Nat /\ c.recorded \in Nat
                              /\ c.restores \in Nat /\ c.restores <= restores
<1> USE RestoreAssumption
<1>1. StoresOK /\ ReaderTypes
  BY DEF StoreInv
<1>2. /\ recorded \in Nat /\ restores \in Nat /\ handed \subseteq Event /\ Sound(db, now)
      /\ \A c \in copies : Sound(c.store, now) /\ c.restores <= restores
  BY <1>1 DEF StoresOK
<1>3. \A c \in copies : c.recorded \in Nat /\ c.restores \in Nat
  BY <1>1 DEF StoresOK, Copies
<1>4. \A d, t : Sound(d, t) => d \in Stores /\ d.position \in Nat /\ d.last \in [Scopes -> Nat]
  BY DEF Sound, StoreOK
<1>5. QED
  BY <1>1, <1>2, <1>3, <1>4

LEMMA BehindStep == StoreInv /\ BehindOK /\ [Next]_vars => BehindOK'
<1> USE RestoreAssumption
<1>1. SUFFICES ASSUME StoreInv, BehindOK, [Next]_vars PROVE BehindOK'
  OBVIOUS
<1>2. /\ StoresOK /\ ReaderTypes /\ db \in Stores /\ db.position \in Nat
      /\ recorded \in Nat /\ restores \in Nat
      /\ \A c \in copies : /\ c.store \in Stores /\ c.store.position \in Nat /\ c.recorded \in Nat
                           /\ c.restores \in Nat /\ c.restores <= restores
  BY <1>1, StoreFacts
<1>3. Len(db.log) \in Nat /\ DOMAIN db.log = 1..Len(db.log)
      /\ \A c \in copies : Len(c.store.log) \in Nat /\ DOMAIN c.store.log = 1..Len(c.store.log)
  BY <1>2, Events
<1>4. ASSUME NEW s \in Scopes, Apply(s)
      PROVE  BehindOK'
  <2>1. /\ recorded' = recorded + 1 /\ copies' = copies /\ restores' = restores
        /\ db'.position = db.position + 1 /\ db'.gaps = db.gaps /\ db'.floor = db.floor
        /\ Len(db'.log) = Len(db.log) + 1
        /\ \A i \in DOMAIN db.log : db'.log[i] = db.log[i]
    BY <1>2, <1>4, ApplyAdds
  <2>2. ASSUME NEW c \in copies, c.restores = restores
        PROVE  Behind(c)'
    <3>1. Behind(c)
      BY <1>1, <2>2 DEF BehindOK
    <3>2. Len(c.store.log) <= Len(db'.log)
      BY <1>3, <2>1, <3>1 DEF Behind
    <3>3. ASSUME NEW i \in DOMAIN c.store.log PROVE c.store.log[i] = db'.log[i]
      <4>1. i \in DOMAIN db.log
        BY <1>3, <3>1 DEF Behind
      <4>2. QED
        BY <2>1, <3>1, <4>1 DEF Behind
    <3>4. db'.position <= c.store.position + (recorded' - c.recorded)
      BY <1>2, <2>1, <3>1 DEF Behind
    <3>5. QED
      BY <2>1, <3>1, <3>2, <3>3, <3>4 DEF Behind
  <2>3. QED
    BY <2>1, <2>2 DEF BehindOK
<1>5. ASSUME NEW s \in Scopes, Refuse(s)
      PROVE  BehindOK'
  <2>1. /\ recorded' = recorded + 1 /\ copies' = copies /\ restores' = restores
        /\ db'.log = db.log /\ db'.position = db.position
        /\ db'.gaps = db.gaps /\ db'.floor = db.floor
    BY <1>2, <1>5, RefuseKeeps
  <2>2. ASSUME NEW c \in copies, c.restores = restores
        PROVE  Behind(c)'
    <3>1. Behind(c)
      BY <1>1, <2>2 DEF BehindOK
    <3>2. db'.position <= c.store.position + (recorded' - c.recorded)
      BY <1>2, <2>1, <3>1 DEF Behind
    <3>3. QED
      BY <2>1, <3>1, <3>2 DEF Behind
  <2>3. QED
    BY <2>1, <2>2 DEF BehindOK
<1>6. CASE Copy
  <2> DEFINE k == [store |-> db, recorded |-> recorded, restores |-> restores]
  <2>1. copies' = copies \cup {k} /\ UNCHANGED <<db, restores, recorded>>
    BY <1>6 DEF Copy
  <2>2. k.store = db /\ k.recorded = recorded
    OBVIOUS
  <2> HIDE DEF k
  <2>3. Behind(k)
    BY <1>2, <1>3, <2>2 DEF Behind
  <2>4. \A c : Behind(c) => Behind(c)'
    BY <2>1 DEF Behind
  <2>5. QED
    BY <1>1, <2>1, <2>3, <2>4 DEF BehindOK
<1>7. CASE Restore
  <2>1. restores' = restores + 1 /\ copies' = copies
    BY <1>7 DEF Restore
  <2>2. \A c \in copies : c.restores # restores'
    BY <1>2, <2>1
  <2>3. QED
    BY <2>1, <2>2 DEF BehindOK
<1>8. CASE Acknowledge
  <2>1. /\ UNCHANGED storeVars /\ db'.log = db.log /\ db'.position = db.position
        /\ db'.gaps = db.gaps /\ db'.floor = db.floor
    BY <1>2, <1>8, AcknowledgeKeeps
  <2>2. QED
    BY <1>1, <2>1 DEF BehindOK, Behind, storeVars
<1>9. CASE UNCHANGED <<db, copies, restores, recorded>>
  BY <1>1, <1>9 DEF BehindOK, Behind
<1>10. QED
  <2>1. Tick \/ Pull \/ Handle \/ Forget \/ UNCHANGED vars => UNCHANGED <<db, copies, restores, recorded>>
    BY DEF Tick, Pull, Handle, Forget, vars, storeVars
  <2>2. QED
    BY <1>1, <1>4, <1>5, <1>6, <1>7, <1>8, <1>9, <2>1 DEF Next

-----------------------------------------------------------------------------
(* No number is handed out twice, where no copy is restored over a restore *)
(* and a request draws one number of a sequence.                           *)

LEMMA DrawsStep ==
  ASSUME ~Again, DrawMost = 1
  PROVE  DrawsInv /\ [Next]_vars => DrawnBehind' /\ HandedOK'
<1> USE RestoreAssumption
<1>1. SUFFICES ASSUME DrawsInv, [Next]_vars PROVE DrawnBehind' /\ HandedOK'
  OBVIOUS
<1>2. /\ StoresOK /\ ReaderTypes /\ BehindOK /\ DrawnBehind /\ HandedOK
      /\ db.position \in Nat /\ recorded \in Nat /\ restores \in Nat /\ handed \subseteq Event
      /\ db.last \in [Scopes -> Nat]
      /\ \A s \in Scopes : Drawn(db, s) \in Nat /\ Draw(db, s) = Drawn(db, s) + 1
      /\ \A c \in copies : /\ c.store.position \in Nat /\ c.recorded \in Nat
                           /\ c.restores \in Nat /\ c.restores <= restores
                           /\ \A s \in Scopes : Drawn(c.store, s) \in Nat
  <2>1. StoresOK /\ ReaderTypes /\ BehindOK /\ DrawnBehind /\ HandedOK
    BY <1>1 DEF DrawsInv, StoreInv
  <2>2. Sound(db, now) /\ \A c \in copies : Sound(c.store, now)
    BY <1>1, StoreFacts DEF DrawsInv
  <2>3. \A s \in Scopes : Drawn(db, s) \in Nat /\ Draw(db, s) = Drawn(db, s) + 1
    BY <2>2, DrawIs
  <2>4. \A c \in copies : \A s \in Scopes : Drawn(c.store, s) \in Nat
    BY <2>2, DrawIs
  <2>5. QED
    BY <1>1, <2>1, <2>3, <2>4, StoreFacts DEF DrawsInv
<1>3. \A e \in Event : e.position \in Nat /\ e.number \in Nat /\ e.scope \in Scopes
  BY DEF Event
<1>4. ASSUME NEW s \in Scopes, Apply(s)
      PROVE  DrawnBehind' /\ HandedOK'
  <2> DEFINE e == Added(s)
             n == Draw(db, s)
  <2>1. /\ recorded' = recorded + 1 /\ copies' = copies /\ restores' = restores
        /\ handed' = handed \cup {e} /\ e \in Event /\ e.position = db.position + 1
        /\ e.scope = s /\ e.number = n
        /\ db'.position = db.position + 1 /\ db'.floor = db.floor
        /\ db'.last = [db.last EXCEPT ![s] = n]
    BY <1>2, <1>4, ApplyAdds
  <2>2. n = Drawn(db, s) + 1 /\ n \in Nat /\ n # 0
    BY <1>2
  <2> HIDE DEF e, n
  <2>3. \A z \in Scopes : Drawn(db', z) = IF z = s THEN n ELSE Drawn(db, z)
    BY <1>2, <2>1, <2>2 DEF Drawn
  <2>4. DrawnBehind'
    <3>1. ASSUME NEW c \in copies, c.restores = restores, NEW z \in Scopes
          PROVE  Drawn(db', z) <= Drawn(c.store, z) + (recorded' - c.recorded)
      <4>1. Drawn(db, z) <= Drawn(c.store, z) + (recorded - c.recorded)
        BY <1>2, <3>1 DEF DrawnBehind
      <4>2. Drawn(db', z) <= Drawn(db, z) + 1 /\ Drawn(db', z) \in Nat
        BY <1>2, <2>2, <2>3
      <4>3. QED
        BY <1>2, <2>1, <4>1, <4>2
    <3>2. QED
      BY <2>1, <3>1 DEF DrawnBehind
  <2>5. \A a \in handed : /\ a.position < e.position
                          /\ a.scope = e.scope => a.number < e.number
    <3>1. ASSUME NEW a \in handed
          PROVE  a.position < e.position /\ (a.scope = e.scope => a.number < e.number)
      <4>1. a.position \in Nat /\ a.number \in Nat /\ a.scope \in Scopes
            /\ a.position <= db.position /\ a.number <= Drawn(db, a.scope)
        BY <1>2, <1>3 DEF HandedOK
      <4>2. QED
        BY <1>2, <2>1, <2>2, <4>1
    <3>2. QED
      BY <3>1
  <2>6. \A a \in handed' : a.position <= db'.position /\ a.number <= Drawn(db', a.scope)
    <3>1. ASSUME NEW a \in handed
          PROVE  a.position <= db'.position /\ a.number <= Drawn(db', a.scope)
      <4>1. a.position \in Nat /\ a.number \in Nat /\ a.scope \in Scopes
            /\ a.position <= db.position /\ a.number <= Drawn(db, a.scope)
        BY <1>2, <1>3 DEF HandedOK
      <4>2. QED
        BY <1>2, <2>1, <2>2, <2>3, <4>1
    <3>2. e.position <= db'.position /\ e.number <= Drawn(db', e.scope)
      BY <1>2, <2>1, <2>2, <2>3
    <3>3. QED
      BY <2>1, <3>1, <3>2
  <2>7. HandedOutOnce'
    <3>1. ASSUME NEW a \in handed', NEW b \in handed', a.id # b.id
          PROVE  a.position # b.position /\ (a.scope = b.scope => a.number # b.number)
      <4>1. (a \in handed \/ a = e) /\ (b \in handed \/ b = e)
        BY <2>1
      <4>2. a.position \in Nat /\ a.number \in Nat /\ b.position \in Nat /\ b.number \in Nat
        BY <1>2, <1>3, <2>1, <4>1
      <4>3. CASE a \in handed /\ b \in handed
        BY <1>2, <3>1, <4>3 DEF HandedOK, HandedOutOnce
      <4>4. CASE a = e /\ b \in handed
        BY <2>5, <4>2, <4>4
      <4>5. CASE a \in handed /\ b = e
        BY <2>5, <4>2, <4>5
      <4>6. CASE a = e /\ b = e
        BY <3>1, <4>6
      <4>7. QED
        BY <4>1, <4>3, <4>4, <4>5, <4>6
    <3>2. QED
      BY <3>1 DEF HandedOutOnce
  <2>8. QED
    BY <2>4, <2>6, <2>7 DEF HandedOK
<1>5. ASSUME NEW s \in Scopes, Refuse(s)
      PROVE  DrawnBehind' /\ HandedOK'
  <2>1. /\ recorded' = recorded + 1 /\ handed' = handed /\ copies' = copies /\ restores' = restores
        /\ db'.position = db.position /\ db'.floor = db.floor
    BY <1>2, <1>5, RefuseKeeps
  <2>2. PICK k \in 1..DrawMost : db'.last = [db.last EXCEPT ![s] = Draw(db, s) + k - 1]
    BY <1>2, <1>5, RefuseKeeps
  <2> DEFINE n == Draw(db, s) + k - 1
  <2>3. k = 1 /\ n = Drawn(db, s) + 1 /\ n \in Nat /\ n # 0 /\ db'.last = [db.last EXCEPT ![s] = n]
    BY <1>2, <2>2
  <2> HIDE DEF n
  <2>4. \A z \in Scopes : Drawn(db', z) = IF z = s THEN n ELSE Drawn(db, z)
    BY <1>2, <2>1, <2>3 DEF Drawn
  <2>5. DrawnBehind'
    <3>1. ASSUME NEW c \in copies, c.restores = restores, NEW z \in Scopes
          PROVE  Drawn(db', z) <= Drawn(c.store, z) + (recorded' - c.recorded)
      <4>1. Drawn(db, z) <= Drawn(c.store, z) + (recorded - c.recorded)
        BY <1>2, <3>1 DEF DrawnBehind
      <4>2. Drawn(db', z) <= Drawn(db, z) + 1 /\ Drawn(db', z) \in Nat
        BY <1>2, <2>3, <2>4
      <4>3. QED
        BY <1>2, <2>1, <4>1, <4>2
    <3>2. QED
      BY <2>1, <3>1 DEF DrawnBehind
  <2>6. ASSUME NEW a \in handed
        PROVE  a.position <= db'.position /\ a.number <= Drawn(db', a.scope)
    <3>1. a.position \in Nat /\ a.number \in Nat /\ a.scope \in Scopes
          /\ a.position <= db.position /\ a.number <= Drawn(db, a.scope)
      BY <1>2, <1>3 DEF HandedOK
    <3>2. QED
      BY <1>2, <2>1, <2>3, <2>4, <3>1
  <2>7. QED
    BY <1>2, <2>1, <2>5, <2>6 DEF HandedOK, HandedOutOnce
<1>6. CASE Copy
  <2> DEFINE k == [store |-> db, recorded |-> recorded, restores |-> restores]
  <2>1. copies' = copies \cup {k} /\ UNCHANGED <<db, restores, recorded, handed>>
    BY <1>6 DEF Copy
  <2>2. k.store = db /\ k.recorded = recorded
    OBVIOUS
  <2> HIDE DEF k
  <2>3. \A s \in Scopes : Drawn(db, s) <= Drawn(k.store, s) + (recorded - k.recorded)
    BY <1>2, <2>2
  <2>4. DrawnBehind'
    BY <1>2, <2>1, <2>3 DEF DrawnBehind
  <2>5. QED
    BY <1>2, <2>1, <2>4 DEF HandedOK, HandedOutOnce
<1>7. CASE Restore
  <2>1. restores' = restores + 1 /\ UNCHANGED <<copies, recorded, handed>>
    BY <1>7 DEF Restore
  <2>2. \A c \in copies : c.restores # restores'
    BY <1>2, <2>1
  <2>3. PICK c \in copies :
          /\ recorded - c.recorded <= Margin(c.store) /\ (Again \/ c.restores = restores)
          /\ Margin(c.store) \in Nat
          /\ db'.position \in Nat /\ db'.position >= c.store.position + Margin(c.store)
          /\ \A s \in Scopes :
               Drawn(db', s) \in Nat /\ Drawn(db', s) >= Drawn(c.store, s) + Margin(c.store)
    BY <1>2, <1>7, RestoreKeeps
  <2>4. c.restores = restores
    BY <2>3
  <2>5. db.position <= db'.position
    <3>1. db.position <= c.store.position + (recorded - c.recorded)
      BY <1>2, <2>4 DEF BehindOK, Behind
    <3>2. QED
      BY <1>2, <2>3, <3>1
  <2>6. ASSUME NEW s \in Scopes PROVE Drawn(db, s) <= Drawn(db', s)
    <3>1. Drawn(db, s) <= Drawn(c.store, s) + (recorded - c.recorded)
      BY <1>2, <2>4 DEF DrawnBehind
    <3>2. QED
      BY <1>2, <2>3, <3>1
  <2>7. ASSUME NEW a \in handed
        PROVE  a.position <= db'.position /\ a.number <= Drawn(db', a.scope)
    <3>1. a.position \in Nat /\ a.number \in Nat /\ a.scope \in Scopes
          /\ a.position <= db.position /\ a.number <= Drawn(db, a.scope)
      BY <1>2, <1>3 DEF HandedOK
    <3>2. QED
      BY <1>2, <2>3, <2>5, <2>6, <3>1
  <2>8. QED
    BY <1>2, <2>1, <2>2, <2>7 DEF DrawnBehind, HandedOK, HandedOutOnce
<1>8. CASE Acknowledge
  <2>1. /\ UNCHANGED storeVars /\ db'.position = db.position
        /\ db'.floor = db.floor /\ db'.last = db.last
    BY <1>2, <1>8, AcknowledgeKeeps
  <2>2. \A s : Drawn(db', s) = Drawn(db, s)
    BY <2>1 DEF Drawn
  <2>3. QED
    BY <1>2, <2>1, <2>2 DEF DrawnBehind, HandedOK, HandedOutOnce, storeVars
<1>9. CASE UNCHANGED <<db, copies, restores, recorded, handed>>
  BY <1>2, <1>9 DEF DrawnBehind, Drawn, HandedOK, HandedOutOnce
<1>10. QED
  <2>1. Tick \/ Pull \/ Handle \/ Forget \/ UNCHANGED vars
        => UNCHANGED <<db, copies, restores, recorded, handed>>
    BY DEF Tick, Pull, Handle, Forget, vars, storeVars
  <2>2. QED
    BY <1>1, <1>4, <1>5, <1>6, <1>7, <1>8, <1>9, <2>1 DEF Next


(* No position, and no number of a scope, is handed out to two events, one *)
(* of them lost to a restore or not: where each restore is of a copy made  *)
(* since the one before, what was lost is no more than its margin covers,  *)
(* and a request draws one number (Allocator, restore_copy; operate.md,    *)
(* "hands none of them out twice").                                        *)
THEOREM NumbersOnce == ~Again /\ DrawMost = 1 => (Spec => []HandedOutOnce)
<1>1. SUFFICES ASSUME ~Again, DrawMost = 1 PROVE Spec => []HandedOutOnce
  OBVIOUS
<1>2. Init => DrawsInv
  BY StoreInit DEF DrawsInv
<1>3. DrawsInv /\ [Next]_vars => DrawsInv'
  <2>1. SUFFICES ASSUME DrawsInv, [Next]_vars PROVE DrawsInv'
    OBVIOUS
  <2>2. StoreInv /\ BehindOK
    BY <2>1 DEF DrawsInv
  <2>3. StoreInv' /\ BehindOK'
    BY <2>1, <2>2, StoreStep, BehindStep
  <2>4. DrawnBehind' /\ HandedOK'
    BY <1>1, <2>1, DrawsStep
  <2>5. QED
    BY <2>3, <2>4 DEF DrawsInv
<1>4. DrawsInv => HandedOutOnce
  BY DEF DrawsInv, HandedOK
<1>5. QED
  BY <1>2, <1>3, <1>4, PTL DEF Spec

-----------------------------------------------------------------------------
(* What a cursor is past.                                                  *)

LEMMA GoodLater ==
  ASSUME NEW d, NEW k, NEW A, NEW B, A \subseteq B, Good(d, k, A)
  PROVE  Good(d, k, B)
  BY DEF Good

LEMMA AckedLater ==
  ASSUME NEW d, NEW A, NEW B, A \subseteq B, AckedOK(d, A)
  PROVE  AckedOK(d, B)
  BY DEF AckedOK

(* A cursor within what is handed out is past no event added.              *)
LEMMA GoodAppended ==
  ASSUME StoreInv, NEW s \in Scopes, Apply(s), NEW k \in Nat, k <= db.position,
         NEW done, Good(db, k, done)
  PROVE  Good(db', k, done)
<1>1. /\ StoresOK /\ Sound(db, now) /\ db \in Stores /\ db.position \in Nat
  BY StoreFacts
<1>2. /\ Added(s).position = db.position + 1
      /\ \A c \in 0..db.position : Skipped(db', c) <=> Skipped(db, c)
      /\ \A i \in DOMAIN db.log : i \in DOMAIN db'.log /\ db'.log[i] = db.log[i]
      /\ \A i \in DOMAIN db'.log :
           i \in DOMAIN db.log \/ (i = Len(db'.log) /\ db'.log[i] = Added(s))
  BY <1>1, ApplyAdds
<1>3. SUFFICES ASSUME Accepts(db', k), NEW i \in DOMAIN db'.log,
                      Selects(db'.log[i]), db'.log[i].position <= k
               PROVE  db'.log[i].id \in done
  BY DEF Good
<1>4. ~Skipped(db, k)
  BY <1>1, <1>2, <1>3 DEF Accepts
<1>5. Accepts(db, k)
  <2>1. CASE k = 0
    BY <1>1, <2>1, AcceptsIs
  <2>2. CASE k # 0
    <3>1. k \in 1..db.position
      BY <1>1, <2>2
    <3>2. \E j \in DOMAIN db.log : db.log[j].position = k
      BY <1>1, <1>4, <3>1 DEF Sound, Tiled
    <3>3. QED
      BY <1>1, <3>1, <3>2, AcceptsIs
  <2>3. QED
    BY <2>1, <2>2
<1>6. i \in DOMAIN db.log
  BY <1>1, <1>2, <1>3
<1>7. QED
  BY <1>2, <1>3, <1>5, <1>6 DEF Good

(* One the store honours still after a restore it honoured before, for the *)
(* same events.                                                            *)
LEMMA GoodRestored ==
  ASSUME StoreInv, BehindOK, NEW c \in copies, c.restores = restores, NEW f,
         f.log = c.store.log, LastPosition(f) = LastPosition(c.store),
         \A k \in 0..c.store.position : Skipped(f, k) <=> Skipped(c.store, k),
         NEW k \in Nat, NEW done, Good(db, k, done)
  PROVE  Good(f, k, done)
<1> DEFINE d == c.store
<1>1. Sound(db, now) /\ db \in Stores /\ Sound(d, now) /\ d \in Stores
  BY StoreFacts
<1>2. LogOK(db) /\ LogOK(d)
  BY <1>1 DEF Sound, StoreOK
<1>3. Behind(c)
  BY DEF BehindOK
<1>4. /\ Len(d.log) \in DOMAIN d.log /\ LastPosition(d) \in Nat
      /\ LastPosition(d) <= d.position /\ d.position \in Nat
  BY <1>1, <1>2, LastIs
<1>5. /\ LastPosition(db) \in Nat /\ \A i \in DOMAIN db.log : db.log[i].position <= LastPosition(db)
  BY <1>1, <1>2, LastIs
<1>6. Len(d.log) \in Nat /\ DOMAIN d.log = 1..Len(d.log) /\ Len(db.log) \in Nat /\ DOMAIN db.log = 1..Len(db.log)
  BY <1>1, Events
<1>7. \A i \in DOMAIN d.log : i \in DOMAIN db.log /\ d.log[i] = db.log[i]
  BY <1>3, <1>6 DEF Behind
<1>8. SUFFICES ASSUME Accepts(f, k), NEW i \in DOMAIN d.log,
                      Selects(d.log[i]), d.log[i].position <= k
               PROVE  d.log[i].id \in done
  BY DEF Good
<1>9. LastPosition(d) <= LastPosition(db)
  <2>1. LastPosition(d) = db.log[Len(d.log)].position
    BY <1>4, <1>7 DEF LastPosition
  <2>2. QED
    BY <1>4, <1>5, <1>7, <2>1
<1>10. k <= LastPosition(d) /\ k \in 0..d.position
  BY <1>4, <1>8 DEF Accepts
<1>11. ~Skipped(db, k)
  <2>1. ~Skipped(d, k)
    BY <1>8, <1>10 DEF Accepts
  <2>2. QED
    BY <1>3, <2>1 DEF Skipped, Behind
<1>12. Accepts(db, k)
  BY <1>4, <1>5, <1>9, <1>10, <1>11 DEF Accepts
<1>13. QED
  BY <1>7, <1>8, <1>12 DEF Good

(* The cursor a page settles at is past no event but those it holds.       *)
LEMMA GoodPage ==
  ASSUME StoreInv, ReaderOK, NEW from \in Nat,
         \A i \in DOMAIN db.log :
           Selects(db.log[i]) /\ db.log[i].position <= from => db.log[i].id \in handled,
         NEW fit \in Fits(Pending(from))
  PROVE  /\ Settled(Pending(from), fit) <= db.position
         /\ Good(db, Settled(Pending(from), fit), handled \cup {db.log[i].id : i \in fit})
<1> DEFINE k == Settled(Pending(from), fit)
<1>1. StoresOK /\ db \in Stores /\ db.position \in Nat /\ LogOK(db)
  BY StoreFacts DEF Sound, StoreOK
<1>2. k \in Nat /\ k <= LastPosition(db)
      /\ \A i \in Pending(from) : db.log[i].position <= k => i \in fit
  BY <1>1, PageIs
<1> HIDE DEF k
<1>3. LastPosition(db) \in Nat /\ LastPosition(db) <= db.position
  BY <1>1, LastIs
<1>4. k <= db.position
  BY <1>1, <1>2, <1>3
<1>5. ASSUME NEW i \in DOMAIN db.log, Selects(db.log[i]), db.log[i].position <= k
      PROVE  db.log[i].id \in handled \cup {db.log[j].id : j \in fit}
  <2>1. db.log[i].position \in Nat
    BY <1>1, Events
  <2>2. CASE db.log[i].position <= from
    BY <1>5, <2>2
  <2>3. CASE db.log[i].position > from
    <3>1. i \in Pending(from)
      BY <1>5, <2>3 DEF Pending
    <3>2. i \in fit
      BY <1>2, <1>5, <3>1
    <3>3. QED
      BY <3>2
  <2>4. QED
    BY <2>1, <2>2, <2>3
<1>6. Good(db, k, handled \cup {db.log[i].id : i \in fit})
  BY <1>5 DEF Good
<1>7. QED
  BY <1>4, <1>6 DEF k


LEMMA FeedStep ==
  ASSUME ~Again
  PROVE  FeedInv /\ [Next]_vars => ReaderOK'
<1> USE RestoreAssumption
<1>1. SUFFICES ASSUME FeedInv, [Next]_vars PROVE ReaderOK'
  OBVIOUS
<1>2. StoreInv /\ BehindOK /\ ReaderOK
  BY <1>1 DEF FeedInv
<1>3. /\ StoresOK /\ ReaderTypes /\ Sound(db, now) /\ db \in Stores /\ db.position \in Nat
      /\ recorded \in Nat
      /\ \A c \in copies : c.store.position \in Nat /\ c.recorded \in Nat
  BY <1>2, StoreFacts
<1>4. /\ acks \subseteq Nat /\ (kept # None => kept \in Nat)
      /\ page # None => page.settled \in Nat
  BY <1>3 DEF ReaderTypes
<1>5. ASSUME NEW s \in Scopes, Apply(s)
      PROVE  ReaderOK'
  <2>1. /\ copies' = copies /\ UNCHANGED readerVars /\ db'.position = db.position + 1
        /\ db'.acked = db.acked /\ Added(s).position = db.position + 1
        /\ \A i \in DOMAIN db.log : i \in DOMAIN db'.log /\ db'.log[i] = db.log[i]
        /\ \A i \in DOMAIN db'.log :
             i \in DOMAIN db.log \/ (i = Len(db'.log) /\ db'.log[i] = Added(s))
    BY <1>3, <1>5, ApplyAdds
  <2>2. \A k \in Nat : k <= db.position => k <= db'.position
    BY <1>3, <2>1
  <2>3. \A c \in acks : c <= db'.position /\ Good(db', c, handled)
    BY <1>2, <1>4, <1>5, <2>2, GoodAppended DEF ReaderOK
  <2>4. kept # None => kept <= db'.position /\ Good(db', kept, handled)
    BY <1>2, <1>4, <1>5, <2>2, GoodAppended DEF ReaderOK
  <2>5. page # None => page.settled <= db'.position
                       /\ Good(db', page.settled, handled \cup page.events)
    BY <1>2, <1>4, <1>5, <2>2, GoodAppended DEF ReaderOK
  <2>6. AckedOK(db', handled)
    <3>1. db.acked \in Nat /\ db.acked <= db.position
      <4>1. db.acked \in 0..LastPosition(db) /\ LogOK(db)
        BY <1>3 DEF Sound, StoreOK
      <4>2. LastPosition(db) \in Nat /\ LastPosition(db) <= db.position
        BY <1>3, <4>1, LastIs
      <4>3. QED
        BY <1>3, <4>1, <4>2
    <3>2. ~(Added(s).position <= db.acked)
      BY <1>3, <2>1, <3>1
    <3>3. AckedOK(db, handled)
      BY <1>2 DEF ReaderOK
    <3>4. QED
      BY <2>1, <3>2, <3>3 DEF AckedOK
  <2>7. QED
    BY <1>2, <2>1, <2>3, <2>4, <2>5, <2>6 DEF ReaderOK, readerVars
<1>6. ASSUME NEW s \in Scopes, Refuse(s)
      PROVE  ReaderOK'
  <2>1. /\ copies' = copies /\ UNCHANGED readerVars /\ db'.log = db.log
        /\ db'.position = db.position /\ db'.gaps = db.gaps /\ db'.acked = db.acked
    BY <1>3, <1>6, RefuseKeeps
  <2>2. \A k, A : Good(db, k, A) => Good(db', k, A)
    BY <2>1 DEF Good, Accepts, LastPosition, Skipped
  <2>3. \A A : AckedOK(db, A) => AckedOK(db', A)
    BY <2>1 DEF AckedOK
  <2>4. QED
    BY <1>2, <2>1, <2>2, <2>3 DEF ReaderOK, readerVars
<1>7. CASE Copy
  <2> DEFINE c == [store |-> db, recorded |-> recorded, restores |-> restores]
  <2>1. copies' = copies \cup {c} /\ UNCHANGED <<db, readerVars>>
    BY <1>7 DEF Copy
  <2>2. c.store = db
    OBVIOUS
  <2> HIDE DEF c
  <2>3. QED
    BY <1>2, <2>1, <2>2 DEF ReaderOK, readerVars
<1>8. CASE Restore
  <2>1. UNCHANGED <<copies, readerVars>>
    BY <1>8 DEF Restore
  <2>2. PICK c \in copies :
          /\ recorded - c.recorded <= Margin(c.store) /\ (Again \/ c.restores = restores)
          /\ db'.log = c.store.log /\ db'.acked = c.store.acked
          /\ LastPosition(db') = LastPosition(c.store)
          /\ Margin(c.store) \in Nat
          /\ db'.position \in Nat /\ db'.position >= c.store.position + Margin(c.store)
          /\ \A k \in 0..c.store.position : Skipped(db', k) <=> Skipped(c.store, k)
    BY <1>3, <1>8, RestoreKeeps
  <2>3. c.restores = restores
    BY <2>2
  <2>4. db.position <= db'.position
    <3>1. db.position <= c.store.position + (recorded - c.recorded)
      BY <1>2, <2>3 DEF BehindOK, Behind
    <3>2. QED
      BY <1>3, <2>2, <3>1
  <2>5. \A k \in Nat : k <= db.position => k <= db'.position
    BY <1>3, <2>2, <2>4
  <2>6. \A k \in Nat : \A A : Good(db, k, A) => Good(db', k, A)
    <3> DEFINE f == db'
    <3>1. f.log = c.store.log /\ LastPosition(f) = LastPosition(c.store)
          /\ \A k \in 0..c.store.position : Skipped(f, k) <=> Skipped(c.store, k)
      BY <2>2
    <3> HIDE DEF f
    <3>2. \A k \in Nat : \A A : Good(db, k, A) => Good(f, k, A)
      BY <1>2, <2>3, <3>1, GoodRestored
    <3>3. QED
      BY <3>2 DEF f
  <2>7. AckedOK(db', handled)
    BY <1>2, <2>2 DEF ReaderOK, AckedOK
  <2>8. \A k \in acks : k <= db'.position /\ Good(db', k, handled)
    BY <1>2, <1>4, <2>5, <2>6 DEF ReaderOK
  <2>9. kept # None => kept <= db'.position /\ Good(db', kept, handled)
    BY <1>2, <1>4, <2>5, <2>6 DEF ReaderOK
  <2>10. page # None => page.settled <= db'.position
                        /\ Good(db', page.settled, handled \cup page.events)
    BY <1>2, <1>4, <2>5, <2>6 DEF ReaderOK
  <2>11. QED
    BY <1>2, <2>1, <2>7, <2>8, <2>9, <2>10 DEF ReaderOK, readerVars
<1>9. CASE Pull
  <2>1. UNCHANGED <<db, handled, acks, forgets, storeVars>>
    BY <1>9 DEF Pull
  <2>2. CASE kept # None /\ ~Accepts(db, kept)
    <3>1. kept' = None /\ page' = page
      BY <1>9, <2>2 DEF Pull
    <3>2. QED
      BY <1>2, <2>1, <3>1 DEF ReaderOK, storeVars
  <2>3. CASE ~(kept # None /\ ~Accepts(db, kept))
    <3> DEFINE from == IF kept = None THEN db.acked ELSE kept
    <3>1. PICK fit \in Fits(Pending(from)) :
            /\ page' = [events |-> {db.log[i].id : i \in fit},
                        settled |-> Settled(Pending(from), fit)]
            /\ kept' = kept
      BY <1>9, <2>3 DEF Pull
    <3>2. from \in Nat
      BY <1>3, <1>4 DEF Sound, Stores
    <3>3. \A i \in DOMAIN db.log :
            Selects(db.log[i]) /\ db.log[i].position <= from => db.log[i].id \in handled
      BY <1>2, <2>3 DEF ReaderOK, AckedOK, Good
    <3> HIDE DEF from
    <3>4. /\ Settled(Pending(from), fit) <= db.position
          /\ Good(db, Settled(Pending(from), fit), handled \cup {db.log[i].id : i \in fit})
      BY <1>2, <3>1, <3>2, <3>3, GoodPage
    <3>5. page'.settled <= db.position /\ Good(db, page'.settled, handled \cup page'.events)
      BY <3>1, <3>4
    <3>6. QED
      BY <1>2, <2>1, <3>1, <3>5 DEF ReaderOK, storeVars
  <2>4. QED
    BY <2>2, <2>3
<1>10. CASE Handle
  <2>1. /\ page # None /\ handled' = handled \cup page.events /\ kept' = page.settled
        /\ acks' \in {acks, acks \cup {page.settled}} /\ page' = None
        /\ UNCHANGED <<db, forgets, storeVars>>
    BY <1>10 DEF Handle
  <2>2. handled \subseteq handled'
    BY <2>1
  <2>3. page.settled <= db.position /\ Good(db, page.settled, handled')
    BY <1>2, <2>1 DEF ReaderOK
  <2>4. \A c \in acks : c <= db.position /\ Good(db, c, handled')
    BY <1>2, <2>2, GoodLater DEF ReaderOK
  <2>5. AckedOK(db, handled') /\ \A c \in copies : AckedOK(c.store, handled')
    BY <1>2, <2>2, AckedLater DEF ReaderOK
  <2>6. QED
    BY <2>1, <2>3, <2>4, <2>5 DEF ReaderOK, storeVars
<1>11. CASE Acknowledge
  <2>1. /\ UNCHANGED <<kept, page, handled, forgets, storeVars>> /\ acks' \subseteq acks
        /\ db'.log = db.log /\ db'.position = db.position /\ db'.gaps = db.gaps
        /\ db'.acked = db.acked \/ \E c \in acks : Accepts(db, c) /\ db'.acked = c
    BY <1>3, <1>11, AcknowledgeKeeps
  <2>2. \A k, A : Good(db, k, A) => Good(db', k, A)
    BY <2>1 DEF Good, Accepts, LastPosition, Skipped
  <2>3. AckedOK(db', handled)
    <3>1. CASE db'.acked = db.acked
      BY <1>2, <2>1, <3>1 DEF ReaderOK, AckedOK
    <3>2. CASE \E c \in acks : Accepts(db, c) /\ db'.acked = c
      BY <1>2, <2>1, <3>2 DEF ReaderOK, AckedOK, Good
    <3>3. QED
      BY <2>1, <3>1, <3>2
  <2>4. QED
    BY <1>2, <2>1, <2>2, <2>3 DEF ReaderOK, storeVars
<1>12. CASE Forget
  BY <1>2, <1>12 DEF Forget, ReaderOK, storeVars
<1>13. CASE UNCHANGED <<db, copies, readerVars>>
  BY <1>2, <1>13 DEF ReaderOK, readerVars
<1>14. QED
  <2>1. Tick \/ UNCHANGED vars => UNCHANGED <<db, copies, readerVars>>
    BY DEF Tick, vars, readerVars
  <2>2. QED
    BY <1>1, <1>5, <1>6, <1>7, <1>8, <1>9, <1>10, <1>11, <1>12, <1>13, <2>1 DEF Next

(* The cursor acknowledged, and one kept that the store honours, is past   *)
(* no event selected and not handled: through lost events, late and        *)
(* repeated acknowledgements, pages cut short and cursors forgotten, for   *)
(* any number of copies and restores, each of a copy made since the        *)
(* restore before (pull_page, Store::acknowledge, restore_copy).           *)
THEOREM FeedSkipsNone == ~Again => (Spec => []NoneSkipped)
<1>1. SUFFICES ASSUME ~Again PROVE Spec => []NoneSkipped
  OBVIOUS
<1>2. Init => FeedInv
  BY StoreInit DEF FeedInv
<1>3. FeedInv /\ [Next]_vars => FeedInv'
  <2>1. SUFFICES ASSUME FeedInv, [Next]_vars PROVE FeedInv'
    OBVIOUS
  <2>2. StoreInv /\ BehindOK
    BY <2>1 DEF FeedInv
  <2>3. StoreInv' /\ BehindOK'
    BY <2>1, <2>2, StoreStep, BehindStep
  <2>4. ReaderOK'
    BY <1>1, <2>1, FeedStep
  <2>5. QED
    BY <2>3, <2>4 DEF FeedInv
<1>4. FeedInv => NoneSkipped
  BY DEF FeedInv, ReaderOK, AckedOK, Good, NoneSkipped, Passed
<1>5. QED
  BY <1>2, <1>3, <1>4, PTL DEF Spec
=============================================================================
