--------------------------- MODULE VersionsProofs ---------------------------
(***************************************************************************)
(* Proofs about the processes that write one store, for any processes,     *)
(* clients, objects, declarations, changes and calls.                      *)
(*                                                                         *)
(* The argument: a call past its process's mutex holds it (HolderOK), so   *)
(* what a call read is moved only by other processes.  What they may have  *)
(* moved shows in a version number: a row or a change as old as the call   *)
(* read it is the one it read (Later), which is what an install compares   *)
(* (SnapOK) and what a dry run prepared is taken on (PrepOK).  The log     *)
(* then numbers each object's events without a gap or a repeat (Numbered), *)
(* and each event was written under a version of its time, on the answer   *)
(* for the value its object held, and under a key of its own (LogOK).      *)
(***************************************************************************)
EXTENDS Versions, FiniteSetTheorems, NaturalsInduction, WellFoundedInduction, TLAPS

-----------------------------------------------------------------------------
(* The types.                                                              *)

AllCalls == UNION {Calls[c] : c \in Clients}
Sources == {Base} \cup {s.source : s \in {x \in AllCalls : x.kind \in {"draft", "revise"}}}

Row == [ver : Nat, val : Values, admitted : BOOLEAN]
Rows == [Objects -> Row]

IsChange(ch) ==
  /\ DOMAIN ch = {"state", "ver", "source", "base", "report", "by"}
  /\ ch.ver \in Nat /\ ch.source \in Sources /\ ch.base \in Nat
IsChanges(chs) == DOMAIN chs = Changes /\ \A k \in Changes : IsChange(chs[k])

Acts == {"write", "publish", "migrate"} \cup ChangeKinds
Events ==
  [x : Acts, object : Objects \cup Changes, seq : Nat, val : Values \cup {None}, num : Nat,
   batch : Nat, version : Nat, began : Nat, at : Nat, asked : SUBSET Values]

Free == {"idle", "ready", "asking", "dryread", "dryimpact"}
Pcs == {"ready", "asking", "dryread", "dryimpact", "begin", "key", "batch", "keep", "attempt",
        "decide", "install"}
Fields == {"pc", "call", "reloaded", "asked", "count", "prepared", "prepVer", "began",
           "expected", "about", "drawn", "fails", "snap"}

-----------------------------------------------------------------------------
(* A call.                                                                 *)

(* What its place in the program says of what it asks.                     *)
CallShape(r, c) ==
  /\ DOMAIN r = Fields /\ r.pc \in Pcs /\ r.call \in Calls[c]
  /\ r.pc \in {"dryread", "dryimpact"} => r.call.kind \in {"submit", "refresh"}
  /\ r.pc \in {"key", "batch"} => r.call.kind = "batch"
  /\ r.pc \in {"decide", "install"} => r.call.kind = "publish"
  /\ r.pc = "asking" => r.call.kind = "write" /\ r.call.consults /\ r.about \in Values
  /\ DOMAIN r.asked \subseteq Values
  /\ DOMAIN r.asked # {} => r.call.kind = "write" /\ r.call.consults
  /\ r.drawn \in Nat /\ r.prepVer \in Nat

(* It began at a version v the store has been at, and its process, having  *)
(* reloaded for it, has loaded one no earlier.                             *)
TimeOK(r, v, loaded) ==
  /\ r.began \in 1..v
  /\ r.reloaded => r.began <= loaded

(* One table later than another: a version that is the same is of the same *)
(* row.                                                                    *)
Later(t, u, S) == \A x \in S : t[x].ver <= u[x].ver /\ (t[x].ver = u[x].ver => u[x] = t[x])

(* A dry run prepared is of the change it read.                            *)
PrepOK(r, chs) ==
  r.call.kind \in {"submit", "refresh"} /\ r.pc # "dryread" =>
    LET ch == chs[r.call.change] IN
    r.prepVer <= ch.ver /\ (r.prepVer = ch.ver => r.prepared.source = ch.source)

(* What an install was decided on, and what of it may have moved since.    *)
SnapOK(r, chs, rws, loaded) ==
  r.pc = "install" =>
    LET k == r.call.change
        snap == r.snap IN
    /\ Later(snap.changes, chs, Changes) /\ Later(snap.rows, rws, Objects)
    /\ IsChanges(snap.changes) /\ snap.rows \in Rows
    /\ snap.changes[k].state = "SUBMITTED"
    /\ snap.changes[k].base = loaded /\ snap.report.source = snap.changes[k].source
    /\ snap.report.superseded \subseteq Changes \ {k}
    /\ \A m \in snap.report.superseded : Open(snap.changes[m])
    /\ Migrates(snap.report) \subseteq Objects

CallOK(r, c, v, loaded, chs, rws) ==
  CallShape(r, c) /\ TimeOK(r, v, loaded) /\ PrepOK(r, chs) /\ SnapOK(r, chs, rws, loaded)

CallsAre(cs, v, lb, chs, rws) ==
  /\ DOMAIN cs = Clients
  /\ \A c \in Clients : cs[c] = Idle \/ CallOK(cs[c], c, v, lb[Proc(c)], chs, rws)

CallsOK == CallsAre(calls, Version, lib, changes, rows)

(* A call past the mutex of its process holds it, and no other does.       *)
HoldersAre(h, cs) ==
  /\ h \in [Procs -> Clients \cup {NoOne}]
  /\ \A p \in Procs : h[p] # NoOne => Proc(h[p]) = p /\ cs[h[p]].pc \notin Free
  /\ \A c \in Clients : cs[c].pc \notin Free => h[Proc(c)] = c

HolderOK == HoldersAre(holder, calls)

-----------------------------------------------------------------------------
(* The store.                                                              *)

StoreOK ==
  /\ declared \in Seq(Sources) /\ Version > 0
  /\ rows \in Rows
  /\ IsChanges(changes) /\ \A k \in Changes : changes[k].base <= Version
  /\ next \in Nat /\ next >= 1
  /\ lib \in [Procs -> Nat] /\ \A p \in Procs : lib[p] \in 1..Version

(* The events of o are numbered to n, each number one event's.             *)
Numbered(l, o, n) ==
  /\ \A i \in DOMAIN l : l[i].object = o => l[i].seq \in 1..n
  /\ \A m \in 1..n : \E i \in DOMAIN l : l[i].object = o /\ l[i].seq = m
  /\ \A i, j \in DOMAIN l : l[i].object = o /\ l[j].object = o /\ l[i].seq = l[j].seq => i = j

(* A row is as the last of its events left it, or as it was at first.      *)
LastLeft(l, o, row) ==
  /\ \A i \in DOMAIN l : l[i].object = o /\ l[i].seq = row.ver => l[i].val = row.val
  /\ row.ver = 0 => row.val = First

(* An event runs under a version of its time.                              *)
OfItsTime(e) ==
  e.x # "publish" /\ e.x # "migrate" => e.version \in e.began..e.at /\ (e.batch # None => e.version = e.at)

(* What an evaluator was asked is what the event before left.              *)
Judged(l, e) ==
  e.asked # {} =>
    \/ e.seq = 1 /\ First \in e.asked
    \/ \E j \in DOMAIN l : l[j].object = e.object /\ l[j].seq = e.seq - 1 /\ l[j].val \in e.asked

(* What is said of an event however the log goes on.                       *)
EventOK(l, e, ks) ==
  /\ OfItsTime(e) /\ Judged(l, e)
  /\ e.batch # None => \E a \in ks : a.first = e.batch
  /\ e.asked # {} => e.object \in Objects

LogOK(l, rws, chs, ks) ==
  /\ l \in Seq(Events)
  /\ \A o \in Objects : Numbered(l, o, rws[o].ver) /\ LastLeft(l, o, rws[o])
  /\ \A k \in Changes : Numbered(l, k, chs[k].ver)
  /\ \A i \in DOMAIN l : EventOK(l, l[i], ks)

KeysOK == \A a, b \in keys : a.key = b.key => a = b

VersionsInv ==
  StoreOK /\ CallsOK /\ HolderOK /\ LogOK(log, rows, changes, keys) /\ KeysOK /\ ReportIsOfItsChange

(* The numbers the log holds are apart, and behind the next to be drawn.   *)
Apart(l, n) ==
  /\ \A i \in DOMAIN l : l[i].num < n
  /\ \A i, j \in DOMAIN l : i # j /\ l[i].num # None => l[i].num # l[j].num

(* The declarations that may be installed.                                 *)
Installable == {Base} \cup {s \in Sources : s.sound}

(* One process writes the store, as the advisory lock has it on PostgreSQL.*)
SoleWriter == \A p, q \in Procs : p = q

(* A request that draws outside a batch writes what each declaration that  *)
(* may be installed allows: none refuses it for what it draws for.         *)
LoneDrawsAllowed ==
  \A c \in Clients : \A call \in Calls[c] :
    call.kind = "write" /\ call.draws => \A s \in Installable : Allowed(s, call.v)

(* What is installed, and what an install under way is about to.           *)
SoundOK ==
  /\ \A i \in DOMAIN declared : declared[i] \in Installable
  /\ \A c \in Clients : calls[c].pc = "install" => calls[c].snap.report.source \in Installable

(* A number a lone request is to keep is behind none drawn since: only a   *)
(* sole writer keeps one, and none draws beside it.                        *)
LoneKept(r, n) ==
  r.pc = "keep" /\ r.call.kind # "batch" => r.drawn = None \/ (SoleWriter /\ n <= r.drawn + 1)

DrawsOK == Apart(log, next) /\ \A c \in Clients : LoneKept(calls[c], next)


-----------------------------------------------------------------------------
(* Lemmas about the log.                                                   *)

LEMMA SourcesAre == \A s \in Sources : IsSource(s)
<1>1. IsSource(Base)
  BY VersionsAssumption
<1>2. ASSUME NEW x \in AllCalls, x.kind \in {"draft", "revise"} PROVE IsSource(x.source)
  <2>1. IsCall(x)
    BY <1>2, VersionsAssumption DEF AllCalls
  <2>2. QED
    BY <1>2, <2>1 DEF IsCall
<1>3. QED
  BY <1>1, <1>2 DEF Sources

(* l2 goes on from l.                                                      *)
GoesOn(l, l2) ==
  /\ Len(l) \in Nat /\ Len(l2) \in Nat /\ Len(l) <= Len(l2)
  /\ DOMAIN l = 1..Len(l) /\ DOMAIN l2 = 1..Len(l2)
  /\ \A i \in 1..Len(l) : l2[i] = l[i]

(* An object no later event is about is numbered as it was.                *)
LEMMA NumberedStill ==
  ASSUME NEW l, NEW l2, GoesOn(l, l2), NEW o, NEW n \in Nat, Numbered(l, o, n),
         \A i \in Len(l) + 1..Len(l2) : l2[i].object # o
  PROVE  Numbered(l2, o, n)
<1>1. \A i \in 1..Len(l2) : i \in 1..Len(l) \/ i \in Len(l) + 1..Len(l2)
  BY DEF GoesOn
<1>2. \A i \in 1..Len(l2) : l2[i].object = o => i \in 1..Len(l) /\ l2[i] = l[i]
  BY <1>1 DEF GoesOn
<1>3. \A i \in 1..Len(l) : i \in 1..Len(l2) /\ l2[i] = l[i]
  BY DEF GoesOn
<1>4. \A i \in 1..Len(l2) : l2[i].object = o => l2[i].seq \in 1..n
  BY <1>2 DEF Numbered, GoesOn
<1>5. \A m \in 1..n : \E i \in 1..Len(l2) : l2[i].object = o /\ l2[i].seq = m
  BY <1>3 DEF Numbered, GoesOn
<1>6. ASSUME NEW i \in 1..Len(l2), NEW j \in 1..Len(l2), l2[i].object = o, l2[j].object = o,
             l2[i].seq = l2[j].seq
      PROVE  i = j
  <2>1. i \in 1..Len(l) /\ j \in 1..Len(l) /\ l[i].object = o /\ l[j].object = o /\ l[i].seq = l[j].seq
    BY <1>2, <1>6
  <2>2. QED
    BY <2>1 DEF Numbered, GoesOn
<1>7. QED
  BY <1>4, <1>5, <1>6 DEF Numbered, GoesOn

(* One that one later event is about is numbered one further.              *)
LEMMA NumberedNext ==
  ASSUME NEW l, NEW l2, GoesOn(l, l2), NEW o, NEW n \in Nat, Numbered(l, o, n),
         NEW j \in Len(l) + 1..Len(l2), l2[j].object = o, l2[j].seq = n + 1,
         \A i \in Len(l) + 1..Len(l2) : l2[i].object = o => i = j
  PROVE  Numbered(l2, o, n + 1)
<1>1. \A i \in 1..Len(l2) : i \in 1..Len(l) \/ i \in Len(l) + 1..Len(l2)
  BY DEF GoesOn
<1>2. \A i \in 1..Len(l2) : l2[i].object = o =>
        \/ i \in 1..Len(l) /\ l2[i] = l[i] /\ l[i].object = o /\ l2[i].seq \in 1..n
        \/ i = j
  BY <1>1 DEF GoesOn, Numbered
<1>3. j \in 1..Len(l2) /\ \A i \in 1..Len(l) : i \in 1..Len(l2) /\ l2[i] = l[i]
  BY DEF GoesOn
<1>4. \A i \in 1..Len(l2) : l2[i].object = o => l2[i].seq \in 1..n + 1
  BY <1>2
<1>5. ASSUME NEW m \in 1..n + 1
      PROVE  \E i \in 1..Len(l2) : l2[i].object = o /\ l2[i].seq = m
  <2>1. CASE m = n + 1
    BY <1>3, <2>1
  <2>2. CASE m # n + 1
    <3>1. m \in 1..n
      BY <2>2
    <3>2. PICK i \in 1..Len(l) : l[i].object = o /\ l[i].seq = m
      BY <3>1 DEF Numbered, GoesOn
    <3>3. QED
      BY <1>3, <3>2
  <2>3. QED
    BY <2>1, <2>2
<1>6. ASSUME NEW a \in 1..Len(l2), NEW b \in 1..Len(l2), l2[a].object = o, l2[b].object = o,
             l2[a].seq = l2[b].seq
      PROVE  a = b
  <2>1. CASE a = j
    <3>1. ~(l2[b].seq \in 1..n)
      BY <1>6, <2>1
    <3>2. QED
      BY <1>2, <1>6, <2>1, <3>1
  <2>2. CASE b = j
    <3>1. ~(l2[a].seq \in 1..n)
      BY <1>6, <2>2
    <3>2. QED
      BY <1>2, <1>6, <2>2, <3>1
  <2>3. CASE a # j /\ b # j
    <3>1. a \in 1..Len(l) /\ b \in 1..Len(l) /\ l[a].object = o /\ l[b].object = o /\ l[a].seq = l[b].seq
      BY <1>2, <1>6, <2>3
    <3>2. QED
      BY <3>1 DEF Numbered, GoesOn
  <2>4. QED
    BY <2>1, <2>2, <2>3
<1>7. QED
  BY <1>4, <1>5, <1>6 DEF Numbered, GoesOn

(* The row of an object no later event is about.                           *)
LEMMA LeftStill ==
  ASSUME NEW l, NEW l2, GoesOn(l, l2), NEW o, NEW row, LastLeft(l, o, row),
         \A i \in Len(l) + 1..Len(l2) : l2[i].object # o
  PROVE  LastLeft(l2, o, row)
<1>1. \A i \in 1..Len(l2) : i \in 1..Len(l) \/ i \in Len(l) + 1..Len(l2)
  BY DEF GoesOn
<1>2. \A i \in 1..Len(l2) : l2[i].object = o => i \in 1..Len(l) /\ l2[i] = l[i]
  BY <1>1 DEF GoesOn
<1>3. QED
  BY <1>2 DEF LastLeft, GoesOn

(* And of one that one later event is about.                               *)
LEMMA LeftNext ==
  ASSUME NEW l, NEW l2, GoesOn(l, l2), NEW o, NEW n \in Nat, Numbered(l, o, n),
         NEW j \in Len(l) + 1..Len(l2), l2[j].object = o,
         \A i \in Len(l) + 1..Len(l2) : l2[i].object = o => i = j,
         NEW row, row.ver = n + 1, row.val = l2[j].val
  PROVE  LastLeft(l2, o, row)
<1>1. \A i \in 1..Len(l2) : i \in 1..Len(l) \/ i \in Len(l) + 1..Len(l2)
  BY DEF GoesOn
<1>2. \A i \in 1..Len(l2) : l2[i].object = o => l2[i].seq \in 1..n \/ i = j
  BY <1>1 DEF GoesOn, Numbered
<1>3. \A i \in 1..Len(l2) : l2[i].object = o /\ l2[i].seq = row.ver => i = j
  BY <1>2
<1>4. row.ver # 0
  OBVIOUS
<1>5. QED
  BY <1>3, <1>4 DEF LastLeft, GoesOn

(* What is said of an event stays said.                                    *)
LEMMA EventStays ==
  ASSUME NEW l, NEW l2, GoesOn(l, l2), NEW e, NEW ks, NEW ks2, ks \subseteq ks2, EventOK(l, e, ks)
  PROVE  EventOK(l2, e, ks2)
<1>1. \A i \in DOMAIN l : i \in DOMAIN l2 /\ l2[i] = l[i]
  BY DEF GoesOn
<1>2. Judged(l2, e)
  BY <1>1 DEF EventOK, Judged
<1>3. QED
  BY <1>2 DEF EventOK

LEMMA EventsStay ==
  ASSUME NEW l, NEW l2, GoesOn(l, l2), NEW ks, NEW ks2, ks \subseteq ks2,
         \A i \in DOMAIN l : EventOK(l, l[i], ks),
         \A i \in Len(l) + 1..Len(l2) : EventOK(l2, l2[i], ks2)
  PROVE  \A i \in DOMAIN l2 : EventOK(l2, l2[i], ks2)
<1>1. \A i \in 1..Len(l2) : i \in 1..Len(l) \/ i \in Len(l) + 1..Len(l2)
  BY DEF GoesOn
<1>2. ASSUME NEW i \in 1..Len(l) PROVE EventOK(l2, l2[i], ks2)
  <2>1. EventOK(l, l[i], ks) /\ l2[i] = l[i]
    BY DEF GoesOn
  <2>2. EventOK(l2, l[i], ks2)
    BY <2>1, EventStays
  <2>3. QED
    BY <2>1, <2>2
<1>3. QED
  BY <1>1, <1>2 DEF GoesOn

(* l2 is l and e after it, at j.                                           *)
OneOn(l, l2, e, j) ==
  /\ l2 \in Seq(Events) /\ GoesOn(l, l2) /\ Len(l2) = Len(l) + 1 /\ l2[j] = e
  /\ \A i \in Len(l) + 1..Len(l2) : i = j
  /\ j \in Len(l) + 1..Len(l2)

LEMMA AppendGoesOn ==
  ASSUME NEW l \in Seq(Events), NEW e \in Events, NEW l2, l2 = Append(l, e)
  PROVE  OneOn(l, l2, e, Len(l) + 1)
<1>1. l2 \in Seq(Events) /\ Len(l) \in Nat /\ Len(l2) = Len(l) + 1 /\ l2[Len(l) + 1] = e
      /\ \A i \in 1..Len(l) : l2[i] = l[i]
  OBVIOUS
<1>2. DOMAIN l = 1..Len(l) /\ DOMAIN l2 = 1..Len(l2)
  BY <1>1
<1>3. GoesOn(l, l2)
  BY <1>1, <1>2 DEF GoesOn
<1>4. QED
  BY <1>1, <1>3 DEF OneOn

(* A write, of its object's next event.                                    *)
LEMMA WriteLogs ==
  ASSUME NEW l, NEW rws, NEW chs, NEW ks, LogOK(l, rws, chs, ks),
         \A o \in Objects : rws[o].ver \in Nat, \A k \in Changes : chs[k].ver \in Nat,
         NEW o \in Objects, NEW e \in Events, e.object = o, e.seq = rws[o].ver + 1,
         OfItsTime(e), e.batch # None => \E a \in ks : a.first = e.batch,
         e.asked # {} => rws[o].val \in e.asked,
         NEW rws2, rws2[o].ver = rws[o].ver + 1, rws2[o].val = e.val,
         \A p \in Objects : p # o => rws2[p] = rws[p],
         NEW l2, l2 = Append(l, e)
  PROVE  LogOK(l2, rws2, chs, ks)
<1> DEFINE j == Len(l) + 1
<1>1. l \in Seq(Events) /\ Numbered(l, o, rws[o].ver) /\ LastLeft(l, o, rws[o])
      /\ \A i \in DOMAIN l : EventOK(l, l[i], ks)
  BY DEF LogOK
<1>12. OneOn(l, l2, e, j)
  BY <1>1, AppendGoesOn
<1> HIDE DEF j
<1>2. /\ l2 \in Seq(Events) /\ GoesOn(l, l2) /\ Len(l2) = Len(l) + 1 /\ l2[j] = e
      /\ \A i \in Len(l) + 1..Len(l2) : i = j
      /\ j \in Len(l) + 1..Len(l2)
  BY <1>12 DEF OneOn
<1>3. l2[j].object = o /\ l2[j].seq = rws[o].ver + 1 /\ l2[j].val = rws2[o].val
  BY <1>2
<1>4. Numbered(l2, o, rws[o].ver + 1)
  BY <1>1, <1>2, <1>3, NumberedNext
<1>5. LastLeft(l2, o, rws2[o])
  BY <1>1, <1>2, <1>3, LeftNext
<1>6. Numbered(l2, o, rws2[o].ver)
  BY <1>4
<1>7. ASSUME NEW p \in Objects PROVE Numbered(l2, p, rws2[p].ver) /\ LastLeft(l2, p, rws2[p])
  <2>1. CASE p = o
    BY <1>5, <1>6, <2>1
  <2>2. CASE p # o
    <3>1. \A i \in Len(l) + 1..Len(l2) : l2[i].object # p
      BY <1>2, <1>3, <2>2
    <3>2. Numbered(l, p, rws[p].ver) /\ LastLeft(l, p, rws[p]) /\ rws[p].ver \in Nat
      BY DEF LogOK
    <3>3. Numbered(l2, p, rws[p].ver) /\ LastLeft(l2, p, rws[p])
      BY <1>2, <3>1, <3>2, NumberedStill, LeftStill
    <3>4. QED
      BY <2>2, <3>3
  <2>3. QED
    BY <2>1, <2>2
<1>8. ASSUME NEW k \in Changes PROVE Numbered(l2, k, chs[k].ver)
  <2>1. k # o
    BY VersionsAssumption
  <2>2. \A i \in Len(l) + 1..Len(l2) : l2[i].object # k
    BY <1>2, <1>3, <2>1
  <2>3. Numbered(l, k, chs[k].ver) /\ chs[k].ver \in Nat
    BY DEF LogOK
  <2>4. QED
    BY <1>2, <2>2, <2>3, NumberedStill
<1>9. EventOK(l2, e, ks)
  <2>1. Judged(l2, e)
    <3>1. SUFFICES ASSUME e.asked # {} PROVE Judged(l2, e)
      BY DEF Judged
    <3>2. rws[o].val \in e.asked /\ rws[o].ver \in Nat
      BY <3>1
    <3>3. CASE rws[o].ver = 0
      <4>1. rws[o].val = First
        BY <1>1, <3>3 DEF LastLeft
      <4>2. QED
        BY <3>2, <3>3, <4>1 DEF Judged
    <3>4. CASE rws[o].ver # 0
      <4>1. rws[o].ver \in 1..rws[o].ver
        BY <3>2, <3>4
      <4>2. PICK i \in DOMAIN l : l[i].object = o /\ l[i].seq = rws[o].ver
        BY <1>1, <4>1 DEF Numbered
      <4>3. l[i].val = rws[o].val
        BY <1>1, <4>2 DEF LastLeft
      <4>4. i \in DOMAIN l2 /\ l2[i] = l[i]
        BY <1>2, <4>2 DEF GoesOn
      <4>5. e.seq - 1 = rws[o].ver
        BY <3>2
      <4>6. QED
        BY <3>2, <4>2, <4>3, <4>4, <4>5 DEF Judged
    <3>5. QED
      BY <3>3, <3>4
  <2>2. QED
    BY <2>1 DEF EventOK
<1>10. \A i \in DOMAIN l2 : EventOK(l2, l2[i], ks)
  <2>1. \A i \in Len(l) + 1..Len(l2) : EventOK(l2, l2[i], ks)
    BY <1>2, <1>9
  <2>2. QED
    BY <1>1, <1>2, <2>1, EventsStay
<1>11. QED
  BY <1>2, <1>7, <1>8, <1>10 DEF LogOK

(* A step of a change, its next event.                                     *)
LEMMA ChangeLogs ==
  ASSUME NEW l, NEW rws, NEW chs, NEW ks, LogOK(l, rws, chs, ks),
         \A o \in Objects : rws[o].ver \in Nat, \A k \in Changes : chs[k].ver \in Nat,
         NEW k \in Changes, NEW e \in Events, e.object = k, e.seq = chs[k].ver + 1,
         OfItsTime(e), e.batch = None, e.asked = {},
         NEW chs2, chs2[k].ver = chs[k].ver + 1,
         \A m \in Changes : m # k => chs2[m] = chs[m],
         NEW l2, l2 = Append(l, e)
  PROVE  LogOK(l2, rws, chs2, ks)
<1> DEFINE j == Len(l) + 1
<1>1. l \in Seq(Events) /\ Numbered(l, k, chs[k].ver)
      /\ \A i \in DOMAIN l : EventOK(l, l[i], ks)
  BY DEF LogOK
<1>12. OneOn(l, l2, e, j)
  BY <1>1, AppendGoesOn
<1> HIDE DEF j
<1>2. /\ l2 \in Seq(Events) /\ GoesOn(l, l2) /\ Len(l2) = Len(l) + 1 /\ l2[j] = e
      /\ \A i \in Len(l) + 1..Len(l2) : i = j
      /\ j \in Len(l) + 1..Len(l2)
  BY <1>12 DEF OneOn
<1>3. l2[j].object = k /\ l2[j].seq = chs[k].ver + 1
  BY <1>2
<1>4. Numbered(l2, k, chs[k].ver + 1)
  BY <1>1, <1>2, <1>3, NumberedNext
<1>5. ASSUME NEW m \in Changes PROVE Numbered(l2, m, chs2[m].ver)
  <2>1. CASE m = k
    BY <1>4, <2>1
  <2>2. CASE m # k
    <3>1. \A i \in Len(l) + 1..Len(l2) : l2[i].object # m
      BY <1>2, <1>3, <2>2
    <3>2. Numbered(l, m, chs[m].ver) /\ chs[m].ver \in Nat
      BY DEF LogOK
    <3>3. Numbered(l2, m, chs[m].ver)
      BY <1>2, <3>1, <3>2, NumberedStill
    <3>4. QED
      BY <2>2, <3>3
  <2>3. QED
    BY <2>1, <2>2
<1>6. ASSUME NEW o \in Objects PROVE Numbered(l2, o, rws[o].ver) /\ LastLeft(l2, o, rws[o])
  <2>1. k # o
    BY VersionsAssumption
  <2>2. \A i \in Len(l) + 1..Len(l2) : l2[i].object # o
    BY <1>2, <1>3, <2>1
  <2>3. Numbered(l, o, rws[o].ver) /\ LastLeft(l, o, rws[o]) /\ rws[o].ver \in Nat
    BY DEF LogOK
  <2>4. QED
    BY <1>2, <2>2, <2>3, NumberedStill, LeftStill
<1>7. EventOK(l2, e, ks)
  BY DEF EventOK, Judged
<1>8. \A i \in DOMAIN l2 : EventOK(l2, l2[i], ks)
  <2>1. \A i \in Len(l) + 1..Len(l2) : EventOK(l2, l2[i], ks)
    BY <1>2, <1>7
  <2>2. QED
    BY <1>1, <1>2, <2>1, EventsStay
<1>9. QED
  BY <1>2, <1>5, <1>6, <1>8 DEF LogOK


(* A finite set of events laid out in some order, each of them once.       *)
InOrder(E) == CHOOSE q \in [1..Cardinality(E) -> E] : {q[i] : i \in DOMAIN q} = E

LEMMA InOrderIs ==
  ASSUME NEW E, IsFiniteSet(E), NEW q, q = InOrder(E)
  PROVE  /\ Cardinality(E) \in Nat /\ q \in [1..Cardinality(E) -> E]
         /\ \A e \in E : \E i \in 1..Cardinality(E) : q[i] = e
         /\ \A i, j \in 1..Cardinality(E) : q[i] = q[j] => i = j
<1> DEFINE n == Cardinality(E)
<1>1. n \in Nat /\ ExistsBijection(1..n, E)
  BY FS_CardinalityType
<1>2. PICK f : f \in Bijection(1..n, E)
  BY <1>1 DEF ExistsBijection
<1>3. f \in [1..n -> E] /\ \A e \in E : \E i \in 1..n : f[i] = e
  BY <1>2 DEF Bijection, Surjection, Injection
<1>4. {f[i] : i \in DOMAIN f} = E
  BY <1>3
<1> HIDE DEF n
<1>5. q \in [1..n -> E] /\ {q[i] : i \in DOMAIN q} = E
  <2>1. \E g \in [1..n -> E] : {g[i] : i \in DOMAIN g} = E
    BY <1>3, <1>4
  <2>2. q = CHOOSE g \in [1..n -> E] : {g[i] : i \in DOMAIN g} = E
    BY DEF InOrder, n
  <2>3. QED
    BY <2>1, <2>2
<1>6. \A e \in E : \E i \in 1..n : q[i] = e
  BY <1>5
<1>7. q \in Surjection(1..n, E)
  BY <1>5, <1>6 DEF Surjection
<1>8. IsFiniteSet(1..n) /\ Cardinality(1..n) = Cardinality(E)
  <2>1. IsFiniteSet(1..n) /\ Cardinality(1..n) = IF 1 > n THEN 0 ELSE n - 1 + 1
    BY <1>1, FS_Interval
  <2>2. (IF 1 > n THEN 0 ELSE n - 1 + 1) = n
    BY <1>1
  <2>3. Cardinality(1..n) = n
    BY <2>1, <2>2
  <2>4. QED
    BY <2>1, <2>3 DEF n
<1>9. q \in Injection(1..n, E)
  BY <1>7, <1>8, FS_SurjSameCardinalityImpliesInj
<1>10. \A i, j \in 1..n : q[i] = q[j] => i = j
  BY <1>5, <1>9 DEF Injection, IsInjective
<1>11. QED
  BY <1>1, <1>5, <1>6, <1>10 DEF n

(* l2 is l and the events of E after it, each once.                        *)
AllOn(l, l2, E) ==
  /\ l2 \in Seq(Events) /\ GoesOn(l, l2)
  /\ \A i \in Len(l) + 1..Len(l2) : l2[i] \in E
  /\ \A e \in E : \E i \in Len(l) + 1..Len(l2) : l2[i] = e
  /\ \A i, j \in Len(l) + 1..Len(l2) : l2[i] = l2[j] => i = j

LEMMA ConcatIs ==
  ASSUME NEW l \in Seq(Events), NEW q \in Seq(Events)
  PROVE  /\ l \o q \in Seq(Events) /\ Len(l) \in Nat /\ Len(l \o q) = Len(l) + Len(q)
         /\ \A i \in 1..Len(l) : (l \o q)[i] = l[i]
         /\ \A i \in 1..Len(q) : (l \o q)[Len(l) + i] = q[i]
<1>1. l \o q \in Seq(Events) /\ Len(l) \in Nat /\ Len(q) \in Nat /\ Len(l \o q) = Len(l) + Len(q)
  OBVIOUS
<1>2. \A i \in 1..Len(l) : (l \o q)[i] = l[i]
  OBVIOUS
<1>3. \A i \in 1..Len(q) : (l \o q)[Len(l) + i] = q[i]
  OBVIOUS
<1>4. QED
  BY <1>1, <1>2, <1>3

LEMMA ConcatGoesOn ==
  ASSUME NEW l \in Seq(Events), NEW E, E \subseteq Events, IsFiniteSet(E),
         NEW l2, l2 = l \o InOrder(E)
  PROVE  AllOn(l, l2, E)
<1> DEFINE q == InOrder(E)
           n == Cardinality(E)
<1>1. /\ n \in Nat /\ q \in [1..n -> E]
      /\ \A e \in E : \E i \in 1..n : q[i] = e
      /\ \A i, j \in 1..n : q[i] = q[j] => i = j
  BY InOrderIs
<1>2. l2 = l \o q
  OBVIOUS
<1> HIDE DEF q, n
<1>3. q \in Seq(Events) /\ Len(q) = n
  <2>1. q \in [1..n -> Events]
    BY <1>1
  <2>2. q \in Seq(Events)
    BY <1>1, <2>1
  <2>3. DOMAIN q = 1..n /\ DOMAIN q = 1..Len(q) /\ Len(q) \in Nat
    BY <2>1, <2>2
  <2>4. Len(q) = n
    BY <1>1, <2>1
  <2>5. QED
    BY <2>2, <2>4
<1>4. /\ l2 \in Seq(Events) /\ Len(l) \in Nat /\ Len(l2) = Len(l) + n
      /\ \A i \in 1..Len(l) : l2[i] = l[i]
      /\ \A i \in 1..n : l2[Len(l) + i] = q[i]
  <2>1. /\ l \o q \in Seq(Events) /\ Len(l) \in Nat /\ Len(l \o q) = Len(l) + Len(q)
        /\ \A i \in 1..Len(l) : (l \o q)[i] = l[i]
        /\ \A i \in 1..Len(q) : (l \o q)[Len(l) + i] = q[i]
    BY <1>3, ConcatIs
  <2>2. QED
    BY <1>2, <1>3, <2>1, Zenon
<1> DEFINE k == Len(l)
<1>5. k \in Nat /\ DOMAIN l = 1..k /\ DOMAIN l2 = 1..Len(l2)
  BY <1>4
<1>6. GoesOn(l, l2)
  BY <1>1, <1>4, <1>5 DEF GoesOn
<1>7. \A i \in 1..n : l2[k + i] = q[i]
  BY <1>4
<1> HIDE DEF k
<1>8. \A i \in k + 1..k + n : i - k \in 1..n /\ l2[i] = q[i - k]
  <2>1. ASSUME NEW i \in k + 1..k + n PROVE i - k \in 1..n /\ l2[i] = q[i - k]
    <3>1. i - k \in 1..n /\ k + (i - k) = i
      BY <1>1, <1>5
    <3>2. QED
      BY <1>7, <3>1
  <2>2. QED
    BY <2>1
<1>9. \A i \in k + 1..k + n : l2[i] \in E
  BY <1>1, <1>8
<1>10. ASSUME NEW e \in E PROVE \E i \in k + 1..k + n : l2[i] = e
  <2>1. PICK i \in 1..n : q[i] = e
    BY <1>1
  <2>2. l2[k + i] = e
    BY <1>7, <2>1
  <2>3. k + i \in k + 1..k + n
    BY <1>1, <1>5
  <2>4. QED
    BY <2>2, <2>3
<1>11. ASSUME NEW i \in k + 1..k + n, NEW j \in k + 1..k + n, l2[i] = l2[j] PROVE i = j
  <2>1. i - k \in 1..n /\ j - k \in 1..n /\ q[i - k] = q[j - k]
    BY <1>8, <1>11
  <2>2. ASSUME NEW a \in 1..n, NEW b \in 1..n, q[a] = q[b] PROVE a = b
    BY <1>1, <2>2
  <2>3. i - k = j - k
    BY <2>1, <2>2, Zenon
  <2>4. QED
    BY <1>1, <1>5, <2>3
<1>12. Len(l2) = k + n
  BY <1>4 DEF k
<1>13. QED
  BY <1>4, <1>6, <1>9, <1>10, <1>11, <1>12 DEF k, AllOn

(* What one event of several laid out together says of its object.         *)
LEMMA OneOfMany ==
  ASSUME NEW l, NEW l2, NEW E, AllOn(l, l2, E), \A e, f \in E : e.object = f.object => e = f,
         NEW o, NEW n \in Nat, Numbered(l, o, n), NEW e \in E, e.object = o, e.seq = n + 1
  PROVE  /\ Numbered(l2, o, n + 1)
         /\ \A row : row.ver = n + 1 /\ row.val = e.val => LastLeft(l2, o, row)
<1>1. PICK j \in Len(l) + 1..Len(l2) : l2[j] = e
  BY DEF AllOn
<1>2. GoesOn(l, l2)
  BY DEF AllOn
<1>3. l2[j].object = o /\ l2[j].seq = n + 1 /\ l2[j].val = e.val
  BY <1>1
<1>4. \A i \in Len(l) + 1..Len(l2) : l2[i].object = o => i = j
  <2>1. ASSUME NEW i \in Len(l) + 1..Len(l2), l2[i].object = o PROVE i = j
    <3>1. l2[i] \in E
      BY DEF AllOn
    <3>2. l2[i] = l2[j]
      BY <1>1, <2>1, <3>1
    <3>3. QED
      BY <3>2 DEF AllOn
  <2>2. QED
    BY <2>1
<1>5. Numbered(l2, o, n + 1)
  BY <1>1, <1>2, <1>3, <1>4, NumberedNext
<1>6. ASSUME NEW row, row.ver = n + 1, row.val = e.val PROVE LastLeft(l2, o, row)
  <2>1. row.val = l2[j].val
    BY <1>3, <1>6
  <2>2. QED
    BY <1>1, <1>2, <1>3, <1>4, <1>6, <2>1, LeftNext
<1>7. QED
  BY <1>5, <1>6

(* An install: one event each of the changes it closes and the objects it  *)
(* migrates, together.                                                     *)
Closes(rws, rws2, chs, chs2, E, M, C) ==
  /\ \A o \in Objects : rws[o].ver \in Nat
  /\ \A k \in Changes : chs[k].ver \in Nat
  /\ E \subseteq Events /\ IsFiniteSet(E) /\ M \subseteq Objects /\ C \subseteq Changes
  /\ \A e \in E : /\ e.object \in M \cup C /\ e.x \in {"publish", "migrate"}
                   /\ e.batch = None /\ e.asked = {}
  /\ \A e, f \in E : e.object = f.object => e = f
  /\ \A o \in M : \E e \in E : e.object = o /\ e.seq = rws[o].ver + 1 /\ e.val = rws2[o].val
  /\ \A o \in M : rws2[o].ver = rws[o].ver + 1
  /\ \A o \in Objects \ M : rws2[o] = rws[o]
  /\ \A k \in C : \E e \in E : e.object = k /\ e.seq = chs[k].ver + 1
  /\ \A k \in C : chs2[k].ver = chs[k].ver + 1
  /\ \A k \in Changes \ C : chs2[k] = chs[k]

LEMMA InstallLogs ==
  ASSUME NEW l, NEW rws, NEW chs, NEW ks, LogOK(l, rws, chs, ks), NEW E, NEW M, NEW C,
         NEW rws2, NEW chs2, Closes(rws, rws2, chs, chs2, E, M, C),
         NEW l2, l2 = l \o InOrder(E)
  PROVE  LogOK(l2, rws2, chs2, ks)
<1> USE DEF Closes
<1>1. l \in Seq(Events) /\ \A i \in DOMAIN l : EventOK(l, l[i], ks)
  BY DEF LogOK
<1>12. AllOn(l, l2, E)
  BY <1>1, ConcatGoesOn
<1>2. /\ l2 \in Seq(Events) /\ GoesOn(l, l2)
      /\ \A i \in Len(l) + 1..Len(l2) : l2[i] \in E
      /\ \A e \in E : \E i \in Len(l) + 1..Len(l2) : l2[i] = e
      /\ \A i, j \in Len(l) + 1..Len(l2) : l2[i] = l2[j] => i = j
  BY <1>12 DEF AllOn
<1>3. \A i, j \in Len(l) + 1..Len(l2) : l2[i].object = l2[j].object => i = j
  BY <1>2
<1>4. \A x : x \notin M \cup C => \A i \in Len(l) + 1..Len(l2) : l2[i].object # x
  BY <1>2
<1>5. ASSUME NEW o \in Objects PROVE Numbered(l2, o, rws2[o].ver) /\ LastLeft(l2, o, rws2[o])
  <2>1. Numbered(l, o, rws[o].ver) /\ LastLeft(l, o, rws[o]) /\ rws[o].ver \in Nat
    BY DEF LogOK
  <2>2. CASE o \in M
    <3>1. PICK e \in E : e.object = o /\ e.seq = rws[o].ver + 1 /\ e.val = rws2[o].val
      BY <2>2
    <3>5. rws2[o].ver = rws[o].ver + 1
      BY <2>2
    <3> DEFINE n == rws[o].ver
    <3> HIDE DEF n
    <3>9. n \in Nat /\ Numbered(l, o, n) /\ e.seq = n + 1 /\ rws2[o].ver = n + 1
      BY <2>1, <3>1, <3>5 DEF n
    <3>6. Numbered(l2, o, n + 1) /\ \A row : row.ver = n + 1 /\ row.val = e.val => LastLeft(l2, o, row)
      BY <1>12, <3>1, <3>9, OneOfMany
    <3>7. LastLeft(l2, o, rws2[o])
      BY <3>1, <3>6, <3>9
    <3>8. QED
      BY <3>6, <3>7, <3>9
  <2>3. CASE o \notin M
    <3>1. o \notin M \cup C
      BY <2>3, VersionsAssumption
    <3>2. \A i \in Len(l) + 1..Len(l2) : l2[i].object # o
      BY <1>4, <3>1
    <3>3. Numbered(l2, o, rws[o].ver) /\ LastLeft(l2, o, rws[o])
      BY <1>2, <2>1, <3>2, NumberedStill, LeftStill
    <3>4. rws2[o] = rws[o]
      BY <2>3
    <3>5. QED
      BY <3>3, <3>4
  <2>4. QED
    BY <2>2, <2>3
<1>6. ASSUME NEW k \in Changes PROVE Numbered(l2, k, chs2[k].ver)
  <2>1. Numbered(l, k, chs[k].ver) /\ chs[k].ver \in Nat
    BY DEF LogOK
  <2>2. CASE k \in C
    <3>1. PICK e \in E : e.object = k /\ e.seq = chs[k].ver + 1
      BY <2>2
    <3>5. chs2[k].ver = chs[k].ver + 1
      BY <2>2
    <3> DEFINE n == chs[k].ver
    <3> HIDE DEF n
    <3>9. n \in Nat /\ Numbered(l, k, n) /\ e.seq = n + 1 /\ chs2[k].ver = n + 1
      BY <2>1, <3>1, <3>5 DEF n
    <3>6. Numbered(l2, k, n + 1)
      BY <1>12, <3>1, <3>9, OneOfMany
    <3>7. QED
      BY <3>6, <3>9
  <2>3. CASE k \notin C
    <3>1. k \notin M \cup C
      BY <2>3, VersionsAssumption
    <3>2. \A i \in Len(l) + 1..Len(l2) : l2[i].object # k
      BY <1>4, <3>1
    <3>3. Numbered(l2, k, chs[k].ver)
      BY <1>2, <2>1, <3>2, NumberedStill
    <3>4. chs2[k] = chs[k]
      BY <2>3
    <3>5. QED
      BY <3>3, <3>4
  <2>4. QED
    BY <2>2, <2>3
<1>7. \A e \in E : EventOK(l2, e, ks)
  BY DEF EventOK, Judged, OfItsTime
<1>8. \A i \in DOMAIN l2 : EventOK(l2, l2[i], ks)
  <2>1. \A i \in Len(l) + 1..Len(l2) : EventOK(l2, l2[i], ks)
    BY <1>2, <1>7
  <2>2. QED
    BY <1>1, <1>2, <2>1, EventsStay
<1>9. QED
  BY <1>2, <1>5, <1>6, <1>8 DEF LogOK


-----------------------------------------------------------------------------
(* A batch.                                                                *)

LEMMA LeastIs ==
  ASSUME NEW T, T \subseteq Nat, T # {}
  PROVE  \E x \in T : \A y \in T : x <= y
<1> DEFINE R == OpToRel(<, Nat)
<1>1. IsWellFoundedOn(R, Nat)
  BY NatLessThanWellFounded
<1>2. \A x, y \in Nat : x < y => <<x, y>> \in R
  BY Zenon DEF OpToRel
<1> HIDE DEF R
<1>3. PICK x \in T : \A y \in T : ~(<<y, x>> \in R)
  BY <1>1, WFMin
<1>4. \A y \in T : ~(y < x)
  BY <1>2, <1>3
<1>5. QED
  BY <1>4

(* The requests of a batch run one after the other, up to the n-th.        *)
RunTo(c, s, writes, f, n) ==
  f = [i \in 0..n |-> IF i = 0 THEN [rows |-> rows, next |-> next, log |-> log, refused |-> FALSE]
                      ELSE RanOne(c, s, f[i - 1], writes[i])]

LEMMA RunExists ==
  ASSUME NEW c, NEW s, NEW writes, NEW n \in Nat
  PROVE  \E f : RunTo(c, s, writes, f, n)
<1> DEFINE T == {m \in Nat : ~ \E f : RunTo(c, s, writes, f, m)}
<1>1. SUFFICES ASSUME T # {} PROVE FALSE
  OBVIOUS
<1>2. PICK m \in T : \A y \in T : m <= y
  BY <1>1, LeastIs
<1>3. m \in Nat /\ ~ \E f : RunTo(c, s, writes, f, m)
  BY <1>2
<1> DEFINE start == [rows |-> rows, next |-> next, log |-> log, refused |-> FALSE]
<1>4. CASE m = 0
  <2> DEFINE g == [i \in 0..0 |-> start]
  <2> HIDE DEF start
  <2>1. g = [i \in 0..0 |-> IF i = 0 THEN start ELSE RanOne(c, s, g[i - 1], writes[i])]
    OBVIOUS
  <2>2. RunTo(c, s, writes, g, 0)
    BY <2>1 DEF RunTo, start
  <2>3. QED
    BY <1>3, <1>4, <2>2
<1>5. CASE m # 0
  <2>1. m - 1 \in Nat /\ ~(m <= m - 1)
    BY <1>3, <1>5
  <2>2. m - 1 \notin T
    BY <1>2, <2>1
  <2>3. PICK f : RunTo(c, s, writes, f, m - 1)
    BY <2>1, <2>2
  <2> DEFINE g == [i \in 0..m |-> IF i = m THEN RanOne(c, s, f[m - 1], writes[m]) ELSE f[i]]
  <2>4. ASSUME NEW i \in 0..m
        PROVE  g[i] = IF i = 0 THEN start ELSE RanOne(c, s, g[i - 1], writes[i])
    <3>1. CASE i = m
      <4>1. m - 1 \in 0..m /\ m - 1 # m /\ i # 0
        BY <1>3, <1>5, <3>1
      <4>2. g[m - 1] = f[m - 1]
        BY <4>1
      <4>3. QED
        BY <3>1, <4>1, <4>2
    <3>2. CASE i # m
      <4>1. i \in 0..m - 1
        BY <1>3, <3>2
      <4>2. g[i] = f[i]
        BY <3>2
      <4>3. f[i] = IF i = 0 THEN start ELSE RanOne(c, s, f[i - 1], writes[i])
        BY <2>3, <4>1 DEF RunTo
      <4>4. CASE i = 0
        BY <4>2, <4>3, <4>4
      <4>5. CASE i # 0
        <5>1. i - 1 \in 0..m /\ i - 1 # m
          BY <1>3, <4>1, <4>5
        <5>2. g[i - 1] = f[i - 1]
          BY <5>1
        <5>3. QED
          BY <4>2, <4>3, <4>5, <5>2
      <4>6. QED
        BY <4>4, <4>5
    <3>3. QED
      BY <3>1, <3>2
  <2>5. DOMAIN g = 0..m
    OBVIOUS
  <2> HIDE DEF start
  <2>6. g = [i \in 0..m |-> g[i]]
    OBVIOUS
  <2> HIDE DEF g
  <2>7. g = [i \in 0..m |-> IF i = 0 THEN start ELSE RanOne(c, s, g[i - 1], writes[i])]
    BY <2>4, <2>6
  <2>8. RunTo(c, s, writes, g, m)
    BY <2>7 DEF RunTo, start
  <2>9. QED
    BY <1>3, <2>8
<1>6. QED
  BY <1>4, <1>5

LEMMA RanIs ==
  ASSUME NEW c, NEW s, Len(Call(c).writes) \in Nat
  PROVE  \E f : RunTo(c, s, Call(c).writes, f, Len(Call(c).writes)) /\ Ran(c, s) = f[Len(Call(c).writes)]
<1> DEFINE writes == Call(c).writes
           n == Len(writes)
           f == CHOOSE g : RunTo(c, s, writes, g, n)
<1>1. RunTo(c, s, writes, f, n)
  BY RunExists
<1>2. Ran(c, s) = f[n]
  BY DEF Ran, RunTo
<1>3. QED
  BY <1>1, <1>2


(* Where a batch stands: what its requests so far have done, to be kept    *)
(* under a key of ks or rolled back.                                       *)
Ranning == [rows : Rows, next : Nat, log : Seq(Events), refused : BOOLEAN]

RanOK(r, ks) ==
  /\ r \in Ranning /\ next <= r.next
  /\ LogOK(r.log, r.rows, changes, ks)
  /\ Later(rows, r.rows, Objects)
  /\ Apart(log, next) => Apart(r.log, r.next)

LEMMA ApartNext ==
  ASSUME NEW l \in Seq(Events), NEW n \in Nat, Apart(l, n), NEW e \in Events, e.num = n,
         NEW l2, l2 = Append(l, e)
  PROVE  Apart(l2, n + 1)
<1>1. OneOn(l, l2, e, Len(l) + 1)
  BY AppendGoesOn
<1> DEFINE j == Len(l) + 1
<1>2. /\ Len(l) \in Nat /\ DOMAIN l2 = 1..Len(l2) /\ DOMAIN l = 1..Len(l) /\ Len(l2) = j
      /\ l2[j] = e /\ \A i \in 1..Len(l) : l2[i] = l[i]
  BY <1>1 DEF OneOn, GoesOn
<1>3. \A i \in 1..Len(l2) : i \in 1..Len(l) \/ i = j
  BY <1>2
<1>4. \A i \in 1..Len(l) : l[i] \in Events /\ l[i].num \in Nat /\ l[i].num < n
  <2>1. ASSUME NEW i \in 1..Len(l) PROVE l[i] \in Events
    OBVIOUS
  <2>2. \A i \in 1..Len(l) : l[i].num \in Nat
    BY <2>1 DEF Events
  <2>3. QED
    BY <1>2, <2>1, <2>2 DEF Apart
<1> HIDE DEF j
<1>5. \A i \in 1..Len(l2) : l2[i].num < n + 1
  BY <1>2, <1>3, <1>4
<1>6. ASSUME NEW a \in 1..Len(l2), NEW b \in 1..Len(l2), a # b, l2[a].num # None
      PROVE  l2[a].num # l2[b].num
  <2>1. CASE a = j \/ b = j
    BY <1>2, <1>3, <1>4, <1>6, <2>1
  <2>2. CASE a # j /\ b # j
    <3>1. a \in 1..Len(l) /\ b \in 1..Len(l) /\ l2[a] = l[a] /\ l2[b] = l[b]
      BY <1>2, <1>3, <2>2
    <3>2. QED
      BY <1>2, <1>6, <3>1 DEF Apart
  <2>3. QED
    BY <2>1, <2>2
<1>7. QED
  BY <1>2, <1>5, <1>6 DEF Apart

LEMMA ApartStill ==
  ASSUME NEW l \in Seq(Events), NEW n \in Nat, n >= 1, Apart(l, n), NEW e \in Events, e.num = None,
         NEW l2, l2 = Append(l, e)
  PROVE  Apart(l2, n)
<1>1. OneOn(l, l2, e, Len(l) + 1)
  BY AppendGoesOn
<1> DEFINE j == Len(l) + 1
<1>2. /\ Len(l) \in Nat /\ DOMAIN l2 = 1..Len(l2) /\ DOMAIN l = 1..Len(l) /\ Len(l2) = j
      /\ l2[j] = e /\ \A i \in 1..Len(l) : l2[i] = l[i]
  BY <1>1 DEF OneOn, GoesOn
<1>3. \A i \in 1..Len(l2) : i \in 1..Len(l) \/ i = j
  BY <1>2
<1> HIDE DEF j
<1>5. \A i \in 1..Len(l2) : l2[i].num < n
  BY <1>2, <1>3 DEF Apart, None
<1>6. ASSUME NEW a \in 1..Len(l2), NEW b \in 1..Len(l2), a # b, l2[a].num # None
      PROVE  l2[a].num # l2[b].num
  <2>1. CASE b = j
    BY <1>2, <1>6, <2>1
  <2>2. CASE b # j
    <3>1. a \in 1..Len(l) /\ b \in 1..Len(l) /\ l2[a] = l[a] /\ l2[b] = l[b]
      BY <1>2, <1>3, <1>6, <2>2
    <3>2. QED
      BY <1>2, <1>6, <3>1 DEF Apart
  <2>3. QED
    BY <2>1, <2>2
<1>7. QED
  BY <1>2, <1>5, <1>6 DEF Apart


LEMMA ApartInstalled ==
  ASSUME NEW l \in Seq(Events), NEW n \in Nat, n >= 1, Apart(l, n), NEW E, NEW l2, AllOn(l, l2, E),
         \A e \in E : e.num = None
  PROVE  Apart(l2, n)
<1>1. /\ Len(l) \in Nat /\ DOMAIN l2 = 1..Len(l2) /\ DOMAIN l = 1..Len(l) /\ Len(l2) \in Nat
      /\ \A i \in 1..Len(l) : l2[i] = l[i]
  BY DEF AllOn, GoesOn
<1>2. \A i \in Len(l) + 1..Len(l2) : l2[i].num = None
  BY DEF AllOn
<1>3. \A i \in 1..Len(l2) : i \in 1..Len(l) \/ i \in Len(l) + 1..Len(l2)
  BY <1>1
<1>4. \A i \in 1..Len(l2) : l2[i].num < n
  BY <1>1, <1>2, <1>3 DEF Apart, None
<1>5. ASSUME NEW a \in 1..Len(l2), NEW b \in 1..Len(l2), a # b, l2[a].num # None
      PROVE  l2[a].num # l2[b].num
  <2>1. a \in 1..Len(l) /\ l2[a] = l[a]
    BY <1>1, <1>2, <1>3, <1>5
  <2>2. CASE b \in 1..Len(l)
    BY <1>1, <1>5, <2>1, <2>2 DEF Apart
  <2>3. CASE b \in Len(l) + 1..Len(l2)
    BY <1>2, <1>5, <2>3
  <2>4. QED
    BY <1>3, <2>2, <2>3
<1>6. QED
  BY <1>1, <1>4, <1>5 DEF Apart

LEMMA LogKeys ==
  ASSUME NEW l, NEW rws, NEW chs, NEW ks, NEW ks2, ks \subseteq ks2, LogOK(l, rws, chs, ks)
  PROVE  LogOK(l, rws, chs, ks2)
<1>1. \A i \in DOMAIN l : EventOK(l, l[i], ks2)
  BY DEF LogOK, EventOK
<1>2. QED
  BY <1>1 DEF LogOK

LEMMA RowsAre ==
  ASSUME NEW rws \in Rows, NEW o \in Objects
  PROVE  rws[o] \in Row /\ rws[o].ver \in Nat /\ rws[o].val \in Values /\ rws[o].admitted \in BOOLEAN
<1>1. rws[o] \in Row
  BY DEF Rows
<1>2. QED
  BY <1>1 DEF Row

(* A write's row.                                                          *)
Put(rws, o, v, rws2) ==
  /\ rws2 \in Rows /\ rws2[o].ver = rws[o].ver + 1 /\ rws2[o].val = v
  /\ \A p \in Objects : p # o => rws2[p] = rws[p]

LEMMA WrittenIs ==
  ASSUME NEW rws \in Rows, NEW o \in Objects, NEW v \in Values, NEW s,
         NEW rws2, rws2 = [rws EXCEPT ![o] = Written(s, rws[o], v)]
  PROVE  Put(rws, o, v, rws2)
<1>1. Written(s, rws[o], v) \in Row
  BY RowsAre DEF Written, Row
<1>2. rws2 \in Rows /\ rws2[o] = Written(s, rws[o], v)
  BY <1>1 DEF Rows
<1>3. \A p \in Objects : p # o => rws2[p] = rws[p]
  BY DEF Rows
<1>4. QED
  BY <1>2, <1>3 DEF Written, Put

LEMMA LaterWrite ==
  ASSUME NEW rws \in Rows, NEW t \in Rows, NEW u \in Rows, Later(rws, t, Objects), NEW o \in Objects,
         u[o].ver = t[o].ver + 1, \A p \in Objects : p # o => u[p] = t[p]
  PROVE  Later(rws, u, Objects)
<1>1. ASSUME NEW x \in Objects
      PROVE  rws[x].ver <= u[x].ver /\ (rws[x].ver = u[x].ver => u[x] = rws[x])
  <2>1. rws[x].ver \in Nat /\ t[x].ver \in Nat /\ rws[x].ver <= t[x].ver
    BY RowsAre DEF Later
  <2>2. CASE x = o
    BY <2>1, <2>2
  <2>3. CASE x # o
    BY <2>3 DEF Later
  <2>4. QED
    BY <2>2, <2>3
<1>2. QED
  BY <1>1 DEF Later

IsEvent(e, c, version, x, o, seq, val, num, batch, asked) ==
  /\ e \in Events
  /\ e.x = x /\ e.object = o /\ e.seq = seq /\ e.val = val /\ e.num = num
  /\ e.batch = batch /\ e.version = version /\ e.began = calls[c].began /\ e.at = Version
  /\ e.asked = asked

LEMMA EventIs ==
  ASSUME NEW c, calls[c].began \in Nat, Version \in Nat, NEW version \in Nat, NEW x \in Acts,
         NEW o \in Objects \cup Changes, NEW seq \in Nat, NEW val \in Values \cup {None},
         NEW num \in Nat, NEW batch \in Nat, NEW asked \in SUBSET Values,
         NEW e, e = Event(c, version, x, o, seq, val, num, batch, asked)
  PROVE  IsEvent(e, c, version, x, o, seq, val, num, batch, asked)
<1> DEFINE b == calls[c].began
           v == Version
<1>1. e = [x |-> x, object |-> o, seq |-> seq, val |-> val, num |-> num, batch |-> batch,
           version |-> version, began |-> b, at |-> v, asked |-> asked]
  BY DEF Event
<1>2. b \in Nat /\ v \in Nat
  OBVIOUS
<1> HIDE DEF b, v
<1>3. e \in Events
  BY <1>1, <1>2 DEF Events
<1>4. /\ e.x = x /\ e.object = o /\ e.seq = seq /\ e.val = val /\ e.num = num
      /\ e.batch = batch /\ e.version = version /\ e.began = b /\ e.at = v
      /\ e.asked = asked
  BY <1>1
<1>5. QED
  BY <1>3, <1>4 DEF b, v, IsEvent

LEMMA RefusedIs ==
  ASSUME NEW r \in Ranning, NEW r1, r1 = [r EXCEPT !.refused = TRUE, !.next = @ + 1]
  PROVE  r1 \in Ranning /\ r1.rows = r.rows /\ r1.log = r.log /\ r1.next = r.next + 1
<1>1. r.next \in Nat /\ r.next + 1 \in Nat
  BY DEF Ranning
<1> DEFINE n == r.next + 1
<1> HIDE DEF n
<1>2. r1 = [r EXCEPT !.refused = TRUE, !.next = n] /\ n \in Nat
  BY <1>1 DEF n
<1>3. r1 \in Ranning
  BY <1>2 DEF Ranning
<1>4. r1.rows = r.rows /\ r1.log = r.log /\ r1.next = n
  BY <1>2 DEF Ranning
<1>5. QED
  BY <1>3, <1>4 DEF n

LEMMA RanOneOK ==
  ASSUME StoreOK, NEW c, NEW s, calls[c].began \in 1..Version, Len(log) \in Nat,
         NEW ks, \E a \in ks : a.first = Len(log) + 1,
         NEW r, RanOK(r, ks), NEW w, w.o \in Objects, w.v \in Values
  PROVE  RanOK(RanOne(c, s, r, w), ks)
<1> DEFINE o == w.o
           row == r.rows[o]
           e == Event(c, Version, "write", o, row.ver + 1, w.v, r.next, Len(log) + 1, {})
           rws2 == [r.rows EXCEPT ![o] = Written(s, row, w.v)]
           l2 == Append(r.log, e)
           r1 == [r EXCEPT !.refused = TRUE, !.next = @ + 1]
           r2 == [rows |-> rws2, next |-> r.next + 1, refused |-> FALSE, log |-> l2]
<1>1. /\ r \in Ranning /\ r.rows \in Rows /\ r.next \in Nat /\ r.log \in Seq(Events) /\ next <= r.next
      /\ LogOK(r.log, r.rows, changes, ks) /\ Later(rows, r.rows, Objects)
      /\ (Apart(log, next) => Apart(r.log, r.next))
  BY DEF RanOK, Ranning
<1>2. next \in Nat /\ Version \in Nat /\ rows \in Rows /\ \A k \in Changes : changes[k].ver \in Nat
  BY DEF StoreOK, IsChanges, IsChange, Version
<1>3. CASE r.refused
  <2>1. RanOne(c, s, r, w) = r
    BY <1>3 DEF RanOne
  <2>2. QED
    BY <2>1
<1>4. CASE ~ r.refused /\ Refused(s, row, w.v)
  <2>1. RanOne(c, s, r, w) = r1
    BY <1>4 DEF RanOne
  <2>2. r1 \in Ranning /\ r1.rows = r.rows /\ r1.log = r.log /\ r1.next = r.next + 1
    BY <1>1, RefusedIs
  <2> HIDE DEF r1
  <2>3. next <= r1.next
    BY <1>1, <1>2, <2>2
  <2>4. Apart(r.log, r.next) => Apart(r.log, r1.next)
    <3>1. SUFFICES ASSUME Apart(r.log, r.next) PROVE Apart(r.log, r.next + 1)
      BY <2>2
    <3>2. ASSUME NEW i \in DOMAIN r.log PROVE r.log[i].num < r.next + 1
      <4>1. r.log[i] \in Events
        BY <1>1
      <4>2. r.log[i].num \in Nat /\ r.log[i].num < r.next
        BY <3>1, <4>1 DEF Apart, Events
      <4>3. QED
        BY <1>1, <4>2
    <3>3. QED
      BY <3>1, <3>2 DEF Apart
  <2>5. RanOK(r1, ks)
    BY <1>1, <2>2, <2>3, <2>4 DEF RanOK
  <2>6. QED
    BY <2>1, <2>5
<1>5. CASE ~ r.refused /\ ~ Refused(s, row, w.v)
  <2>1. RanOne(c, s, r, w) = r2
    BY <1>5 DEF RanOne
  <2>2. row.ver \in Nat /\ row.val \in Values
    BY <1>1, RowsAre
  <2>3. /\ e \in Events /\ e.object = o /\ e.seq = row.ver + 1 /\ e.val = w.v /\ e.num = r.next
        /\ e.batch = Len(log) + 1 /\ e.asked = {} /\ e.version = e.at /\ e.at = Version
        /\ e.began = calls[c].began
    <3> DEFINE m == row.ver + 1
               n == r.next
               v == w.v
               b == Len(log) + 1
               x == "write"
               A == {}
    <3>1. m \in Nat /\ n \in Nat /\ b \in Nat
      BY <1>1, <2>2
    <3>2. calls[c].began \in Nat
      BY <1>2
    <3>3. o \in Objects \cup Changes /\ v \in Values \cup {None}
      OBVIOUS
    <3>4. A \in SUBSET Values
      OBVIOUS
    <3>8. x \in Acts
      BY DEF Acts
    <3>5. e = Event(c, Version, x, o, m, v, n, b, A)
      OBVIOUS
    <3> HIDE DEF m, n, v, b, A, x, e, o
    <3>6. IsEvent(e, c, Version, x, o, m, v, n, b, A)
      BY <1>2, <3>1, <3>2, <3>3, <3>4, <3>5, <3>8, EventIs
    <3>7. QED
      BY <3>6 DEF IsEvent, m, n, v, b, A, x
  <2> HIDE DEF e
  <2>4. OfItsTime(e)
    BY <1>2, <2>3 DEF OfItsTime
  <2>5. /\ rws2 \in Rows /\ rws2[o].ver = row.ver + 1 /\ rws2[o].val = w.v
        /\ \A p \in Objects : p # o => rws2[p] = r.rows[p]
    <3> DEFINE rr == r.rows
               v == w.v
               u == rws2
    <3>1. rr \in Rows /\ o \in Objects /\ v \in Values
      BY <1>1
    <3>2. u = [rr EXCEPT ![o] = Written(s, rr[o], v)]
      OBVIOUS
    <3> HIDE DEF rr, v, o, u
    <3>3. Put(rr, o, v, u)
      BY <3>1, <3>2, WrittenIs
    <3>4. QED
      BY <3>3 DEF rr, v, u, Put
  <2> HIDE DEF rws2
  <2>6. \A p \in Objects : r.rows[p].ver \in Nat
    BY <1>1, RowsAre
  <2>7. LogOK(l2, rws2, changes, ks)
    <3> HIDE DEF l2
    <3>1. l2 = Append(r.log, e)
      BY DEF l2
    <3> DEFINE rr == r.rows
               ll == r.log
    <3>2. /\ LogOK(ll, rr, changes, ks) /\ \A p \in Objects : rr[p].ver \in Nat
          /\ e.seq = rr[o].ver + 1 /\ rws2[o].ver = rr[o].ver + 1
          /\ \A p \in Objects : p # o => rws2[p] = rr[p]
      BY <1>1, <2>3, <2>5, <2>6
    <3>3. l2 = Append(ll, e) /\ rws2[o].val = e.val /\ o \in Objects
      BY <2>3, <2>5, <3>1
    <3>4. e.batch # None => \E a \in ks : a.first = e.batch
      BY <2>3
    <3>5. e.asked # {} => rr[o].val \in e.asked
      BY <2>3
    <3>6. e.object = o /\ e \in Events
      BY <2>3
    <3> HIDE DEF rr, ll, o
    <3>7. QED
      BY <1>2, <2>4, <3>2, <3>3, <3>4, <3>5, <3>6, WriteLogs
  <2>8. Later(rows, rws2, Objects)
    BY <1>1, <1>2, <2>5, LaterWrite
  <2>9. Apart(r.log, r.next) => Apart(l2, r.next + 1)
    BY <1>1, <2>3, ApartNext
  <2>10. l2 \in Seq(Events)
    BY <1>1, <2>3
  <2> HIDE DEF l2
  <2>11. r2 \in Ranning /\ r2.rows = rws2 /\ r2.log = l2 /\ r2.next = r.next + 1
    BY <1>1, <2>5, <2>10 DEF Ranning
  <2> HIDE DEF r2
  <2>12. next <= r2.next
    BY <1>1, <1>2, <2>11
  <2>13. RanOK(r2, ks)
    BY <1>1, <2>7, <2>8, <2>9, <2>11, <2>12 DEF RanOK
  <2>14. QED
    BY <2>1, <2>13
<1>6. QED
  BY <1>3, <1>4, <1>5


(* What a batch has run, its requests one after the other.                 *)
LEMMA RanIsOK ==
  ASSUME StoreOK, NEW c, NEW s, calls[c].began \in 1..Version, LogOK(log, rows, changes, keys),
         Len(Call(c).writes) \in Nat,
         \A i \in 1..Len(Call(c).writes) : Call(c).writes[i].o \in Objects /\ Call(c).writes[i].v \in Values,
         NEW ks, keys \subseteq ks, \E a \in ks : a.first = Len(log) + 1
  PROVE  RanOK(Ran(c, s), ks)
<1> DEFINE writes == Call(c).writes
           n == Len(writes)
<1>1. PICK f : RunTo(c, s, writes, f, n) /\ Ran(c, s) = f[n]
  BY RanIs
<1>2. Len(log) \in Nat
  BY DEF LogOK
<1> DEFINE start == [rows |-> rows, next |-> next, log |-> log, refused |-> FALSE]
<1>3. RanOK(start, ks)
  <2>1. LogOK(log, rows, changes, ks)
    BY LogKeys
  <2>2. start \in Ranning /\ start.rows = rows /\ start.next = next /\ start.log = log
    BY DEF Ranning, StoreOK, LogOK
  <2>3. Later(rows, rows, Objects)
    <3>1. \A x \in Objects : rows[x].ver \in Nat
      BY RowsAre DEF StoreOK
    <3>2. QED
      BY <3>1 DEF Later
  <2>4. next <= next
    BY DEF StoreOK
  <2> HIDE DEF start
  <2>5. QED
    BY <2>1, <2>2, <2>3, <2>4 DEF RanOK
<1>4. n \in Nat /\ \A i \in 1..n : writes[i].o \in Objects /\ writes[i].v \in Values
  OBVIOUS
<1> HIDE DEF start, n, writes
<1>5. f[0] = start /\ \A i \in 1..n : f[i] = RanOne(c, s, f[i - 1], writes[i])
  <2>1. f = [i \in 0..n |-> IF i = 0 THEN start ELSE RanOne(c, s, f[i - 1], writes[i])]
    BY <1>1 DEF RunTo, start
  <2>2. 0 \in 0..n /\ \A i \in 1..n : i \in 0..n /\ i # 0
    BY <1>4
  <2>3. QED
    BY <2>1, <2>2
<1> DEFINE T == {m \in Nat : m \in 0..n /\ ~ RanOK(f[m], ks)}
<1>6. T = {}
  <2>1. SUFFICES ASSUME T # {} PROVE FALSE
    OBVIOUS
  <2>2. PICK m \in T : \A y \in T : m <= y
    BY <2>1, LeastIs
  <2>3. m \in 0..n /\ ~ RanOK(f[m], ks)
    BY <2>2
  <2>4. m # 0
    BY <1>3, <1>5, <2>3
  <2>5. m \in 1..n /\ m - 1 \in 0..n /\ m - 1 \in Nat /\ ~(m <= m - 1)
    BY <1>4, <2>3, <2>4
  <2>6. RanOK(f[m - 1], ks)
    BY <2>2, <2>5
  <2> DEFINE r == f[m - 1]
             w == writes[m]
  <2>7. RanOK(r, ks) /\ w.o \in Objects /\ w.v \in Values
    BY <1>4, <2>5, <2>6
  <2>8. f[m] = RanOne(c, s, r, w)
    BY <1>5, <2>5
  <2> HIDE DEF r, w
  <2>9. RanOK(RanOne(c, s, r, w), ks)
    BY <1>2, <2>7, RanOneOK
  <2>10. QED
    BY <2>3, <2>8, <2>9
<1>7. n \in Nat /\ n \in 0..n
  BY <1>4
<1>8. QED
  BY <1>1, <1>6, <1>7


-----------------------------------------------------------------------------
(* Calls beside one another.                                               *)

LEMMA ProcIs == \A c \in Clients : Proc(c) \in Procs
  BY VersionsAssumption DEF Proc

LEMMA ChangeOf ==
  ASSUME NEW c \in Clients, NEW call \in Calls[c], call.kind \in ChangeKinds \cup {"publish"}
  PROVE  call.change \in Changes
<1>1. IsCall(call)
  BY VersionsAssumption
<1>2. call.kind # "write" /\ call.kind # "batch"
  BY DEF ChangeKinds
<1>3. QED
  BY <1>1, <1>2 DEF IsCall

(* One table later than a second, itself later than a first.               *)
LEMMA LaterTwice ==
  ASSUME NEW t, NEW u, NEW w, NEW S, Later(t, u, S), Later(u, w, S),
         \A x \in S : t[x].ver \in Nat /\ u[x].ver \in Nat /\ w[x].ver \in Nat
  PROVE  Later(t, w, S)
<1>1. ASSUME NEW x \in S
      PROVE  t[x].ver <= w[x].ver /\ (t[x].ver = w[x].ver => w[x] = t[x])
  <2>1. t[x].ver <= u[x].ver /\ u[x].ver <= w[x].ver
    BY DEF Later
  <2>2. t[x].ver \in Nat /\ u[x].ver \in Nat /\ w[x].ver \in Nat
    OBVIOUS
  <2>3. t[x].ver = w[x].ver => t[x].ver = u[x].ver /\ u[x].ver = w[x].ver
    BY <2>1, <2>2
  <2>4. QED
    BY <2>1, <2>2, <2>3 DEF Later
<1>2. QED
  BY <1>1 DEF Later

LEMMA LaterSelf ==
  ASSUME NEW t, NEW S, \A x \in S : t[x].ver \in Nat
  PROVE  Later(t, t, S)
BY DEF Later

(* What a call knows stays so as the store goes on, the version its        *)
(* process has loaded too unless it installs.                              *)
LEMMA CallKept ==
  ASSUME NEW r, NEW c \in Clients, NEW v \in Nat, NEW v2 \in Nat, v <= v2,
         NEW loaded \in Nat, NEW loaded2 \in Nat, loaded <= loaded2,
         r.pc = "install" => loaded2 = loaded,
         NEW chs, NEW chs2, IsChanges(chs), IsChanges(chs2), Later(chs, chs2, Changes),
         NEW rws \in Rows, NEW rws2 \in Rows, Later(rws, rws2, Objects),
         CallOK(r, c, v, loaded, chs, rws)
  PROVE  CallOK(r, c, v2, loaded2, chs2, rws2)
<1>1. CallShape(r, c)
  BY DEF CallOK
<1>2. TimeOK(r, v2, loaded2)
  <2>1. TimeOK(r, v, loaded)
    BY DEF CallOK
  <2>2. QED
    BY <2>1 DEF TimeOK
<1>3. \A k \in Changes : chs[k].ver \in Nat /\ chs2[k].ver \in Nat
  BY DEF IsChanges, IsChange
<1>4. PrepOK(r, chs2)
  <2>1. SUFFICES ASSUME r.call.kind \in {"submit", "refresh"}, r.pc # "dryread" PROVE PrepOK(r, chs2)
    BY DEF PrepOK
  <2> DEFINE k == r.call.change
  <2>2. k \in Changes
    BY <1>1, <2>1, ChangeOf DEF CallShape, ChangeKinds
  <2>3. r.prepVer \in Nat /\ r.prepVer <= chs[k].ver /\ (r.prepVer = chs[k].ver => r.prepared.source = chs[k].source)
    BY <1>1, <2>1 DEF CallOK, PrepOK, CallShape
  <2>4. chs[k].ver <= chs2[k].ver /\ (chs[k].ver = chs2[k].ver => chs2[k] = chs[k])
    BY <2>2 DEF Later
  <2>5. chs[k].ver \in Nat /\ chs2[k].ver \in Nat
    BY <1>3, <2>2
  <2> HIDE DEF k
  <2>6. r.prepVer <= chs2[k].ver /\ (r.prepVer = chs2[k].ver => r.prepared.source = chs2[k].source)
    BY <2>3, <2>4, <2>5
  <2>7. QED
    BY <2>6 DEF PrepOK, k
<1>5. SnapOK(r, chs2, rws2, loaded2)
  <2>1. SUFFICES ASSUME r.pc = "install" PROVE SnapOK(r, chs2, rws2, loaded2)
    BY DEF SnapOK
  <2>2. SnapOK(r, chs, rws, loaded) /\ loaded2 = loaded
    BY <2>1 DEF CallOK
  <2> DEFINE a == r.snap.changes
             b == r.snap.rows
  <2>3. Later(a, chs, Changes) /\ Later(b, rws, Objects) /\ IsChanges(a) /\ b \in Rows
    BY <2>1, <2>2 DEF SnapOK
  <2>4. \A k \in Changes : a[k].ver \in Nat
    BY <2>3 DEF IsChanges, IsChange
  <2>5. \A o \in Objects : b[o].ver \in Nat /\ rws[o].ver \in Nat /\ rws2[o].ver \in Nat
    BY <2>3, RowsAre
  <2> HIDE DEF a, b
  <2>6. Later(a, chs2, Changes)
    BY <1>3, <2>3, <2>4, LaterTwice
  <2>7. Later(b, rws2, Objects)
    BY <2>3, <2>5, LaterTwice
  <2>8. QED
    BY <2>1, <2>2, <2>6, <2>7 DEF SnapOK, a, b
<1>6. QED
  BY <1>1, <1>2, <1>4, <1>5 DEF CallOK

(* The store and the loaded versions later than they were.                 *)
Onward(v, v2, lb, lb2, chs, chs2, rws, rws2) ==
  /\ v \in Nat /\ v2 \in Nat /\ v <= v2
  /\ lb \in [Procs -> Nat] /\ lb2 \in [Procs -> Nat] /\ \A p \in Procs : lb[p] <= lb2[p]
  /\ IsChanges(chs) /\ IsChanges(chs2) /\ Later(chs, chs2, Changes)
  /\ rws \in Rows /\ rws2 \in Rows /\ Later(rws, rws2, Objects)

(* The calls once one of them has taken a step that left the store later.  *)
LEMMA CallsStep ==
  ASSUME NEW c \in Clients, NEW cs, NEW cs2, NEW v, NEW v2, NEW lb, NEW lb2,
         NEW chs, NEW chs2, NEW rws, NEW rws2, Onward(v, v2, lb, lb2, chs, chs2, rws, rws2),
         NEW h, HoldersAre(h, cs), CallsAre(cs, v, lb, chs, rws),
         DOMAIN cs2 = Clients, \A d \in Clients : d # c => cs2[d] = cs[d],
         cs2[c] = Idle \/ CallOK(cs2[c], c, v2, lb2[Proc(c)], chs2, rws2),
         \A p \in Procs : lb2[p] # lb[p] => p = Proc(c) /\ cs[c].pc \notin Free
  PROVE  CallsAre(cs2, v2, lb2, chs2, rws2)
<1>3. /\ v \in Nat /\ v2 \in Nat /\ v <= v2
      /\ lb \in [Procs -> Nat] /\ lb2 \in [Procs -> Nat] /\ \A p \in Procs : lb[p] <= lb2[p]
      /\ IsChanges(chs) /\ IsChanges(chs2) /\ Later(chs, chs2, Changes)
      /\ rws \in Rows /\ rws2 \in Rows /\ Later(rws, rws2, Objects)
  BY DEF Onward
<1>1. ASSUME NEW d \in Clients
      PROVE  cs2[d] = Idle \/ CallOK(cs2[d], d, v2, lb2[Proc(d)], chs2, rws2)
  <2>1. CASE d = c
    BY <2>1
  <2>2. CASE d # c
    <3>1. SUFFICES ASSUME cs[d] # Idle PROVE CallOK(cs[d], d, v2, lb2[Proc(d)], chs2, rws2)
      BY <2>2
    <3>2. CallOK(cs[d], d, v, lb[Proc(d)], chs, rws)
      BY <3>1 DEF CallsAre
    <3> DEFINE p == Proc(d)
               x == lb[p]
               y == lb2[p]
    <3>3. p \in Procs /\ x \in Nat /\ y \in Nat /\ x <= y
      BY <1>3, ProcIs
    <3>4. cs[d].pc = "install" => y = x
      <4>1. SUFFICES ASSUME cs[d].pc = "install", y # x PROVE FALSE
        OBVIOUS
      <4>2. p = Proc(c) /\ cs[c].pc \notin Free
        BY <3>3, <4>1
      <4>3. h[p] = c /\ h[p] = d
        BY <4>1, <4>2 DEF HoldersAre, Free
      <4>4. QED
        BY <2>2, <4>3
    <3>5. CallOK(cs[d], d, v, x, chs, rws)
      BY <3>2
    <3> HIDE DEF x, y
    <3>6. CallOK(cs[d], d, v2, y, chs2, rws2)
      BY <1>3, <3>3, <3>4, <3>5, CallKept
    <3>7. QED
      BY <3>6 DEF y
  <2>3. QED
    BY <2>1, <2>2
<1>2. QED
  BY <1>1 DEF CallsAre


(* How a step of c may move its process's mutex: not at all, where it is   *)
(* as far past it as before, taken where it is free, or let go.            *)
MutexMoves(c, h, h2, cs, cs2) ==
  \/ h2 = h /\ (cs[c].pc \in Free <=> cs2[c].pc \in Free)
  \/ h2 = [h EXCEPT ![Proc(c)] = c] /\ h[Proc(c)] = NoOne /\ cs2[c].pc \notin Free
  \/ h2 = [h EXCEPT ![Proc(c)] = NoOne] /\ cs[c].pc \notin Free /\ cs2[c].pc \in Free

LEMMA HoldersStep ==
  ASSUME NEW c \in Clients, NEW h, NEW h2, NEW cs, NEW cs2, HoldersAre(h, cs),
         \A d \in Clients : d # c => cs2[d] = cs[d], MutexMoves(c, h, h2, cs, cs2)
  PROVE  HoldersAre(h2, cs2)
<1>1. /\ h \in [Procs -> Clients \cup {NoOne}]
      /\ \A p \in Procs : h[p] # NoOne => Proc(h[p]) = p /\ cs[h[p]].pc \notin Free
      /\ \A d \in Clients : cs[d].pc \notin Free => h[Proc(d)] = d
  BY DEF HoldersAre
<1>2. NoOne \notin Clients
  BY VersionsAssumption
<1> DEFINE q == Proc(c)
<1>3. q \in Procs /\ \A d \in Clients : Proc(d) \in Procs
  BY ProcIs
<1> HIDE DEF q
<1>4. CASE h2 = h /\ (cs[c].pc \in Free <=> cs2[c].pc \in Free)
  <2>1. \A d \in Clients : cs2[d].pc \in Free <=> cs[d].pc \in Free
    BY <1>4
  <2>2. QED
    BY <1>1, <1>4, <2>1 DEF HoldersAre
<1>5. CASE h2 = [h EXCEPT ![q] = c] /\ h[q] = NoOne /\ cs2[c].pc \notin Free
  <2>1. h2 \in [Procs -> Clients \cup {NoOne}] /\ h2[q] = c /\ \A p \in Procs : p # q => h2[p] = h[p]
    BY <1>1, <1>3, <1>5
  <2>2. ASSUME NEW p \in Procs, h2[p] # NoOne PROVE Proc(h2[p]) = p /\ cs2[h2[p]].pc \notin Free
    <3>1. CASE p = q
      BY <1>5, <2>1, <3>1 DEF q
    <3>2. CASE p # q
      <4>1. h2[p] = h[p] /\ h[p] \in Clients /\ Proc(h[p]) = p /\ cs[h[p]].pc \notin Free
        BY <1>1, <2>1, <2>2, <3>2
      <4>2. h[p] # c
        BY <3>2, <4>1 DEF q
      <4>3. QED
        BY <4>1, <4>2
    <3>3. QED
      BY <3>1, <3>2
  <2>3. ASSUME NEW d \in Clients, cs2[d].pc \notin Free PROVE h2[Proc(d)] = d
    <3>1. CASE d = c
      BY <2>1, <3>1 DEF q
    <3>2. CASE d # c
      <4>1. h[Proc(d)] = d
        BY <1>1, <2>3, <3>2
      <4>2. Proc(d) # q
        BY <1>2, <1>5, <4>1
      <4>3. QED
        BY <1>3, <2>1, <4>1, <4>2
    <3>3. QED
      BY <3>1, <3>2
  <2>4. QED
    BY <2>1, <2>2, <2>3 DEF HoldersAre
<1>6. CASE h2 = [h EXCEPT ![q] = NoOne] /\ cs[c].pc \notin Free /\ cs2[c].pc \in Free
  <2>1. h2 \in [Procs -> Clients \cup {NoOne}] /\ h2[q] = NoOne /\ \A p \in Procs : p # q => h2[p] = h[p]
    BY <1>1, <1>3, <1>6
  <2>2. ASSUME NEW p \in Procs, h2[p] # NoOne PROVE Proc(h2[p]) = p /\ cs2[h2[p]].pc \notin Free
    <3>1. p # q /\ h2[p] = h[p] /\ h[p] \in Clients /\ Proc(h[p]) = p /\ cs[h[p]].pc \notin Free
      BY <1>1, <2>1, <2>2
    <3>2. h[p] # c
      BY <3>1 DEF q
    <3>3. QED
      BY <3>1, <3>2
  <2>3. ASSUME NEW d \in Clients, cs2[d].pc \notin Free PROVE h2[Proc(d)] = d
    <3>1. d # c /\ h[Proc(d)] = d
      BY <1>1, <1>6, <2>3
    <3>2. h[q] = c
      BY <1>1, <1>6 DEF q
    <3>3. Proc(d) # q
      BY <3>1, <3>2
    <3>4. QED
      BY <1>3, <2>1, <3>1, <3>3
  <2>4. QED
    BY <2>1, <2>2, <2>3 DEF HoldersAre
<1>7. QED
  BY <1>4, <1>5, <1>6 DEF MutexMoves, q

(* A call that goes on to a place of the program that says nothing of what *)
(* it has read.                                                            *)
LEMMA CallMoves ==
  ASSUME NEW c \in Clients, NEW r, NEW r2, NEW v, NEW loaded, NEW chs, NEW rws,
         CallOK(r, c, v, loaded, chs, rws), DOMAIN r2 = Fields,
         r2.call = r.call, r2.began = r.began, r2.asked = r.asked,
         r2.prepVer = r.prepVer, r2.prepared = r.prepared, r2.drawn \in Nat,
         r2.reloaded => r2.began <= loaded, r.pc # "dryread",
         r2.pc \in {"begin", "key", "batch", "keep", "attempt", "decide"},
         r2.pc \in {"key", "batch"} => r.call.kind = "batch",
         r2.pc = "decide" => r.call.kind = "publish"
  PROVE  CallOK(r2, c, v, loaded, chs, rws)
<1>1. CallShape(r2, c)
  BY DEF CallOK, CallShape, Pcs
<1>2. TimeOK(r2, v, loaded)
  BY DEF CallOK, TimeOK
<1>3. PrepOK(r2, chs)
  BY DEF CallOK, PrepOK
<1>4. SnapOK(r2, chs, rws, loaded)
  BY DEF SnapOK
<1>5. QED
  BY <1>1, <1>2, <1>3, <1>4 DEF CallOK


-----------------------------------------------------------------------------
(* The steps that leave the store as it is.                                *)

(* A step of c is one of its call alone.                                   *)
OnlyOf(c) == DOMAIN calls' = Clients /\ \A d \in Clients : d # c => calls'[d] = calls[d]

LEMMA StoreKept ==
  ASSUME VersionsInv, NEW c \in Clients, UNCHANGED <<declared, rows, changes, log, keys>>,
         lib' \in [Procs -> Nat], \A p \in Procs : lib[p] <= lib'[p] /\ lib'[p] <= Version,
         \A p \in Procs : lib'[p] # lib[p] => p = Proc(c) /\ calls[c].pc \notin Free,
         next' \in Nat, next' >= 1, OnlyOf(c),
         calls'[c] = Idle \/ CallOK(calls'[c], c, Version, lib'[Proc(c)], changes, rows),
         MutexMoves(c, holder, holder', calls, calls')
  PROVE  VersionsInv'
<1>1. StoreOK /\ CallsOK /\ HolderOK /\ LogOK(log, rows, changes, keys) /\ KeysOK /\ ReportIsOfItsChange
  BY DEF VersionsInv
<1>2. Version' = Version /\ Version \in Nat
  BY <1>1 DEF Version, StoreOK
<1>3. StoreOK'
  <2>1. \A p \in Procs : lib'[p] \in 1..Version
    <3>1. ASSUME NEW p \in Procs PROVE lib'[p] \in 1..Version
      <4>1. lib[p] \in 1..Version /\ lib'[p] \in Nat /\ lib[p] <= lib'[p] /\ lib'[p] <= Version
        BY <1>1 DEF StoreOK
      <4>2. QED
        BY <1>2, <4>1
    <3>2. QED
      BY <3>1
  <2>2. QED
    BY <1>1, <1>2, <2>1 DEF StoreOK
<1>4. CallsOK'
  <2> DEFINE cs2 == calls'
             lb2 == lib'
             v == Version
  <2>1. /\ v \in Nat /\ v <= v /\ lib \in [Procs -> Nat] /\ IsChanges(changes) /\ rows \in Rows
        /\ HoldersAre(holder, calls) /\ CallsAre(calls, v, lib, changes, rows)
    BY <1>1, <1>2 DEF StoreOK, HolderOK, CallsOK
  <2>2. Later(changes, changes, Changes) /\ Later(rows, rows, Objects)
    <3>1. \A k \in Changes : changes[k].ver \in Nat
      BY <2>1 DEF IsChanges, IsChange
    <3>2. \A o \in Objects : rows[o].ver \in Nat
      BY <2>1, RowsAre
    <3>3. QED
      BY <3>1, <3>2, LaterSelf
  <2>3. /\ lb2 \in [Procs -> Nat] /\ \A p \in Procs : lib[p] <= lb2[p]
        /\ \A p \in Procs : lb2[p] # lib[p] => p = Proc(c) /\ calls[c].pc \notin Free
    OBVIOUS
  <2>4. DOMAIN cs2 = Clients /\ \A d \in Clients : d # c => cs2[d] = calls[d]
    BY DEF OnlyOf
  <2>5. cs2[c] = Idle \/ CallOK(cs2[c], c, v, lb2[Proc(c)], changes, rows)
    OBVIOUS
  <2> HIDE DEF cs2, lb2, v
  <2>9. Onward(v, v, lib, lb2, changes, changes, rows, rows)
    BY <2>1, <2>2, <2>3 DEF Onward
  <2>6. CallsAre(cs2, v, lb2, changes, rows)
    BY <2>1, <2>3, <2>4, <2>5, <2>9, CallsStep
  <2>7. CallsAre(calls', Version', lib', changes', rows')
    BY <1>2, <2>6 DEF cs2, lb2, v
  <2>8. QED
    BY <2>7 DEF CallsOK
<1>5. HolderOK'
  <2> DEFINE cs2 == calls'
             h2 == holder'
  <2>1. HoldersAre(holder, calls) /\ MutexMoves(c, holder, h2, calls, cs2)
    BY <1>1 DEF HolderOK
  <2>2. \A d \in Clients : d # c => cs2[d] = calls[d]
    BY DEF OnlyOf
  <2> HIDE DEF cs2, h2
  <2>3. HoldersAre(h2, cs2)
    BY <2>1, <2>2, HoldersStep
  <2>4. QED
    BY <2>3 DEF cs2, h2, HolderOK
<1>6. LogOK(log, rows, changes, keys)' /\ KeysOK' /\ ReportIsOfItsChange'
  <2>1. LogOK(log', rows', changes', keys')
    BY <1>1
  <2>2. KeysOK'
    BY <1>1 DEF KeysOK
  <2>3. ReportIsOfItsChange'
    BY <1>1 DEF ReportIsOfItsChange, Version
  <2>4. QED
    BY <2>1, <2>2, <2>3
<1>7. QED
  BY <1>3, <1>4, <1>5, <1>6 DEF VersionsInv

(* Where the loaded versions stay too.                                     *)
LEMMA StoreAndLibKept ==
  ASSUME VersionsInv, NEW c \in Clients, UNCHANGED <<declared, rows, changes, log, keys, lib>>,
         next' \in Nat, next' >= 1, OnlyOf(c),
         calls'[c] = Idle \/ CallOK(calls'[c], c, Version, lib[Proc(c)], changes, rows),
         MutexMoves(c, holder, holder', calls, calls')
  PROVE  VersionsInv'
<1>1. lib \in [Procs -> Nat] /\ Version \in Nat /\ \A p \in Procs : lib[p] \in 1..Version
  BY DEF VersionsInv, StoreOK, Version
<1>2. lib' \in [Procs -> Nat] /\ \A p \in Procs : lib[p] <= lib'[p] /\ lib'[p] <= Version
  BY <1>1
<1>3. calls'[c] = Idle \/ CallOK(calls'[c], c, Version, lib'[Proc(c)], changes, rows)
  OBVIOUS
<1>4. QED
  BY <1>2, <1>3, StoreKept

(* The call of a client inside one.                                        *)
LEMMA CallIs ==
  ASSUME VersionsInv, NEW c \in Clients, calls[c].pc # "idle"
  PROVE  /\ CallOK(calls[c], c, Version, lib[Proc(c)], changes, rows) /\ DOMAIN calls = Clients
         /\ calls[c] # Idle /\ DOMAIN calls[c] = Fields /\ Call(c) \in Calls[c] /\ IsCall(Call(c))
<1>1. calls[c] # Idle
  BY DEF Idle
<1>2. CallOK(calls[c], c, Version, lib[Proc(c)], changes, rows) /\ DOMAIN calls = Clients
  BY <1>1 DEF VersionsInv, CallsOK, CallsAre
<1>3. DOMAIN calls[c] = Fields /\ Call(c) \in Calls[c]
  BY <1>2 DEF CallOK, CallShape, Call
<1>4. QED
  BY <1>1, <1>2, <1>3, VersionsAssumption


LEMMA NextIs == VersionsInv => next \in Nat /\ next >= 1 /\ Version \in Nat /\ Version >= 1
  BY DEF VersionsInv, StoreOK, Version

LEMMA IdleIs == Idle.pc = "idle" /\ "idle" \in Free
  BY DEF Idle, Free

LEMMA CallsDomain == VersionsInv => DOMAIN calls = Clients
  BY DEF VersionsInv, CallsOK, CallsAre

LEMMA AskStep ==
  ASSUME VersionsInv, NEW c \in Clients, NEW call \in Calls[c], Ask(c, call)
  PROVE  VersionsInv'
<1> DEFINE r2 == calls'[c]
<1>1. DOMAIN calls = Clients /\ calls[c] = Idle
  BY CallsDomain DEF Ask
<1>2. OnlyOf(c)
  BY <1>1 DEF Ask, OnlyOf
<1>3. r2 = [pc |-> Starts(call), call |-> call, reloaded |-> FALSE, asked |-> [v \in {} |-> ""],
        count |-> 0, prepared |-> NoReport, prepVer |-> None, began |-> Version,
        expected |-> Expected(call), about |-> None, drawn |-> None, fails |-> FALSE, snap |-> NoSnap]
  BY <1>1 DEF Ask
<1>4. /\ DOMAIN r2 = Fields /\ r2.pc = Starts(call) /\ r2.call = call /\ r2.reloaded = FALSE
      /\ DOMAIN r2.asked = {} /\ r2.prepVer = None /\ r2.began = Version /\ r2.drawn = None
  BY <1>3 DEF Fields
<1>5. /\ r2.pc \in {"dryread", "ready"} /\ (call.kind \in {"submit", "refresh"} <=> r2.pc = "dryread")
  BY <1>4 DEF Starts
<1> HIDE DEF r2
<1>6. CallShape(r2, c)
  BY <1>4, <1>5 DEF CallShape, Pcs, None
<1>7. TimeOK(r2, Version, lib[Proc(c)])
  BY <1>4, NextIs DEF TimeOK
<1>8. PrepOK(r2, changes) /\ SnapOK(r2, changes, rows, lib[Proc(c)])
  BY <1>4, <1>5 DEF PrepOK, SnapOK
<1>9. CallOK(r2, c, Version, lib[Proc(c)], changes, rows)
  BY <1>6, <1>7, <1>8 DEF CallOK
<1>10. MutexMoves(c, holder, holder', calls, calls')
  BY <1>1, <1>5, IdleIs DEF MutexMoves, Free, Ask, r2
<1>11. UNCHANGED <<declared, rows, changes, log, keys, lib, next>>
  BY DEF Ask
<1>12. QED
  BY <1>2, <1>9, <1>10, <1>11, NextIs, StoreAndLibKept DEF r2

LEMMA DryReadStep ==
  ASSUME VersionsInv, NEW c \in Clients, DryRead(c)
  PROVE  VersionsInv'
<1> DEFINE r == calls[c]
           r2 == calls'[c]
           k == Call(c).change
           ch == changes[k]
           p2 == IF Open(ch) THEN "dryimpact" ELSE "ready"
<1>1. r.pc = "dryread"
  BY DEF DryRead
<1>2. /\ CallOK(r, c, Version, lib[Proc(c)], changes, rows) /\ DOMAIN calls = Clients
      /\ DOMAIN r = Fields /\ Call(c) \in Calls[c]
  BY <1>1, CallIs
<1>3. calls' = [calls EXCEPT ![c].pc = p2, ![c].prepVer = ch.ver, ![c].prepared = [at |-> None, source |-> ch.source]]
  BY DEF DryRead
<1>4. OnlyOf(c)
  BY <1>2, <1>3 DEF OnlyOf
<1>5. /\ DOMAIN r2 = Fields /\ r2.pc = p2 /\ r2.prepVer = ch.ver /\ r2.prepared.source = ch.source
      /\ r2.call = r.call /\ r2.began = r.began /\ r2.asked = r.asked /\ r2.reloaded = r.reloaded
      /\ r2.drawn = r.drawn
  BY <1>2, <1>3 DEF Fields
<1>6. r.call.kind \in {"submit", "refresh"} /\ p2 \in {"dryimpact", "ready"} /\ Call(c) = r.call
  BY <1>1, <1>2 DEF CallOK, CallShape, Call
<1>7. ch.ver \in Nat
  <2>1. k \in Changes
    BY <1>2, <1>6, ChangeOf DEF ChangeKinds
  <2>2. QED
    BY <2>1 DEF VersionsInv, StoreOK, IsChanges, IsChange
<1>8. CallShape(r2, c)
  BY <1>1, <1>2, <1>5, <1>6, <1>7 DEF CallOK, CallShape, Pcs
<1>9. TimeOK(r2, Version, lib[Proc(c)])
  BY <1>2, <1>5 DEF CallOK, TimeOK
<1>10. PrepOK(r2, changes)
  BY <1>5, <1>6, <1>7 DEF PrepOK
<1>11. SnapOK(r2, changes, rows, lib[Proc(c)])
  BY <1>5, <1>6 DEF SnapOK
<1>12. CallOK(r2, c, Version, lib[Proc(c)], changes, rows)
  BY <1>8, <1>9, <1>10, <1>11 DEF CallOK
<1>13. MutexMoves(c, holder, holder', calls, calls')
  BY <1>1, <1>5, <1>6 DEF MutexMoves, Free, DryRead
<1>14. UNCHANGED <<declared, rows, changes, log, keys, lib, next>>
  BY DEF DryRead
<1>15. QED
  BY <1>4, <1>12, <1>13, <1>14, NextIs, StoreAndLibKept

LEMMA DryImpactStep ==
  ASSUME VersionsInv, NEW c \in Clients, DryImpact(c)
  PROVE  VersionsInv'
<1> DEFINE r == calls[c]
           r2 == calls'[c]
           rep == Report(r.prepared.source, Call(c).change, rows, changes, Version)
<1>1. r.pc = "dryimpact"
  BY DEF DryImpact
<1>2. /\ CallOK(r, c, Version, lib[Proc(c)], changes, rows) /\ DOMAIN calls = Clients
      /\ DOMAIN r = Fields /\ Call(c) \in Calls[c]
  BY <1>1, CallIs
<1>3. calls' = [calls EXCEPT ![c].pc = "ready", ![c].prepared = rep]
  BY <1>2 DEF DryImpact, Fields
<1>4. OnlyOf(c)
  BY <1>2, <1>3 DEF OnlyOf
<1>5. rep.source = r.prepared.source
  BY DEF Report
<1> HIDE DEF rep
<1>6. /\ DOMAIN r2 = Fields /\ r2.pc = "ready" /\ r2.prepVer = r.prepVer /\ r2.prepared = rep
      /\ r2.call = r.call /\ r2.began = r.began /\ r2.asked = r.asked /\ r2.reloaded = r.reloaded
      /\ r2.drawn = r.drawn
  BY <1>2, <1>3 DEF Fields
<1>8. CallShape(r2, c)
  BY <1>1, <1>2, <1>6 DEF CallOK, CallShape, Pcs
<1>9. TimeOK(r2, Version, lib[Proc(c)])
  BY <1>2, <1>6 DEF CallOK, TimeOK
<1>10. PrepOK(r2, changes)
  BY <1>1, <1>2, <1>5, <1>6 DEF CallOK, PrepOK
<1>11. SnapOK(r2, changes, rows, lib[Proc(c)])
  BY <1>6 DEF SnapOK
<1>12. CallOK(r2, c, Version, lib[Proc(c)], changes, rows)
  BY <1>8, <1>9, <1>10, <1>11 DEF CallOK
<1>13. MutexMoves(c, holder, holder', calls, calls')
  BY <1>1, <1>6 DEF MutexMoves, Free, DryImpact
<1>14. UNCHANGED <<declared, rows, changes, log, keys, lib, next>>
  BY DEF DryImpact
<1>15. QED
  BY <1>4, <1>12, <1>13, <1>14, NextIs, StoreAndLibKept

LEMMA DryLateStep ==
  ASSUME VersionsInv, NEW c \in Clients, DryLate(c)
  PROVE  VersionsInv'
<1>1. DOMAIN calls = Clients /\ calls' = [calls EXCEPT ![c] = Idle] /\ calls[c].pc \in {"dryread", "dryimpact"}
  BY CallsDomain DEF DryLate
<1>2. OnlyOf(c) /\ calls'[c] = Idle
  BY <1>1 DEF OnlyOf
<1>3. MutexMoves(c, holder, holder', calls, calls')
  BY <1>1, <1>2, IdleIs DEF MutexMoves, Free, DryLate
<1>4. UNCHANGED <<declared, rows, changes, log, keys, lib, next>>
  BY DEF DryLate
<1>5. QED
  BY <1>2, <1>3, <1>4, NextIs, StoreAndLibKept


LEMMA EnterStep ==
  ASSUME VersionsInv, NEW c \in Clients, Enter(c)
  PROVE  VersionsInv'
<1> DEFINE r == calls[c]
           r2 == calls'[c]
           p2 == CASE Call(c).kind = "batch" -> "key" [] Call(c).kind = "publish" -> "decide" [] OTHER -> "begin"
<1>1. r.pc = "ready"
  BY DEF Enter
<1>2. /\ CallOK(r, c, Version, lib[Proc(c)], changes, rows) /\ DOMAIN calls = Clients
      /\ DOMAIN r = Fields
  BY <1>1, CallIs
<1>3. calls' = [calls EXCEPT ![c].pc = p2]
  BY DEF Enter
<1>4. OnlyOf(c)
  BY <1>2, <1>3 DEF OnlyOf
<1>5. /\ p2 \in {"key", "decide", "begin"} /\ (p2 = "key" => Call(c).kind = "batch")
      /\ (p2 = "decide" => Call(c).kind = "publish") /\ Call(c) = r.call
  BY DEF Call
<1> HIDE DEF p2
<1>6. /\ DOMAIN r2 = Fields /\ r2.pc = p2 /\ r2.prepVer = r.prepVer /\ r2.prepared = r.prepared
      /\ r2.call = r.call /\ r2.began = r.began /\ r2.asked = r.asked /\ r2.reloaded = r.reloaded
      /\ r2.drawn = r.drawn
  BY <1>2, <1>3 DEF Fields
<1>7. r2.drawn \in Nat /\ (r2.reloaded => r2.began <= lib[Proc(c)])
  BY <1>2, <1>6 DEF CallOK, CallShape, TimeOK
<1> DEFINE l == lib[Proc(c)]
<1> HIDE DEF r, r2, l
<1>12. CallOK(r2, c, Version, l, changes, rows)
  BY <1>1, <1>2, <1>5, <1>6, <1>7, CallMoves DEF l
<1>13. MutexMoves(c, holder, holder', calls, calls')
  BY <1>5, <1>6 DEF MutexMoves, Free, Enter, r2
<1>14. UNCHANGED <<declared, rows, changes, log, keys, lib, next>>
  BY DEF Enter
<1>15. QED
  BY <1>4, <1>12, <1>13, <1>14, NextIs, StoreAndLibKept DEF r2, l

LEMMA ReloadStep ==
  ASSUME VersionsInv, NEW c \in Clients, Reload(c)
  PROVE  VersionsInv'
<1> DEFINE r == calls[c]
           r2 == calls'[c]
           q == Proc(c)
<1>1. r.pc = "begin"
  BY DEF Reload
<1>2. /\ CallOK(r, c, Version, lib[q], changes, rows) /\ DOMAIN calls = Clients
      /\ DOMAIN r = Fields /\ q \in Procs
  BY <1>1, CallIs, ProcIs
<1>3. calls' = [calls EXCEPT ![c].reloaded = TRUE] /\ lib' = [lib EXCEPT ![q] = Version]
  BY DEF Reload
<1>4. OnlyOf(c)
  BY <1>2, <1>3 DEF OnlyOf
<1>5. lib \in [Procs -> Nat] /\ Version \in Nat /\ \A p \in Procs : lib[p] \in 1..Version
  BY DEF VersionsInv, StoreOK, Version
<1>6. /\ lib' \in [Procs -> Nat] /\ lib'[q] = Version
      /\ \A p \in Procs : p # q => lib'[p] = lib[p]
  BY <1>2, <1>3, <1>5
<1>7. \A p \in Procs : lib[p] <= lib'[p] /\ lib'[p] <= Version
  BY <1>5, <1>6
<1>8. /\ DOMAIN r2 = Fields /\ r2.pc = "begin" /\ r2.prepVer = r.prepVer /\ r2.prepared = r.prepared
      /\ r2.call = r.call /\ r2.began = r.began /\ r2.asked = r.asked /\ r2.drawn = r.drawn
  BY <1>1, <1>2, <1>3 DEF Fields
<1> DEFINE l == lib'[q]
<1>9. CallShape(r2, c) /\ PrepOK(r2, changes)
  BY <1>1, <1>2, <1>8 DEF CallOK, CallShape, PrepOK
<1>10. TimeOK(r2, Version, l)
  BY <1>2, <1>5, <1>6, <1>8 DEF CallOK, TimeOK
<1>11. SnapOK(r2, changes, rows, l)
  BY <1>8 DEF SnapOK
<1>12. CallOK(r2, c, Version, l, changes, rows)
  BY <1>9, <1>10, <1>11 DEF CallOK
<1>13. MutexMoves(c, holder, holder', calls, calls')
  BY <1>1, <1>8 DEF MutexMoves, Free, Reload
<1>14. UNCHANGED <<declared, rows, changes, log, keys, next>>
  BY DEF Reload
<1>15. \A p \in Procs : lib'[p] # lib[p] => p = Proc(c) /\ calls[c].pc \notin Free
  BY <1>1, <1>6 DEF Free
<1>16. QED
  BY <1>4, <1>6, <1>7, <1>12, <1>13, <1>14, <1>15, NextIs, StoreKept

(* Refused, with the number it drew to be kept.                            *)
LEMMA KeepStep ==
  ASSUME VersionsInv, NEW c \in Clients, NEW n \in Nat, calls[c].pc = "begin", Keep(c, n)
  PROVE  VersionsInv'
<1> DEFINE r == calls[c]
           r2 == calls'[c]
           l == lib[Proc(c)]
<1>2. /\ CallOK(r, c, Version, l, changes, rows) /\ DOMAIN calls = Clients
      /\ DOMAIN r = Fields
  BY CallIs
<1>3. calls' = [calls EXCEPT ![c].pc = "keep", ![c].drawn = n]
  BY DEF Keep
<1>4. OnlyOf(c)
  BY <1>2, <1>3 DEF OnlyOf
<1>6. /\ DOMAIN r2 = Fields /\ r2.pc = "keep" /\ r2.prepVer = r.prepVer /\ r2.prepared = r.prepared
      /\ r2.call = r.call /\ r2.began = r.began /\ r2.asked = r.asked /\ r2.reloaded = r.reloaded
      /\ r2.drawn = n
  BY <1>2, <1>3 DEF Fields
<1>7. r2.drawn \in Nat /\ (r2.reloaded => r2.began <= l) /\ r.pc = "begin"
  BY <1>2, <1>6 DEF CallOK, TimeOK
<1>13. MutexMoves(c, holder, holder', calls, calls')
  BY <1>6 DEF MutexMoves, Free, Keep
<1> HIDE DEF r, r2, l
<1>12. CallOK(r2, c, Version, l, changes, rows)
  BY <1>2, <1>6, <1>7, CallMoves
<1>14. UNCHANGED <<declared, rows, changes, log, keys, lib, next>>
  BY DEF Keep
<1>15. QED
  BY <1>4, <1>12, <1>13, <1>14, NextIs, StoreAndLibKept DEF r2, l

LEMMA KeepDrawsStep ==
  ASSUME VersionsInv, NEW c \in Clients, KeepDraws(c)
  PROVE  VersionsInv'
<1> DEFINE r == calls[c]
           r2 == calls'[c]
           l == lib[Proc(c)]
<1>1. r.pc = "keep"
  BY DEF KeepDraws
<1>2. /\ CallOK(r, c, Version, l, changes, rows) /\ DOMAIN calls = Clients
      /\ DOMAIN r = Fields
  BY <1>1, CallIs
<1>3. calls' = [calls EXCEPT ![c].pc = "attempt"]
  BY DEF KeepDraws
<1>4. OnlyOf(c)
  BY <1>2, <1>3 DEF OnlyOf
<1>6. /\ DOMAIN r2 = Fields /\ r2.pc = "attempt" /\ r2.prepVer = r.prepVer /\ r2.prepared = r.prepared
      /\ r2.call = r.call /\ r2.began = r.began /\ r2.asked = r.asked /\ r2.reloaded = r.reloaded
      /\ r2.drawn = r.drawn
  BY <1>2, <1>3 DEF Fields
<1>7. r2.drawn \in Nat /\ (r2.reloaded => r2.began <= l)
  BY <1>2, <1>6 DEF CallOK, CallShape, TimeOK
<1>13. MutexMoves(c, holder, holder', calls, calls')
  BY <1>1, <1>6 DEF MutexMoves, Free, KeepDraws
<1>14. UNCHANGED <<declared, rows, changes, log, keys, lib>>
  BY DEF KeepDraws
<1>8. next' \in Nat /\ next' >= 1
  <2>1. r.drawn \in Nat /\ next \in Nat /\ next >= 1
    BY <1>6, <1>7, NextIs
  <2>2. next' = next \/ next' = r.drawn + 1
    BY DEF KeepDraws, Kept
  <2>3. QED
    BY <2>1, <2>2
<1> HIDE DEF r, r2, l
<1>12. CallOK(r2, c, Version, l, changes, rows)
  BY <1>1, <1>2, <1>6, <1>7, CallMoves
<1>15. QED
  BY <1>4, <1>8, <1>12, <1>13, <1>14, StoreAndLibKept DEF r2, l

LEMMA AttemptStep ==
  ASSUME VersionsInv, NEW c \in Clients, Attempt(c)
  PROVE  VersionsInv'
<1>1. DOMAIN calls = Clients /\ calls' = [calls EXCEPT ![c] = Idle] /\ calls[c].pc = "attempt"
  BY CallsDomain DEF Attempt, Answer
<1>2. OnlyOf(c) /\ calls'[c] = Idle
  BY <1>1 DEF OnlyOf
<1>3. MutexMoves(c, holder, holder', calls, calls')
  BY <1>1, <1>2, IdleIs DEF MutexMoves, Free, Attempt, Answer
<1>4. UNCHANGED <<declared, rows, changes, log, keys, lib, next>>
  BY DEF Attempt
<1>5. QED
  BY <1>2, <1>3, <1>4, NextIs, StoreAndLibKept

LEMMA BatchKeyStep ==
  ASSUME VersionsInv, NEW c \in Clients, BatchKey(c)
  PROVE  VersionsInv'
<1>1. DOMAIN calls = Clients /\ calls[c].pc = "key" /\ UNCHANGED <<declared, rows, changes, log, keys, lib, next>>
  BY CallsDomain DEF BatchKey
<1>2. CASE Answer(c)
  <2>1. OnlyOf(c) /\ calls'[c] = Idle
    BY <1>1, <1>2 DEF OnlyOf, Answer
  <2>2. MutexMoves(c, holder, holder', calls, calls')
    BY <1>1, <1>2, <2>1, IdleIs DEF MutexMoves, Free, Answer
  <2>3. QED
    BY <1>1, <2>1, <2>2, NextIs, StoreAndLibKept
<1>3. CASE calls' = [calls EXCEPT ![c].pc = "batch"] /\ UNCHANGED holder
  <2> DEFINE r == calls[c]
             r2 == calls'[c]
             l == lib[Proc(c)]
  <2>2. CallOK(r, c, Version, l, changes, rows) /\ DOMAIN r = Fields
    BY <1>1, CallIs
  <2>3. OnlyOf(c)
    BY <1>1, <1>3 DEF OnlyOf
  <2>4. /\ DOMAIN r2 = Fields /\ r2.pc = "batch" /\ r2.prepVer = r.prepVer /\ r2.prepared = r.prepared
        /\ r2.call = r.call /\ r2.began = r.began /\ r2.asked = r.asked /\ r2.reloaded = r.reloaded
        /\ r2.drawn = r.drawn
    BY <1>1, <1>3, <2>2 DEF Fields
  <2>5. r2.drawn \in Nat /\ (r2.reloaded => r2.began <= l) /\ r.call.kind = "batch" /\ r.pc = "key"
    BY <1>1, <2>2, <2>4 DEF CallOK, CallShape, TimeOK
  <2>6. MutexMoves(c, holder, holder', calls, calls')
    BY <1>1, <1>3, <2>4 DEF MutexMoves, Free
  <2> HIDE DEF r, r2, l
  <2>7. CallOK(r2, c, Version, l, changes, rows)
    BY <2>2, <2>4, <2>5, CallMoves
  <2>8. QED
    BY <1>1, <2>3, <2>6, <2>7, NextIs, StoreAndLibKept DEF r2, l
<1>4. QED
  BY <1>2, <1>3 DEF BatchKey


LEMMA AskingStep ==
  ASSUME VersionsInv, NEW c \in Clients, Asking(c)
  PROVE  VersionsInv'
<1> DEFINE r == calls[c]
           r2 == calls'[c]
           l == lib[Proc(c)]
           v == r.about
<1>1. r.pc = "asking" /\ UNCHANGED <<declared, rows, changes, log, keys, lib, next, holder>>
  BY DEF Asking
<1>2. CallOK(r, c, Version, l, changes, rows) /\ DOMAIN r = Fields /\ DOMAIN calls = Clients
  BY <1>1, CallIs
<1>3. CASE calls' = [calls EXCEPT ![c] = Idle]
  <2>1. OnlyOf(c) /\ calls'[c] = Idle
    BY <1>2, <1>3 DEF OnlyOf
  <2>2. MutexMoves(c, holder, holder', calls, calls')
    BY <1>1, <2>1, IdleIs DEF MutexMoves, Free
  <2>3. QED
    BY <1>1, <2>1, <2>2, NextIs, StoreAndLibKept
<1>4. ASSUME NEW said,
             calls' = [calls EXCEPT ![c].pc = "ready", ![c].count = @ + 1,
                         ![c].asked = [w \in DOMAIN @ \cup {v} |-> IF w = v THEN said ELSE @[w]]]
      PROVE  VersionsInv'
  <2>1. OnlyOf(c)
    BY <1>2, <1>4 DEF OnlyOf
  <2>2. /\ DOMAIN r2 = Fields /\ r2.pc = "ready" /\ r2.prepVer = r.prepVer /\ r2.prepared = r.prepared
        /\ r2.call = r.call /\ r2.began = r.began /\ r2.reloaded = r.reloaded
        /\ r2.drawn = r.drawn
    BY <1>2, <1>4 DEF Fields
  <2>3. DOMAIN r2.asked = DOMAIN r.asked \cup {v}
    BY <1>2, <1>4 DEF Fields
  <2>4. CallShape(r2, c)
    BY <1>1, <1>2, <2>2, <2>3 DEF CallOK, CallShape, Pcs
  <2>5. TimeOK(r2, Version, l)
    BY <1>2, <2>2 DEF CallOK, TimeOK
  <2>6. PrepOK(r2, changes)
    BY <1>1, <1>2, <2>2 DEF CallOK, PrepOK
  <2>7. SnapOK(r2, changes, rows, l)
    BY <2>2 DEF SnapOK
  <2>8. CallOK(r2, c, Version, l, changes, rows)
    BY <2>4, <2>5, <2>6, <2>7 DEF CallOK
  <2>9. MutexMoves(c, holder, holder', calls, calls')
    BY <1>1, <2>2 DEF MutexMoves, Free
  <2>10. QED
    BY <1>1, <2>1, <2>8, <2>9, NextIs, StoreAndLibKept
<1>5. QED
  BY <1>3, <1>4 DEF Asking

(* A write stopped at its evaluator's call.                                *)
LEMMA StoppedStep ==
  ASSUME VersionsInv, NEW c \in Clients, calls[c].pc = "begin", Call(c).kind = "write", Call(c).consults,
         NEW v \in Values,
         calls' = [calls EXCEPT ![c].pc = "asking", ![c].reloaded = FALSE, ![c].about = v],
         holder' = [holder EXCEPT ![Proc(c)] = NoOne],
         UNCHANGED <<declared, rows, changes, log, keys, next, attempts, lib, crashes>>
  PROVE  VersionsInv'
<1> DEFINE r == calls[c]
           r2 == calls'[c]
           l == lib[Proc(c)]
<1>1. CallOK(r, c, Version, l, changes, rows) /\ DOMAIN r = Fields /\ DOMAIN calls = Clients
  BY CallIs
<1>2. OnlyOf(c)
  BY <1>1 DEF OnlyOf
<1>3. /\ DOMAIN r2 = Fields /\ r2.pc = "asking" /\ r2.prepVer = r.prepVer /\ r2.prepared = r.prepared
      /\ r2.call = r.call /\ r2.began = r.began /\ r2.reloaded = FALSE /\ r2.asked = r.asked
      /\ r2.drawn = r.drawn /\ r2.about = v
  BY <1>1 DEF Fields
<1>4. CallShape(r2, c)
  BY <1>1, <1>3 DEF CallOK, CallShape, Pcs, Call
<1>5. TimeOK(r2, Version, l)
  BY <1>1, <1>3 DEF CallOK, TimeOK
<1>6. PrepOK(r2, changes)
  BY <1>1, <1>3 DEF CallOK, PrepOK
<1>7. SnapOK(r2, changes, rows, l)
  BY <1>3 DEF SnapOK
<1>8. CallOK(r2, c, Version, l, changes, rows)
  BY <1>4, <1>5, <1>6, <1>7 DEF CallOK
<1>9. MutexMoves(c, holder, holder', calls, calls')
  BY <1>3 DEF MutexMoves, Free
<1>10. QED
  BY <1>2, <1>8, <1>9, NextIs, StoreAndLibKept

LEMMA DecideStep ==
  ASSUME VersionsInv, NEW c \in Clients, Decide(c)
  PROVE  VersionsInv'
<1> DEFINE r == calls[c]
           r2 == calls'[c]
           l == lib[Proc(c)]
           k == Call(c).change
           ch == changes[k]
           rep == Report(ch.source, k, rows, changes, l)
           snap == [rows |-> rows, changes |-> changes, report |-> rep]
<1>1. r.pc = "decide" /\ UNCHANGED <<declared, rows, changes, log, keys, lib, next, holder>>
  BY DEF Decide
<1>2. CallOK(r, c, Version, l, changes, rows) /\ DOMAIN r = Fields /\ DOMAIN calls = Clients /\ Call(c) \in Calls[c]
  BY <1>1, CallIs
<1>3. r.call.kind = "publish" /\ Call(c) = r.call
  BY <1>1, <1>2 DEF CallOK, CallShape, Call
<1>4. k \in Changes
  BY <1>2, <1>3, ChangeOf
<1>5. IsChanges(changes) /\ rows \in Rows
  BY DEF VersionsInv, StoreOK
<1>6. CASE calls' = [calls EXCEPT ![c].pc = "install", ![c].snap = snap] /\ ch.state = "SUBMITTED" /\ ch.base = l
  <2>1. OnlyOf(c)
    BY <1>2, <1>6 DEF OnlyOf
  <2>2. /\ rep.source = ch.source /\ rep.superseded \subseteq Changes \ {k}
        /\ \A m \in rep.superseded : Open(changes[m])
        /\ Migrates(rep) \subseteq Objects
    BY DEF Report, Migrates
  <2> HIDE DEF rep
  <2>3. snap.rows = rows /\ snap.changes = changes /\ snap.report = rep
    OBVIOUS
  <2> HIDE DEF snap
  <2>4. /\ DOMAIN r2 = Fields /\ r2.pc = "install" /\ r2.prepVer = r.prepVer /\ r2.prepared = r.prepared
        /\ r2.call = r.call /\ r2.began = r.began /\ r2.reloaded = r.reloaded /\ r2.asked = r.asked
        /\ r2.drawn = r.drawn /\ r2.snap = snap
    BY <1>2, <1>6 DEF Fields
  <2>5. CallShape(r2, c)
    BY <1>1, <1>2, <1>3, <2>4 DEF CallOK, CallShape, Pcs
  <2>6. TimeOK(r2, Version, l)
    BY <1>2, <2>4 DEF CallOK, TimeOK
  <2>7. PrepOK(r2, changes)
    BY <1>1, <1>2, <2>4 DEF CallOK, PrepOK
  <2>8. SnapOK(r2, changes, rows, l)
    <3>1. Later(changes, changes, Changes) /\ Later(rows, rows, Objects)
      <4>1. \A m \in Changes : changes[m].ver \in Nat
        BY <1>5 DEF IsChanges, IsChange
      <4>2. \A o \in Objects : rows[o].ver \in Nat
        BY <1>5, RowsAre
      <4>3. QED
        BY <4>1, <4>2, LaterSelf
    <3>2. r2.call.change = k
      BY <1>3, <2>4
    <3> DEFINE rr == r2
    <3>3. rr.call.change = k /\ rr.snap = snap /\ snap.rows = rows /\ snap.changes = changes /\ snap.report = rep
      BY <2>3, <2>4, <3>2
    <3> HIDE DEF rr, k, l
    <3>4. SnapOK(rr, changes, rows, l)
      BY <1>5, <1>6, <2>2, <3>1, <3>3 DEF SnapOK
    <3>5. QED
      BY <3>4 DEF rr
  <2>9. CallOK(r2, c, Version, l, changes, rows)
    BY <2>5, <2>6, <2>7, <2>8 DEF CallOK
  <2>10. MutexMoves(c, holder, holder', calls, calls')
    BY <1>1, <2>4 DEF MutexMoves, Free
  <2>11. QED
    BY <1>1, <2>1, <2>9, <2>10, NextIs, StoreAndLibKept
<1>7. CASE calls' = [calls EXCEPT ![c].pc = "attempt"]
  <2>3. OnlyOf(c)
    BY <1>2, <1>7 DEF OnlyOf
  <2>4. /\ DOMAIN r2 = Fields /\ r2.pc = "attempt" /\ r2.prepVer = r.prepVer /\ r2.prepared = r.prepared
        /\ r2.call = r.call /\ r2.began = r.began /\ r2.asked = r.asked /\ r2.reloaded = r.reloaded
        /\ r2.drawn = r.drawn
    BY <1>2, <1>7 DEF Fields
  <2>5. r2.drawn \in Nat /\ (r2.reloaded => r2.began <= l) /\ r.pc = "decide"
    BY <1>1, <1>2, <2>4 DEF CallOK, CallShape, TimeOK
  <2>6. MutexMoves(c, holder, holder', calls, calls')
    BY <1>1, <2>4 DEF MutexMoves, Free
  <2> HIDE DEF r, r2, l
  <2>7. CallOK(r2, c, Version, l, changes, rows)
    BY <1>2, <2>4, <2>5, CallMoves
  <2>8. QED
    BY <1>1, <2>3, <2>6, <2>7, NextIs, StoreAndLibKept DEF r2, l
<1>8. QED
  BY <1>6, <1>7 DEF Decide


-----------------------------------------------------------------------------
(* The steps that commit.                                                  *)

LEMMA Committed ==
  ASSUME VersionsInv, NEW c \in Clients, calls[c].pc \notin Free, Answer(c),
         StoreOK', Version <= Version', Later(changes, changes', Changes), Later(rows, rows', Objects),
         \A p \in Procs : lib[p] <= lib'[p], \A p \in Procs : lib'[p] # lib[p] => p = Proc(c),
         LogOK(log', rows', changes', keys'), KeysOK', ReportIsOfItsChange'
  PROVE  VersionsInv'
<1>1. StoreOK /\ CallsOK /\ HolderOK
  BY DEF VersionsInv
<1>2. OnlyOf(c) /\ calls'[c] = Idle
  BY CallsDomain DEF OnlyOf, Answer
<1>3. MutexMoves(c, holder, holder', calls, calls')
  BY <1>2, IdleIs DEF MutexMoves, Answer
<1> DEFINE cs2 == calls'
           lb2 == lib'
           v == Version
           v2 == Version'
           h2 == holder'
           chs2 == changes'
           rws2 == rows'
<1>4. CallsOK'
  <2>1. /\ v \in Nat /\ v2 \in Nat /\ v <= v2 /\ lib \in [Procs -> Nat] /\ lb2 \in [Procs -> Nat]
        /\ IsChanges(changes) /\ rows \in Rows /\ IsChanges(chs2) /\ rws2 \in Rows
        /\ HoldersAre(holder, calls) /\ CallsAre(calls, v, lib, changes, rows)
    BY <1>1 DEF StoreOK, HolderOK, CallsOK, Version
  <2>2. Later(changes, chs2, Changes) /\ Later(rows, rws2, Objects)
    OBVIOUS
  <2>3. /\ \A p \in Procs : lib[p] <= lb2[p]
        /\ \A p \in Procs : lb2[p] # lib[p] => p = Proc(c) /\ calls[c].pc \notin Free
    OBVIOUS
  <2>4. DOMAIN cs2 = Clients /\ (\A d \in Clients : d # c => cs2[d] = calls[d]) /\ cs2[c] = Idle
    BY <1>2 DEF OnlyOf
  <2> HIDE DEF cs2, lb2, v, v2, chs2, rws2
  <2>5. cs2[c] = Idle \/ CallOK(cs2[c], c, v2, lb2[Proc(c)], chs2, rws2)
    BY <2>4
  <2>8. Onward(v, v2, lib, lb2, changes, chs2, rows, rws2)
    BY <2>1, <2>2, <2>3 DEF Onward
  <2>6. CallsAre(cs2, v2, lb2, chs2, rws2)
    BY <2>1, <2>3, <2>4, <2>5, <2>8, CallsStep
  <2>7. QED
    BY <2>6 DEF cs2, lb2, v2, chs2, rws2, CallsOK
<1>5. HolderOK'
  <2>1. HoldersAre(holder, calls) /\ MutexMoves(c, holder, h2, calls, cs2)
    BY <1>1, <1>3 DEF HolderOK
  <2>2. \A d \in Clients : d # c => cs2[d] = calls[d]
    BY <1>2 DEF OnlyOf
  <2> HIDE DEF cs2, h2
  <2>3. HoldersAre(h2, cs2)
    BY <2>1, <2>2, HoldersStep
  <2>4. QED
    BY <2>3 DEF cs2, h2, HolderOK
<1>6. QED
  BY <1>4, <1>5 DEF VersionsInv

(* A request in its transaction runs under a version of its call.          *)
LEMMA BegunIs ==
  ASSUME VersionsInv, NEW c \in Clients, NEW kinds, Begun(c, kinds)
  PROVE  /\ calls[c].pc = "begin" /\ Call(c).kind \in kinds
         /\ lib[Proc(c)] \in calls[c].began..Version /\ calls[c].began \in 1..Version
         /\ lib[Proc(c)] \in 1..Version /\ Version \in Nat
<1>1. calls[c].pc = "begin" /\ Call(c).kind \in kinds /\ (lib[Proc(c)] = Version \/ calls[c].reloaded)
  BY DEF Begun, Behind
<1>2. CallOK(calls[c], c, Version, lib[Proc(c)], changes, rows)
  BY <1>1, CallIs
<1>3. calls[c].began \in 1..Version /\ (calls[c].reloaded => calls[c].began <= lib[Proc(c)])
  BY <1>2 DEF CallOK, TimeOK
<1>4. Version \in Nat /\ Proc(c) \in Procs /\ lib[Proc(c)] \in 1..Version
  BY NextIs, ProcIs DEF VersionsInv, StoreOK
<1>5. QED
  BY <1>1, <1>3, <1>4

LEMMA WriteStep ==
  ASSUME VersionsInv, NEW c \in Clients, Write(c)
  PROVE  VersionsInv'
<1> DEFINE o == Call(c).o
           v == Call(c).v
           row == rows[o]
           said == IF Call(c).consults THEN AnswerTo(c, row.val) ELSE "satisfied"
           A == {w \in DOMAIN calls[c].asked : calls[c].asked[w] = "satisfied"}
           loaded == lib[Proc(c)]
           n == IF Call(c).draws THEN next ELSE None
           e == Event(c, loaded, "write", o, row.ver + 1, v, n, None, A)
<1>1. /\ calls[c].pc = "begin" /\ Call(c).kind = "write"
      /\ loaded \in calls[c].began..Version /\ calls[c].began \in 1..Version
      /\ loaded \in 1..Version /\ Version \in Nat
  BY BegunIs DEF Write
<1>2. CallOK(calls[c], c, Version, loaded, changes, rows) /\ IsCall(Call(c)) /\ Call(c) = calls[c].call
  BY <1>1, CallIs DEF Call
<1>3. o \in Objects /\ v \in Values /\ Call(c).consults \in BOOLEAN /\ Call(c).draws \in BOOLEAN
  BY <1>1, <1>2 DEF IsCall, ChangeKinds
<1>4. StoreOK /\ rows \in Rows /\ LogOK(log, rows, changes, keys) /\ KeysOK /\ ReportIsOfItsChange /\ IsChanges(changes)
  BY DEF VersionsInv, StoreOK
<1>5. row.ver \in Nat /\ row.val \in Values
  BY <1>3, <1>4, RowsAre
<1>6. next \in Nat /\ next >= 1
  BY NextIs
<1>7. n \in Nat
  BY <1>6 DEF None
<1>8. \/ /\ said = "none"
         /\ calls' = [calls EXCEPT ![c].pc = "asking", ![c].reloaded = FALSE, ![c].about = row.val]
         /\ holder' = [holder EXCEPT ![Proc(c)] = NoOne]
         /\ UNCHANGED <<declared, rows, changes, log, keys, next, attempts, lib, crashes>>
      \/ Keep(c, None)
      \/ Keep(c, n)
      \/ /\ said = "satisfied"
         /\ rows' = [rows EXCEPT ![o] = Written(Rules(c), row, v)]
         /\ next' = (IF Call(c).draws THEN next + 1 ELSE next)
         /\ log' = Append(log, e)
         /\ Answer(c)
         /\ UNCHANGED <<declared, changes, keys, attempts, lib, crashes>>
  BY Zenon DEF Write
<1>9. CASE /\ said = "none"
           /\ calls' = [calls EXCEPT ![c].pc = "asking", ![c].reloaded = FALSE, ![c].about = row.val]
           /\ holder' = [holder EXCEPT ![Proc(c)] = NoOne]
           /\ UNCHANGED <<declared, rows, changes, log, keys, next, attempts, lib, crashes>>
  <2>1. Call(c).consults
    BY <1>9
  <2> HIDE DEF row
  <2>2. QED
    BY <1>1, <1>5, <1>9, <2>1, StoppedStep
<1>10. CASE Keep(c, None)
  BY <1>1, <1>10, KeepStep DEF None
<1>11. CASE Keep(c, n)
  <2> HIDE DEF n
  <2>1. QED
    BY <1>1, <1>7, <1>11, KeepStep
<1>12. CASE /\ said = "satisfied"
            /\ rows' = [rows EXCEPT ![o] = Written(Rules(c), row, v)]
            /\ next' = (IF Call(c).draws THEN next + 1 ELSE next)
            /\ log' = Append(log, e)
            /\ Answer(c)
            /\ UNCHANGED <<declared, changes, keys, attempts, lib, crashes>>
  <2>1. A \in SUBSET Values /\ (A # {} => row.val \in A)
    <3>1. DOMAIN calls[c].asked \subseteq Values /\ (DOMAIN calls[c].asked # {} => Call(c).consults)
      BY <1>2 DEF CallOK, CallShape
    <3>2. CASE Call(c).consults
      <4>1. AnswerTo(c, row.val) = "satisfied"
        BY <1>12, <3>2
      <4>2. row.val \in DOMAIN calls[c].asked /\ calls[c].asked[row.val] = "satisfied"
        BY <4>1 DEF AnswerTo
      <4>3. QED
        BY <3>1, <4>2
    <3>3. CASE ~ Call(c).consults
      BY <3>1, <3>3
    <3>4. QED
      BY <3>2, <3>3
  <2> DEFINE x == "write"
             seq == row.ver + 1
             no == None
  <2>2. /\ seq \in Nat /\ no \in Nat /\ no = None /\ loaded \in Nat /\ calls[c].began \in Nat /\ x \in Acts
        /\ o \in Objects \cup Changes /\ v \in Values \cup {None}
    BY <1>1, <1>3, <1>5 DEF None, Acts
  <2>3. e = Event(c, loaded, x, o, seq, v, n, no, A)
    OBVIOUS
  <2>4. Put(rows, o, v, rows')
    <3> DEFINE s == Rules(c)
               u == rows'
    <3>1. u = [rows EXCEPT ![o] = Written(s, rows[o], v)]
      BY <1>12
    <3> HIDE DEF o, v, s, u
    <3>2. Put(rows, o, v, u)
      BY <1>3, <1>4, <3>1, WrittenIs
    <3>3. QED
      BY <3>2 DEF u
  <2> HIDE DEF x, seq, no, n, A, e, loaded, o, v, row, said
  <2>5. IsEvent(e, c, loaded, x, o, seq, v, n, no, A)
    BY <1>1, <1>7, <2>1, <2>2, <2>3, EventIs
  <2>6. /\ e \in Events /\ e.object = o /\ e.seq = rows[o].ver + 1 /\ e.val = v
        /\ e.batch = None /\ e.version = loaded /\ e.began = calls[c].began /\ e.at = Version /\ e.asked = A
    BY <2>2, <2>5 DEF IsEvent, seq, row
  <2>7. OfItsTime(e)
    BY <1>1, <2>6 DEF OfItsTime
  <2> DEFINE u == rows'
             l2 == log'
  <2>8. /\ u \in Rows /\ u[o].ver = rows[o].ver + 1 /\ u[o].val = v
        /\ \A p \in Objects : p # o => u[p] = rows[p]
    BY <2>4 DEF Put
  <2>9. l2 = Append(log, e)
    BY <1>12
  <2>10. /\ \A p \in Objects : rows[p].ver \in Nat
         /\ \A k \in Changes : changes[k].ver \in Nat
    BY <1>4, RowsAre DEF IsChanges, IsChange
  <2>11. e.asked # {} => rows[o].val \in e.asked
    BY <2>1, <2>6 DEF row
  <2> HIDE DEF u, l2
  <2>12. LogOK(l2, u, changes, keys)
    <3>1. u[o].val = e.val /\ (e.batch # None => \E a \in keys : a.first = e.batch)
      BY <2>6, <2>8
    <3>2. QED
      BY <1>3, <1>4, <2>6, <2>7, <2>8, <2>9, <2>10, <2>11, <3>1, WriteLogs
  <2>13. Later(rows, u, Objects)
    <3>1. Later(rows, rows, Objects)
      BY <2>10, LaterSelf
    <3>2. QED
      BY <1>3, <1>4, <2>8, <3>1, LaterWrite
  <2>14. Later(changes, changes, Changes)
    BY <2>10, LaterSelf
  <2>15. UNCHANGED <<declared, changes, keys, lib>> /\ Version' = Version
    BY <1>12 DEF Version
  <2>16. StoreOK'
    <3>1. next' \in Nat /\ next' >= 1
      BY <1>6, <1>12
    <3>2. rows' \in Rows
      BY <2>8 DEF u
    <3>3. QED
      BY <1>4, <2>15, <3>1, <3>2 DEF StoreOK
  <2>17. KeysOK' /\ ReportIsOfItsChange'
    BY <1>4, <2>15 DEF KeysOK, ReportIsOfItsChange
  <2>18. \A p \in Procs : lib[p] <= lib'[p] /\ lib'[p] = lib[p]
    BY <1>4, <2>15 DEF StoreOK
  <2>19. LogOK(log', rows', changes', keys') /\ Later(rows, rows', Objects) /\ Later(changes, changes', Changes)
    BY <2>12, <2>13, <2>14, <2>15 DEF u, l2
  <2>20. Version <= Version' /\ calls[c].pc \notin Free
    BY <1>1, <2>15 DEF Free
  <2>21. QED
    BY <1>12, <2>16, <2>17, <2>18, <2>19, <2>20, Committed
<1>13. QED
  BY <1>8, <1>9, <1>10, <1>11, <1>12


LEMMA RunBatchStep ==
  ASSUME VersionsInv, NEW c \in Clients, RunBatch(c)
  PROVE  VersionsInv'
<1> DEFINE q == Proc(c)
           ran == Ran(c, declared[Version])
           key == [key |-> Call(c).key, first |-> Len(log) + 1]
           ks == keys \cup {key}
<1>1. calls[c].pc = "batch" /\ lib' = [lib EXCEPT ![q] = Version] /\ q \in Procs
  BY ProcIs DEF RunBatch
<1>2. /\ CallOK(calls[c], c, Version, lib[q], changes, rows) /\ IsCall(Call(c)) /\ Call(c) = calls[c].call
      /\ DOMAIN calls = Clients /\ DOMAIN calls[c] = Fields
  BY <1>1, CallIs DEF Call
<1>3. Call(c).kind = "batch" /\ calls[c].began \in 1..Version
  BY <1>1, <1>2 DEF CallOK, CallShape, TimeOK
<1>4. /\ Len(Call(c).writes) \in Nat
      /\ \A i \in 1..Len(Call(c).writes) : Call(c).writes[i].o \in Objects /\ Call(c).writes[i].v \in Values
  BY <1>2, <1>3 DEF IsCall, ChangeKinds
<1>5. StoreOK /\ LogOK(log, rows, changes, keys) /\ KeysOK /\ ReportIsOfItsChange
  BY DEF VersionsInv
<1>6. /\ lib \in [Procs -> Nat] /\ Version \in Nat /\ (\A p \in Procs : lib[p] \in 1..Version)
      /\ IsChanges(changes) /\ rows \in Rows /\ next \in Nat /\ next >= 1
  BY <1>5, NextIs DEF StoreOK
<1>7. /\ lib' \in [Procs -> Nat] /\ lib'[q] = Version /\ \A p \in Procs : p # q => lib'[p] = lib[p]
  BY <1>1, <1>6
<1>8. \A p \in Procs : lib[p] <= lib'[p] /\ lib'[p] <= Version /\ lib'[p] \in 1..Version
  BY <1>6, <1>7
<1>9. RanOK(ran, ks)
  <2> DEFINE s == declared[Version]
             kk == ks
  <2>1. keys \subseteq kk /\ \E a \in kk : a.first = Len(log) + 1
    <3>1. key.first = Len(log) + 1
      OBVIOUS
    <3> HIDE DEF key
    <3>2. QED
      BY <3>1
  <2> HIDE DEF s, kk
  <2>2. RanOK(Ran(c, s), kk)
    BY <1>3, <1>4, <1>5, <2>1, RanIsOK
  <2>3. QED
    BY <2>2 DEF s, kk
<1>10. /\ ran.rows \in Rows /\ ran.next \in Nat /\ next <= ran.next
       /\ LogOK(ran.log, ran.rows, changes, ks) /\ Later(rows, ran.rows, Objects)
  BY <1>9 DEF RanOK, Ranning
<1> DEFINE n == ran.next - 1
<1>11. n \in Nat
  BY <1>6, <1>10
<1>12. \A k \in Changes : changes[k].ver \in Nat
  BY <1>6 DEF IsChanges, IsChange
<1>13. \A o \in Objects : rows[o].ver \in Nat
  BY <1>6, RowsAre
<1>14. Later(changes, changes, Changes) /\ Later(rows, rows, Objects)
  BY <1>12, <1>13, LaterSelf
<1>15. CASE /\ calls' = [calls EXCEPT ![c].pc = "keep", ![c].drawn = n, ![c].fails = ~ ran.refused]
            /\ UNCHANGED <<declared, rows, changes, log, keys, next, attempts, holder, crashes>>
  <2> DEFINE r == calls[c]
             r2 == calls'[c]
             l == lib[q]
             l2 == lib'[q]
  <2>1. OnlyOf(c)
    BY <1>2, <1>15 DEF OnlyOf
  <2> HIDE DEF n, ran
  <2>2. /\ DOMAIN r2 = Fields /\ r2.pc = "keep" /\ r2.prepVer = r.prepVer /\ r2.prepared = r.prepared
        /\ r2.call = r.call /\ r2.began = r.began /\ r2.asked = r.asked /\ r2.reloaded = r.reloaded
        /\ r2.drawn = n
    BY <1>2, <1>15 DEF Fields
  <2>3. l \in Nat /\ l2 \in Nat /\ l <= l2 /\ l2 = Version
    BY <1>1, <1>6, <1>7, <1>8
  <2>4. MutexMoves(c, holder, holder', calls, calls')
    BY <1>1, <1>15, <2>2 DEF MutexMoves, Free
  <2>5. r.pc = "batch" /\ CallOK(r, c, Version, l, changes, rows) /\ r.began \in 1..Version /\ Version \in Nat
    BY <1>1, <1>2, <1>3, <1>6
  <2>6. Version <= Version
    BY <1>6
  <2> DEFINE v == Version
  <2> HIDE DEF r, r2, l, l2, v
  <2>7. CallOK(r, c, v, l2, changes, rows)
    <3>1. r.pc # "install"
      BY <2>5
    <3>2. QED
      BY <1>6, <1>14, <2>3, <2>5, <2>6, <3>1, CallKept DEF v
  <2>8. r2.reloaded => r2.began <= l2
    BY <2>2, <2>3, <2>5
  <2>9. CallOK(r2, c, v, l2, changes, rows)
    BY <1>11, <2>2, <2>5, <2>7, <2>8, CallMoves
  <2>10. \A p \in Procs : lib'[p] # lib[p] => p = Proc(c) /\ calls[c].pc \notin Free
    BY <1>1, <1>7 DEF Free
  <2>11. CallOK(calls'[c], c, Version, lib'[Proc(c)], changes, rows)
    BY <2>9 DEF r2, l2, v
  <2>12. UNCHANGED <<declared, rows, changes, log, keys, next>>
    BY <1>15
  <2>13. QED
    BY <1>6, <1>7, <1>8, <2>1, <2>4, <2>10, <2>11, <2>12, StoreKept
<1>16. CASE /\ ~ KeyClashes(c) /\ rows' = ran.rows /\ next' = ran.next /\ log' = ran.log /\ keys' = ks
            /\ Answer(c) /\ UNCHANGED <<declared, changes, attempts, crashes>>
  <2>1. StoreOK'
    <3>1. next' \in Nat /\ next' >= 1 /\ rows' \in Rows
      BY <1>6, <1>10, <1>16
    <3>2. declared' = declared /\ changes' = changes /\ Version' = Version
      BY <1>16 DEF Version
    <3>3. QED
      BY <1>5, <1>7, <1>8, <3>1, <3>2 DEF StoreOK
  <2>2. Version <= Version' /\ calls[c].pc \notin Free
    BY <1>1, <1>6, <1>16 DEF Free, Version
  <2>3. Later(changes, changes', Changes) /\ Later(rows, rows', Objects) /\ LogOK(log', rows', changes', keys')
    BY <1>10, <1>14, <1>16
  <2>4. KeysOK'
    <3>1. \A a \in keys : a.key # Call(c).key
      BY <1>16 DEF KeyClashes
    <3>2. key.key = Call(c).key
      OBVIOUS
    <3> HIDE DEF key
    <3>3. QED
      BY <1>5, <1>16, <3>1, <3>2 DEF KeysOK
  <2>5. ReportIsOfItsChange'
    BY <1>5, <1>16 DEF ReportIsOfItsChange, Version
  <2>6. \A p \in Procs : lib'[p] # lib[p] => p = Proc(c)
    BY <1>7
  <2>7. \A p \in Procs : lib[p] <= lib'[p]
    BY <1>8
  <2>8. QED
    BY <1>16, <2>1, <2>2, <2>3, <2>4, <2>5, <2>6, <2>7, Committed
<1>17. QED
  BY <1>15, <1>16, Zenon DEF RunBatch

(* The change a call is about, and the source it gives it.                 *)
LEMMA CallsAbout ==
  ASSUME VersionsInv, NEW c \in Clients, calls[c].pc # "idle"
  PROVE  /\ Call(c).kind \in {"draft", "revise"} => Call(c).source \in Sources
         /\ Call(c).kind \in ChangeKinds \cup {"publish"} => Call(c).change \in Changes
<1>1. Call(c) \in Calls[c]
  BY CallIs
<1>2. Call(c) \in AllCalls
  BY <1>1 DEF AllCalls
<1>3. QED
  BY <1>1, <1>2, ChangeOf DEF Sources


(* A change moved on.                                                      *)
Went(ch, ch2, state, source, base, report) ==
  /\ DOMAIN ch2 = {"state", "ver", "source", "base", "report", "by"}
  /\ ch2.state = state /\ ch2.ver = ch.ver + 1 /\ ch2.source = source /\ ch2.base = base /\ ch2.report = report

LEMMA WentIs ==
  ASSUME NEW ch, IsChange(ch), NEW a, NEW state, NEW source, NEW base, NEW report, NEW s, NEW b, NEW p, NEW d, NEW y,
         NEW ch2, ch2 = [ch EXCEPT !.state = state, !.ver = @ + 1, !.source = IF a THEN source ELSE @,
                          !.base = IF a THEN base ELSE @, !.report = IF p THEN report ELSE @, !.by = IF d THEN y ELSE @],
         s = IF a THEN source ELSE ch.source, b = IF a THEN base ELSE ch.base
  PROVE  Went(ch, ch2, state, s, b, IF p THEN report ELSE ch.report)
<1>1. DOMAIN ch = {"state", "ver", "source", "base", "report", "by"}
  BY DEF IsChange
<1>2. QED
  BY <1>1 DEF Went

LEMMA ChangeFlowStep ==
  ASSUME VersionsInv, NEW c \in Clients, ChangeFlow(c)
  PROVE  VersionsInv'
<1> DEFINE k == Call(c).change
           ch == changes[k]
           kind == Call(c).kind
           loaded == lib[Proc(c)]
           report == IF Prepared(c) THEN calls[c].prepared ELSE Report(ch.source, k, rows, changes, loaded)
           drafts == kind \in {"draft", "revise"}
           runs == kind \in {"submit", "refresh"}
           s == IF drafts THEN Call(c).source ELSE ch.source
           b == IF drafts THEN loaded ELSE ch.base
           e == Event(c, loaded, kind, k, ch.ver + 1, None, None, None, {})
           ch2 == changes'[k]
<1>1. /\ calls[c].pc = "begin" /\ kind \in ChangeKinds
      /\ loaded \in calls[c].began..Version /\ calls[c].began \in 1..Version
      /\ loaded \in 1..Version /\ Version \in Nat
  BY BegunIs DEF ChangeFlow
<1>2. CallOK(calls[c], c, Version, loaded, changes, rows) /\ Call(c) = calls[c].call
  BY <1>1, CallIs DEF Call
<1>3. k \in Changes /\ (drafts => Call(c).source \in Sources)
  BY <1>1, CallsAbout
<1>4. StoreOK /\ rows \in Rows /\ LogOK(log, rows, changes, keys) /\ KeysOK /\ ReportIsOfItsChange /\ IsChanges(changes)
  BY DEF VersionsInv, StoreOK
<1>5. IsChange(ch) /\ ch.ver \in Nat /\ ch.source \in Sources /\ ch.base \in Nat /\ ch.base <= Version
  BY <1>3, <1>4 DEF StoreOK, IsChanges, IsChange
<1>6. CASE Keep(c, None)
  BY <1>1, <1>6, KeepStep DEF None
<1>7. CASE /\ changes' = [changes EXCEPT ![k] = Advanced(c, ch, report)]
           /\ log' = Append(log, e)
           /\ Answer(c)
           /\ UNCHANGED <<declared, rows, keys, next, attempts, lib, crashes>>
  <2>1. report.source = ch.source \/ ~ runs
    <3>1. SUFFICES ASSUME runs PROVE report.source = ch.source
      OBVIOUS
    <3>2. CASE Prepared(c)
      <4>1. calls[c].prepVer = ch.ver /\ report = calls[c].prepared
        BY <3>2 DEF Prepared
      <4>2. PrepOK(calls[c], changes)
        BY <1>2 DEF CallOK
      <4>3. calls[c].prepared.source = ch.source
        BY <1>1, <1>2, <3>1, <4>1, <4>2 DEF PrepOK
      <4>4. QED
        BY <4>1, <4>3
    <3>3. CASE ~ Prepared(c)
      BY <3>3 DEF Report
    <3>4. QED
      BY <3>2, <3>3
  <2> HIDE DEF report
  <2> DEFINE src == Call(c).source
             st == Into(kind)
             rp == IF runs THEN report ELSE ch.report
             da == drafts
             ru == runs
             first == kind = "draft"
  <2>2. /\ DOMAIN changes' = Changes /\ \A m \in Changes : m # k => changes'[m] = changes[m]
        /\ ch2 = [ch EXCEPT !.state = st, !.ver = @ + 1, !.source = IF da THEN src ELSE @,
                          !.base = IF da THEN loaded ELSE @, !.report = IF ru THEN report ELSE @,
                          !.by = IF first THEN c ELSE @]
    <3> DEFINE x == [ch EXCEPT !.state = st, !.ver = @ + 1, !.source = IF da THEN src ELSE @,
                          !.base = IF da THEN loaded ELSE @, !.report = IF ru THEN report ELSE @,
                          !.by = IF first THEN c ELSE @]
    <3>1. changes' = [changes EXCEPT ![k] = x]
      <4>1. Advanced(c, ch, report) = x
        BY DEF Advanced
      <4>2. QED
        BY <1>7, <4>1
    <3>2. DOMAIN changes = Changes
      BY <1>4 DEF IsChanges
    <3> HIDE DEF x
    <3>3. DOMAIN changes' = Changes /\ changes'[k] = x /\ \A m \in Changes : m # k => changes'[m] = changes[m]
      BY <1>3, <3>1, <3>2
    <3>4. QED
      BY <3>3 DEF x
  <2>3. s = (IF da THEN src ELSE ch.source) /\ b = (IF da THEN loaded ELSE ch.base) /\ rp = (IF ru THEN report ELSE ch.report)
    OBVIOUS
  <2>4. st \in {"DRAFTED", "SUBMITTED", "REJECTED", "WITHDRAWN"} /\ (st = "SUBMITTED" => runs)
    BY <1>1 DEF Into, ChangeKinds
  <2>5. s \in Sources /\ b \in Nat /\ b <= Version /\ (runs => s = ch.source)
    BY <1>1, <1>3, <1>5
  <2> HIDE DEF src, st, rp, da, ru, s, b, first, ch2, ch
  <2>6. Went(ch, ch2, st, s, b, rp)
    BY <1>5, <2>2, <2>3, WentIs
  <2>7. /\ DOMAIN ch2 = {"state", "ver", "source", "base", "report", "by"}
        /\ ch2.state = st /\ ch2.ver = ch.ver + 1 /\ ch2.source = s /\ ch2.base = b /\ ch2.report = rp
    BY <2>6 DEF Went
  <2>8. IsChange(ch2)
    BY <1>5, <2>5, <2>7 DEF IsChange
  <2>9. IsChanges(changes') /\ \A m \in Changes : changes'[m].base <= Version
    <3>1. ASSUME NEW m \in Changes PROVE IsChange(changes'[m]) /\ changes'[m].base <= Version
      <4>1. CASE m = k
        BY <2>5, <2>7, <2>8, <4>1 DEF ch2
      <4>2. CASE m # k
        BY <1>4, <2>2, <4>2 DEF IsChanges, StoreOK
      <4>3. QED
        BY <4>1, <4>2
    <3>2. QED
      BY <2>2, <3>1 DEF IsChanges
  <2>10. UNCHANGED <<declared, rows, keys, next, lib>> /\ Version' = Version
    BY <1>7 DEF Version
  <2>11. StoreOK'
    BY <1>4, <2>9, <2>10 DEF StoreOK
  <2>12. ReportIsOfItsChange'
    <3>1. ASSUME NEW m \in Changes
          PROVE  /\ changes'[m].state = "SUBMITTED" => changes'[m].report.source = changes'[m].source
                 /\ changes'[m].state = "PUBLISHED" =>
                      changes'[m].base < Version /\ declared[changes'[m].base + 1] = changes'[m].source
      <4>1. CASE m = k
        <5>1. ch2.state # "PUBLISHED"
          BY <2>4, <2>7
        <5>2. ASSUME ch2.state = "SUBMITTED" PROVE ch2.report.source = ch2.source
          <6>1. runs
            BY <2>4, <2>7, <5>2
          <6>2. rp = report /\ report.source = ch.source /\ s = ch.source
            BY <2>1, <2>3, <2>5, <6>1 DEF ru
          <6>3. QED
            BY <2>7, <6>2
        <5>3. QED
          BY <4>1, <5>1, <5>2 DEF ch2
      <4>2. CASE m # k
        BY <1>4, <2>2, <4>2 DEF ReportIsOfItsChange
      <4>3. QED
        BY <4>1, <4>2
    <3>2. QED
      BY <2>10, <3>1 DEF ReportIsOfItsChange
  <2>13. \A o \in Objects : rows[o].ver \in Nat
    BY <1>4, RowsAre
  <2>14. \A m \in Changes : changes[m].ver \in Nat
    BY <1>4 DEF IsChanges, IsChange
  <2>15. LogOK(log', rows', changes', keys')
    <3> DEFINE seq == ch.ver + 1
               no == None
               A == {}
    <3>1. /\ seq \in Nat /\ no \in Nat /\ no = None /\ loaded \in Nat /\ calls[c].began \in Nat /\ kind \in Acts
          /\ k \in Objects \cup Changes /\ no \in Values \cup {None}
      BY <1>1, <1>3, <1>5 DEF None, Acts
    <3>2. A \in SUBSET Values
      OBVIOUS
    <3>3. e = Event(c, loaded, kind, k, seq, no, no, no, A)
      BY DEF ch
    <3> HIDE DEF seq, no, A, e, loaded, kind, k
    <3>4. IsEvent(e, c, loaded, kind, k, seq, no, no, no, A)
      BY <1>1, <3>1, <3>2, <3>3, EventIs
    <3>5. /\ e \in Events /\ e.object = k /\ e.seq = seq
          /\ e.batch = None /\ e.version = loaded /\ e.began = calls[c].began /\ e.at = Version /\ e.asked = A
      BY <3>1, <3>4 DEF IsEvent
    <3>6. OfItsTime(e)
      BY <1>1, <3>5 DEF OfItsTime
    <3> DEFINE l2 == log'
               chs2 == changes'
    <3>7. l2 = Append(log, e)
      BY <1>7
    <3>8. /\ chs2[k].ver = changes[k].ver + 1 /\ \A m \in Changes : m # k => chs2[m] = changes[m]
      BY <2>2, <2>7 DEF ch2, ch
    <3>9. e.seq = changes[k].ver + 1 /\ e.asked = {}
      BY <3>5 DEF seq, ch, A
    <3> HIDE DEF l2, chs2
    <3>10. LogOK(l2, rows, chs2, keys)
      BY <1>3, <1>4, <2>13, <2>14, <3>5, <3>6, <3>7, <3>8, <3>9, ChangeLogs
    <3>11. QED
      BY <2>10, <3>10 DEF l2, chs2
  <2>16. Later(changes, changes', Changes)
    <3>1. ASSUME NEW m \in Changes
          PROVE  changes[m].ver <= changes'[m].ver /\ (changes[m].ver = changes'[m].ver => changes'[m] = changes[m])
      <4>1. CASE m = k
        <5>1. changes'[k].ver = changes[k].ver + 1 /\ changes[k].ver \in Nat
          BY <1>3, <2>7, <2>14 DEF ch2, ch
        <5>2. QED
          BY <4>1, <5>1
      <4>2. CASE m # k
        BY <2>2, <2>14, <4>2
      <4>3. QED
        BY <4>1, <4>2
    <3>2. QED
      BY <3>1 DEF Later
  <2>17. Later(rows, rows', Objects)
    BY <2>10, <2>13, LaterSelf
  <2>18. \A p \in Procs : lib[p] <= lib'[p] /\ lib'[p] = lib[p]
    BY <1>4, <2>10 DEF StoreOK
  <2>19. KeysOK'
    BY <1>4, <2>10 DEF KeysOK
  <2>20. Version <= Version' /\ calls[c].pc \notin Free
    BY <1>1, <2>10 DEF Free
  <2>21. QED
    BY <1>7, <2>11, <2>12, <2>15, <2>16, <2>17, <2>18, <2>19, <2>20, Committed
<1>8. QED
  BY <1>6, <1>7, Zenon DEF ChangeFlow


(* Events of as many objects are finitely many.                            *)
LEMMA FewEvents ==
  ASSUME NEW E, \A e \in E : e.object \in Objects \cup Changes,
         \A e, f \in E : e.object = f.object => e = f
  PROVE  IsFiniteSet(E)
<1> DEFINE S == Objects \cup Changes
           g == [e \in E |-> e.object]
<1>1. IsFiniteSet(S)
  BY VersionsAssumption, FS_Union
<1>2. g \in [E -> S] /\ \A e \in E : g[e] = e.object
  OBVIOUS
<1> HIDE DEF g, S
<1>3. IsInjective(g)
  BY <1>2 DEF IsInjective
<1>4. g \in Injection(E, S)
  BY <1>2, <1>3 DEF Injection
<1>5. QED
  BY <1>1, <1>4, FS_Injection

(* The value a mapping leaves is one an object may hold.                   *)
LEMMA MappedIs ==
  ASSUME NEW s \in Sources, NEW v \in Values
  PROVE  Mapped(s, v) \in Values
BY SourcesAre DEF Mapped, IsSource

(* What an install finds where nothing clashes: what it read is what is.   *)
LEMMA NoClash ==
  ASSUME VersionsInv, NEW c \in Clients, calls[c].pc = "install", ~ Clashes(c)
  PROVE  LET snap == calls[c].snap
             k == Call(c).change
             closed == {k} \cup snap.report.superseded
             M == Migrates(snap.report) IN
         /\ k \in Changes /\ closed \subseteq Changes /\ M \subseteq Objects
         /\ \A m \in closed : snap.changes[m] = changes[m]
         /\ \A o \in M : snap.rows[o] = rows[o]
         /\ lib[Proc(c)] = Version /\ changes[k].base = Version
         /\ snap.report.source = changes[k].source
<1> DEFINE r == calls[c]
           snap == calls[c].snap
           k == Call(c).change
           closed == {k} \cup snap.report.superseded
           M == Migrates(snap.report)
           loaded == lib[Proc(c)]
<1>1. CallOK(r, c, Version, loaded, changes, rows) /\ r.call = Call(c)
  BY CallIs DEF Call
<1>2. Call(c).kind = "publish"
  BY <1>1 DEF CallOK, CallShape
<1>3. k \in Changes
  BY <1>2, CallsAbout
<1>4. SnapOK(r, changes, rows, loaded)
  BY <1>1 DEF CallOK
<1>5. /\ Later(snap.changes, changes, Changes) /\ Later(snap.rows, rows, Objects)
      /\ snap.changes[k].base = loaded /\ snap.report.source = snap.changes[k].source
      /\ snap.report.superseded \subseteq Changes \ {k}
      /\ M \subseteq Objects
  BY <1>1, <1>4 DEF SnapOK
<1>6. /\ \A m \in closed : changes[m].ver = snap.changes[m].ver
      /\ \A o \in M : rows[o].ver = snap.rows[o].ver
      /\ loaded = Version
  BY DEF Clashes
<1>7. closed \subseteq Changes
  BY <1>3, <1>5
<1>8. \A m \in closed : snap.changes[m] = changes[m]
  BY <1>5, <1>6, <1>7 DEF Later
<1>9. \A o \in M : snap.rows[o] = rows[o]
  BY <1>5, <1>6 DEF Later
<1>10. snap.changes[k] = changes[k]
  BY <1>8
<1>11. QED
  BY <1>3, <1>5, <1>6, <1>7, <1>8, <1>9, <1>10


(* A change closed: by its own install, or superseded by another's.        *)
Closed(ch, state) == [ch EXCEPT !.state = state, !.ver = @ + 1]

LEMMA ClosedIs ==
  ASSUME NEW ch, IsChange(ch), NEW state, NEW ch2, ch2 = Closed(ch, state)
  PROVE  /\ IsChange(ch2) /\ ch2.state = state /\ ch2.ver = ch.ver + 1
         /\ ch2.source = ch.source /\ ch2.base = ch.base
<1>1. DOMAIN ch = {"state", "ver", "source", "base", "report", "by"} /\ ch.ver \in Nat
      /\ ch.source \in Sources /\ ch.base \in Nat
  BY DEF IsChange
<1>2. /\ DOMAIN ch2 = {"state", "ver", "source", "base", "report", "by"} /\ ch2.state = state /\ ch2.ver = ch.ver + 1
      /\ ch2.source = ch.source /\ ch2.base = ch.base
  BY <1>1 DEF Closed
<1>3. QED
  BY <1>1, <1>2 DEF IsChange

InstallApplies(c) ==
  LET snap == calls[c].snap
      r == snap.report
      k == Call(c).change
      s == r.source
      new(o) == LET v == Mapped(s, snap.rows[o].val) IN
        [ver |-> snap.rows[o].ver + 1, val |-> v, admitted |-> ~ Allowed(s, v)]
      closed == {k} \cup r.superseded
      version == Version + 1
      events == {Event(c, version, "publish", m, snap.changes[m].ver + 1, None, None, None, {}) : m \in closed}
                \cup {Event(c, version, "migrate", o, new(o).ver, new(o).val, None, None, {}) : o \in Migrates(r)} IN
  /\ ~ Clashes(c)
  /\ declared' = Append(declared, s)
  /\ rows' = [o \in Objects |-> IF o \in Migrates(r) THEN new(o) ELSE rows[o]]
  /\ changes' = [m \in Changes |-> IF m \in closed
        THEN Closed(snap.changes[m], IF m = k THEN "PUBLISHED" ELSE "SUPERSEDED") ELSE changes[m]]
  /\ log' = log \o InOrder(events)
  /\ lib' = [lib EXCEPT ![Proc(c)] = version]
  /\ Answer(c)
  /\ UNCHANGED <<keys, next, attempts, crashes>>

LEMMA InstallIs ==
  ASSUME NEW c, Install(c)
  PROVE  /\ calls[c].pc = "install"
         /\ \/ Answer(c) /\ UNCHANGED <<declared, rows, changes, log, keys, next, attempts, lib, crashes>>
            \/ InstallApplies(c)
<1>1. calls[c].pc = "install"
  BY DEF Install
<1>2. CASE Clashes(c)
  BY <1>1, <1>2 DEF Install
<1>3. CASE ~ Clashes(c)
  <2>1. InstallApplies(c)
    BY <1>3, Zenon DEF Install, InstallApplies, Closed, InOrder
  <2>2. QED
    BY <1>1, <2>1
<1>4. QED
  BY <1>2, <1>3


(* The events of an install.                                               *)
PublishEvent(c, m) == Event(c, Version + 1, "publish", m, changes[m].ver + 1, None, None, None, {})
MigrateEvent(c, o, v) == Event(c, Version + 1, "migrate", o, rows[o].ver + 1, v, None, None, {})

Installed(e, o, seq) ==
  /\ e \in Events /\ e.object = o /\ e.seq = seq /\ e.x \in {"publish", "migrate"}
  /\ e.batch = None /\ e.asked = {} /\ e.num = None

LEMMA InstalledAre ==
  ASSUME VersionsInv, NEW c \in Clients, calls[c].pc = "install"
  PROVE  /\ \A m \in Changes : Installed(PublishEvent(c, m), m, changes[m].ver + 1)
         /\ \A o \in Objects : \A v \in Values :
              Installed(MigrateEvent(c, o, v), o, rows[o].ver + 1) /\ MigrateEvent(c, o, v).val = v
<1>1. CallOK(calls[c], c, Version, lib[Proc(c)], changes, rows)
  BY CallIs
<1>2. calls[c].began \in Nat /\ Version \in Nat /\ Version + 1 \in Nat
  BY <1>1, NextIs DEF CallOK, TimeOK
<1> DEFINE no == None
           A == {}
           w == Version + 1
           x == "publish"
           y == "migrate"
<1>3. no \in Nat /\ no = None /\ no \in Values \cup {None} /\ w \in Nat /\ x \in Acts /\ y \in Acts
  BY <1>2 DEF None, Acts
<1>4. A \in SUBSET Values
  OBVIOUS
<1>5. ASSUME NEW m \in Changes PROVE Installed(PublishEvent(c, m), m, changes[m].ver + 1)
  <2> DEFINE seq == changes[m].ver + 1
             e == PublishEvent(c, m)
  <2>1. seq \in Nat /\ m \in Objects \cup Changes
    BY DEF VersionsInv, StoreOK, IsChanges, IsChange
  <2>2. e = Event(c, w, x, m, seq, no, no, no, A)
    BY DEF PublishEvent
  <2> HIDE DEF no, A, w, x, seq, e
  <2>3. IsEvent(e, c, w, x, m, seq, no, no, no, A)
    BY <1>2, <1>3, <1>4, <2>1, <2>2, EventIs
  <2>4. QED
    BY <1>3, <2>3 DEF IsEvent, Installed, e, A, x, seq
<1>6. ASSUME NEW o \in Objects, NEW v \in Values
      PROVE  Installed(MigrateEvent(c, o, v), o, rows[o].ver + 1) /\ MigrateEvent(c, o, v).val = v
  <2> DEFINE seq == rows[o].ver + 1
             e == MigrateEvent(c, o, v)
  <2>1. rows[o].ver \in Nat
    BY RowsAre DEF VersionsInv, StoreOK
  <2>5. seq \in Nat /\ o \in Objects \cup Changes /\ v \in Values \cup {None}
    BY <2>1
  <2>2. e = Event(c, w, y, o, seq, v, no, no, A)
    BY DEF MigrateEvent
  <2> HIDE DEF no, A, w, y, seq, e
  <2>3. IsEvent(e, c, w, y, o, seq, v, no, no, A)
    BY <1>2, <1>3, <1>4, <2>2, <2>5, EventIs
  <2>4. QED
    BY <1>3, <2>3 DEF IsEvent, Installed, e, A, y, seq
<1>7. QED
  BY <1>5, <1>6

LEMMA InstallAppliesStep ==
  ASSUME VersionsInv, NEW c \in Clients, calls[c].pc = "install", InstallApplies(c)
  PROVE  VersionsInv' /\ (Apart(log, next) => Apart(log', next'))
<1> DEFINE snap == calls[c].snap
           r == snap.report
           k == Call(c).change
           s == r.source
           closed == {k} \cup r.superseded
           M == Migrates(r)
           val(o) == Mapped(s, rows[o].val)
           E == {PublishEvent(c, m) : m \in closed} \cup {MigrateEvent(c, o, val(o)) : o \in M}
           ended(m) == IF m = k THEN "PUBLISHED" ELSE "SUPERSEDED"
<1>1. /\ k \in Changes /\ closed \subseteq Changes /\ M \subseteq Objects
      /\ \A m \in closed : snap.changes[m] = changes[m]
      /\ \A o \in M : snap.rows[o] = rows[o]
      /\ lib[Proc(c)] = Version /\ changes[k].base = Version
      /\ s = changes[k].source
  <2>1. ~ Clashes(c)
    BY DEF InstallApplies
  <2>2. QED
    BY <2>1, NoClash
<1>2. /\ declared' = Append(declared, s)
      /\ rows' = [o \in Objects |-> IF o \in M
            THEN [ver |-> snap.rows[o].ver + 1, val |-> Mapped(s, snap.rows[o].val),
                  admitted |-> ~ Allowed(s, Mapped(s, snap.rows[o].val))]
            ELSE rows[o]]
      /\ changes' = [m \in Changes |-> IF m \in closed THEN Closed(snap.changes[m], ended(m)) ELSE changes[m]]
      /\ lib' = [lib EXCEPT ![Proc(c)] = Version + 1]
      /\ Answer(c)
      /\ UNCHANGED <<keys, next, attempts, crashes>>
  BY Zenon DEF InstallApplies
<1>3. log' = log \o InOrder(
        {Event(c, Version + 1, "publish", m, snap.changes[m].ver + 1, None, None, None, {}) : m \in closed}
        \cup {Event(c, Version + 1, "migrate", o,
                [ver |-> snap.rows[o].ver + 1, val |-> Mapped(s, snap.rows[o].val),
                 admitted |-> ~ Allowed(s, Mapped(s, snap.rows[o].val))].ver,
                [ver |-> snap.rows[o].ver + 1, val |-> Mapped(s, snap.rows[o].val),
                 admitted |-> ~ Allowed(s, Mapped(s, snap.rows[o].val))].val, None, None, {}) : o \in M})
  BY Zenon DEF InstallApplies
<1>4. log' = log \o InOrder(E)
  <2>1. \A m \in closed :
          Event(c, Version + 1, "publish", m, snap.changes[m].ver + 1, None, None, None, {}) = PublishEvent(c, m)
    BY <1>1 DEF PublishEvent
  <2>2. \A o \in M :
          Event(c, Version + 1, "migrate", o,
                [ver |-> snap.rows[o].ver + 1, val |-> Mapped(s, snap.rows[o].val),
                 admitted |-> ~ Allowed(s, Mapped(s, snap.rows[o].val))].ver,
                [ver |-> snap.rows[o].ver + 1, val |-> Mapped(s, snap.rows[o].val),
                 admitted |-> ~ Allowed(s, Mapped(s, snap.rows[o].val))].val, None, None, {})
          = MigrateEvent(c, o, val(o))
    BY <1>1 DEF MigrateEvent
  <2> DEFINE F == {Event(c, Version + 1, "publish", m, snap.changes[m].ver + 1, None, None, None, {}) : m \in closed}
             G == {Event(c, Version + 1, "migrate", o,
                [ver |-> snap.rows[o].ver + 1, val |-> Mapped(s, snap.rows[o].val),
                 admitted |-> ~ Allowed(s, Mapped(s, snap.rows[o].val))].ver,
                [ver |-> snap.rows[o].ver + 1, val |-> Mapped(s, snap.rows[o].val),
                 admitted |-> ~ Allowed(s, Mapped(s, snap.rows[o].val))].val, None, None, {}) : o \in M}
  <2>3. F = {PublishEvent(c, m) : m \in closed}
    BY <2>1, Zenon
  <2>4. G = {MigrateEvent(c, o, val(o)) : o \in M}
    BY <2>2, Zenon
  <2>5. log' = log \o InOrder(F \cup G)
    BY <1>3
  <2> HIDE DEF F, G
  <2>6. F \cup G = E
    BY <2>3, <2>4
  <2>7. QED
    BY <2>5, <2>6
<1>5. StoreOK /\ LogOK(log, rows, changes, keys) /\ KeysOK /\ ReportIsOfItsChange
  BY DEF VersionsInv
<1>6. /\ declared \in Seq(Sources) /\ Version \in Nat /\ Version > 0 /\ rows \in Rows /\ IsChanges(changes)
      /\ (\A m \in Changes : changes[m].base <= Version) /\ next \in Nat /\ next >= 1
      /\ lib \in [Procs -> Nat] /\ \A p \in Procs : lib[p] \in 1..Version
  BY <1>5, NextIs DEF StoreOK
<1>7. s \in Sources
  BY <1>1, <1>6 DEF IsChanges, IsChange
<1>8. \A m \in Changes : changes[m].ver \in Nat
  BY <1>6 DEF IsChanges, IsChange
<1>9. \A o \in Objects : rows[o].ver \in Nat /\ rows[o].val \in Values
  BY <1>6, RowsAre
<1>10. \A o \in M : val(o) \in Values
  BY <1>1, <1>7, <1>9, MappedIs
<1> HIDE DEF k, s, closed, M, snap, r
<1>11. ASSUME NEW o \in Objects
       PROVE  /\ rows'[o] \in Row
              /\ o \in M => rows'[o].ver = rows[o].ver + 1 /\ rows'[o].val = val(o)
              /\ o \notin M => rows'[o] = rows[o]
  <2>1. CASE o \in M
    <3>1. rows'[o] = [ver |-> rows[o].ver + 1, val |-> val(o), admitted |-> ~ Allowed(s, val(o))]
      BY <1>1, <1>2, <2>1
    <3>2. QED
      BY <1>9, <1>10, <2>1, <3>1 DEF Row
  <2>2. CASE o \notin M
    BY <1>2, <1>6, <2>2 DEF Rows
  <2>3. QED
    BY <2>1, <2>2
<1>12. rows' \in Rows
  BY <1>2, <1>11 DEF Rows
<1>13. ASSUME NEW m \in Changes
       PROVE  /\ IsChange(changes'[m]) /\ changes'[m].base = changes[m].base /\ changes'[m].source = changes[m].source
              /\ m \in closed => changes'[m].ver = changes[m].ver + 1 /\ changes'[m].state = ended(m)
              /\ m \notin closed => changes'[m] = changes[m]
  <2>1. CASE m \in closed
    <3> DEFINE ch == changes[m]
               ch2 == changes'[m]
               st == ended(m)
    <3>1. ch2 = Closed(ch, st) /\ IsChange(ch)
      BY <1>1, <1>2, <1>6, <2>1 DEF IsChanges
    <3> HIDE DEF ch, ch2, st
    <3>2. /\ IsChange(ch2) /\ ch2.state = st /\ ch2.ver = ch.ver + 1
          /\ ch2.source = ch.source /\ ch2.base = ch.base
      BY <3>1, ClosedIs
    <3>3. QED
      BY <2>1, <3>2 DEF ch, ch2, st
  <2>2. CASE m \notin closed
    BY <1>2, <1>6, <2>2 DEF IsChanges
  <2>3. QED
    BY <2>1, <2>2
<1>14. IsChanges(changes')
  BY <1>2, <1>13 DEF IsChanges
<1>15. /\ declared' \in Seq(Sources) /\ Version' = Version + 1 /\ declared'[Version + 1] = s
       /\ \A i \in 1..Version : declared'[i] = declared[i]
  BY <1>2, <1>6, <1>7 DEF Version
<1>16. /\ lib' \in [Procs -> Nat] /\ lib'[Proc(c)] = Version + 1
       /\ \A p \in Procs : p # Proc(c) => lib'[p] = lib[p]
  BY <1>2, <1>6, ProcIs
<1>17. \A p \in Procs : lib[p] <= lib'[p] /\ lib'[p] \in 1..Version' /\ (lib'[p] # lib[p] => p = Proc(c))
  BY <1>6, <1>15, <1>16
<1>18. StoreOK'
  <2>1. \A m \in Changes : changes'[m].base <= Version'
    <3>1. ASSUME NEW m \in Changes PROVE changes'[m].base <= Version'
      <4>1. changes'[m].base = changes[m].base /\ changes[m].base <= Version /\ changes[m].base \in Nat
        BY <1>6, <1>13 DEF IsChanges, IsChange
      <4>2. QED
        BY <1>6, <1>15, <4>1
    <3>2. QED
      BY <3>1
  <2>2. next' = next /\ Version' > 0
    BY <1>2, <1>6, <1>15
  <2>3. QED
    BY <1>6, <1>12, <1>14, <1>15, <1>16, <1>17, <2>1, <2>2 DEF StoreOK
<1>19. Later(changes, changes', Changes)
  <2>1. ASSUME NEW m \in Changes
        PROVE  changes[m].ver <= changes'[m].ver /\ (changes[m].ver = changes'[m].ver => changes'[m] = changes[m])
    <3>1. CASE m \in closed
      <4>1. changes'[m].ver = changes[m].ver + 1 /\ changes[m].ver \in Nat
        BY <1>8, <1>13, <3>1
      <4>2. QED
        BY <4>1
    <3>2. CASE m \notin closed
      BY <1>8, <1>13, <3>2
    <3>3. QED
      BY <3>1, <3>2
  <2>2. QED
    BY <2>1 DEF Later
<1>20. Later(rows, rows', Objects)
  <2>1. ASSUME NEW o \in Objects
        PROVE  rows[o].ver <= rows'[o].ver /\ (rows[o].ver = rows'[o].ver => rows'[o] = rows[o])
    <3>1. CASE o \in M
      <4>1. rows'[o].ver = rows[o].ver + 1 /\ rows[o].ver \in Nat
        BY <1>9, <1>11, <3>1
      <4>2. QED
        BY <4>1
    <3>2. CASE o \notin M
      BY <1>9, <1>11, <3>2
    <3>3. QED
      BY <3>1, <3>2
  <2>2. QED
    BY <2>1 DEF Later
<1>21. KeysOK'
  BY <1>2, <1>5 DEF KeysOK
<1>22. ReportIsOfItsChange'
  <2>1. ASSUME NEW m \in Changes
        PROVE  /\ changes'[m].state = "SUBMITTED" => changes'[m].report.source = changes'[m].source
               /\ changes'[m].state = "PUBLISHED" =>
                    changes'[m].base < Version' /\ declared'[changes'[m].base + 1] = changes'[m].source
    <3>1. CASE m \in closed
      <4>1. changes'[m].state = ended(m) /\ changes'[m].state # "SUBMITTED"
        BY <1>13, <3>1
      <4>2. CASE m = k
        <5>1. changes'[m].base = Version /\ changes'[m].source = s
          BY <1>1, <1>13, <4>2
        <5>2. QED
          BY <1>6, <1>15, <4>1, <5>1
      <4>3. CASE m # k
        BY <4>1, <4>3
      <4>4. QED
        BY <4>2, <4>3
    <3>2. CASE m \notin closed
      <4>1. changes'[m] = changes[m]
        BY <1>13, <3>2
      <4>2. ASSUME changes[m].state = "PUBLISHED"
            PROVE  changes[m].base < Version' /\ declared'[changes[m].base + 1] = changes[m].source
        <5>1. changes[m].base < Version /\ declared[changes[m].base + 1] = changes[m].source
          BY <1>5, <4>2 DEF ReportIsOfItsChange
        <5>2. changes[m].base \in Nat
          BY <1>6 DEF IsChanges, IsChange
        <5>3. changes[m].base + 1 \in 1..Version /\ changes[m].base < Version + 1
          BY <1>6, <5>1, <5>2
        <5>4. QED
          BY <1>15, <5>1, <5>3
      <4>3. QED
        BY <1>5, <4>1, <4>2 DEF ReportIsOfItsChange
    <3>3. QED
      BY <3>1, <3>2
  <2>2. QED
    BY <2>1 DEF ReportIsOfItsChange
<1>23. /\ \A m \in Changes : Installed(PublishEvent(c, m), m, changes[m].ver + 1)
       /\ \A o \in Objects : \A v \in Values :
            Installed(MigrateEvent(c, o, v), o, rows[o].ver + 1) /\ MigrateEvent(c, o, v).val = v
  BY InstalledAre
<1>24. \A e \in E : \/ \E m \in closed : e = PublishEvent(c, m) /\ Installed(e, m, changes[m].ver + 1)
                    \/ \E o \in M : /\ e = MigrateEvent(c, o, val(o)) /\ Installed(e, o, rows[o].ver + 1)
                                    /\ e.val = val(o)
  BY <1>1, <1>10, <1>23
<1>25. LogOK(log', rows', changes', keys') /\ (Apart(log, next) => Apart(log', next'))
  <2> HIDE DEF E, val, ended
  <2>1. E \subseteq Events
    BY <1>24 DEF Installed
  <2>2. \A e \in E : /\ e.object \in M \cup closed /\ e.x \in {"publish", "migrate"}
                     /\ e.batch = None /\ e.asked = {}
    BY <1>24 DEF Installed
  <2>3. ASSUME NEW e \in E, NEW f \in E, e.object = f.object PROVE e = f
    <3>1. closed \cap M = {}
      BY <1>1, VersionsAssumption
    <3>2. \/ \E m \in closed : e = PublishEvent(c, m) /\ e.object = m
          \/ \E o \in M : e = MigrateEvent(c, o, val(o)) /\ e.object = o
      BY <1>24 DEF Installed
    <3>3. \/ \E m \in closed : f = PublishEvent(c, m) /\ f.object = m
          \/ \E o \in M : f = MigrateEvent(c, o, val(o)) /\ f.object = o
      BY <1>24 DEF Installed
    <3>4. QED
      BY <2>3, <3>1, <3>2, <3>3
  <2>4. IsFiniteSet(E)
    <3>1. \A e \in E : e.object \in Objects \cup Changes
      BY <1>1, <2>2
    <3>2. QED
      BY <2>3, <3>1, FewEvents
  <2> DEFINE rws2 == rows'
             chs2 == changes'
             l2 == log'
  <2>5. ASSUME NEW o \in M
        PROVE  \E e \in E : e.object = o /\ e.seq = rows[o].ver + 1 /\ e.val = rws2[o].val
    <3> DEFINE e == MigrateEvent(c, o, val(o))
    <3>1. e \in E
      BY DEF E
    <3>2. e.object = o /\ e.seq = rows[o].ver + 1 /\ e.val = val(o)
      BY <1>1, <1>10, <1>23 DEF Installed
    <3>3. rws2[o].val = val(o)
      BY <1>1, <1>11
    <3>4. QED
      BY <3>1, <3>2, <3>3
  <2>6. ASSUME NEW m \in closed PROVE \E e \in E : e.object = m /\ e.seq = changes[m].ver + 1
    <3> DEFINE e == PublishEvent(c, m)
    <3>1. e \in E
      BY DEF E
    <3>2. e.object = m /\ e.seq = changes[m].ver + 1
      BY <1>1, <1>23 DEF Installed
    <3>3. QED
      BY <3>1, <3>2
  <2>7. /\ \A o \in M : rws2[o].ver = rows[o].ver + 1
        /\ \A o \in Objects \ M : rws2[o] = rows[o]
    BY <1>1, <1>11
  <2>8. /\ \A m \in closed : chs2[m].ver = changes[m].ver + 1
        /\ \A m \in Changes \ closed : chs2[m] = changes[m]
    BY <1>1, <1>13
  <2>9. l2 = log \o InOrder(E)
    BY <1>4
  <2>10. M \subseteq Objects /\ closed \subseteq Changes
    BY <1>1
  <2>11. \A o \in Objects : rows[o].ver \in Nat
    BY <1>9
  <2>12. \A e, f \in E : e.object = f.object => e = f
    BY <2>3
  <2>13. \A o \in M : \E e \in E : e.object = o /\ e.seq = rows[o].ver + 1 /\ e.val = rws2[o].val
    BY <2>5
  <2>14. \A m \in closed : \E e \in E : e.object = m /\ e.seq = changes[m].ver + 1
    BY <2>6
  <2> HIDE DEF rws2, chs2, l2
  <2>17. Closes(rows, rws2, changes, chs2, E, M, closed)
    BY <1>8, <2>1, <2>2, <2>4, <2>7, <2>8, <2>10, <2>11, <2>12, <2>13, <2>14 DEF Closes
  <2>15. LogOK(l2, rws2, chs2, keys)
    BY <1>5, <2>9, <2>17, InstallLogs
  <2>18. ASSUME Apart(log, next) PROVE Apart(l2, next)
    <3>1. log \in Seq(Events)
      BY <1>5 DEF LogOK
    <3>2. AllOn(log, l2, E)
      BY <2>1, <2>4, <2>9, <3>1, ConcatGoesOn
    <3>3. \A e \in E : e.num = None
      BY <1>24 DEF Installed
    <3>4. QED
      BY <1>6, <2>18, <3>1, <3>2, <3>3, ApartInstalled
  <2>16. QED
    BY <1>2, <2>15, <2>18 DEF rws2, chs2, l2
<1>26. Version <= Version' /\ calls[c].pc \notin Free
  BY <1>6, <1>15 DEF Free
<1>27. QED
  BY <1>2, <1>17, <1>18, <1>19, <1>20, <1>21, <1>22, <1>25, <1>26, Committed


LEMMA InstallStep ==
  ASSUME VersionsInv, NEW c \in Clients, Install(c)
  PROVE  VersionsInv'
<1>1. calls[c].pc = "install"
  BY InstallIs
<1>2. CASE InstallApplies(c)
  BY <1>1, <1>2, InstallAppliesStep
<1>3. CASE Answer(c) /\ UNCHANGED <<declared, rows, changes, log, keys, next, attempts, lib, crashes>>
  <2>1. OnlyOf(c) /\ calls'[c] = Idle
    BY <1>3, CallsDomain DEF OnlyOf, Answer
  <2>2. MutexMoves(c, holder, holder', calls, calls')
    BY <1>1, <1>3, <2>1, IdleIs DEF MutexMoves, Free, Answer
  <2>3. UNCHANGED <<declared, rows, changes, log, keys, lib, next>>
    BY <1>3
  <2>4. QED
    BY <2>1, <2>2, <2>3, NextIs, StoreAndLibKept
<1>4. QED
  BY <1>2, <1>3, InstallIs

-----------------------------------------------------------------------------
(* A process killed and started again.                                     *)

LEMMA CrashStep ==
  ASSUME VersionsInv, NEW q \in Procs, Crash(q)
  PROVE  VersionsInv'
<1>1. StoreOK /\ CallsOK /\ HolderOK /\ LogOK(log, rows, changes, keys) /\ KeysOK /\ ReportIsOfItsChange
  BY DEF VersionsInv
<1>2. /\ lib' = [lib EXCEPT ![q] = Version] /\ holder' = [holder EXCEPT ![q] = NoOne]
      /\ calls' = [c \in Clients |-> IF Proc(c) = q THEN Idle ELSE calls[c]]
      /\ UNCHANGED <<declared, rows, changes, log, keys, next, attempts>> /\ Version' = Version
  BY DEF Crash, Version
<1>3. Version \in Nat /\ Version >= 1 /\ lib \in [Procs -> Nat] /\ \A p \in Procs : lib[p] \in 1..Version
  BY <1>1, NextIs DEF StoreOK
<1>4. /\ lib' \in [Procs -> Nat] /\ \A p \in Procs : p # q => lib'[p] = lib[p]
      /\ \A p \in Procs : lib'[p] \in 1..Version
  BY <1>2, <1>3
<1>5. StoreOK'
  BY <1>1, <1>2, <1>4 DEF StoreOK
<1>6. CallsOK'
  <2>1. ASSUME NEW c \in Clients
        PROVE  calls'[c] = Idle \/ CallOK(calls'[c], c, Version, lib'[Proc(c)], changes, rows)
    <3>1. CASE Proc(c) = q
      BY <1>2, <3>1
    <3>2. CASE Proc(c) # q
      <4>1. calls'[c] = calls[c] /\ lib'[Proc(c)] = lib[Proc(c)]
        BY <1>2, <1>4, <3>2, ProcIs
      <4>2. calls[c] = Idle \/ CallOK(calls[c], c, Version, lib[Proc(c)], changes, rows)
        BY <1>1 DEF CallsOK, CallsAre
      <4>3. QED
        BY <4>1, <4>2
    <3>3. QED
      BY <3>1, <3>2
  <2>2. DOMAIN calls' = Clients
    BY <1>2
  <2>3. CallsAre(calls', Version, lib', changes, rows)
    BY <2>1, <2>2 DEF CallsAre
  <2>4. CallsAre(calls', Version', lib', changes', rows')
    BY <1>2, <2>3
  <2>5. QED
    BY <2>4 DEF CallsOK
<1>7. HolderOK'
  <2>1. /\ holder \in [Procs -> Clients \cup {NoOne}]
        /\ \A p \in Procs : holder[p] # NoOne => Proc(holder[p]) = p /\ calls[holder[p]].pc \notin Free
        /\ \A c \in Clients : calls[c].pc \notin Free => holder[Proc(c)] = c
    BY <1>1 DEF HolderOK, HoldersAre
  <2>2. /\ holder' \in [Procs -> Clients \cup {NoOne}] /\ holder'[q] = NoOne
        /\ \A p \in Procs : p # q => holder'[p] = holder[p]
    BY <1>2, <2>1
  <2>3. ASSUME NEW p \in Procs, holder'[p] # NoOne
        PROVE  Proc(holder'[p]) = p /\ calls'[holder'[p]].pc \notin Free
    <3>1. p # q /\ holder'[p] = holder[p] /\ holder[p] \in Clients
      BY <2>1, <2>2, <2>3
    <3>2. Proc(holder[p]) = p /\ calls[holder[p]].pc \notin Free
      BY <2>1, <2>3, <3>1
    <3>3. calls'[holder[p]] = calls[holder[p]]
      BY <1>2, <3>1, <3>2
    <3>4. QED
      BY <3>1, <3>2, <3>3
  <2>4. ASSUME NEW c \in Clients, calls'[c].pc \notin Free PROVE holder'[Proc(c)] = c
    <3>1. Proc(c) # q
      BY <1>2, <2>4, IdleIs
    <3>2. calls'[c] = calls[c]
      BY <1>2, <3>1
    <3>3. QED
      BY <2>1, <2>2, <2>4, <3>1, <3>2, ProcIs
  <2>5. HoldersAre(holder', calls')
    BY <2>2, <2>3, <2>4 DEF HoldersAre
  <2>6. QED
    BY <2>5 DEF HolderOK
<1>8. KeysOK' /\ ReportIsOfItsChange'
  BY <1>1, <1>2 DEF KeysOK, ReportIsOfItsChange
<1>9. LogOK(log', rows', changes', keys')
  BY <1>1, <1>2
<1>10. QED
  BY <1>5, <1>6, <1>7, <1>8, <1>9 DEF VersionsInv

-----------------------------------------------------------------------------
(* The invariant.                                                          *)

LEMMA VersionsInit == Init => VersionsInv
<1> SUFFICES ASSUME Init PROVE VersionsInv
  OBVIOUS
<1>1. declared = <<Base>> /\ Version = 1 /\ declared \in Seq(Sources)
  BY DEF Init, Version, Sources
<1>2. rows \in Rows /\ \A o \in Objects : rows[o].ver = 0 /\ rows[o].val = First
  <2>1. [ver |-> 0, val |-> First, admitted |-> FALSE] \in Row
    BY VersionsAssumption DEF Row
  <2>2. QED
    BY <2>1 DEF Init, Rows
<1>3. /\ IsChanges(changes)
      /\ \A k \in Changes : changes[k].base = 0 /\ changes[k].ver = 0 /\ changes[k].state = "NONE"
  <2>1. \A k \in Changes :
          changes[k] = [state |-> "NONE", ver |-> 0, source |-> Base, base |-> None, report |-> NoReport,
                        by |-> NoOne]
    BY DEF Init
  <2>2. Base \in Sources
    BY DEF Sources
  <2>3. \A k \in Changes : IsChange(changes[k])
    BY <2>1, <2>2 DEF IsChange, None
  <2>4. QED
    BY <2>1, <2>3 DEF IsChanges, Init, None
<1>4. StoreOK
  <2>1. lib \in [Procs -> Nat] /\ (\A p \in Procs : lib[p] \in 1..1) /\ next \in Nat /\ next >= 1
    BY DEF Init
  <2>2. \A k \in Changes : changes[k].base <= 1
    BY <1>3
  <2>3. QED
    BY <1>1, <1>2, <1>3, <2>1, <2>2 DEF StoreOK
<1>5. CallsOK
  BY DEF CallsOK, CallsAre, Init
<1>6. HolderOK
  BY IdleIs DEF HolderOK, HoldersAre, Init
<1>7. LogOK(log, rows, changes, keys)
  <2>1. log = <<>> /\ log \in Seq(Events) /\ DOMAIN log = {}
    BY DEF Init
  <2>2. \A o \in Objects : Numbered(log, o, 0) /\ LastLeft(log, o, rows[o])
    BY <1>2, <2>1 DEF Numbered, LastLeft
  <2>3. \A k \in Changes : Numbered(log, k, 0)
    BY <2>1 DEF Numbered
  <2>4. QED
    BY <1>2, <1>3, <2>1, <2>2, <2>3 DEF LogOK
<1>8. KeysOK /\ ReportIsOfItsChange
  BY <1>3 DEF KeysOK, ReportIsOfItsChange, Init
<1>9. QED
  BY <1>4, <1>5, <1>6, <1>7, <1>8 DEF VersionsInv

LEMMA VersionsStep == VersionsInv /\ [Next]_vars => VersionsInv'
<1> SUFFICES ASSUME VersionsInv, [Next]_vars PROVE VersionsInv'
  OBVIOUS
<1>1. ASSUME NEW c \in Clients, Step(c) PROVE VersionsInv'
  BY <1>1, DryReadStep, DryImpactStep, DryLateStep, EnterStep, ReloadStep, WriteStep, AskingStep,
     KeepDrawsStep, AttemptStep, BatchKeyStep, RunBatchStep, ChangeFlowStep, DecideStep, InstallStep DEF Step
<1>2. ASSUME NEW c \in Clients, NEW call \in Calls[c], Ask(c, call) PROVE VersionsInv'
  BY <1>2, AskStep
<1>3. ASSUME NEW p \in Procs, Crash(p) PROVE VersionsInv'
  BY <1>3, CrashStep
<1>4. CASE UNCHANGED vars
  <2>1. UNCHANGED <<declared, rows, changes, log, keys, next, lib, holder, calls>>
    BY <1>4 DEF vars
  <2>2. StoreOK' /\ CallsOK' /\ HolderOK' /\ KeysOK' /\ ReportIsOfItsChange'
    BY <2>1 DEF VersionsInv, StoreOK, CallsOK, HolderOK, KeysOK, ReportIsOfItsChange, Version
  <2>3. LogOK(log', rows', changes', keys')
    BY <2>1 DEF VersionsInv
  <2>4. QED
    BY <2>2, <2>3 DEF VersionsInv
<1>5. QED
  BY <1>1, <1>2, <1>3, <1>4 DEF Next, Quiet

(* Every state of the store, its processes and their calls satisfies it,   *)
(* however requests, batches, changes, dry runs, installs and crashes of   *)
(* the processes meet (transact, run_batch, publish_decided, install).     *)
THEOREM VersionsInvariant == Spec => []VersionsInv
BY VersionsInit, VersionsStep, PTL DEF Spec


(* A process has loaded a version the store was at, and its mutex is held  *)
(* by a client of its own inside a call and never while an evaluator is    *)
(* asked or a dry run prepared (locked, consulting_with, dry_running).     *)
THEOREM VersionsTyped == Spec => []TypeOK
<1>1. VersionsInv => TypeOK
  <2> SUFFICES ASSUME VersionsInv PROVE TypeOK
    OBVIOUS
  <2>1. \A p \in Procs : holder[p] # NoOne => Proc(holder[p]) = p /\ calls[holder[p]].pc \notin Free
    BY DEF VersionsInv, HolderOK, HoldersAre
  <2>2. \A o \in Objects : rows[o].val \in Values
    BY RowsAre DEF VersionsInv, StoreOK
  <2>3. QED
    BY <2>1, <2>2 DEF TypeOK, VersionsInv, StoreOK, Free
<1>2. QED
  BY <1>1, VersionsInvariant, PTL

(* An object's events as many as its version.                              *)
LEMMA NumberedCount ==
  ASSUME NEW o, NEW n \in Nat, Numbered(log, o, n)
  PROVE  {log[i].seq : i \in Positions(o)} = 1..n /\ Cardinality(Positions(o)) = n
<1> DEFINE P == Positions(o)
           f == [i \in P |-> log[i].seq]
<1>1. /\ \A i \in P : log[i].seq \in 1..n
      /\ \A m \in 1..n : \E i \in P : log[i].seq = m
      /\ \A i, j \in P : log[i].seq = log[j].seq => i = j
  BY DEF Positions, Numbered
<1>2. {log[i].seq : i \in P} = 1..n
  BY <1>1
<1> HIDE DEF P
<1>3. f \in [P -> 1..n] /\ \A i \in P : f[i] = log[i].seq
  BY <1>1
<1> HIDE DEF f
<1>4. f \in Bijection(P, 1..n)
  <2>1. \A i, j \in P : f[i] = f[j] => i = j
    BY <1>1, <1>3
  <2>2. \A m \in 1..n : \E i \in P : f[i] = m
    BY <1>1, <1>3
  <2>3. IsInjective(f)
    BY <1>3, <2>1 DEF IsInjective
  <2>4. QED
    BY <1>3, <2>2, <2>3 DEF Bijection, Injection, Surjection
<1>5. IsFiniteSet(1..n) /\ Cardinality(1..n) = n
  <2>1. IsFiniteSet(1..n) /\ Cardinality(1..n) = IF 1 > n THEN 0 ELSE n - 1 + 1
    BY FS_Interval
  <2>2. (IF 1 > n THEN 0 ELSE n - 1 + 1) = n
    OBVIOUS
  <2>3. QED
    BY <2>1, <2>2
<1>6. IsFiniteSet(P)
  <2>1. f \in Injection(P, 1..n)
    BY <1>4 DEF Bijection
  <2>2. QED
    BY <1>5, <2>1, FS_Injection
<1>7. Cardinality(P) = n
  <2>1. ExistsBijection(P, 1..n)
    BY <1>4 DEF ExistsBijection
  <2>2. QED
    BY <1>5, <1>6, <2>1, FS_Bijection
<1>8. QED
  BY <1>2, <1>7 DEF P

(* Nothing committed is written over, the install of what was read before  *)
(* another process wrote among it: an object's events are numbered without *)
(* a gap or a repeat and its row is as the last left it (run_in_transaction*)
(* and install, of_event's UNIQUE (object_id, object_seq)).                *)
THEOREM VersionsNoLostWrite == Spec => []NoLostWrite
<1>1. VersionsInv => NoLostWrite
  <2> SUFFICES ASSUME VersionsInv PROVE NoLostWrite
    OBVIOUS
  <2>1. LogOK(log, rows, changes, keys) /\ rows \in Rows /\ IsChanges(changes)
    BY DEF VersionsInv, StoreOK
  <2>2. ASSUME NEW o \in Objects
        PROVE  /\ {log[i].seq : i \in Positions(o)} = 1..rows[o].ver
               /\ Cardinality(Positions(o)) = rows[o].ver
               /\ \A i \in Positions(o) : log[i].seq = rows[o].ver => log[i].val = rows[o].val
    <3> DEFINE n == rows[o].ver
    <3>1. n \in Nat /\ Numbered(log, o, n) /\ LastLeft(log, o, rows[o])
      BY <2>1, RowsAre DEF LogOK
    <3>2. \A i \in Positions(o) : log[i].seq = n => log[i].val = rows[o].val
      BY <3>1 DEF LastLeft, Positions
    <3> HIDE DEF n
    <3>3. {log[i].seq : i \in Positions(o)} = 1..n /\ Cardinality(Positions(o)) = n
      BY <3>1, NumberedCount
    <3>4. QED
      BY <3>2, <3>3 DEF n
  <2>3. ASSUME NEW k \in Changes
        PROVE  {log[i].seq : i \in Positions(k)} = 1..changes[k].ver /\ Cardinality(Positions(k)) = changes[k].ver
    <3> DEFINE n == changes[k].ver
    <3>1. n \in Nat /\ Numbered(log, k, n)
      BY <2>1 DEF LogOK, IsChanges, IsChange
    <3> HIDE DEF n
    <3>2. {log[i].seq : i \in Positions(k)} = 1..n /\ Cardinality(Positions(k)) = n
      BY <3>1, NumberedCount
    <3>3. QED
      BY <3>2 DEF n
  <2>4. QED
    BY <2>2, <2>3 DEF NoLostWrite
<1>2. QED
  BY <1>1, VersionsInvariant, PTL

(* A write runs under a version the store was at during its call, a batch  *)
(* under the one it commits at (transact's reload, begin_group).           *)
THEOREM VersionsInTime == Spec => []RunsUnderItsTime
<1>1. VersionsInv => RunsUnderItsTime
  BY DEF VersionsInv, LogOK, EventOK, OfItsTime, RunsUnderItsTime
<1>2. QED
  BY <1>1, VersionsInvariant, PTL

(* A batch under a key is applied at most once, by whichever process       *)
(* (batch_named, record_batch_key).                                        *)
THEOREM BatchesOnce == Spec => []BatchOnce
<1>1. VersionsInv => BatchOnce
  <2> SUFFICES ASSUME VersionsInv, NEW k \in {log[i].batch : i \in DOMAIN log} \ {None},
                      NEW m \in {log[i].batch : i \in DOMAIN log} \ {None}
               PROVE  \E a \in keys, b \in keys : a.first = k /\ b.first = m /\ (a.key = b.key => k = m)
    BY DEF BatchOnce
  <2>1. \A i \in DOMAIN log : log[i].batch # None => \E a \in keys : a.first = log[i].batch
    BY DEF VersionsInv, LogOK, EventOK
  <2>2. PICK a \in keys : a.first = k
    BY <2>1
  <2>3. PICK b \in keys : b.first = m
    BY <2>1
  <2>4. a.key = b.key => a = b
    BY DEF VersionsInv, KeysOK
  <2>5. QED
    BY <2>2, <2>3, <2>4
<1>2. QED
  BY <1>1, VersionsInvariant, PTL

(* What the approver of a change is shown is the dry run of the source the *)
(* change holds, and one published replaced the version it was drafted on  *)
(* (prepared_dry_run, decide_change, publish_decided, install).            *)
THEOREM ReportsAreOfTheirChanges == Spec => []ReportIsOfItsChange
<1>1. VersionsInv => ReportIsOfItsChange
  BY DEF VersionsInv
<1>2. QED
  BY <1>1, VersionsInvariant, PTL

(* A request its evaluators judged is applied on their answer for what its *)
(* object holds as it is applied (consulting_with, Call::key).             *)
THEOREM JudgedOnWhatHeld == Spec => []JudgedOnWhatItHolds
<1>1. VersionsInv => JudgedOnWhatItHolds
  <2> SUFFICES ASSUME VersionsInv, NEW i \in DOMAIN log, log[i].asked # {}
               PROVE  LET before == {j \in Positions(log[i].object) : log[j].seq = log[i].seq - 1}
                          held == IF before = {} THEN First ELSE log[CHOOSE j \in before : TRUE].val IN
                      held \in log[i].asked
    BY DEF JudgedOnWhatItHolds
  <2> DEFINE o == log[i].object
             before == {j \in Positions(o) : log[j].seq = log[i].seq - 1}
  <2>1. EventOK(log, log[i], keys) /\ rows \in Rows
    BY DEF VersionsInv, LogOK, StoreOK
  <2>2. o \in Objects /\ Judged(log, log[i])
    BY <2>1 DEF EventOK
  <2>3. rows[o].ver \in Nat /\ Numbered(log, o, rows[o].ver)
    BY <2>1, <2>2, RowsAre DEF VersionsInv, LogOK
  <2>4. CASE log[i].seq = 1 /\ First \in log[i].asked
    <3>1. \A j \in Positions(o) : log[j].seq \in 1..rows[o].ver
      BY <2>3 DEF Numbered, Positions
    <3>2. before = {}
      BY <2>3, <2>4, <3>1
    <3>3. QED
      BY <2>4, <3>2
  <2>5. CASE \E j \in DOMAIN log : log[j].object = o /\ log[j].seq = log[i].seq - 1 /\ log[j].val \in log[i].asked
    <3>1. PICK j \in DOMAIN log : log[j].object = o /\ log[j].seq = log[i].seq - 1 /\ log[j].val \in log[i].asked
      BY <2>5
    <3>2. j \in before
      BY <3>1 DEF Positions
    <3> DEFINE m == CHOOSE x \in before : TRUE
    <3>3. m \in before
      BY <3>2
    <3>4. m \in DOMAIN log /\ log[m].object = o /\ log[m].seq = log[j].seq
      BY <3>1, <3>3 DEF Positions
    <3>5. m = j
      BY <2>3, <3>1, <3>4 DEF Numbered
    <3>6. before # {}
      BY <3>2
    <3> HIDE DEF m
    <3>7. log[m].val \in log[i].asked
      BY <3>1, <3>5
    <3>8. QED
      BY <3>6, <3>7 DEF m
  <2>6. QED
    BY <2>2, <2>4, <2>5 DEF Judged
<1>2. QED
  BY <1>1, VersionsInvariant, PTL


-----------------------------------------------------------------------------
(* The numbers drawn.                                                      *)

LEMMA ApartOn ==
  ASSUME NEW l, NEW n \in Nat, NEW m \in Nat, n <= m, Apart(l, n), l \in Seq(Events)
  PROVE  Apart(l, m)
<1>1. ASSUME NEW i \in DOMAIN l PROVE l[i].num < m
  <2>1. l[i] \in Events
    OBVIOUS
  <2>2. l[i].num \in Nat /\ l[i].num < n
    BY <2>1 DEF Apart, Events
  <2>3. QED
    BY <2>2
<1>2. QED
  BY <1>1 DEF Apart

(* A step of c's call: the number another is to keep stands, the mutex of  *)
(* a sole writer keeping the two apart.                                    *)
LEMMA DrawsStep ==
  ASSUME VersionsInv, DrawsOK, NEW c \in Clients, OnlyOf(c), Apart(log', next'),
         next' = next \/ calls[c].pc \notin Free, LoneKept(calls'[c], next')
  PROVE  DrawsOK'
<1>1. ASSUME NEW d \in Clients, d # c PROVE LoneKept(calls[d], next')
  <2>1. LoneKept(calls[d], next)
    BY DEF DrawsOK
  <2>2. CASE next' = next
    BY <2>1, <2>2
  <2>3. CASE calls[c].pc \notin Free
    <3>1. SUFFICES ASSUME calls[d].pc = "keep", SoleWriter PROVE FALSE
      BY <2>1 DEF LoneKept
    <3>2. holder[Proc(c)] = c /\ holder[Proc(d)] = d
      BY <2>3, <3>1 DEF VersionsInv, HolderOK, HoldersAre, Free
    <3>3. Proc(c) = Proc(d)
      BY <3>1, ProcIs DEF SoleWriter
    <3>4. QED
      BY <1>1, <3>2, <3>3
  <2>4. QED
    BY <2>2, <2>3
<1>2. \A d \in Clients : LoneKept(calls'[d], next')
  <2>1. ASSUME NEW d \in Clients PROVE LoneKept(calls'[d], next')
    <3>1. CASE d = c
      BY <3>1
    <3>2. CASE d # c
      <4>1. calls'[d] = calls[d]
        BY <3>2 DEF OnlyOf
      <4>2. QED
        BY <1>1, <3>2, <4>1
    <3>3. QED
      BY <3>1, <3>2
  <2>2. QED
    BY <2>1
<1>3. QED
  BY <1>2 DEF DrawsOK, LoneKept

(* One that leaves it none to keep.                                        *)
LEMMA NoneToKeep ==
  ASSUME VersionsInv, DrawsOK, NEW c \in Clients, OnlyOf(c), Apart(log', next'),
         next' = next \/ calls[c].pc \notin Free, calls'[c].pc # "keep"
  PROVE  DrawsOK'
<1>1. LoneKept(calls'[c], next')
  BY DEF LoneKept
<1>2. QED
  BY <1>1, DrawsStep

(* Most steps leave the log and the next number as they are.               *)
LEMMA DrawsKept ==
  ASSUME VersionsInv, DrawsOK, NEW c \in Clients,
         DryRead(c) \/ DryImpact(c) \/ DryLate(c) \/ Enter(c) \/ Reload(c) \/ Asking(c) \/ Attempt(c)
         \/ BatchKey(c) \/ Decide(c)
  PROVE  DrawsOK'
<1>1. Apart(log, next) /\ DOMAIN calls = Clients
  BY CallsDomain DEF DrawsOK
<1>2. log' = log /\ next' = next /\ calls[c].pc # "idle"
  BY DEF DryRead, DryImpact, DryLate, Enter, Reload, Asking, Attempt, BatchKey, Decide
<1>3. calls[c] # Idle /\ DOMAIN calls[c] = Fields
  BY <1>2, CallIs
<1>4. Apart(log', next')
  BY <1>1, <1>2
<1>5. OnlyOf(c) /\ calls'[c].pc # "keep"
  <2>1. CASE DryRead(c)
    <3> DEFINE p2 == IF Open(changes[Call(c).change]) THEN "dryimpact" ELSE "ready"
               v2 == changes[Call(c).change].ver
               d2 == [at |-> None, source |-> changes[Call(c).change].source]
    <3>1. calls' = [calls EXCEPT ![c].pc = p2, ![c].prepVer = v2, ![c].prepared = d2]
      BY <2>1 DEF DryRead
    <3>2. p2 # "keep"
      OBVIOUS
    <3> HIDE DEF p2, v2, d2
    <3>3. QED
      BY <1>1, <1>3, <3>1, <3>2 DEF OnlyOf, Fields
  <2>2. CASE DryImpact(c)
    <3> DEFINE d2 == Report(calls[c].prepared.source, Call(c).change, rows, changes, Version)
    <3>1. calls' = [calls EXCEPT ![c].pc = "ready", ![c].prepared = d2]
      BY <1>1, <1>3, <2>2 DEF DryImpact, Fields
    <3> HIDE DEF d2
    <3>2. QED
      BY <1>1, <1>3, <3>1 DEF OnlyOf, Fields
  <2>3. CASE DryLate(c)
    BY <1>1, <2>3 DEF DryLate, OnlyOf, Idle
  <2>4. CASE Enter(c)
    BY <1>1, <1>3, <2>4 DEF Enter, OnlyOf, Fields
  <2>5. CASE Reload(c)
    BY <1>1, <1>3, <2>5 DEF Reload, OnlyOf, Fields
  <2>6. CASE Asking(c)
    BY <1>1, <1>3, <2>6 DEF Asking, OnlyOf, Fields, Idle
  <2>7. CASE Attempt(c)
    BY <1>1, <2>7 DEF Attempt, Answer, OnlyOf, Idle
  <2>8. CASE BatchKey(c)
    BY <1>1, <1>3, <2>8 DEF BatchKey, Answer, OnlyOf, Fields, Idle
  <2>9. CASE Decide(c)
    <3> DEFINE d2 == [rows |-> rows, changes |-> changes,
                      report |-> Report(changes[Call(c).change].source, Call(c).change, rows, changes, lib[Proc(c)])]
    <3>1. \/ calls' = [calls EXCEPT ![c].pc = "install", ![c].snap = d2]
          \/ calls' = [calls EXCEPT ![c].pc = "attempt"]
      BY <2>9 DEF Decide
    <3> HIDE DEF d2
    <3>2. QED
      BY <1>1, <1>3, <3>1 DEF OnlyOf, Fields
  <2>10. QED
    BY <2>1, <2>2, <2>3, <2>4, <2>5, <2>6, <2>7, <2>8, <2>9
<1>6. QED
  BY <1>2, <1>4, <1>5, NoneToKeep


LEMMA DrawsAsk ==
  ASSUME VersionsInv, DrawsOK, NEW c \in Clients, NEW call \in Calls[c], Ask(c, call)
  PROVE  DrawsOK'
<1>1. DOMAIN calls = Clients /\ Apart(log, next) /\ log' = log /\ next' = next
  BY CallsDomain DEF DrawsOK, Ask
<1>2. calls' = [calls EXCEPT ![c] =
       [pc |-> Starts(call), call |-> call, reloaded |-> FALSE, asked |-> [v \in {} |-> ""],
        count |-> 0, prepared |-> NoReport, prepVer |-> None, began |-> Version,
        expected |-> Expected(call), about |-> None, drawn |-> None, fails |-> FALSE, snap |-> NoSnap]]
  BY DEF Ask
<1>3. OnlyOf(c) /\ calls'[c].pc # "keep"
  BY <1>1, <1>2 DEF OnlyOf, Starts
<1>4. Apart(log', next')
  BY <1>1
<1>5. QED
  BY <1>1, <1>3, <1>4, NoneToKeep

(* Nothing drawn to keep.                                                  *)
LEMMA DrawsNone ==
  ASSUME VersionsInv, DrawsOK, NEW c \in Clients, calls[c].pc # "idle", Keep(c, None)
  PROVE  DrawsOK'
<1>1. /\ calls' = [calls EXCEPT ![c].pc = "keep", ![c].drawn = None]
      /\ DOMAIN calls = Clients /\ Apart(log, next) /\ log' = log /\ next' = next
  BY CallsDomain DEF DrawsOK, Keep
<1>2. DOMAIN calls[c] = Fields
  BY CallIs
<1>3. OnlyOf(c) /\ calls'[c].drawn = None
  BY <1>1, <1>2 DEF OnlyOf, Fields
<1>4. Apart(log', next') /\ LoneKept(calls'[c], next')
  BY <1>1, <1>3 DEF LoneKept
<1>5. QED
  BY <1>1, <1>3, <1>4, DrawsStep

(* A call answered.                                                        *)
LEMMA DrawsAnswer ==
  ASSUME VersionsInv, DrawsOK, NEW c \in Clients, calls[c].pc \notin Free, Answer(c), Apart(log', next')
  PROVE  DrawsOK'
<1>1. OnlyOf(c) /\ calls'[c] = Idle
  BY CallsDomain DEF OnlyOf, Answer
<1>2. QED
  BY <1>1, IdleIs, NoneToKeep

LEMMA DrawsKeepDraws ==
  ASSUME VersionsInv, DrawsOK, NEW c \in Clients, KeepDraws(c)
  PROVE  DrawsOK'
<1>1. /\ calls[c].pc = "keep" /\ log' = log /\ calls' = [calls EXCEPT ![c].pc = "attempt"]
      /\ next' = IF calls[c].drawn = None THEN next ELSE Kept(c)
  BY DEF KeepDraws
<1>2. /\ calls[c] # Idle /\ DOMAIN calls = Clients /\ DOMAIN calls[c] = Fields
      /\ CallOK(calls[c], c, Version, lib[Proc(c)], changes, rows)
  BY <1>1, CallIs
<1>3. OnlyOf(c) /\ calls'[c].pc = "attempt"
  BY <1>1, <1>2 DEF OnlyOf, Fields
<1>4. calls[c].drawn \in Nat /\ next \in Nat /\ Call(c) = calls[c].call
  BY <1>2, NextIs DEF CallOK, CallShape, Call
<1>5. next' \in Nat /\ next <= next'
  <2>1. CASE calls[c].drawn = None
    BY <1>1, <1>4, <2>1
  <2>2. CASE calls[c].drawn # None /\ Call(c).kind = "batch"
    <3>1. next' = IF calls[c].drawn + 1 < next THEN next ELSE calls[c].drawn + 1
      BY <1>1, <2>2 DEF Kept
    <3>2. QED
      BY <1>4, <3>1
  <2>3. CASE calls[c].drawn # None /\ Call(c).kind # "batch"
    <3>1. next' = calls[c].drawn + 1
      BY <1>1, <2>3 DEF Kept
    <3>2. next <= calls[c].drawn + 1
      BY <1>1, <1>4, <2>3 DEF DrawsOK, LoneKept
    <3>3. QED
      BY <1>4, <3>1, <3>2
  <2>4. QED
    BY <2>1, <2>2, <2>3
<1>6. log \in Seq(Events) /\ Apart(log, next)
  BY DEF VersionsInv, LogOK, DrawsOK
<1>7. Apart(log, next')
  BY <1>4, <1>5, <1>6, ApartOn
<1>8. Apart(log', next') /\ calls[c].pc \notin Free
  BY <1>1, <1>7 DEF Free
<1>9. QED
  BY <1>3, <1>8, NoneToKeep

(* An event added to the log, that holds no number or the next.            *)
LEMMA DrawsAppend ==
  ASSUME VersionsInv, DrawsOK, NEW e \in Events, log' = Append(log, e), next' \in Nat,
         \/ e.num = None /\ next' = next
         \/ e.num = next /\ next' = next + 1
  PROVE  Apart(log', next')
<1>1. log \in Seq(Events) /\ next \in Nat /\ next >= 1 /\ Apart(log, next)
  BY NextIs DEF VersionsInv, LogOK, DrawsOK
<1>2. CASE e.num = None /\ next' = next
  <2> DEFINE l2 == log'
  <2>1. l2 = Append(log, e)
    OBVIOUS
  <2> HIDE DEF l2
  <2>2. Apart(l2, next)
    BY <1>1, <1>2, <2>1, ApartStill
  <2>3. QED
    BY <1>2, <2>2 DEF l2
<1>3. CASE e.num = next /\ next' = next + 1
  <2> DEFINE l2 == log'
             n2 == next + 1
  <2>1. l2 = Append(log, e)
    OBVIOUS
  <2> HIDE DEF l2
  <2>2. Apart(l2, n2)
    BY <1>1, <1>3, <2>1, ApartNext
  <2>3. QED
    BY <1>3, <2>2 DEF l2
<1>4. QED
  BY <1>2, <1>3

(* What a process has loaded may be installed.                             *)
LEMMA LoadedIs ==
  ASSUME VersionsInv, SoundOK, NEW c \in Clients, lib[Proc(c)] \in 1..Version
  PROVE  Rules(c) \in Installable
<1>1. DOMAIN declared = 1..Version
  BY DEF VersionsInv, StoreOK, Version
<1>2. QED
  BY <1>1 DEF SoundOK, Rules

LEMMA DrawsWrite ==
  ASSUME SoleWriter \/ LoneDrawsAllowed, VersionsInv, SoundOK, DrawsOK, NEW c \in Clients, Write(c)
  PROVE  DrawsOK'
<1> DEFINE o == Call(c).o
           v == Call(c).v
           row == rows[o]
           A == {w \in DOMAIN calls[c].asked : calls[c].asked[w] = "satisfied"}
           loaded == lib[Proc(c)]
           num == IF Call(c).draws THEN next ELSE None
           e == Event(c, loaded, "write", o, row.ver + 1, v, num, None, A)
           stops == /\ calls' = [calls EXCEPT ![c].pc = "asking", ![c].reloaded = FALSE, ![c].about = row.val]
                    /\ log' = log /\ next' = next
           writes == log' = Append(log, e) /\ Answer(c) /\ next' = IF Call(c).draws THEN next + 1 ELSE next
<1>1. /\ calls[c].pc = "begin" /\ Call(c).kind = "write" /\ calls[c].began \in Nat /\ Version \in Nat
      /\ loaded \in Nat /\ loaded \in 1..Version
  BY BegunIs DEF Write
<1>2. /\ CallOK(calls[c], c, Version, loaded, changes, rows) /\ IsCall(Call(c)) /\ Call(c) = calls[c].call
      /\ calls[c] # Idle /\ DOMAIN calls = Clients /\ DOMAIN calls[c] = Fields /\ Call(c) \in Calls[c]
  BY <1>1, CallIs DEF Call
<1>3. next \in Nat /\ next >= 1 /\ calls[c].pc \notin Free
  BY <1>1, NextIs DEF Free
<1>4. stops \/ Keep(c, None) \/ (Keep(c, num) /\ Refused(Rules(c), row, v)) \/ writes
  BY Zenon DEF Write
<1>5. CASE stops
  <2> HIDE DEF row
  <2>1. OnlyOf(c) /\ calls'[c].pc # "keep"
    BY <1>2, <1>5 DEF OnlyOf, Fields
  <2>2. Apart(log', next')
    BY <1>5 DEF DrawsOK
  <2>3. QED
    BY <1>3, <2>1, <2>2, NoneToKeep
<1>6. CASE Keep(c, None)
  BY <1>1, <1>6, DrawsNone
<1>7. CASE Keep(c, num) /\ Refused(Rules(c), row, v)
  <2>1. CASE ~ Call(c).draws
    <3>1. Keep(c, None)
      BY <1>7, <2>1
    <3>2. QED
      BY <1>1, <3>1, DrawsNone
  <2>2. CASE Call(c).draws
    <3>1. SoleWriter
      <4>1. Rules(c) \in Installable /\ ~ Allowed(Rules(c), v)
        BY <1>1, <1>7, LoadedIs DEF Refused
      <4>2. ~ LoneDrawsAllowed
        BY <1>1, <1>2, <2>2, <4>1 DEF LoneDrawsAllowed
      <4>3. QED
        BY <4>2
    <3>2. calls' = [calls EXCEPT ![c].pc = "keep", ![c].drawn = next] /\ log' = log /\ next' = next
      BY <1>7, <2>2 DEF Keep
    <3>3. OnlyOf(c) /\ calls'[c].drawn = next
      BY <1>2, <3>2 DEF OnlyOf, Fields
    <3>4. LoneKept(calls'[c], next') /\ Apart(log', next')
      BY <1>3, <3>1, <3>2, <3>3 DEF LoneKept, DrawsOK
    <3>5. QED
      BY <1>3, <3>3, <3>4, DrawsStep
  <2>3. QED
    BY <2>1, <2>2
<1>8. CASE writes
  <2>1. o \in Objects /\ v \in Values
    BY <1>1, <1>2 DEF IsCall, ChangeKinds
  <2> DEFINE x == "write"
             seq == row.ver + 1
             no == None
  <2>2. row.ver \in Nat
    BY <2>1, RowsAre DEF VersionsInv, StoreOK
  <2>3. /\ seq \in Nat /\ no \in Nat /\ num \in Nat /\ x \in Acts
        /\ o \in Objects \cup Changes /\ v \in Values \cup {None}
    BY <1>3, <2>1, <2>2 DEF None, Acts
  <2>4. A \in SUBSET Values
    BY <1>2 DEF CallOK, CallShape
  <2>5. e = Event(c, loaded, x, o, seq, v, num, no, A)
    OBVIOUS
  <2>6. /\ next' \in Nat
        /\ \/ num = None /\ next' = next
           \/ num = next /\ next' = next + 1
    BY <1>3, <1>8
  <2> HIDE DEF x, seq, no, A, e, loaded, o, v, row, num
  <2>7. IsEvent(e, c, loaded, x, o, seq, v, num, no, A)
    BY <1>1, <2>3, <2>4, <2>5, EventIs
  <2>8. e \in Events /\ e.num = num
    BY <2>3, <2>7 DEF IsEvent
  <2>9. Apart(log', next')
    BY <1>8, <2>6, <2>8, DrawsAppend
  <2>10. QED
    BY <1>3, <1>8, <2>9, DrawsAnswer
<1>9. QED
  BY <1>4, <1>5, <1>6, <1>7, <1>8

LEMMA DrawsChangeFlow ==
  ASSUME VersionsInv, DrawsOK, NEW c \in Clients, ChangeFlow(c)
  PROVE  DrawsOK'
<1> DEFINE k == Call(c).change
           kind == Call(c).kind
           loaded == lib[Proc(c)]
           seq == changes[k].ver + 1
           no == None
           A == {}
           e == Event(c, loaded, kind, k, seq, no, no, no, A)
<1>1. /\ calls[c].pc = "begin" /\ kind \in ChangeKinds /\ calls[c].began \in Nat /\ Version \in Nat /\ loaded \in Nat
  BY BegunIs DEF ChangeFlow
<1>2. k \in Changes
  BY <1>1, CallsAbout
<1>3. Keep(c, None) \/ (log' = Append(log, e) /\ Answer(c) /\ next' = next)
  BY Zenon DEF ChangeFlow
<1>4. CASE Keep(c, None)
  BY <1>1, <1>4, DrawsNone
<1>5. CASE log' = Append(log, e) /\ Answer(c) /\ next' = next
  <2>1. changes[k].ver \in Nat
    BY <1>2 DEF VersionsInv, StoreOK, IsChanges, IsChange
  <2>2. /\ seq \in Nat /\ no \in Nat /\ no = None /\ kind \in Acts
        /\ k \in Objects \cup Changes /\ no \in Values \cup {None}
    BY <1>1, <1>2, <2>1 DEF None, Acts
  <2>3. A \in SUBSET Values
    OBVIOUS
  <2>4. e = Event(c, loaded, kind, k, seq, no, no, no, A)
    OBVIOUS
  <2> HIDE DEF seq, no, A, e, loaded, kind, k
  <2>5. IsEvent(e, c, loaded, kind, k, seq, no, no, no, A)
    BY <1>1, <2>2, <2>3, <2>4, EventIs
  <2>6. e \in Events /\ e.num = None
    BY <2>2, <2>5 DEF IsEvent
  <2>7. Apart(log', next') /\ calls[c].pc \notin Free
    BY <1>1, <1>5, <2>6, NextIs, DrawsAppend DEF Free
  <2>8. QED
    BY <1>5, <2>7, DrawsAnswer
<1>6. QED
  BY <1>3, <1>4, <1>5


LEMMA DrawsInstall ==
  ASSUME VersionsInv, DrawsOK, NEW c \in Clients, Install(c)
  PROVE  DrawsOK'
<1>1. calls[c].pc = "install" /\ calls[c].pc \notin Free /\ Apart(log, next)
  BY InstallIs DEF DrawsOK, Free
<1>2. Answer(c)
  BY InstallIs DEF InstallApplies
<1>3. Apart(log', next')
  <2>1. CASE InstallApplies(c)
    BY <1>1, <2>1, InstallAppliesStep
  <2>2. CASE UNCHANGED <<log, next>>
    BY <1>1, <2>2
  <2>3. QED
    BY <2>1, <2>2, InstallIs
<1>4. QED
  BY <1>1, <1>2, <1>3, DrawsAnswer

LEMMA DrawsRunBatch ==
  ASSUME VersionsInv, DrawsOK, NEW c \in Clients, RunBatch(c)
  PROVE  DrawsOK'
<1> DEFINE ran == Ran(c, declared[Version])
           key == [key |-> Call(c).key, first |-> Len(log) + 1]
           ks == keys \cup {key}
<1>1. calls[c].pc = "batch" /\ calls[c].pc \notin Free
  BY DEF RunBatch, Free
<1>2. /\ CallOK(calls[c], c, Version, lib[Proc(c)], changes, rows) /\ IsCall(Call(c)) /\ Call(c) = calls[c].call
      /\ DOMAIN calls = Clients /\ DOMAIN calls[c] = Fields
  BY <1>1, CallIs DEF Call
<1>3. Call(c).kind = "batch" /\ calls[c].began \in 1..Version
  BY <1>1, <1>2 DEF CallOK, CallShape, TimeOK
<1>4. CASE /\ calls' = [calls EXCEPT ![c].pc = "keep", ![c].drawn = ran.next - 1, ![c].fails = ~ ran.refused]
           /\ UNCHANGED <<declared, rows, changes, log, keys, next, attempts, holder, crashes>>
  <2> DEFINE n == ran.next - 1
             f == ~ ran.refused
  <2>1. calls' = [calls EXCEPT ![c].pc = "keep", ![c].drawn = n, ![c].fails = f]
    BY <1>4
  <2> HIDE DEF n, f
  <2>2. OnlyOf(c) /\ calls'[c].call = calls[c].call
    BY <1>2, <2>1 DEF OnlyOf, Fields
  <2>3. Apart(log', next')
    BY <1>4 DEF DrawsOK
  <2>4. LoneKept(calls'[c], next')
    BY <1>2, <1>3, <2>2 DEF LoneKept
  <2>5. QED
    BY <1>1, <2>2, <2>3, <2>4, DrawsStep
<1>5. CASE next' = ran.next /\ log' = ran.log /\ Answer(c)
  <2>1. /\ Len(Call(c).writes) \in Nat
        /\ \A i \in 1..Len(Call(c).writes) : Call(c).writes[i].o \in Objects /\ Call(c).writes[i].v \in Values
    BY <1>2, <1>3 DEF IsCall, ChangeKinds
  <2>2. StoreOK /\ LogOK(log, rows, changes, keys)
    BY DEF VersionsInv
  <2> DEFINE s == declared[Version]
             kk == ks
  <2>3. keys \subseteq kk /\ \E a \in kk : a.first = Len(log) + 1
    <3>1. key.first = Len(log) + 1
      OBVIOUS
    <3> HIDE DEF key
    <3>2. QED
      BY <3>1
  <2> HIDE DEF s, kk
  <2>4. RanOK(Ran(c, s), kk)
    BY <1>3, <2>1, <2>2, <2>3, RanIsOK
  <2>5. Apart(ran.log, ran.next)
    BY <2>4 DEF RanOK, s, DrawsOK
  <2>6. Apart(log', next')
    BY <1>5, <2>5
  <2>7. QED
    BY <1>1, <1>5, <2>6, DrawsAnswer
<1>6. QED
  BY <1>4, <1>5, Zenon DEF RunBatch

(* Only an install declares, and only a decision sets one under way.       *)
LEMMA SoundStep ==
  ASSUME VersionsInv, SoundOK, NEW c \in Clients, OnlyOf(c), declared' = declared, calls'[c].pc # "install"
  PROVE  SoundOK'
BY DEF SoundOK, OnlyOf

LEMMA SoundDecide ==
  ASSUME VersionsInv, SoundOK, NEW c \in Clients, Decide(c)
  PROVE  SoundOK'
<1> DEFINE k == Call(c).change
           ch == changes[k]
           rep == Report(ch.source, k, rows, changes, lib[Proc(c)])
           snap == [rows |-> rows, changes |-> changes, report |-> rep]
<1>1. calls[c].pc = "decide" /\ declared' = declared
  BY DEF Decide
<1>2. /\ CallOK(calls[c], c, Version, lib[Proc(c)], changes, rows) /\ DOMAIN calls = Clients
      /\ DOMAIN calls[c] = Fields /\ Call(c) = calls[c].call /\ Call(c) \in Calls[c]
  BY <1>1, CallIs DEF Call
<1>3. \/ calls' = [calls EXCEPT ![c].pc = "install", ![c].snap = snap] /\ rep.source.sound
      \/ calls' = [calls EXCEPT ![c].pc = "attempt"]
  BY DEF Decide
<1>4. rep.source \in Sources
  <2>1. k \in Changes
    BY <1>1, <1>2, ChangeOf DEF CallOK, CallShape
  <2>2. ch.source \in Sources
    BY <2>1 DEF VersionsInv, StoreOK, IsChanges, IsChange
  <2>3. QED
    BY <2>2 DEF Report
<1>5. snap.report = rep
  OBVIOUS
<1> HIDE DEF snap, rep
<1>6. OnlyOf(c)
  BY <1>2, <1>3 DEF OnlyOf
<1>7. calls'[c].pc = "install" => calls'[c].snap.report.source \in Installable
  <2>1. CASE calls' = [calls EXCEPT ![c].pc = "install", ![c].snap = snap] /\ rep.source.sound
    <3>1. calls'[c].snap = snap
      BY <1>2, <2>1 DEF Fields
    <3>2. QED
      BY <1>4, <1>5, <2>1, <3>1 DEF Installable
  <2>2. CASE calls' = [calls EXCEPT ![c].pc = "attempt"]
    BY <1>2, <2>2 DEF Fields
  <2>3. QED
    BY <1>3, <2>1, <2>2
<1>8. QED
  BY <1>1, <1>6, <1>7 DEF SoundOK, OnlyOf

LEMMA SoundInstall ==
  ASSUME VersionsInv, SoundOK, NEW c \in Clients, Install(c)
  PROVE  SoundOK'
<1>1. calls[c].pc = "install" /\ Answer(c)
  BY InstallIs DEF InstallApplies
<1>2. OnlyOf(c) /\ calls'[c].pc # "install"
  BY <1>1, CallsDomain, IdleIs DEF OnlyOf, Answer
<1> DEFINE s == calls[c].snap.report.source
<1>3. s \in Installable
  BY <1>1 DEF SoundOK
<1>4. declared' = declared \/ declared' = Append(declared, s)
  BY InstallIs DEF InstallApplies
<1>5. declared \in Seq(Sources)
  BY DEF VersionsInv, StoreOK
<1>6. \A i \in DOMAIN declared' : declared'[i] \in Installable
  <2> HIDE DEF s
  <2>1. CASE declared' = declared
    BY <2>1 DEF SoundOK
  <2>2. CASE declared' = Append(declared, s)
    <3>1. ASSUME NEW i \in DOMAIN declared' PROVE declared'[i] \in Installable
      <4>1. i \in 1..Len(declared) + 1
        BY <1>5, <2>2
      <4>2. CASE i = Len(declared) + 1
        BY <1>3, <1>5, <2>2, <4>2
      <4>3. CASE i # Len(declared) + 1
        <5>1. i \in DOMAIN declared /\ declared'[i] = declared[i]
          BY <1>5, <2>2, <4>1, <4>3
        <5>2. QED
          BY <5>1 DEF SoundOK
      <4>4. QED
        BY <4>2, <4>3
    <3>2. QED
      BY <3>1
  <2>3. QED
    BY <1>4, <2>1, <2>2
<1>7. QED
  BY <1>2, <1>6 DEF SoundOK, OnlyOf

LEMMA SoundOthers ==
  ASSUME VersionsInv, SoundOK, NEW c \in Clients,
         DryRead(c) \/ DryImpact(c) \/ DryLate(c) \/ Enter(c) \/ Reload(c) \/ Write(c) \/ Asking(c)
         \/ KeepDraws(c) \/ Attempt(c) \/ BatchKey(c) \/ RunBatch(c) \/ ChangeFlow(c)
  PROVE  SoundOK'
<1>1. calls[c].pc # "idle" /\ declared' = declared
  BY DEF DryRead, DryImpact, DryLate, Enter, Reload, Write, Begun, Keep, Asking, KeepDraws, Attempt,
         BatchKey, RunBatch, ChangeFlow
<1>2. DOMAIN calls = Clients /\ DOMAIN calls[c] = Fields
  BY <1>1, CallIs
<1>3. OnlyOf(c) /\ calls'[c].pc # "install"
  <2>1. CASE DryRead(c)
    BY <1>2, <2>1 DEF DryRead, OnlyOf, Fields
  <2>2. CASE DryImpact(c)
    <3> DEFINE d2 == Report(calls[c].prepared.source, Call(c).change, rows, changes, Version)
    <3>1. calls' = [calls EXCEPT ![c].pc = "ready", ![c].prepared = d2]
      BY <1>2, <2>2 DEF DryImpact, Fields
    <3> HIDE DEF d2
    <3>2. QED
      BY <1>2, <3>1 DEF OnlyOf, Fields
  <2>3. CASE DryLate(c)
    BY <1>2, <2>3 DEF DryLate, OnlyOf, Idle
  <2>4. CASE Enter(c)
    BY <1>2, <2>4 DEF Enter, OnlyOf, Fields
  <2>5. CASE Reload(c)
    <3>1. calls' = [calls EXCEPT ![c].reloaded = TRUE] /\ calls[c].pc = "begin"
      BY <2>5 DEF Reload
    <3>2. QED
      BY <1>2, <3>1 DEF OnlyOf, Fields
  <2>6. CASE Write(c)
    <3> DEFINE at == rows[Call(c).o].val
    <3>1. \/ calls' = [calls EXCEPT ![c].pc = "asking", ![c].reloaded = FALSE, ![c].about = at]
          \/ Keep(c, None) \/ Keep(c, next) \/ Answer(c)
      BY <2>6, Zenon DEF Write
    <3> HIDE DEF at
    <3>2. CASE calls' = [calls EXCEPT ![c].pc = "asking", ![c].reloaded = FALSE, ![c].about = at]
      BY <1>2, <3>2 DEF OnlyOf, Fields
    <3>3. CASE Keep(c, None)
      BY <1>2, <3>3 DEF Keep, OnlyOf, Fields
    <3>4. CASE Keep(c, next)
      BY <1>2, <3>4 DEF Keep, OnlyOf, Fields
    <3>5. CASE Answer(c)
      BY <1>2, <3>5 DEF Answer, OnlyOf, Idle
    <3>6. QED
      BY <3>1, <3>2, <3>3, <3>4, <3>5
  <2>7. CASE Asking(c)
    BY <1>2, <2>7 DEF Asking, OnlyOf, Fields, Idle
  <2>8. CASE KeepDraws(c)
    BY <1>2, <2>8 DEF KeepDraws, OnlyOf, Fields
  <2>9. CASE Attempt(c)
    BY <1>2, <2>9 DEF Attempt, Answer, OnlyOf, Idle
  <2>10. CASE BatchKey(c)
    BY <1>2, <2>10 DEF BatchKey, Answer, OnlyOf, Fields, Idle
  <2>11. CASE RunBatch(c)
    <3> DEFINE n == Ran(c, declared[Version]).next - 1
               f == ~ Ran(c, declared[Version]).refused
    <3>1. calls' = [calls EXCEPT ![c].pc = "keep", ![c].drawn = n, ![c].fails = f] \/ Answer(c)
      BY <2>11, Zenon DEF RunBatch
    <3> HIDE DEF n, f
    <3>2. QED
      BY <1>2, <3>1 DEF Answer, OnlyOf, Fields, Idle
  <2>12. CASE ChangeFlow(c)
    <3>1. Keep(c, None) \/ Answer(c)
      BY <2>12, Zenon DEF ChangeFlow
    <3>2. QED
      BY <1>2, <3>1 DEF Keep, Answer, OnlyOf, Fields, Idle
  <2>13. QED
    BY <2>1, <2>2, <2>3, <2>4, <2>5, <2>6, <2>7, <2>8, <2>9, <2>10, <2>11, <2>12
<1>4. QED
  BY <1>1, <1>3, SoundStep

LEMMA SoundAll == VersionsInv /\ SoundOK /\ [Next]_vars => SoundOK'
<1> SUFFICES ASSUME VersionsInv, SoundOK, [Next]_vars PROVE SoundOK'
  OBVIOUS
<1>1. ASSUME NEW c \in Clients, Step(c) PROVE SoundOK'
  BY <1>1, SoundOthers, SoundDecide, SoundInstall DEF Step
<1>2. ASSUME NEW c \in Clients, NEW call \in Calls[c], Ask(c, call) PROVE SoundOK'
  <2>1. OnlyOf(c) /\ calls'[c].pc # "install" /\ declared' = declared
    BY <1>2, CallsDomain DEF Ask, OnlyOf, Starts
  <2>2. QED
    BY <2>1, SoundStep
<1>3. ASSUME NEW p \in Procs, Crash(p) PROVE SoundOK'
  <2>1. calls' = [c \in Clients |-> IF Proc(c) = p THEN Idle ELSE calls[c]] /\ declared' = declared
    BY <1>3 DEF Crash
  <2>2. QED
    BY <2>1, IdleIs DEF SoundOK
<1>4. CASE UNCHANGED vars
  BY <1>4 DEF vars, SoundOK
<1>5. QED
  BY <1>1, <1>2, <1>3, <1>4 DEF Next, Quiet

LEMMA DrawsAll ==
  ASSUME SoleWriter \/ LoneDrawsAllowed, VersionsInv, SoundOK, DrawsOK, [Next]_vars
  PROVE  DrawsOK'
<1>1. ASSUME NEW c \in Clients, Step(c) PROVE DrawsOK'
  BY <1>1, DrawsKept, DrawsWrite, DrawsKeepDraws, DrawsRunBatch, DrawsChangeFlow, DrawsInstall DEF Step
<1>2. ASSUME NEW c \in Clients, NEW call \in Calls[c], Ask(c, call) PROVE DrawsOK'
  BY <1>2, DrawsAsk
<1>3. ASSUME NEW p \in Procs, Crash(p) PROVE DrawsOK'
  <2>1. /\ calls' = [c \in Clients |-> IF Proc(c) = p THEN Idle ELSE calls[c]]
        /\ log' = log /\ next' = next
    BY <1>3 DEF Crash
  <2>2. \A c \in Clients : calls'[c] = Idle \/ calls'[c] = calls[c]
    BY <2>1
  <2>3. \A c \in Clients : LoneKept(calls'[c], next')
    BY <2>1, <2>2, IdleIs DEF DrawsOK, LoneKept
  <2>4. Apart(log', next')
    BY <2>1 DEF DrawsOK
  <2>5. QED
    BY <2>3, <2>4 DEF DrawsOK, LoneKept
<1>4. CASE UNCHANGED vars
  BY <1>4 DEF vars, DrawsOK, Apart, LoneKept
<1>5. QED
  BY <1>1, <1>2, <1>3, <1>4 DEF Next, Quiet

(* No two requests that applied hold the same number of a sequence, drawn  *)
(* in batches or alone, the refused and the failed among them (run_batch,  *)
(* abort_batch, transact): where one process writes the store, whatever    *)
(* draws, and where several do, if no lone request that draws is refused   *)
(* for what it draws for.  That one writes its number back as it drew it   *)
(* (write_sequences), behind what another process may have drawn since.    *)
THEOREM VersionsNumbers == SoleWriter \/ LoneDrawsAllowed => (Spec => []NumbersDistinct)
<1> SUFFICES ASSUME SoleWriter \/ LoneDrawsAllowed PROVE Spec => []NumbersDistinct
  OBVIOUS
<1>1. Init => SoundOK /\ DrawsOK
  BY IdleIs DEF Init, SoundOK, Installable, DrawsOK, Apart, LoneKept
<1>2. DrawsOK => NumbersDistinct
  BY DEF DrawsOK, Apart, NumbersDistinct
<1>3. VersionsInv /\ SoundOK /\ DrawsOK /\ [Next]_vars => SoundOK' /\ DrawsOK'
  BY SoundAll, DrawsAll
<1>4. QED
  BY <1>1, <1>2, <1>3, VersionsInvariant, PTL DEF Spec
=============================================================================
