------------------------------ MODULE Versions ------------------------------
(***************************************************************************)
(* The processes that write one store, each with the declaration version   *)
(* it has loaded: requests that reload it (Store::transact), evaluators    *)
(* asked between two attempts (consulting_with), batches applied whole or  *)
(* not at all (run_batch, abort_batch), a change to the declaration from   *)
(* its draft to its approval, dry runs beside the writes (dry_running) and *)
(* the install (publish_decided, install).                                 *)
(*                                                                         *)
(* A process's calls take its writer mutex; the file's write lock orders   *)
(* the transactions of every process, so what runs in one transaction is   *)
(* one step.  A declaration is the values it allows an object to hold,     *)
(* those it rewrites, whether it admits what is left outside, and who may  *)
(* approve the next.                                                       *)
(***************************************************************************)
EXTENDS Integers, Sequences, FiniteSets

CONSTANTS
  Procs, Clients, Home,   \* the processes, their callers, and whose each is
  Objects, Values, First, \* the objects, what each holds, and held at first
  Changes, Base,          \* the changes, and the declaration installed at first
  Calls,                  \* what each client calls
  MAX_CALLS,              \* the most calls one request asks its endpoints
  MaxLog, MaxAttempts, MaxCrashes

None == 0
NoOne == "none"

ChangeKinds == {"draft", "revise", "reopen", "submit", "refresh", "reject", "withdraw"}

\* A mapping's results are values an object may hold.
IsSource(s) ==
  /\ s.admits \in BOOLEAN /\ s.sound \in BOOLEAN /\ s.approvers \subseteq Clients
  /\ \A v \in DOMAIN s.maps : s.maps[v] \in Values

IsCall(call) ==
  \/ /\ call.kind = "write" /\ call.o \in Objects /\ call.v \in Values
     /\ call.consults \in BOOLEAN /\ call.draws \in BOOLEAN
  \/ /\ call.kind = "batch" /\ Len(call.writes) \in Nat
     /\ \A i \in 1..Len(call.writes) : call.writes[i].o \in Objects /\ call.writes[i].v \in Values
  \/ /\ call.kind \in ChangeKinds \cup {"publish"} /\ call.change \in Changes
     /\ call.expects \in BOOLEAN /\ (call.kind = "publish" => call.expects)
     /\ call.kind \in {"draft", "revise"} => IsSource(call.source)

ASSUME VersionsAssumption ==
  /\ Home \in [Clients -> Procs] /\ NoOne \notin Clients
  /\ IsFiniteSet(Objects) /\ IsFiniteSet(Changes) /\ Objects \cap Changes = {}
  /\ First \in Values /\ IsSource(Base)
  /\ \A c \in Clients : \A call \in Calls[c] : IsCall(call)
  /\ MAX_CALLS \in Nat /\ MaxLog \in Nat /\ MaxAttempts \in Nat /\ MaxCrashes \in Nat

VARIABLES
  declared,  \* of_declaration: the source of each version
  rows,      \* the objects
  changes,   \* the declaration changes
  log,       \* of_event
  keys,      \* of_idempotency: the batches' keys
  next,      \* of_sequence: the next number each write draws
  attempts,  \* of_attempt, how many
  lib,       \* each process's loaded version
  holder,    \* each process's writer mutex
  calls,     \* each client's call
  crashes

vars == <<declared, rows, changes, log, keys, next, attempts, lib, holder, calls, crashes>>

Version == Len(declared)

Idle == [pc |-> "idle"]
Proc(c) == Home[c]
Call(c) == calls[c].call

----------------------------------------------------------------------------
(* What a declaration asks of an object, and the impact of one on all.     *)

Allowed(s, v) == v \in s.allows

\* A write is refused where it leaves its object outside the declaration and
\* nothing admitted that; an admission is discharged once it holds again.
Refused(s, row, v) == ~ Allowed(s, v) /\ ~ row.admitted
Written(s, row, v) == [ver |-> row.ver + 1, val |-> v, admitted |-> ~ Allowed(s, v)]

Mapped(s, v) == IF v \in DOMAIN s.maps THEN s.maps[v] ELSE v

\* impact: what the mappings rewrite, what is left violated and not admitted
\* already, what is cured, and the other open changes.
Open(ch) == ch.state \in {"DRAFTED", "SUBMITTED"}
Report(s, id, objs, chs, at) ==
  [at |-> at, source |-> s,
   mapped |-> {o \in Objects : Mapped(s, objs[o].val) # objs[o].val},
   broken |-> {o \in Objects : ~ Allowed(s, Mapped(s, objs[o].val)) /\ ~ objs[o].admitted},
   cured |-> {o \in Objects : Allowed(s, Mapped(s, objs[o].val)) /\ objs[o].admitted},
   superseded |-> {k \in Changes \ {id} : Open(chs[k])}]

NoReport == [at |-> None]
NoSnap == [rows |-> <<>>]
Accepted(r) == r.broken = {} \/ r.source.admits

----------------------------------------------------------------------------
(* A client's call, and the writer mutex of its process.                   *)

\* The version a change is asked at, where the request names one: a publish
\* always does, and who asks before the change was drafted knows none.
Expected(call) == IF call.kind \in ChangeKinds \cup {"publish"} /\ call.expects
                  THEN changes[call.change].ver ELSE None

\* Where a call starts: a submit or refresh prepares its dry run on reads
\* beside the writes before it takes the writer.
Starts(call) == IF call.kind \in {"submit", "refresh"} THEN "dryread" ELSE "ready"

Ask(c, call) ==
  /\ calls[c] = Idle /\ Len(log) < MaxLog /\ attempts < MaxAttempts
  /\ calls' = [calls EXCEPT ![c] =
       [pc |-> Starts(call), call |-> call, reloaded |-> FALSE, asked |-> [v \in {} |-> ""],
        count |-> 0, prepared |-> NoReport, prepVer |-> None, began |-> Version,
        expected |-> Expected(call), about |-> None, drawn |-> None, fails |-> FALSE, snap |-> NoSnap]]
  /\ UNCHANGED <<declared, rows, changes, log, keys, next, attempts, lib, holder, crashes>>

\* dry_running's two reads: the change, then, its checks run with no read
\* open, the impact on the store as it then stands, at that version.
DryRead(c) ==
  /\ calls[c].pc = "dryread"
  /\ LET ch == changes[Call(c).change] IN
     calls' = [calls EXCEPT ![c].pc = IF Open(ch) THEN "dryimpact" ELSE "ready",
                            ![c].prepVer = ch.ver, ![c].prepared = [at |-> None, source |-> ch.source]]
  /\ UNCHANGED <<declared, rows, changes, log, keys, next, attempts, lib, holder, crashes>>

DryImpact(c) ==
  /\ calls[c].pc = "dryimpact"
  /\ calls' = [calls EXCEPT ![c].pc = "ready",
       ![c].prepared = Report(@.source, Call(c).change, rows, changes, Version)]
  /\ UNCHANGED <<declared, rows, changes, log, keys, next, attempts, lib, holder, crashes>>

\* Past its deadline, or stopped by an urgent cut, it is answered so.
DryLate(c) ==
  /\ calls[c].pc \in {"dryread", "dryimpact"}
  /\ calls' = [calls EXCEPT ![c] = Idle]
  /\ UNCHANGED <<declared, rows, changes, log, keys, next, attempts, lib, holder, crashes>>

\* locked.
Enter(c) ==
  /\ calls[c].pc = "ready" /\ holder[Proc(c)] = NoOne
  /\ holder' = [holder EXCEPT ![Proc(c)] = c]
  /\ calls' = [calls EXCEPT ![c].pc = CASE Call(c).kind = "batch" -> "key"
                                        [] Call(c).kind = "publish" -> "decide"
                                        [] OTHER -> "begin"]
  /\ UNCHANGED <<declared, rows, changes, log, keys, next, attempts, lib, crashes>>

\* The slip: the guard outlives the answer.
AnswerHeld(c) == calls' = [calls EXCEPT ![c] = Idle] /\ UNCHANGED holder

\* The answer given and the mutex let go.
Answer(c) ==
  /\ calls' = [calls EXCEPT ![c] = Idle]
  /\ holder' = [holder EXCEPT ![Proc(c)] = NoOne]

----------------------------------------------------------------------------
(* A request in a transaction of its own.                                  *)

\* The slip: a process writes with the version it loaded as it started.
Unreloaded(c) == FALSE

\* transact: the version read inside the transaction is not the loaded one,
\* and this call has not reloaded it yet.
Behind(c) == lib[Proc(c)] # Version /\ ~ calls[c].reloaded

\* The transaction rolled back, and that version loaded, outside it.
Reload(c) ==
  /\ calls[c].pc = "begin" /\ Behind(c)
  /\ lib' = [lib EXCEPT ![Proc(c)] = Version]
  /\ calls' = [calls EXCEPT ![c].reloaded = TRUE]
  /\ UNCHANGED <<declared, rows, changes, log, keys, next, attempts, holder, crashes>>

Begun(c, kinds) == calls[c].pc = "begin" /\ ~ Behind(c) /\ Call(c).kind \in kinds

Rules(c) == declared[lib[Proc(c)]]

Event(c, version, x, o, seq, val, num, batch, asked) ==
  [x |-> x, object |-> o, seq |-> seq, val |-> val, num |-> num, batch |-> batch,
   version |-> version, began |-> calls[c].began, at |-> Version, asked |-> asked]

\* A request refused is rolled back; the number it drew is kept after.
Keep(c, n) ==
  /\ calls' = [calls EXCEPT ![c].pc = "keep", ![c].drawn = n]
  /\ UNCHANGED <<declared, rows, changes, log, keys, next, attempts, lib, holder, crashes>>

\* The slip: an answer is kept by its function alone.
AnswerAny(c, v) == IF DOMAIN calls[c].asked = {} THEN "none"
                   ELSE calls[c].asked[CHOOSE w \in DOMAIN calls[c].asked : TRUE]

\* Call::key: the verdict asked for this call, its arguments in the key.
AnswerTo(c, v) == IF v \in DOMAIN calls[c].asked THEN calls[c].asked[v] ELSE "none"

\* A write whose guard asks an evaluator about the value its object holds,
\* where it has one, and whose effect draws a number.
Write(c) ==
  /\ Begun(c, {"write"})
  /\ LET o == Call(c).o
         row == rows[o]
         said == IF Call(c).consults THEN AnswerTo(c, row.val) ELSE "satisfied" IN
     IF said = "none"
     THEN \* stopped at the call: rolled back, and the mutex let go
          /\ calls' = [calls EXCEPT ![c].pc = "asking", ![c].reloaded = FALSE, ![c].about = row.val]
          /\ holder' = [holder EXCEPT ![Proc(c)] = NoOne]
          /\ UNCHANGED <<declared, rows, changes, log, keys, next, attempts, lib, crashes>>
     ELSE IF said # "satisfied" THEN Keep(c, None)
     ELSE IF Refused(Rules(c), row, Call(c).v) THEN Keep(c, IF Call(c).draws THEN next ELSE None)
     ELSE /\ rows' = [rows EXCEPT ![o] = Written(Rules(c), row, Call(c).v)]
          /\ next' = IF Call(c).draws THEN next + 1 ELSE next
          /\ log' = Append(log, Event(c, lib[Proc(c)], "write", o, row.ver + 1, Call(c).v,
                                      IF Call(c).draws THEN next ELSE None, None,
                                      {w \in DOMAIN calls[c].asked : calls[c].asked[w] = "satisfied"}))
          /\ Answer(c)
          /\ UNCHANGED <<declared, changes, keys, attempts, lib, crashes>>

\* consulting_with, between two attempts: the endpoint asked while fewer than
\* MAX_CALLS were, unanswered after, and the request given up at twice that.
Asking(c) ==
  /\ calls[c].pc = "asking"
  /\ LET v == calls[c].about IN
     \/ /\ calls[c].count >= 2 * MAX_CALLS
        /\ calls' = [calls EXCEPT ![c] = Idle]
     \/ /\ calls[c].count < 2 * MAX_CALLS
        /\ \E said \in IF calls[c].count < MAX_CALLS THEN {"satisfied", "unsatisfied", "unanswered"}
                       ELSE {"unanswered"} :
             calls' = [calls EXCEPT ![c].pc = "ready", ![c].count = @ + 1,
                         ![c].asked = [w \in DOMAIN @ \cup {v} |-> IF w = v THEN said ELSE @[w]]]
  /\ UNCHANGED <<declared, rows, changes, log, keys, next, attempts, lib, holder, crashes>>

\* What a refused call leaves, each in a transaction of its own: transact
\* writes the number it drew, abort_batch the last of each sequence where
\* that is not behind the store's.
\* The slip: a batch's number is written as a request's is.
KeptAsDrawn(c) == calls[c].drawn + 1

Kept(c) == IF Call(c).kind = "batch" /\ calls[c].drawn + 1 < next THEN next
           ELSE calls[c].drawn + 1

KeepDraws(c) ==
  /\ calls[c].pc = "keep"
  /\ next' = IF calls[c].drawn = None THEN next ELSE Kept(c)
  /\ calls' = [calls EXCEPT ![c].pc = "attempt"]
  /\ UNCHANGED <<declared, rows, changes, log, keys, attempts, lib, holder, crashes>>

\* record_attempt; a batch that failed rather than was refused has no row.
Attempt(c) ==
  /\ calls[c].pc = "attempt"
  /\ attempts' = IF calls[c].fails THEN attempts ELSE attempts + 1
  /\ Answer(c)
  /\ UNCHANGED <<declared, rows, changes, log, keys, next, lib, crashes>>

----------------------------------------------------------------------------
(* A batch.                                                                *)

\* batch_named, before the batch's transaction: a key applied replays, and
\* under it another batch is refused.
BatchKey(c) ==
  /\ calls[c].pc = "key"
  /\ IF \E k \in keys : k.key = Call(c).key
     THEN Answer(c)
     ELSE calls' = [calls EXCEPT ![c].pc = "batch"] /\ UNCHANGED holder
  /\ UNCHANGED <<declared, rows, changes, log, keys, next, attempts, lib, crashes>>

\* run_batch's loop: each request on the state the ones before it left, up to
\* the first refused; each draws a number.
RanOne(c, s, r, w) ==
  LET row == r.rows[w.o] IN
  IF r.refused THEN r
  ELSE IF Refused(s, row, w.v) THEN [r EXCEPT !.refused = TRUE, !.next = @ + 1]
  ELSE [rows |-> [r.rows EXCEPT ![w.o] = Written(s, row, w.v)],
        next |-> r.next + 1, refused |-> FALSE,
        log |-> Append(r.log,
          Event(c, Version, "write", w.o, row.ver + 1, w.v, r.next, Len(log) + 1, {}))]

Ran(c, s) ==
  LET writes == Call(c).writes
      ran[i \in 0..Len(writes)] ==
        IF i = 0 THEN [rows |-> rows, next |-> next, log |-> log, refused |-> FALSE]
        ELSE RanOne(c, s, ran[i - 1], writes[i]) IN
  ran[Len(writes)]

\* of_idempotency's PRIMARY KEY, met by record_batch_key.
\* The slip: the key is recorded whatever it replaces.
KeyTaken(c) == FALSE
KeyClashes(c) == \E k \in keys : k.key = Call(c).key

\* begin_group, which loads the store's version inside the transaction, the
\* requests, the key, and the commit or the rollback.
RunBatch(c) ==
  /\ calls[c].pc = "batch"
  /\ lib' = [lib EXCEPT ![Proc(c)] = Version]
  /\ LET r == Ran(c, declared[Version]) IN
     IF r.refused \/ KeyClashes(c)
     THEN /\ calls' = [calls EXCEPT ![c].pc = "keep", ![c].drawn = r.next - 1, ![c].fails = ~ r.refused]
          /\ UNCHANGED <<declared, rows, changes, log, keys, next, attempts, holder, crashes>>
     ELSE /\ rows' = r.rows
          /\ next' = r.next
          /\ log' = r.log
          /\ keys' = keys \cup {[key |-> Call(c).key, first |-> Len(log) + 1]}
          /\ Answer(c)
          /\ UNCHANGED <<declared, changes, attempts, crashes>>

----------------------------------------------------------------------------
(* A change to the declaration, and its approval.                          *)

\* decide_change's transitions.
From(kind) == CASE kind = "draft" -> {"NONE"}
                [] kind \in {"revise", "submit"} -> {"DRAFTED"}
                [] kind \in {"reopen", "refresh", "reject"} -> {"SUBMITTED"}
                [] kind = "withdraw" -> {"DRAFTED", "SUBMITTED"}
Into(kind) == CASE kind \in {"draft", "revise", "reopen"} -> "DRAFTED"
                [] kind \in {"submit", "refresh"} -> "SUBMITTED"
                [] kind = "reject" -> "REJECTED"
                [] kind = "withdraw" -> "WITHDRAWN"

\* may_approve: the kinds the version loaded names; the operator always.
MayApprove(c) == c \in Rules(c).approvers

\* A change is moved on by who drafted it or by one that may approve it.
MayMove(c, ch) == ch.by \in {NoOne, c} \/ MayApprove(c)

\* stale: the request names a version the change is no longer at.
Stale(c, ch) == calls[c].expected \notin {None, ch.ver}

\* The prepared dry run is taken where the change and the version are what
\* its reads saw, and computed again otherwise.
\* The slip: it is taken where the version is.
TakenAtVersion(c) == calls[c].prepared.at = lib[Proc(c)]
Prepared(c) == /\ calls[c].prepared.at = lib[Proc(c)]
               /\ calls[c].prepVer = changes[Call(c).change].ver

\* The change's next version: drafted or revised on the version loaded, or
\* with its dry run attached.
Advanced(c, ch, report) ==
  LET kind == Call(c).kind IN
  [ch EXCEPT !.state = Into(kind), !.ver = @ + 1,
             !.source = IF kind \in {"draft", "revise"} THEN Call(c).source ELSE @,
             !.base = IF kind \in {"draft", "revise"} THEN lib[Proc(c)] ELSE @,
             !.report = IF kind \in {"submit", "refresh"} THEN report ELSE @,
             !.by = IF kind = "draft" THEN c ELSE @]

ChangeFlow(c) ==
  /\ Begun(c, ChangeKinds)
  /\ LET k == Call(c).change
         ch == changes[k]
         kind == Call(c).kind
         report == IF Prepared(c) THEN calls[c].prepared
                   ELSE Report(ch.source, k, rows, changes, lib[Proc(c)]) IN
     IF \/ Stale(c, ch) \/ ch.state \notin From(kind) \/ ~ MayMove(c, ch)
        \/ kind \in {"submit", "refresh"} /\ ~ report.source.sound
     THEN Keep(c, None)
     ELSE /\ changes' = [changes EXCEPT ![k] = Advanced(c, ch, report)]
          /\ log' = Append(log, Event(c, lib[Proc(c)], kind, k, ch.ver + 1, None, None, None, {}))
          /\ Answer(c)
          /\ UNCHANGED <<declared, rows, keys, next, attempts, lib, crashes>>

\* The approver was shown everything the report now names.
Shown(r, attached) == /\ r.mapped \subseteq attached.mapped
                      /\ r.broken \subseteq attached.broken
                      /\ r.cured \subseteq attached.cured

\* publish_decided: the change and every object read with no transaction
\* open, under the version this process has loaded.
Decide(c) ==
  /\ calls[c].pc = "decide"
  /\ LET k == Call(c).change
         ch == changes[k]
         r == Report(ch.source, k, rows, changes, lib[Proc(c)]) IN
     IF /\ ch.state = "SUBMITTED" /\ ch.ver = calls[c].expected /\ ch.base = lib[Proc(c)]
        /\ MayApprove(c) /\ r.source.sound /\ Shown(r, ch.report) /\ Accepted(r)
     THEN calls' = [calls EXCEPT ![c].pc = "install",
                                 ![c].snap = [rows |-> rows, changes |-> changes, report |-> r]]
     ELSE calls' = [calls EXCEPT ![c].pc = "attempt"]
  /\ UNCHANGED <<declared, rows, changes, log, keys, next, attempts, lib, holder, crashes>>

Migrates(r) == r.mapped \cup r.broken \cup r.cured

\* of_event's UNIQUE (object_id, object_seq) and of_declaration's key: what
\* the install writes was written since it was read.
\* The slip: only the change and the version are held.
ClashesOnChange(c) ==
  LET k == Call(c).change IN
  changes[k].ver # calls[c].snap.changes[k].ver \/ lib[Proc(c)] # Version

Clashes(c) ==
  LET snap == calls[c].snap
      written == {Call(c).change} \cup snap.report.superseded IN
  \/ \E k \in written : changes[k].ver # snap.changes[k].ver
  \/ \E o \in Migrates(snap.report) : rows[o].ver # snap.rows[o].ver
  \/ lib[Proc(c)] # Version

\* install: the version, its migrations and the changes it supersedes, from
\* what was read, in one transaction.
Install(c) ==
  /\ calls[c].pc = "install"
  /\ LET snap == calls[c].snap
         r == snap.report
         k == Call(c).change
         s == r.source
         new(o) == LET v == Mapped(s, snap.rows[o].val) IN
           [ver |-> snap.rows[o].ver + 1, val |-> v, admitted |-> ~ Allowed(s, v)]
         ended(m) == IF m = k THEN "PUBLISHED" ELSE "SUPERSEDED"
         closed == {k} \cup r.superseded
         version == Version + 1
         events == {Event(c, version, "publish", m, snap.changes[m].ver + 1, None, None, None, {}) : m \in closed}
                   \cup {Event(c, version, "migrate", o, new(o).ver, new(o).val, None, None, {}) : o \in Migrates(r)} IN
     IF Clashes(c)
     THEN \* a store fault: rolled back, and no attempt recorded
          /\ Answer(c)
          /\ UNCHANGED <<declared, rows, changes, log, keys, next, attempts, lib, crashes>>
     ELSE /\ declared' = Append(declared, s)
          /\ rows' = [o \in Objects |-> IF o \in Migrates(r) THEN new(o) ELSE rows[o]]
          /\ changes' = [m \in Changes |-> IF m \in closed
                THEN [snap.changes[m] EXCEPT !.state = ended(m), !.ver = @ + 1] ELSE changes[m]]
          /\ log' = log \o (CHOOSE q \in [1..Cardinality(events) -> events] :
                              {q[i] : i \in DOMAIN q} = events)
          /\ lib' = [lib EXCEPT ![Proc(c)] = version]
          /\ Answer(c)
          /\ UNCHANGED <<keys, next, attempts, crashes>>

----------------------------------------------------------------------------

\* A process killed and started again: its calls are lost, and it opens the
\* store at the version it is at.
Crash(p) ==
  /\ crashes < MaxCrashes
  /\ crashes' = crashes + 1
  /\ lib' = [lib EXCEPT ![p] = Version]
  /\ holder' = [holder EXCEPT ![p] = NoOne]
  /\ calls' = [c \in Clients |-> IF Proc(c) = p THEN Idle ELSE calls[c]]
  /\ UNCHANGED <<declared, rows, changes, log, keys, next, attempts>>

Quiet == /\ \A c \in Clients : calls[c] = Idle
         /\ Len(log) >= MaxLog \/ attempts >= MaxAttempts
         /\ UNCHANGED vars

Init ==
  /\ declared = <<Base>>
  /\ rows = [o \in Objects |-> [ver |-> 0, val |-> First, admitted |-> FALSE]]
  /\ changes = [k \in Changes |-> [state |-> "NONE", ver |-> 0, source |-> Base, base |-> None,
                             report |-> NoReport, by |-> NoOne]]
  /\ log = <<>> /\ keys = {} /\ next = 1 /\ attempts = 0
  /\ lib = [p \in Procs |-> 1]
  /\ holder = [p \in Procs |-> NoOne]
  /\ calls = [c \in Clients |-> Idle]
  /\ crashes = 0

Step(c) ==
  \/ DryRead(c) \/ DryImpact(c) \/ DryLate(c) \/ Enter(c)
  \/ Reload(c) \/ Write(c) \/ Asking(c) \/ KeepDraws(c) \/ Attempt(c)
  \/ BatchKey(c) \/ RunBatch(c) \/ ChangeFlow(c) \/ Decide(c) \/ Install(c)

Next ==
  \/ \E c \in Clients : Step(c) \/ \E call \in Calls[c] : Ask(c, call)
  \/ \E p \in Procs : Crash(p)
  \/ Quiet

Spec == Init /\ [][Next]_vars

----------------------------------------------------------------------------
(* Properties.                                                             *)

Positions(o) == {i \in DOMAIN log : log[i].object = o}

\* A process has loaded a version the store was at, a mutex is held by a
\* client of its own process inside a call, and never while an evaluator is
\* asked or a dry run is prepared.
TypeOK ==
  /\ \A p \in Procs : lib[p] \in 1..Version
  /\ \A p \in Procs : holder[p] # NoOne =>
       Proc(holder[p]) = p /\ calls[holder[p]].pc \notin {"idle", "ready", "asking", "dryread", "dryimpact"}
  /\ \A o \in Objects : rows[o].val \in Values
  /\ \A k \in Changes : changes[k].base <= Version
  /\ next >= 1

\* Nothing committed is written over: an object's events are numbered without
\* a gap or a repeat, and its row is as the last of them left it, the install
\* of what was read before another process wrote among them.
NoLostWrite ==
  /\ \A o \in Objects :
       /\ {log[i].seq : i \in Positions(o)} = 1..rows[o].ver
       /\ Cardinality(Positions(o)) = rows[o].ver
       /\ \A i \in Positions(o) : log[i].seq = rows[o].ver => log[i].val = rows[o].val
  /\ \A k \in Changes :
       {log[i].seq : i \in Positions(k)} = 1..changes[k].ver /\ Cardinality(Positions(k)) = changes[k].ver

\* A write runs under a version the store was at during its call, and a
\* batch, whose transaction loads it, under the one it commits at.
RunsUnderItsTime ==
  \A i \in DOMAIN log :
    LET e == log[i] IN
    e.x # "publish" /\ e.x # "migrate" =>
      /\ e.version \in e.began..e.at
      /\ e.batch # None => e.version = e.at

\* A batch under a key is applied at most once, by whichever process it was
\* sent to and however often.
BatchOnce ==
  \A k, m \in {log[i].batch : i \in DOMAIN log} \ {None} :
    \E a \in keys, b \in keys :
      a.first = k /\ b.first = m /\ (a.key = b.key => k = m)

\* No two requests that applied hold the same number of a sequence.
NumbersDistinct ==
  \A i, j \in DOMAIN log : i # j /\ log[i].num # None => log[i].num # log[j].num

\* What the approver of a change is shown is the dry run of the source the
\* change holds, and one published replaced the version it was drafted on.
ReportIsOfItsChange ==
  \A k \in Changes :
    LET ch == changes[k] IN
    /\ ch.state = "SUBMITTED" => ch.report.source = ch.source
    /\ ch.state = "PUBLISHED" => ch.base < Version /\ declared[ch.base + 1] = ch.source

\* A request its evaluators judged is applied on their answer for the value
\* its object holds as it is applied, however often it was run again.
JudgedOnWhatItHolds ==
  \A i \in DOMAIN log :
    log[i].asked # {} =>
      LET before == {j \in Positions(log[i].object) : log[j].seq = log[i].seq - 1}
          held == IF before = {} THEN First ELSE log[CHOOSE j \in before : TRUE].val IN
      held \in log[i].asked

=============================================================================
