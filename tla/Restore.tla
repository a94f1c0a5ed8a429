------------------------------- MODULE Restore -------------------------------
(***************************************************************************)
(* What a store hands out and what a subscriber reads of it, through       *)
(* backups and their restores (objectflow-core: store.rs, Allocator,       *)
(* restore_copy, Store::acknowledge; subscription.rs, pull_page; ADR-0207, *)
(* ADR-0089).  A copy put in the live store's place holds nothing the live *)
(* store did after it.  Its first opening estimates, from the times of     *)
(* what it holds, how much that was, advances every counter past it, and   *)
(* records the gap, in which no cursor is the store's.                     *)
(*                                                                         *)
(* The subscriber is outside the service: it pulls, handles a page, and    *)
(* acknowledges the cursor settled, its calls late or sent again.          *)
(***************************************************************************)
EXTENDS Integers, Sequences, FiniteSets

CONSTANTS
  Scopes,      \* the scopes a sequence numbers objects in
  Selected,    \* those whose objects' events the subscription selects
  Least,       \* RESTORE_LEAST, the least a restore advances a counter by
  Round,       \* RESTORE_ROUND, what it advances each to a multiple of
  DrawMost,    \* the most numbers a refused request, or a batch, draws
  Again,       \* whether a copy made before the last restore is restored
  Limit,       \* the page a pull asks for
  MaxRecords,  \* bound: requests applied or refused
  MaxTime,     \* bound: the clock
  MaxCopies,   \* bound: copies kept at once
  MaxRestores, \* bound: restores
  MaxAcks,     \* bound: acknowledgements on their way at once
  MaxForgets,  \* bound: how often the subscriber loses its own cursor
  None         \* no cursor of its own, no page in hand

ASSUME RestoreAssumption ==
  /\ Least \in Nat \ {0} /\ Round \in Nat \ {0} /\ DrawMost \in Nat \ {0}
  /\ Scopes # {} /\ Selected \subseteq Scopes /\ Again \in BOOLEAN /\ Limit \in Nat \ {0}
  /\ MaxRecords \in Nat /\ MaxTime \in Nat /\ MaxCopies \in Nat
  /\ MaxRestores \in Nat /\ MaxAcks \in Nat /\ MaxForgets \in Nat
  /\ None \notin Nat

VARIABLES
  db,       \* the store served: its log, its counters, its cursor
  now,      \* the clock
  copies,   \* the copies kept, each with what was recorded when it was made
  restores, \* how many restores there have been
  recorded, \* history: requests ever recorded, those a restore lost among them
  handed,   \* history: every event ever handed out
  kept,     \* the cursor the subscriber keeps
  page,     \* the answer to its pull, not handled yet
  handled,  \* the events it has handled
  acks,     \* its acknowledgements on their way
  forgets   \* how often it has lost its cursor

vars == <<db, now, copies, restores, recorded, handed, kept, page, handled, acks, forgets>>
storeVars == <<now, copies, restores, recorded, handed>>
readerVars == <<kept, page, handled, acks, forgets>>

Event ==
  [id : Nat, position : Nat, at : Nat, scope : Scopes, number : Nat]

(* The subscription, the log's first event, is where its cursor starts.    *)
Subscribed ==
  [id |-> 0, position |-> 1, at |-> 0, scope |-> CHOOSE s \in Scopes : TRUE,
   number |-> 0]

Init ==
  /\ db = [log |-> <<Subscribed>>, position |-> 1, last |-> [s \in Scopes |-> 0],
           attempts |-> <<>>, gaps |-> {}, floor |-> 0, acked |-> 1]
  /\ now = 0 /\ copies = {} /\ restores = 0 /\ recorded = 0 /\ handed = {}
  /\ kept = None /\ page = None /\ handled = {} /\ acks = {} /\ forgets = 0

-----------------------------------------------------------------------------
(* What the store hands out.                                               *)

(* Allocator.draw: a scope's next number; one the store holds no row for   *)
(* starts past every restore's margin.  A slip: it starts at 1.            *)
DrawFromOne(d, s) == d.last[s] + 1
Draw(d, s) == (IF d.last[s] = 0 THEN d.floor ELSE d.last[s]) + 1

NextPositionKept(d) == d.position   \* a slip: the counter not advanced first
NextPosition(d) == d.position + 1

Apply(s) ==
  LET e == [id |-> recorded + 1, position |-> NextPosition(db), at |-> now,
            scope |-> s, number |-> Draw(db, s)]
  IN /\ recorded < MaxRecords /\ recorded' = recorded + 1
     /\ db' = [db EXCEPT !.log = Append(@, e), !.position = e.position,
                          !.last[s] = e.number]
     /\ handed' = handed \cup {e}
     /\ UNCHANGED <<now, copies, restores, readerVars>>

(* A refusal keeps the numbers it drew and one row of the attempt log; one *)
(* that drew none, which only widens a later margin, is left out.          *)
Refuse(s) ==
  /\ recorded < MaxRecords /\ recorded' = recorded + 1
  /\ \E n \in 1..DrawMost :
       db' = [db EXCEPT !.last[s] = Draw(db, s) + n - 1,
                         !.attempts = Append(@, now)]
  /\ UNCHANGED <<now, copies, restores, handed, readerVars>>

Tick == now < MaxTime /\ now' = now + 1
        /\ UNCHANGED <<db, copies, restores, recorded, handed, readerVars>>

-----------------------------------------------------------------------------
(* restore_copy.                                                           *)

LastPosition(d) == d.log[Len(d.log)].position

(* The events and attempts a store recorded in the times from a to b.      *)
During(d, a, b) ==
  Cardinality({i \in DOMAIN d.log : d.log[i].at \in a..b})
  + Cardinality({i \in DOMAIN d.attempts : d.attempts[i] \in a..b})

Times(d) ==
  {d.log[i].at : i \in DOMAIN d.log} \cup {d.attempts[i] : i \in DOMAIN d.attempts}

Largest(S) == CHOOSE m \in S : \A n \in S : n <= m

(* The most recorded in any period as long as the copy's age, doubled.     *)
Margin(d) ==
  LET age == now - Largest(Times(d))
      busiest == Largest({During(d, t - age, t) : t \in Times(d)})
  IN Largest({2 * busiest, Least})

Past(v, margin) == ((v + margin + Round - 1) \div Round) * Round

Restored(d) ==
  LET m == Margin(d)
  IN [d EXCEPT
        !.position = Past(@, m),
        !.last = [s \in Scopes |-> IF @[s] = 0 THEN 0 ELSE Past(@[s], m)],
        !.gaps = @ \cup {[from |-> d.position, to |-> Past(d.position, m)]},
        !.floor = Past(@, m)]

Copy ==
  /\ Cardinality(copies) < MaxCopies
  /\ copies' = copies \cup {[store |-> db, recorded |-> recorded, restores |-> restores]}
  /\ UNCHANGED <<db, now, restores, recorded, handed, readerVars>>

(* The margin is an estimate: a restore is judged here where what it lost  *)
(* was no busier than the estimate covers.                                 *)
Covers(c) == recorded - c.recorded <= Margin(c.store)

Restore ==
  /\ restores < MaxRestores /\ restores' = restores + 1
  /\ \E c \in copies :
       /\ Covers(c)
       /\ Again \/ c.restores = restores
       /\ db' = Restored(c.store)
  /\ UNCHANGED <<now, copies, recorded, handed, readerVars>>

-----------------------------------------------------------------------------
(* The feed: pull_page, acknowledge, and the subscriber.                   *)

(* A slip: the copy's last position in the gap after it.                   *)
SkippedFrom(d, c) == \E g \in d.gaps : c >= g.from /\ c <= g.to
Skipped(d, c) == \E g \in d.gaps : c > g.from /\ c <= g.to

Accepts(d, c) == c >= 0 /\ c <= LastPosition(d) /\ ~Skipped(d, c)

Selects(e) == e.id > 0 /\ e.scope \in Selected

(* The places in the log of the events a cursor has still to bring.        *)
Pending(from) ==
  {i \in DOMAIN db.log : Selects(db.log[i]) /\ db.log[i].position > from}

(* The cursor to continue from: the page's last event's where more follow, *)
(* the log's last otherwise.  A slip: the log's last whatever follows.     *)
SettledLast(pending, fit) == LastPosition(db)
Settled(pending, fit) ==
  IF fit \in {{}, pending} THEN LastPosition(db) ELSE db.log[Largest(fit)].position

(* The events a page may hold, the first of those pending: it ends at its  *)
(* limit or at its bytes, one event at least.  A slip: none where the      *)
(* first exceeds its bytes.                                                *)
FitsNone(pending) ==
  {fit \in SUBSET pending :
     Cardinality(fit) <= Limit /\ \A i \in fit, j \in pending : j < i => j \in fit}
Fits(pending) ==
  {fit \in SUBSET pending :
     /\ Cardinality(fit) <= Limit /\ \A i \in fit, j \in pending : j < i => j \in fit
     /\ fit = {} => pending = {}}

Pull ==
  /\ page = None
  /\ IF kept # None /\ ~Accepts(db, kept)
     THEN kept' = None /\ UNCHANGED page
     ELSE LET pending == Pending(IF kept = None THEN db.acked ELSE kept)
          IN \E fit \in Fits(pending) :
               /\ page' = [events |-> {db.log[i].id : i \in fit},
                           settled |-> Settled(pending, fit)]
               /\ UNCHANGED kept
  /\ UNCHANGED <<db, handled, acks, forgets, storeVars>>

Handle ==
  /\ page # None
  /\ handled' = handled \cup page.events
  /\ kept' = page.settled
  /\ acks' \in {acks, acks \cup {page.settled}} /\ Cardinality(acks') <= MaxAcks
  /\ page' = None
  /\ UNCHANGED <<db, forgets, storeVars>>

(* Store::acknowledge, back as well as forward; late, or once more.        *)
Acknowledge ==
  /\ \E c \in acks :
       /\ db' = IF Accepts(db, c) THEN [db EXCEPT !.acked = c] ELSE db
       /\ acks' \in {acks, acks \ {c}}
  /\ UNCHANGED <<kept, page, handled, forgets, storeVars>>

Forget ==
  /\ forgets < MaxForgets /\ forgets' = forgets + 1
  /\ kept' = None /\ page' = None
  /\ UNCHANGED <<db, handled, acks, storeVars>>

-----------------------------------------------------------------------------
Next ==
  \/ \E s \in Scopes : Apply(s) \/ Refuse(s)
  \/ Tick \/ Copy \/ Restore
  \/ Pull \/ Handle \/ Acknowledge \/ Forget

Spec == Init /\ [][Next]_vars

(* The subscriber goes on pulling and handling, as one that polls does.    *)
FairSpec == Spec /\ WF_vars(Pull) /\ WF_vars(Handle)

-----------------------------------------------------------------------------
(* Properties.                                                             *)

(* The log is in position order, up to the counter positions come from.    *)
LogOK(d) ==
  /\ d.log \in Seq(Event) /\ Len(d.log) > 0
  /\ \A i, j \in DOMAIN d.log : i < j => d.log[i].position < d.log[j].position
  /\ LastPosition(d) <= d.position

StoreOK(d) ==
  /\ LogOK(d) /\ d.position \in Nat /\ d.last \in [Scopes -> Nat]
  /\ d.attempts \in Seq(Nat) /\ d.floor \in Nat /\ d.acked \in 0..LastPosition(d)
  /\ \A g \in d.gaps : g.from \in Nat /\ g.to \in Nat /\ g.from < g.to

TypeOK ==
  /\ StoreOK(db) /\ \A c \in copies : StoreOK(c.store)
  /\ now \in 0..MaxTime /\ recorded \in 0..MaxRecords
  /\ restores \in 0..MaxRestores /\ forgets \in 0..MaxForgets
  /\ kept \in Nat \cup {None} /\ acks \in SUBSET Nat
  /\ page # None => page.settled \in Nat /\ page.events \in SUBSET (1..MaxRecords)
  /\ handled \in SUBSET (1..MaxRecords) /\ handed \in SUBSET Event

(* No two events, one of them lost to a restore, are handed out under one  *)
(* position or one number of a scope: a store started from a marked copy   *)
(* "hands none of them out twice" (restore_copy, operate.md).              *)
HandedOutOnce ==
  \A a, b \in handed : a.id # b.id =>
    /\ a.position # b.position
    /\ a.scope = b.scope => a.number # b.number

(* The cursor acknowledged, and one kept that the store honours, is past   *)
(* no event selected and not handled, whatever was lost beneath it and     *)
(* however late it was acknowledged (pull_page, acknowledge).              *)
Passed(e) == e.position <= db.acked \/ (kept # None /\ Accepts(db, kept) /\ e.position <= kept)
NoneSkipped ==
  \A i \in DOMAIN db.log :
    Selects(db.log[i]) /\ Passed(db.log[i]) => db.log[i].id \in handled

(* The cursors honoured are the positions of the store's own events, and   *)
(* 0: a cursor a restore lost is refused for good, and no cursor of what   *)
(* it kept is (pull_page, Restore::skipped_position).                      *)
HonoursItsOwn ==
  \A c \in 0..db.position :
    Accepts(db, c) <=> c = 0 \/ \E i \in DOMAIN db.log : db.log[i].position = c

(* Every event selected is handled, unless a restore loses it first,       *)
(* through pages cut short, cursors refused and forgotten, and             *)
(* acknowledgements out of order (pull_page).                              *)
Held(id) == \E i \in DOMAIN db.log : db.log[i].id = id /\ Selects(db.log[i])
EveryEventHandled ==
  \A id \in 1..MaxRecords : Held(id) ~> (id \in handled \/ ~Held(id))
=============================================================================
