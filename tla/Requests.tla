------------------------------ MODULE Requests ------------------------------
(***************************************************************************)
(* What a request's own transaction decides (request.rs, request_told and  *)
(* store.rs, Store::transact): the replay of a key already applied, the    *)
(* fault of a key sent with another request, the request that applies, and *)
(* the request its guards refuse.  A request's inputs and the library's    *)
(* clauses are abstracted to one guard that reads the store: a request     *)
(* applies while fewer than Capacity requests have.  Every request draws   *)
(* one number of a sequence before its guard is evaluated.                 *)
(***************************************************************************)
EXTENDS Naturals, Sequences, FiniteSets

CONSTANTS
  Tickets,   \* the calls of POST /v1/request, a retry being a call of its own
  Keys,      \* the idempotency keys callers use
  NoKey,     \* the key of a request sent without one
  KeyOf,     \* the key each call sends
  BodyOf,    \* what each call sends beside its key, which its digest covers
  Capacity   \* how many requests the library's guard lets apply

ASSUME RequestAssumption ==
  /\ NoKey \notin Keys
  /\ KeyOf \in [Tickets -> Keys \cup {NoKey}]
  /\ Capacity \in Nat

-----------------------------------------------------------------------------
(* The store's durable state: the log of what applied, of_sequence's next  *)
(* number, of_idempotency and of_attempt.                                  *)
Store ==
  [log : Seq([ticket : Tickets, number : Nat]),
   next : Nat,
   keys : [Keys -> Nat],
   attempts : SUBSET Tickets]

EmptyStore ==
  [log |-> <<>>, next |-> 1, keys |-> [k \in Keys |-> 0], attempts |-> {}]

Verdicts ==
  {"satisfied", "refused", "key_reused", "retries_exhausted",
   "fault", "lost", "none"}
Answers == [verdict : Verdicts, number : Nat]
Answer(verdict, number) == [verdict |-> verdict, number |-> number]

Keyed(t) == KeyOf[t] # NoKey

(* The log's entry a call's key is recorded with, 0 where it is recorded   *)
(* with none.                                                              *)
HeldAt(d, t) == IF Keyed(t) THEN d.keys[KeyOf[t]] ELSE 0

Replays(d, t) == BodyOf[d.log[HeldAt(d, t)].ticket] = BodyOf[t]

Admits(d) == Len(d.log) < Capacity

(* A form with a plausible slip, for the checks to notice: the change      *)
(* committed without its key.                                              *)
AppliedUnkeyed(d, t) ==
  [d EXCEPT !.log = Append(@, [ticket |-> t, number |-> d.next]), !.next = @ + 1]

(* The event appended, the number drawn written, and the key recorded with *)
(* them in one transaction.                                                *)
Applied(d, t) ==
  [d EXCEPT
     !.log = Append(@, [ticket |-> t, number |-> d.next]),
     !.next = @ + 1,
     !.keys = IF Keyed(t) THEN [@ EXCEPT ![KeyOf[t]] = Len(d.log) + 1] ELSE @]

(* Slips: the numbers and the row rolled back with the request.            *)
DrawnLost(d) == d
LoggedLost(d, t) == d

(* What a refused request keeps: the numbers it drew, written after its    *)
(* rollback, and its row of the attempt log, written after those.          *)
Drawn(d) == [d EXCEPT !.next = @ + 1]
Logged(d, t) == [d EXCEPT !.attempts = @ \cup {t}]

Decided(d, t) ==
  IF HeldAt(d, t) # 0
  THEN IF Replays(d, t)
       THEN [db |-> d,
             answer |-> Answer("satisfied", d.log[HeldAt(d, t)].number)]
       ELSE [db |-> Logged(d, t), answer |-> Answer("key_reused", 0)]
  ELSE IF Admits(d)
       THEN [db |-> Applied(d, t), answer |-> Answer("satisfied", d.next)]
       ELSE [db |-> Logged(Drawn(d), t), answer |-> Answer("refused", d.next)]

(* What a request run on a transaction of its own may leave where a store  *)
(* error ends it: nothing, the numbers drawn without the attempt's row, or *)
(* everything, the error met while reading what to tell the caller.        *)
LeftByError(d, t) ==
  {d, Decided(d, t).db} \cup
  (IF Decided(d, t).answer.verdict = "refused" THEN {Drawn(d)} ELSE {})
=============================================================================
