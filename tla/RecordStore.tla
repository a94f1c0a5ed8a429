---------------------------- MODULE RecordStore ----------------------------
(***************************************************************************)
(* What the service promises the callers of POST /v1/request, whatever the *)
(* grouping: the store is changed only by the decisions of open calls, one *)
(* after another, each made against what the ones before it left; a call   *)
(* is run at most once; and what a caller is told is what its run decided. *)
(* A fault or a lost connection tells nothing of whether the call ran.     *)
(***************************************************************************)
EXTENDS Requests

CONSTANTS
  NoAnswer,  \* a call not run, or not answered
  Fault,     \* the answer that tells nothing
  Lost,      \* no answer, the process having ended
  Exhausted, \* the store's lock not had past every retry
  MayRunLate \* whether a call may run after its caller was answered Fault

VARIABLES call, db, outcome, reply
vars == <<call, db, outcome, reply>>

Init ==
  /\ call = [t \in Tickets |-> "idle"]
  /\ db = EmptyStore
  /\ outcome = [t \in Tickets |-> NoAnswer]
  /\ reply = [t \in Tickets |-> NoAnswer]

(* The decisions of a sequence of calls, made one by one: what the store   *)
(* holds before the i-th, and what the i-th is answered.                   *)
Before(ts) ==
  LET d[i \in 1..Len(ts) + 1] ==
        IF i = 1 THEN db ELSE Decided(d[i - 1], ts[i - 1]).db
  IN d

Runs(ts) ==
  /\ db' = Before(ts)[Len(ts) + 1]
  /\ outcome' = [t \in Tickets |->
       IF \E i \in DOMAIN ts : ts[i] = t
       THEN LET i == CHOOSE i \in DOMAIN ts : ts[i] = t
            IN Decided(Before(ts)[i], t).answer
       ELSE outcome[t]]
  /\ UNCHANGED <<call, reply>>

MayRun(t) ==
  /\ outcome[t] = NoAnswer
  /\ call[t] = "open" \/ (MayRunLate /\ reply[t] = Fault)

Orders(S) ==
  UNION {{ts \in [1..n -> S] : \A i, j \in 1..n : ts[i] = ts[j] => i = j} :
           n \in 1..Cardinality(S)}

Call(t) ==
  /\ call[t] = "idle"
  /\ call' = [call EXCEPT ![t] = "open"]
  /\ UNCHANGED <<db, outcome, reply>>

Serve == \E ts \in Orders({t \in Tickets : MayRun(t)}) : Runs(ts)

(* A call's run that an error ends after the numbers it drew were kept,    *)
(* or that the store's lock kept from running at all.                      *)
Spoil(t) ==
  /\ MayRun(t)
  /\ \/ db' = Drawn(db) /\ UNCHANGED outcome
     \/ /\ db' \in {db, Logged(db, t)}
        /\ outcome' = [outcome EXCEPT ![t] = Exhausted]
  /\ UNCHANGED <<call, reply>>

Reply(t, a) ==
  /\ call[t] = "open"
  /\ a \in {outcome[t], Fault} \ {NoAnswer}
  /\ call' = [call EXCEPT ![t] = "closed"]
  /\ reply' = [reply EXCEPT ![t] = a]
  /\ UNCHANGED <<db, outcome>>

(* The process ended: every open call is closed unanswered.                *)
Stop ==
  /\ call' = [t \in Tickets |-> IF call[t] = "open" THEN "closed" ELSE call[t]]
  /\ reply' = [t \in Tickets |-> IF call[t] = "open" THEN Lost ELSE reply[t]]
  /\ UNCHANGED <<db, outcome>>

Next ==
  \/ \E t \in Tickets : Call(t) \/ Spoil(t)
  \/ \E t \in Tickets : \E a \in {outcome[t], Fault} : Reply(t, a)
  \/ Serve
  \/ Stop

Spec == Init /\ [][Next]_vars
=============================================================================
