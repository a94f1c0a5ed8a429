------------------------------ MODULE Listener ------------------------------
(***************************************************************************)
(* A listener and its connections (served): at its cap the oldest one      *)
(* answering nothing is closed to make room, told apart from one a request *)
(* takes by a counter (taken, CLOSING, Holding); asked to stop it takes    *)
(* none, lets each finish what it answers, and the service ends with them  *)
(* or, past its grace, without (stopping, serve).                          *)
(*                                                                         *)
(* hyper's HTTP/1 is external: a connection reads one head, has one request*)
(* answered, takes its body into a buffer, which drops the body, writes    *)
(* the buffer out, and reads the next head unless it was told to close.    *)
(***************************************************************************)
EXTENDS Integers, Sequences, FiniteSets

CONSTANTS
  Conns,     \* the connections clients make, and make again
  Cap,       \* --max-connections
  REFUSING   \* the most newcomers being told the cap is met

NoConn == "none"

ASSUME CapAssumption ==
  Cap \in Nat \ {0} /\ REFUSING \in Nat /\ NoConn \notin Conns

CLOSING == -1

VARIABLES
  stage,     \* each connection: "none", "backlog", "open", "telling"
  opened,    \* Opened: the open ones, by the order they were taken
  busy,      \* Busy: what each is answering, or CLOSING
  req,       \* where hyper is with it
  told,      \* its Notify, given to make room
  draining,  \* graceful_shutdown called on it
  io,        \* the newcomer the loop has accepted at the cap
  refusing,  \* how many newcomers are being told
  signalled, \* SIGTERM or SIGINT has come
  closing,   \* the loop left, the listener dropped, the watch sent
  ended,     \* how each connection's last request ended
  exit       \* "no", "clean", or "grace"

conn == <<stage, opened, busy, req, told, draining, ended>>
loop == <<io, refusing, signalled, closing, exit>>
vars == <<conn, loop>>

Running == exit = "no"

----------------------------------------------------------------------------
(* The counter a request and the cap meet at.                              *)

\* The slip: the counter raised whatever it holds.
TakenAnyway(c) == TRUE

\* taken: a request may begin unless the cap took its connection.
Taken(c) == busy[c] >= 0

Answering(c) == req[c] \in {"running", "body"}

\* The open ones without one of them.
Without(q, c) ==
  LET i == CHOOSE i \in DOMAIN q : q[i] = c
  IN [j \in 1..Len(q) - 1 |-> IF j < i THEN q[j] ELSE q[j + 1]]

\* Leaving dropped as the connection's task ends, and with it whatever was
\* being answered.
Leave(c, how) ==
  /\ stage' = [stage EXCEPT ![c] = "none"]
  /\ opened' = Without(opened, c)
  /\ ended' = [ended EXCEPT ![c] = IF Answering(c) THEN how ELSE @]
  /\ busy' = [busy EXCEPT ![c] = 0]
  /\ req' = [req EXCEPT ![c] = "head"]
  /\ told' = [told EXCEPT ![c] = FALSE]
  /\ draining' = [draining EXCEPT ![c] = FALSE]
  /\ UNCHANGED loop

Goes(c, from, to) == Running /\ stage[c] = "open" /\ req[c] = from /\ req' = [req EXCEPT ![c] = to]

\* OnConnection::call: the head read, the request takes the connection, or
\* is answered 503 and begins nothing.
Begin(c) ==
  /\ Goes(c, "head", IF Taken(c) THEN "running" ELSE "refused")
  /\ busy' = [busy EXCEPT ![c] = IF Taken(c) THEN @ + 1 ELSE @]
  /\ UNCHANGED <<stage, opened, told, draining, ended, loop>>

\* The handler's answer, its body holding the connection.
Answered(c) ==
  /\ Goes(c, "running", "body")
  /\ UNCHANGED <<stage, opened, busy, told, draining, ended, loop>>

\* Held's body taken whole and dropped, and its Holding with it.
Buffered(c) ==
  /\ Goes(c, "body", "writing")
  /\ busy' = [busy EXCEPT ![c] = @ - 1]
  /\ ended' = [ended EXCEPT ![c] = "answered"]
  /\ UNCHANGED <<stage, opened, told, draining, loop>>

\* The answer written out: the next head, or the connection's end where it
\* is draining or was answered Connection: close.
Written(c) ==
  \/ /\ ~ draining[c]
     /\ Goes(c, "writing", "head")
     /\ UNCHANGED <<stage, opened, busy, told, draining, ended, loop>>
  \/ /\ Running /\ stage[c] = "open"
     /\ req[c] = "refused" \/ (req[c] = "writing" /\ draining[c])
     /\ Leave(c, "answered")

\* The idle timeout: no head read, or, Unread, an answer not taken.
TimedOut(c) ==
  /\ Running /\ stage[c] = "open" /\ req[c] # "running"
  /\ Leave(c, "left")

\* The client goes; a request running is dropped with its connection.
Gone(c) ==
  /\ Running /\ stage[c] = "open"
  /\ Leave(c, "left")

----------------------------------------------------------------------------
(* The accept loop.                                                        *)

Connect(c) ==
  /\ Running /\ ~ closing /\ stage[c] = "none"
  /\ stage' = [stage EXCEPT ![c] = "backlog"]
  /\ ended' = [ended EXCEPT ![c] = "none"]
  /\ UNCHANGED <<opened, busy, req, told, draining, loop>>

AtCap == Len(opened) >= Cap

Opens(c) == /\ stage' = [stage EXCEPT ![c] = "open"]
            /\ opened' = Append(opened, c)

\* Accepted; under the cap it is served, and at it room is looked for under
\* a lock of its own, what is open having moved since.
Accept(c) ==
  /\ Running /\ ~ closing /\ io = NoConn /\ stage[c] = "backlog"
  /\ IF AtCap THEN io' = c /\ UNCHANGED <<stage, opened>> ELSE Opens(c) /\ UNCHANGED io
  /\ UNCHANGED <<busy, req, told, draining, ended, refusing, signalled, closing, exit>>

Silent(c) == busy[c] = 0

\* The oldest answering nothing taken and told, and the newcomer opened.
MakeRoom ==
  /\ Running /\ io # NoConn
  /\ \E i \in DOMAIN opened :
       /\ Silent(opened[i]) /\ \A j \in 1..(i - 1) : ~ Silent(opened[j])
       /\ busy' = [busy EXCEPT ![opened[i]] = CLOSING]
       /\ told' = [told EXCEPT ![opened[i]] = TRUE]
  /\ Opens(io)
  /\ io' = NoConn
  /\ UNCHANGED <<req, draining, ended, refusing, signalled, closing, exit>>

\* None is: the newcomer is told so, while fewer than REFUSING are, or
\* dropped.
Refuse ==
  /\ Running /\ io # NoConn
  /\ \A i \in DOMAIN opened : ~ Silent(opened[i])
  /\ io' = NoConn
  /\ LET tell == refusing < REFUSING IN
     /\ stage' = [stage EXCEPT ![io] = IF tell THEN "telling" ELSE "none"]
     /\ refusing' = IF tell THEN refusing + 1 ELSE refusing
  /\ UNCHANGED <<opened, busy, req, told, draining, ended, signalled, closing, exit>>

\* Told, or a second past.
Told(c) ==
  /\ Running /\ stage[c] = "telling"
  /\ stage' = [stage EXCEPT ![c] = "none"]
  /\ refusing' = refusing - 1
  /\ UNCHANGED <<opened, busy, req, told, draining, ended, io, signalled, closing, exit>>

\* The task sees its Notify, and is dropped.
Closed(c) ==
  /\ Running /\ stage[c] = "open" /\ told[c]
  /\ Leave(c, "room")

----------------------------------------------------------------------------
(* The stop.                                                               *)

Signal ==
  /\ Running /\ ~ signalled
  /\ signalled' = TRUE
  /\ UNCHANGED <<conn, io, refusing, closing, exit>>

\* stopping resolved in the loop's select: the loop left, the listener
\* dropped with its backlog, and every connection told.
Stop ==
  /\ Running /\ signalled /\ ~ closing /\ io = NoConn
  /\ closing' = TRUE
  /\ stage' = [c \in Conns |-> IF stage[c] = "backlog" THEN "none" ELSE stage[c]]
  /\ UNCHANGED <<opened, busy, req, told, draining, ended, io, refusing, signalled, exit>>

\* The slip: the task is not told.
DrainUntold(c) == FALSE /\ Leave(c, "stop")

\* The task sees the watch, and hyper is asked to finish.
Drain(c) ==
  /\ Running /\ closing /\ stage[c] = "open" /\ ~ draining[c]
  /\ draining' = [draining EXCEPT ![c] = TRUE]
  /\ UNCHANGED <<stage, opened, busy, req, told, ended, loop>>

\* hyper closes one that has read nothing of a head.
Drained(c) ==
  /\ Running /\ stage[c] = "open" /\ draining[c] /\ req[c] = "head"
  /\ Leave(c, "stop")

\* Every task joined, the socket removed and the log carried into the file.
End ==
  /\ Running /\ closing
  /\ \A c \in Conns : stage[c] \notin {"open", "telling"}
  /\ exit' = "clean"
  /\ UNCHANGED <<conn, io, refusing, signalled, closing>>

\* GRACE past: what is in flight is left unanswered.
Grace ==
  /\ Running /\ closing
  /\ exit' = "grace"
  /\ ended' = [c \in Conns |-> IF stage[c] = "open" /\ Answering(c) THEN "grace" ELSE ended[c]]
  /\ UNCHANGED <<stage, opened, busy, req, told, draining, io, refusing, signalled, closing>>

Exited == ~ Running /\ UNCHANGED vars

----------------------------------------------------------------------------

Init ==
  /\ stage = [c \in Conns |-> "none"] /\ opened = <<>>
  /\ busy = [c \in Conns |-> 0] /\ req = [c \in Conns |-> "head"]
  /\ told = [c \in Conns |-> FALSE] /\ draining = [c \in Conns |-> FALSE]
  /\ ended = [c \in Conns |-> "none"]
  /\ io = NoConn /\ refusing = 0 /\ signalled = FALSE /\ closing = FALSE /\ exit = "no"

Next ==
  \/ \E c \in Conns :
       \/ Connect(c) \/ Accept(c) \/ Told(c) \/ Closed(c) \/ Drain(c) \/ Drained(c)
       \/ Begin(c) \/ Answered(c) \/ Buffered(c) \/ Written(c) \/ TimedOut(c) \/ Gone(c)
  \/ MakeRoom \/ Refuse \/ Signal \/ Stop \/ End \/ Grace \/ Exited

\* A handler ends, as its deadlines have it; an answer is taken or its idle
\* timeout passes; a task ready is polled; and the select, which picks at
\* random, takes the stop some time.  Clients, the signal and GRACE owe
\* nothing.
Fairness ==
  /\ \A c \in Conns :
       /\ WF_vars(Answered(c)) /\ WF_vars(Buffered(c) \/ Written(c) \/ TimedOut(c))
       /\ WF_vars(Told(c)) /\ WF_vars(Closed(c)) /\ WF_vars(Drain(c)) /\ WF_vars(Drained(c))
  /\ WF_vars(MakeRoom \/ Refuse) /\ SF_vars(Stop) /\ WF_vars(End)

Spec == Init /\ [][Next]_vars /\ Fairness

----------------------------------------------------------------------------
(* Properties.                                                             *)

\* Making room keeps the cap and cuts no request short: the connections not
\* taken to make room never pass --max-connections, however many of those
\* taken have still to leave; and one taken answers nothing, so neither the
\* room made nor the stop ends a request that began (OnConnection's promise).
NoneCutShort ==
  /\ Cardinality({c \in Conns : stage[c] = "open" /\ busy[c] # CLOSING}) <= Cap
  /\ \A c \in Conns : busy[c] = CLOSING => ~ Answering(c)
  /\ \A c \in Conns : ended[c] \notin {"room", "stop"}

\* A service asked to stop ends, its grace not needed: a client that sends
\* one request after another on a connection it keeps, or none, does not
\* hold the stop up.
StopEnds == signalled ~> ~ Running

=============================================================================
