--------------------------- MODULE ListenerProofs ---------------------------
(***************************************************************************)
(* The listener's cap and the counter a request and the cap meet at,       *)
(* proved for every set of clients, cap and number of newcomers told: room *)
(* is made of connections answering nothing, and no request that began is  *)
(* ended by the room made or by the stop.                                  *)
(***************************************************************************)
EXTENDS Listener, FiniteSetTheorems, TLAPS

Stages == {"none", "backlog", "open", "telling"}
Requests == {"head", "running", "body", "writing", "refused"}

ConnTypes ==
  /\ stage \in [Conns -> Stages] /\ opened \in Seq(Conns)
  /\ busy \in [Conns -> {CLOSING, 0, 1}] /\ req \in [Conns -> Requests]
  /\ told \in [Conns -> BOOLEAN] /\ draining \in [Conns -> BOOLEAN]
  /\ ended \in [Conns -> {"none", "answered", "left", "room", "stop", "grace"}]
  /\ io \in Conns \cup {NoConn}

(* Opened lists the open connections, each once.                           *)
Listed(q, c) == \E i \in 1..Len(q) : q[i] = c
Apart(q) == \A i, j \in 1..Len(q) : q[i] = q[j] => i = j
OpenedOK == Apart(opened) /\ \A c \in Conns : stage[c] = "open" <=> Listed(opened, c)

(* The counter of each connection against what it answers, and against     *)
(* whether it was told to make room.                                       *)
BusyOK ==
  \A c \in Conns :
    /\ busy[c] = CLOSING <=> told[c]
    /\ Answering(c) => busy[c] = 1
    /\ ~Answering(c) => busy[c] # 1
    /\ stage[c] # "open" => busy[c] = 0 /\ req[c] = "head"

(* The newcomer the loop has accepted at the cap is not open yet.          *)
IoOK == io # NoConn => stage[io] = "backlog"

Served == {c \in Conns : stage[c] = "open" /\ busy[c] # CLOSING}
ServedOK == IsFiniteSet(Served) /\ Cardinality(Served) <= Cap

EndedOK == \A c \in Conns : ended[c] \notin {"room", "stop"}

ListenerInv == ConnTypes /\ OpenedOK /\ BusyOK /\ IoOK /\ ServedOK /\ EndedOK


-----------------------------------------------------------------------------
(* One of the sequence taken out: what stays is the others, each once.     *)
LEMMA WithoutFacts ==
  ASSUME NEW q \in Seq(Conns), NEW c \in Conns, Listed(q, c), Apart(q),
         NEW w, w = Without(q, c)
  PROVE  /\ w \in Seq(Conns) /\ Apart(w)
         /\ \A d \in Conns : Listed(w, d) <=> d # c /\ Listed(q, d)
<1> DEFINE m == CHOOSE i \in DOMAIN q : q[i] = c
<1>1. Len(q) \in Nat /\ m \in 1..Len(q) /\ q[m] = c
  BY DEF Listed
<1>2. w = [j \in 1..Len(q) - 1 |-> IF j < m THEN q[j] ELSE q[j + 1]]
  BY DEF Without
<1> HIDE DEF m
<1>3. Len(q) - 1 \in Nat
  BY <1>1
<1>4. \A j \in 1..Len(q) - 1 : q[j] \in Conns /\ q[j + 1] \in Conns
  BY <1>1
<1>5. w \in [1..Len(q) - 1 -> Conns]
  BY <1>2, <1>4
<1>6. w \in Seq(Conns) /\ Len(w) = Len(q) - 1
  BY <1>3, <1>5
<1> DEFINE From(i) == IF i < m THEN i ELSE i + 1
<1>7. \A i \in 1..Len(w) : From(i) \in 1..Len(q) /\ From(i) # m /\ w[i] = q[From(i)]
  BY <1>1, <1>2, <1>6
<1>8. \A i, j \in 1..Len(w) : From(i) = From(j) => i = j
  BY <1>1, <1>6
<1>9. \A k \in 1..Len(q) : k # m => \E i \in 1..Len(w) : From(i) = k
  <2>1. SUFFICES ASSUME NEW k \in 1..Len(q), k # m
                 PROVE  \E i \in 1..Len(w) : From(i) = k
    OBVIOUS
  <2>2. CASE k < m
    <3>1. k \in 1..Len(w) /\ From(k) = k
      BY <1>1, <1>6, <2>2
    <3>2. QED
      BY <3>1
  <2>3. CASE k > m
    <3>1. k - 1 \in 1..Len(w) /\ From(k - 1) = k
      BY <1>1, <1>6, <2>3
    <3>2. QED
      BY <3>1
  <2>4. QED
    BY <1>1, <2>1, <2>2, <2>3
<1> HIDE DEF From
<1>10. Apart(w)
  BY <1>7, <1>8 DEF Apart
<1>11. ASSUME NEW d \in Conns
       PROVE  Listed(w, d) <=> d # c /\ Listed(q, d)
  <2>1. ASSUME NEW i \in 1..Len(w), w[i] = d
        PROVE  d # c /\ \E k \in 1..Len(q) : q[k] = d
    BY <1>1, <1>7, <2>1 DEF Apart
  <2>2. ASSUME d # c, NEW k \in 1..Len(q), q[k] = d
        PROVE  \E i \in 1..Len(w) : w[i] = d
    BY <1>1, <1>7, <1>9, <2>2
  <2>3. QED
    BY <2>1, <2>2 DEF Listed
<1>12. QED
  BY <1>6, <1>10, <1>11

(* A connection's task ends: what it answered, if anything, was not ended  *)
(* by the room made or by the stop.                                        *)
LEMMA LeaveInv ==
  ASSUME ListenerInv, NEW c \in Conns, stage[c] = "open",
         NEW how \in {"answered", "left", "room", "stop"}, Leave(c, how),
         how \in {"room", "stop"} => ~Answering(c)
  PROVE  ListenerInv'
<1>1. ConnTypes /\ OpenedOK /\ BusyOK /\ IoOK /\ ServedOK /\ EndedOK
  BY DEF ListenerInv
<1>2. /\ stage' = [stage EXCEPT ![c] = "none"] /\ opened' = Without(opened, c)
      /\ ended' = [ended EXCEPT ![c] = IF Answering(c) THEN how ELSE @]
      /\ busy' = [busy EXCEPT ![c] = 0] /\ req' = [req EXCEPT ![c] = "head"]
      /\ told' = [told EXCEPT ![c] = FALSE] /\ draining' = [draining EXCEPT ![c] = FALSE]
      /\ io' = io
  BY DEF Leave, loop
<1>3. /\ opened' \in Seq(Conns) /\ Apart(opened')
      /\ \A d \in Conns : Listed(opened', d) <=> d # c /\ Listed(opened, d)
  BY <1>1, <1>2, WithoutFacts DEF ConnTypes, OpenedOK
<1>4. ConnTypes'
  BY <1>1, <1>2, <1>3 DEF ConnTypes, Stages, Requests
<1>5. OpenedOK'
  BY <1>1, <1>2, <1>3 DEF ConnTypes, OpenedOK
<1>6. BusyOK'
  BY <1>1, <1>2 DEF ConnTypes, BusyOK, Answering, CLOSING
<1>7. IoOK'
  BY <1>1, <1>2 DEF ConnTypes, IoOK
<1>8. ServedOK'
  <2>1. Served' = Served \ {c}
    BY <1>1, <1>2 DEF ConnTypes, Served
  <2>2. Served' \subseteq Served
    BY <2>1
  <2>3. IsFiniteSet(Served') /\ Cardinality(Served') <= Cardinality(Served)
    BY <1>1, <2>2, FS_Subset DEF ServedOK
  <2>4. Cardinality(Served') \in Nat /\ Cardinality(Served) \in Nat /\ Cap \in Nat
    BY <1>1, <2>3, FS_CardinalityType, CapAssumption DEF ServedOK
  <2>5. QED
    BY <1>1, <2>3, <2>4 DEF ServedOK
<1>9. EndedOK'
  BY <1>1, <1>2 DEF ConnTypes, EndedOK
<1>10. QED
  BY <1>4, <1>5, <1>6, <1>7, <1>8, <1>9 DEF ListenerInv

LEMMA LeavesInv ==
  ASSUME ListenerInv, NEW c \in Conns,
         Written(c) \/ TimedOut(c) \/ Gone(c) \/ Closed(c) \/ Drained(c),
         ~(req[c] = "writing" /\ ~draining[c] /\ Written(c))
  PROVE  ListenerInv'
<1>1. ConnTypes /\ BusyOK
  BY DEF ListenerInv
<1>2. CASE Written(c)
  BY <1>2, LeaveInv DEF Written, Goes
<1>3. CASE TimedOut(c) \/ Gone(c)
  BY <1>3, LeaveInv DEF TimedOut, Gone
<1>4. CASE Closed(c)
  <2>1. ~Answering(c)
    BY <1>1, <1>4 DEF Closed, BusyOK, CLOSING
  <2>2. QED
    BY <1>4, <2>1, LeaveInv DEF Closed
<1>5. CASE Drained(c)
  <2>1. ~Answering(c)
    BY <1>5 DEF Drained, Answering
  <2>2. QED
    BY <1>5, <2>1, LeaveInv DEF Drained
<1>6. QED
  BY <1>2, <1>3, <1>4, <1>5

(* A request on an open connection begins, is answered and written out.    *)
LEMMA RequestInv ==
  ASSUME ListenerInv, NEW c \in Conns,
         \/ Begin(c) \/ Answered(c) \/ Buffered(c)
         \/ (req[c] = "writing" /\ ~draining[c] /\ Written(c)) \/ Drain(c)
  PROVE  ListenerInv'
<1>1. ConnTypes /\ OpenedOK /\ BusyOK /\ IoOK /\ ServedOK /\ EndedOK
  BY DEF ListenerInv
<1>2. /\ stage[c] = "open" /\ UNCHANGED <<stage, opened, told, io>>
      /\ \A d \in Conns : d # c => busy'[d] = busy[d] /\ req'[d] = req[d]
      /\ ended' = ended \/ ended' = [ended EXCEPT ![c] = "answered"]
      /\ draining' \in [Conns -> BOOLEAN]
  BY <1>1 DEF Begin, Answered, Buffered, Written, Drain, Goes, loop, ConnTypes
<1>3. /\ busy' \in [Conns -> {CLOSING, 0, 1}] /\ req' \in [Conns -> Requests]
      /\ busy'[c] = CLOSING <=> busy[c] = CLOSING
      /\ req'[c] \in {"running", "body"} <=> busy'[c] = 1
  <2>1. /\ busy[c] \in {CLOSING, 0, 1} /\ req[c] \in Requests
        /\ req[c] \in {"running", "body"} <=> busy[c] = 1
    BY <1>1 DEF ConnTypes, BusyOK, Answering
  <2>2. CASE Begin(c)
    BY <1>1, <2>1, <2>2 DEF Begin, Goes, Taken, ConnTypes, Requests, CLOSING
  <2>3. CASE Answered(c)
    BY <1>1, <2>1, <2>3 DEF Answered, Goes, ConnTypes, Requests
  <2>4. CASE Buffered(c)
    BY <1>1, <2>1, <2>4 DEF Buffered, Goes, ConnTypes, Requests, CLOSING
  <2>5. CASE req[c] = "writing" /\ ~draining[c] /\ Written(c)
    BY <1>1, <2>1, <2>5 DEF Written, Goes, ConnTypes, Requests
  <2>6. CASE Drain(c)
    BY <1>1, <2>1, <2>6 DEF Drain, ConnTypes
  <2>7. QED
    BY <2>2, <2>3, <2>4, <2>5, <2>6
<1>4. ConnTypes'
  BY <1>1, <1>2, <1>3 DEF ConnTypes
<1>5. OpenedOK' /\ IoOK'
  BY <1>1, <1>2 DEF OpenedOK, IoOK
<1>6. BusyOK'
  <2>1. ASSUME NEW d \in Conns
        PROVE  /\ busy'[d] = CLOSING <=> told'[d]
               /\ req'[d] \in {"running", "body"} <=> busy'[d] = 1
               /\ stage'[d] # "open" => busy'[d] = 0 /\ req'[d] = "head"
    <3>1. CASE d = c
      BY <1>1, <1>2, <1>3, <3>1 DEF BusyOK
    <3>2. CASE d # c
      BY <1>1, <1>2, <3>2 DEF BusyOK, Answering
    <3>3. QED
      BY <3>1, <3>2
  <2>2. QED
    BY <2>1 DEF BusyOK, Answering
<1>7. ServedOK'
  <2>1. Served' = Served
    BY <1>2, <1>3 DEF Served
  <2>2. QED
    BY <1>1, <2>1 DEF ServedOK
<1>8. EndedOK'
  BY <1>1, <1>2 DEF EndedOK, ConnTypes
<1>9. QED
  BY <1>4, <1>5, <1>6, <1>7, <1>8 DEF ListenerInv


-----------------------------------------------------------------------------
(* The accept loop.                                                        *)

(* As many are open as Opened lists.                                       *)
LEMMA ServedListed ==
  ASSUME ConnTypes, OpenedOK
  PROVE  /\ IsFiniteSet(Served) /\ Cardinality(Served) \in Nat
         /\ Cardinality(Served) <= Len(opened)
<1> DEFINE n == Len(opened)
           R == {c \in Conns : stage[c] = "open"}
<1>1. n \in Nat /\ opened \in [1..n -> Conns]
  BY DEF ConnTypes
<1>2. opened \in Surjection(1..n, R)
  BY <1>1 DEF Surjection, OpenedOK, Listed
<1>3. IsFiniteSet(1..n) /\ Cardinality(1..n) = n
  BY <1>1, FS_Interval
<1>4. Served \subseteq R
  BY DEF Served
<1> HIDE DEF n, R
<1>5. IsFiniteSet(R) /\ Cardinality(R) <= n
  BY <1>2, <1>3, FS_Surjection
<1>6. IsFiniteSet(Served) /\ Cardinality(Served) <= Cardinality(R)
  BY <1>4, <1>5, FS_Subset
<1>7. Cardinality(R) \in Nat /\ Cardinality(Served) \in Nat
  BY <1>5, <1>6, FS_CardinalityType
<1>8. QED
  BY <1>1, <1>5, <1>6, <1>7 DEF n

(* A connection opened is added to Opened, of which it was none.           *)
LEMMA OpensKeeps ==
  ASSUME ConnTypes, OpenedOK, NEW c \in Conns, stage[c] # "open", Opens(c)
  PROVE  /\ opened' \in Seq(Conns) /\ OpenedOK'
         /\ stage' \in [Conns -> Stages]
         /\ \A d \in Conns : stage'[d] = IF d = c THEN "open" ELSE stage[d]
<1>1. /\ stage' = [stage EXCEPT ![c] = "open"] /\ opened' = Append(opened, c)
      /\ opened \in Seq(Conns) /\ Len(opened) \in Nat
  BY DEF Opens, ConnTypes
<1>2. /\ opened' \in Seq(Conns) /\ Len(opened') = Len(opened) + 1
      /\ opened'[Len(opened) + 1] = c
      /\ \A i \in 1..Len(opened) : opened'[i] = opened[i]
  BY <1>1
<1>3. stage' \in [Conns -> Stages]
      /\ \A d \in Conns : stage'[d] = IF d = c THEN "open" ELSE stage[d]
  BY <1>1 DEF ConnTypes, Stages
<1>4. \A i \in 1..Len(opened) : opened[i] # c
  BY DEF OpenedOK, Listed
<1>5. \A i \in 1..Len(opened') : i = Len(opened) + 1 \/ i \in 1..Len(opened)
  BY <1>1, <1>2
<1>6. \A i \in 1..Len(opened) : i \in 1..Len(opened')
  BY <1>1, <1>2
<1>7. Len(opened) + 1 \in 1..Len(opened')
  BY <1>1, <1>2
<1>8. Apart(opened')
  BY <1>2, <1>4, <1>5 DEF OpenedOK, Apart
<1>9. ASSUME NEW d \in Conns
      PROVE  stage'[d] = "open" <=> Listed(opened', d)
  <2>1. CASE d = c
    BY <1>2, <1>3, <1>7, <2>1 DEF Listed
  <2>2. CASE d # c
    <3>1. Listed(opened', d) <=> Listed(opened, d)
      BY <1>2, <1>5, <1>6, <2>2 DEF Listed
    <3>2. QED
      BY <1>3, <2>2, <3>1 DEF OpenedOK
  <2>3. QED
    BY <2>1, <2>2
<1>10. QED
  BY <1>2, <1>3, <1>8, <1>9 DEF OpenedOK

LEMMA AcceptInv ==
  ASSUME ListenerInv, NEW c \in Conns, Accept(c)
  PROVE  ListenerInv'
<1>1. /\ ConnTypes /\ OpenedOK /\ BusyOK /\ IoOK /\ ServedOK /\ EndedOK
      /\ stage[c] = "backlog" /\ io = NoConn /\ UNCHANGED <<busy, req, told, draining, ended>>
  BY DEF ListenerInv, Accept
<1>2. CASE AtCap
  <2>1. io' = c /\ UNCHANGED <<stage, opened>>
    BY <1>2 DEF Accept
  <2>2. ConnTypes' /\ OpenedOK' /\ BusyOK' /\ IoOK' /\ EndedOK'
    BY <1>1, <2>1 DEF ConnTypes, OpenedOK, BusyOK, IoOK, EndedOK, Answering
  <2>3. Served' = Served
    BY <1>1, <2>1 DEF Served
  <2>4. QED
    BY <1>1, <2>2, <2>3 DEF ServedOK, ListenerInv
<1>3. CASE ~AtCap
  <2>1. Opens(c) /\ io' = io
    BY <1>3 DEF Accept
  <2>2. /\ opened' \in Seq(Conns) /\ OpenedOK'
        /\ stage' \in [Conns -> Stages]
        /\ \A d \in Conns : stage'[d] = IF d = c THEN "open" ELSE stage[d]
    BY <1>1, <2>1, OpensKeeps
  <2>3. ConnTypes'
    BY <1>1, <2>1, <2>2 DEF ConnTypes
  <2>4. BusyOK'
    BY <1>1, <2>2 DEF BusyOK, Answering
  <2>5. IoOK' /\ EndedOK'
    BY <1>1, <2>1 DEF IoOK, EndedOK
  <2>6. Served' = Served \cup {c} /\ c \notin Served
    BY <1>1, <2>2 DEF Served, BusyOK, CLOSING
  <2>7. /\ IsFiniteSet(Served) /\ Cardinality(Served) \in Nat
        /\ Cardinality(Served) <= Len(opened)
    BY <1>1, ServedListed
  <2>8. IsFiniteSet(Served') /\ Cardinality(Served') = Cardinality(Served) + 1
    BY <2>6, <2>7, FS_AddElement
  <2>9. Len(opened) < Cap /\ Cap \in Nat /\ Len(opened) \in Nat
    BY <1>1, <1>3, CapAssumption DEF AtCap, ConnTypes
  <2>10. ServedOK'
    BY <2>7, <2>8, <2>9 DEF ServedOK
  <2>11. QED
    BY <2>2, <2>3, <2>4, <2>5, <2>10 DEF ListenerInv
<1>4. QED
  BY <1>2, <1>3

(* Room made: the one taken answers nothing, and the newcomer has its      *)
(* place under the cap.                                                    *)
LEMMA MakeRoomInv ==
  ASSUME ListenerInv, MakeRoom
  PROVE  ListenerInv'
<1>1. /\ ConnTypes /\ OpenedOK /\ BusyOK /\ IoOK /\ ServedOK /\ EndedOK
      /\ io # NoConn /\ io' = NoConn /\ Opens(io) /\ UNCHANGED <<req, draining, ended>>
  BY DEF ListenerInv, MakeRoom
<1>2. PICK c \in Conns : c = io
  BY <1>1 DEF ConnTypes
<1>3. stage[c] = "backlog"
  BY <1>1, <1>2 DEF IoOK
<1>4. PICK i \in DOMAIN opened :
        /\ Silent(opened[i])
        /\ busy' = [busy EXCEPT ![opened[i]] = CLOSING]
        /\ told' = [told EXCEPT ![opened[i]] = TRUE]
  BY DEF MakeRoom
<1>5. PICK o \in Conns : o = opened[i]
  BY <1>1 DEF ConnTypes
<1>6. /\ busy[o] = 0 /\ stage[o] = "open" /\ o # c /\ ~Answering(o)
      /\ busy' = [busy EXCEPT ![o] = CLOSING] /\ told' = [told EXCEPT ![o] = TRUE]
  <2>1. i \in 1..Len(opened)
    BY <1>1 DEF ConnTypes
  <2>2. stage[o] = "open"
    BY <1>1, <1>5, <2>1 DEF OpenedOK, Listed
  <2>3. QED
    BY <1>1, <1>3, <1>4, <1>5, <2>2 DEF Silent, BusyOK
<1>7. /\ opened' \in Seq(Conns) /\ OpenedOK'
      /\ stage' \in [Conns -> Stages]
      /\ \A d \in Conns : stage'[d] = IF d = c THEN "open" ELSE stage[d]
  BY <1>1, <1>2, <1>3, OpensKeeps
<1>8. ConnTypes'
  <2>1. busy' \in [Conns -> {CLOSING, 0, 1}] /\ told' \in [Conns -> BOOLEAN]
    BY <1>1, <1>6 DEF ConnTypes
  <2>2. QED
    BY <1>1, <1>7, <2>1 DEF ConnTypes
<1>9. BusyOK'
  <2>1. ASSUME NEW d \in Conns
        PROVE  /\ busy'[d] = CLOSING <=> told'[d]
               /\ req'[d] \in {"running", "body"} <=> busy'[d] = 1
               /\ stage'[d] # "open" => busy'[d] = 0 /\ req'[d] = "head"
    <3>1. CASE d = o
      BY <1>1, <1>6, <1>7, <3>1 DEF ConnTypes, Answering, CLOSING
    <3>2. CASE d # o
      BY <1>1, <1>6, <1>7, <3>2 DEF ConnTypes, BusyOK, Answering
    <3>3. QED
      BY <3>1, <3>2
  <2>2. QED
    BY <2>1 DEF BusyOK, Answering
<1>10. IoOK' /\ EndedOK'
  BY <1>1 DEF IoOK, EndedOK
<1>11. ServedOK'
  <2>1. o \in Served /\ c \notin Served \ {o}
    BY <1>3, <1>6 DEF Served, CLOSING
  <2>2. busy[c] = 0 /\ busy'[c] = 0
    BY <1>1, <1>3, <1>6 DEF BusyOK, ConnTypes
  <2>3. Served' = (Served \ {o}) \cup {c}
    BY <1>1, <1>3, <1>6, <1>7, <2>2 DEF Served, ConnTypes, CLOSING
  <2>4. IsFiniteSet(Served \ {o}) /\ Cardinality(Served \ {o}) = Cardinality(Served) - 1
    BY <1>1, <2>1, FS_RemoveElement DEF ServedOK
  <2>5. /\ IsFiniteSet(Served')
        /\ Cardinality(Served') = Cardinality(Served \ {o}) + 1
    BY <2>1, <2>3, <2>4, FS_AddElement
  <2>6. Cardinality(Served) \in Nat
    BY <1>1, FS_CardinalityType DEF ServedOK
  <2>7. QED
    BY <1>1, <2>4, <2>5, <2>6 DEF ServedOK
<1>12. QED
  BY <1>7, <1>8, <1>9, <1>10, <1>11 DEF ListenerInv

(* The steps that open and close none: what is not open stays so, and the  *)
(* newcomer accepted at the cap waits in the backlog.                      *)
LEMMA OutsideInv ==
  ASSUME ListenerInv, UNCHANGED <<opened, busy, req, told, draining>>,
         stage' \in [Conns -> Stages],
         \A c \in Conns : stage'[c] = "open" <=> stage[c] = "open",
         io' \in Conns \cup {NoConn}, io' # NoConn => stage'[io'] = "backlog",
         ended' \in [Conns -> {"none", "answered", "left", "room", "stop", "grace"}],
         EndedOK'
  PROVE  ListenerInv'
<1>1. ConnTypes /\ OpenedOK /\ BusyOK /\ ServedOK
  BY DEF ListenerInv
<1>2. ConnTypes' /\ OpenedOK' /\ BusyOK' /\ IoOK'
  BY <1>1 DEF ConnTypes, OpenedOK, BusyOK, IoOK, Answering
<1>3. Served' = Served
  BY DEF Served
<1>4. QED
  BY <1>1, <1>2, <1>3 DEF ServedOK, ListenerInv

LEMMA LoopInv ==
  ASSUME ListenerInv, NEW c \in Conns, Connect(c) \/ Told(c)
  PROVE  ListenerInv'
<1>1. ConnTypes /\ IoOK /\ EndedOK
  BY DEF ListenerInv
<1>2. UNCHANGED <<opened, busy, req, told, draining, io>>
      /\ ended' \in [Conns -> {"none", "answered", "left", "room", "stop", "grace"}]
      /\ EndedOK'
  BY <1>1 DEF Connect, Told, loop, ConnTypes, EndedOK
<1>3. PICK s \in {"backlog", "none"} : stage' = [stage EXCEPT ![c] = s]
  BY DEF Connect, Told
<1>4. stage[c] \in {"none", "telling"}
  BY DEF Connect, Told
<1>5. /\ stage' \in [Conns -> Stages]
      /\ \A d \in Conns : stage'[d] = "open" <=> stage[d] = "open"
      /\ \A d \in Conns : stage[d] = "backlog" => stage'[d] = "backlog"
  BY <1>1, <1>3, <1>4 DEF ConnTypes, Stages
<1>6. QED
  BY <1>1, <1>2, <1>5, OutsideInv DEF IoOK, ConnTypes

LEMMA RefuseInv ==
  ASSUME ListenerInv, Refuse
  PROVE  ListenerInv'
<1>1. ConnTypes /\ IoOK /\ EndedOK
  BY DEF ListenerInv
<1>2. /\ UNCHANGED <<opened, busy, req, told, draining, ended>> /\ io' = NoConn
      /\ io # NoConn
  BY DEF Refuse
<1>3. PICK s \in {"telling", "none"} : stage' = [stage EXCEPT ![io] = s]
  BY DEF Refuse
<1>4. io \in Conns /\ stage[io] = "backlog"
  BY <1>1, <1>2 DEF ConnTypes, IoOK
<1>5. stage' \in [Conns -> Stages] /\ \A d \in Conns : stage'[d] = "open" <=> stage[d] = "open"
  BY <1>1, <1>3, <1>4 DEF ConnTypes, Stages
<1>6. EndedOK'
  BY <1>1, <1>2 DEF EndedOK
<1>7. QED
  BY <1>1, <1>2, <1>5, <1>6, OutsideInv DEF ConnTypes

(* The signal, the stop and the service's end.                             *)
LEMMA StopInv ==
  ASSUME ListenerInv, Signal \/ Stop \/ End \/ Grace \/ UNCHANGED vars
  PROVE  ListenerInv'
<1>1. ConnTypes /\ IoOK /\ EndedOK
  BY DEF ListenerInv
<1>2. UNCHANGED <<opened, busy, req, told, draining, io>>
  BY DEF Signal, Stop, End, Grace, vars, conn, loop
<1>3. /\ ended' \in [Conns -> {"none", "answered", "left", "room", "stop", "grace"}]
      /\ EndedOK'
  BY <1>1 DEF Signal, Stop, End, Grace, vars, conn, ConnTypes, EndedOK
<1>4. /\ stage' \in [Conns -> Stages]
      /\ \A c \in Conns : stage'[c] = "open" <=> stage[c] = "open"
  BY <1>1 DEF Signal, Stop, End, Grace, vars, conn, ConnTypes, Stages
<1>5. io # NoConn => stage' = stage
  BY DEF Signal, Stop, End, Grace, vars, conn
<1>6. QED
  BY <1>1, <1>2, <1>3, <1>4, <1>5, OutsideInv DEF IoOK, ConnTypes

LEMMA ListenerInvInit ==
  ASSUME Init
  PROVE  ListenerInv
<1>1. Served = {} /\ IsFiniteSet({}) /\ Cardinality({}) = 0
  BY FS_EmptySet DEF Init, Served
<1>2. ServedOK
  <2>1. IsFiniteSet(Served) /\ Cardinality(Served) = 0
    BY <1>1, Zenon
  <2>2. QED
    BY <2>1, CapAssumption DEF ServedOK
<1>3. ConnTypes
  BY DEF Init, ConnTypes, Stages, Requests
<1>4. OpenedOK /\ BusyOK /\ IoOK /\ EndedOK
  BY DEF Init, OpenedOK, Apart, Listed, BusyOK, IoOK, EndedOK, Answering, CLOSING
<1>5. QED
  BY <1>2, <1>3, <1>4 DEF ListenerInv

LEMMA ListenerInvStep ==
  ASSUME ListenerInv, [Next]_vars
  PROVE  ListenerInv'
<1>1. ASSUME NEW c \in Conns,
             \/ Connect(c) \/ Accept(c) \/ Told(c) \/ Closed(c) \/ Drain(c) \/ Drained(c)
             \/ Begin(c) \/ Answered(c) \/ Buffered(c) \/ Written(c) \/ TimedOut(c) \/ Gone(c)
      PROVE  ListenerInv'
  BY <1>1, LoopInv, AcceptInv, LeavesInv, RequestInv
<1>2. QED
  BY <1>1, MakeRoomInv, RefuseInv, StopInv DEF Next, Exited

(* Making room keeps the cap and cuts no request short: the connections    *)
(* not taken to make room never pass --max-connections, and neither the    *)
(* room made nor the stop ends a request that began, the counter having    *)
(* told one from the other (taken, CLOSING and Holding in main.rs).        *)
THEOREM RoomCutsNoneShort == Spec => []NoneCutShort
<1>1. Init => ListenerInv
  BY ListenerInvInit
<1>2. ListenerInv /\ [Next]_vars => ListenerInv'
  BY ListenerInvStep
<1>3. ListenerInv => NoneCutShort
  <2>1. SUFFICES ASSUME ListenerInv PROVE NoneCutShort
    OBVIOUS
  <2>2. Cardinality(Served) <= Cap /\ \A c \in Conns : ended[c] \notin {"room", "stop"}
    BY <2>1 DEF ListenerInv, ServedOK, EndedOK
  <2>3. \A c \in Conns : busy[c] = CLOSING => ~Answering(c)
    BY <2>1 DEF ListenerInv, BusyOK, CLOSING
  <2>4. QED
    BY <2>2, <2>3 DEF NoneCutShort, Served
<1>4. QED
  BY <1>1, <1>2, <1>3, PTL DEF Spec
=============================================================================
