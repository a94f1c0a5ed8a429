--------------------------- MODULE DecisionProofs ---------------------------
(***************************************************************************)
(* Proofs about a request's decision, for every declaration the checks let *)
(* through, every stock and every request, of five things.  The rows keep  *)
(* their types, and what an invariant finds false in the store is what     *)
(* stands admitted, though a decision looks again at the objects its       *)
(* writes reach alone.  A chain of supersession ends.  Events take their   *)
(* places in the log, which a transition is given where it begins.  A      *)
(* proposal is decided once and runs as it was filed, or not at all.  And  *)
(* an object's events count its version.                                   *)
(***************************************************************************)
EXTENDS Decision, FiniteSetTheorems, SequenceTheorems, NaturalsInduction,
        WellFoundedInduction, TLAPS

----------------------------------------------------------------------------
(* Sequences, by what is in them.                                          *)

\* The rest of a sequence, and all of it but its last, hold nothing new.
LEMMA SeqRest ==
  ASSUME NEW s, IsSeq(s), s # <<>>
  PROVE  /\ IsSeq(Tail(s)) /\ Range(Tail(s)) \subseteq Range(s) /\ Head(s) \in Range(s)
         /\ IsSeq(Front(s)) /\ Range(Front(s)) \subseteq Range(s) /\ Last(s) \in Range(s)
         /\ Len(s) \in Nat \ {0} /\ DOMAIN s = 1..Len(s)
         /\ Len(Front(s)) = Len(s) - 1 /\ \A i \in 1..(Len(s) - 1) : Front(s)[i] = s[i]
         /\ Len(Tail(s)) = Len(s) - 1 /\ \A i \in 1..(Len(s) - 1) : Tail(s)[i] = s[i + 1]
  <1>1. s \in Seq(Range(s)) /\ Len(s) \in Nat \ {0} /\ DOMAIN s = 1..Len(s)
    BY DEF IsSeq
  <1>2. Len(Tail(s)) = Len(s) - 1 /\ \A i \in 1..(Len(s) - 1) : Tail(s)[i] = s[i + 1]
    BY <1>1
  <1>3. Tail(s) \in Seq(Range(s)) /\ DOMAIN Tail(s) = 1..(Len(s) - 1)
    BY <1>1
  <1>4. Range(Tail(s)) \subseteq Range(s)
    BY <1>1, <1>2, <1>3 DEF Range
  <1>5. IsSeq(Tail(s))
    <2>1. Tail(s) \in [1..(Len(s) - 1) -> Range(s)]
      BY <1>1, <1>2, <1>3, LenProperties
    <2>2. Tail(s) \in [1..(Len(s) - 1) -> Range(Tail(s))]
      BY <2>1 DEF Range
    <2>3. Tail(s) \in UNION {[1..n -> Range(Tail(s))] : n \in Nat}
      <3>1. Len(s) - 1 \in Nat
        BY <1>1
      <3> QED BY <3>1, <2>2, Zenon
    <2> QED BY <2>3, SeqDef, Zenon DEF IsSeq
  <1>6. Head(s) \in Range(s) /\ Last(s) \in Range(s)
    BY <1>1 DEF Range, Last
  <1>7. Front(s) = [i \in 1..(Len(s) - 1) |-> s[i]]
    BY <1>1 DEF Front
  <1>8. Front(s) \in Seq(Range(Front(s))) /\ Len(Front(s)) = Len(s) - 1
    BY <1>1, <1>7 DEF Range
  <1>9. Range(Front(s)) \subseteq Range(s)
    BY <1>1, <1>7 DEF Range
  <1> QED BY <1>1, <1>2, <1>4, <1>5, <1>6, <1>7, <1>8, <1>9 DEF IsSeq

\* One sequence after another holds what both do.
LEMMA SeqCat ==
  ASSUME NEW s, NEW u, IsSeq(s), IsSeq(u)
  PROVE  IsSeq(s \o u) /\ Range(s \o u) = Range(s) \cup Range(u)
  <1> DEFINE S == Range(s) \cup Range(u)
  <1>1. s \in Seq(S) /\ u \in Seq(S)
    BY DEF IsSeq, Range
  <1>2. s \o u \in Seq(S) /\ Len(s \o u) = Len(s) + Len(u)
    BY <1>1
  <1>3. /\ \A i \in 1..Len(s) : (s \o u)[i] = s[i]
        /\ \A i \in (Len(s) + 1)..(Len(s) + Len(u)) : (s \o u)[i] = u[i - Len(s)]
    BY <1>1
  <1>4. \A i \in 1..Len(u) : (s \o u)[Len(s) + i] = u[i] /\ Len(s) + i \in 1..Len(s \o u)
    BY <1>1, <1>2, <1>3
  <1>5. Range(s \o u) \subseteq S
    BY <1>2 DEF Range
  <1>6. S \subseteq Range(s \o u)
    <2>1. Range(s) \subseteq Range(s \o u)
      BY <1>1, <1>2, <1>3 DEF Range
    <2>2. Range(u) \subseteq Range(s \o u)
      <3> SUFFICES ASSUME NEW i \in 1..Len(u) PROVE u[i] \in Range(s \o u)
        BY <1>1 DEF Range
      <3>1. DOMAIN (s \o u) = 1..Len(s \o u)
        BY <1>2
      <3> QED BY <3>1, <1>4 DEF Range
    <2> QED BY <2>1, <2>2
  <1>7. Range(s \o u) = S
    BY <1>5, <1>6
  <1> QED BY <1>2, <1>7 DEF IsSeq

LEMMA SeqAppend ==
  ASSUME NEW s, NEW e, IsSeq(s)
  PROVE  /\ IsSeq(Append(s, e)) /\ Range(Append(s, e)) = Range(s) \cup {e}
         /\ Append(s, e) # <<>> /\ Last(Append(s, e)) = e
         /\ Len(s) \in Nat /\ Len(Append(s, e)) = Len(s) + 1
         /\ \A i \in 1..Len(s) : Append(s, e)[i] = s[i]
  <1> DEFINE S == Range(s) \cup {e}
  <1>1. s \in Seq(S) /\ DOMAIN s = 1..Len(s) /\ Len(s) \in Nat
    BY DEF IsSeq, Range
  <1>2. /\ Append(s, e) \in Seq(S) /\ Len(Append(s, e)) = Len(s) + 1
        /\ DOMAIN Append(s, e) = 1..(Len(s) + 1)
        /\ \A i \in 1..Len(s) : Append(s, e)[i] = s[i]
        /\ Append(s, e)[Len(s) + 1] = e
    BY <1>1
  <1>3. Range(Append(s, e)) \subseteq S
    BY <1>1, <1>2 DEF Range
  <1>4. Range(s) \subseteq Range(Append(s, e))
    BY <1>1, <1>2 DEF Range
  <1>5. e \in Range(Append(s, e))
    BY <1>1, <1>2 DEF Range
  <1>6. Range(Append(s, e)) = S
    BY <1>3, <1>4, <1>5
  <1> QED BY <1>1, <1>2, <1>6 DEF IsSeq, Last

----------------------------------------------------------------------------
(* A set of numbers in order.                                              *)

\* A set of numbers that is not empty has a least one.
LEMMA LeastIs ==
  ASSUME NEW T, T \subseteq Nat, T # {}
  PROVE  \E x \in T : \A y \in T : x <= y
  <1> DEFINE R == OpToRel(<, Nat)
  <1>1. IsWellFoundedOn(R, Nat)
    BY NatLessThanWellFounded, Zenon
  <1>2. \A x, y \in Nat : x < y => <<x, y>> \in R
    BY Zenon DEF OpToRel
  <1> HIDE DEF R
  <1>3. PICK x \in T : \A y \in T : ~ (<<y, x>> \in R)
    BY <1>1, WFMin
  <1>4. \A y \in T : ~ (y < x)
    BY <1>2, <1>3
  <1> QED BY <1>4

\* A finite one has a largest.
LEMMA MaxOf ==
  ASSUME NEW S, S \subseteq Nat, S # {}, IsFiniteSet(S)
  PROVE  \E x \in S : \A y \in S : y <= x
  <1> DEFINE Beyond(x) == {y \in S : x < y}
             T == {Cardinality(Beyond(x)) : x \in S}
  <1>1. \A x \in S : IsFiniteSet(Beyond(x)) /\ Cardinality(Beyond(x)) \in Nat
    BY FS_Subset, FS_CardinalityType
  <1>2. PICK n \in T : \A m \in T : n <= m
    <2>1. T \subseteq Nat /\ T # {}
      BY <1>1
    <2> HIDE DEF T
    <2> QED BY <2>1, LeastIs
  <1>3. PICK x \in S : n = Cardinality(Beyond(x))
    BY <1>2
  <1>4. ASSUME NEW y \in S, x < y PROVE FALSE
    <2>0. \A e \in S : e \in Nat
      OBVIOUS
    <2>1. Beyond(y) \subseteq Beyond(x) \ {y} /\ y \in Beyond(x)
      <3>1. y \in Beyond(x)
        BY <1>4
      <3>2. ASSUME NEW e \in Beyond(y) PROVE e \in Beyond(x) /\ e # y
        BY <1>4, <2>0, <3>2
      <3> QED BY <3>1, <3>2
    <2>2. Cardinality(Beyond(x) \ {y}) = Cardinality(Beyond(x)) - 1 /\ IsFiniteSet(Beyond(x) \ {y})
      BY <1>1, <2>1, FS_RemoveElement
    <2>3. Cardinality(Beyond(y)) <= Cardinality(Beyond(x)) - 1
      BY <2>1, <2>2, FS_Subset
    <2>4. n <= Cardinality(Beyond(y))
      BY <1>2
    <2>5. Cardinality(Beyond(x)) \in Nat /\ Cardinality(Beyond(y)) \in Nat
      BY <1>1
    <2> HIDE DEF Above
    <2> QED BY <1>3, <2>3, <2>4, <2>5
  <1> QED BY <1>4

\* A set of numbers counted out in ascending order.
InOrder(S, n, s) ==
  s \in [1..n -> S] /\ (\A i, j \in 1..n : i < j => s[i] < s[j]) /\ \A e \in S : \E i \in 1..n : s[i] = e

\* Of the sets that could not be, one of the fewest elements: but its largest
\* goes last, after all the others in order.
LEMMA Ordered ==
  ASSUME NEW S, S \subseteq Nat, IsFiniteSet(S)
  PROVE  Cardinality(S) \in Nat /\ \E s : InOrder(S, Cardinality(S), s)
  <1> DEFINE Bad(n) == \E U \in SUBSET S : Cardinality(U) = n /\ ~ \E s : InOrder(U, n, s)
             T == {n \in Nat : Bad(n)}
  <1>1. \A U \in SUBSET S : IsFiniteSet(U) /\ Cardinality(U) \in Nat
    BY FS_Subset, FS_CardinalityType
  <1>2. T = {}
    <2> SUFFICES ASSUME T # {} PROVE FALSE
      OBVIOUS
    <2>1. PICK n \in T : \A m \in T : n <= m
      <3>1. T \subseteq Nat
        OBVIOUS
      <3> HIDE DEF T
      <3> QED BY <3>1, LeastIs
    <2>2. PICK U \in SUBSET S : Cardinality(U) = n /\ ~ \E s : InOrder(U, n, s)
      BY <2>1
    <2>3. U # {} /\ n \in Nat \ {0}
      <3>1. CASE U = {}
        <4>1. n = 0
          BY <2>2, <3>1, FS_EmptySet
        <4>2. InOrder(U, 0, [i \in 1..0 |-> 0])
          BY <3>1 DEF InOrder
        <4> QED BY <2>2, <4>1, <4>2
      <3>2. CASE U # {}
        <4>1. n # 0
          BY <1>1, <2>2, <3>2, FS_EmptySet
        <4> QED BY <2>1, <3>2, <4>1
      <3> QED BY <3>1, <3>2
    <2>4. PICK top \in U : \A e \in U : e <= top
      BY <1>1, <2>3, MaxOf
    <2> DEFINE W == U \ {top}
    <2>5. W \in SUBSET S /\ Cardinality(W) = n - 1 /\ n - 1 \in Nat
      BY <1>1, <2>2, <2>3, <2>4, FS_RemoveElement
    <2>6. ~ Bad(n - 1)
      BY <2>1, <2>5
    <2>7. PICK s : InOrder(W, n - 1, s)
      BY <2>5, <2>6
    <2> DEFINE u == [i \in 1..n |-> IF i = n THEN top ELSE s[i]]
    <2>8. \A i \in 1..(n - 1) : u[i] = s[i] /\ s[i] \in W /\ s[i] < top /\ s[i] \in Nat
      <3> SUFFICES ASSUME NEW i \in 1..(n - 1) PROVE u[i] = s[i] /\ s[i] \in W /\ s[i] < top /\ s[i] \in Nat
        OBVIOUS
      <3>1. s[i] \in W
        BY <2>7 DEF InOrder
      <3>2. i \in 1..n /\ i # n
        BY <2>3
      <3>3. s[i] \in Nat /\ top \in Nat /\ s[i] <= top /\ s[i] # top
        BY <2>4, <3>1
      <3> QED BY <3>1, <3>2, <3>3
    <2>9. u[n] = top /\ u \in [1..n -> U]
      <3>1. n \in 1..n
        BY <2>3
      <3>2. ASSUME NEW i \in 1..n PROVE u[i] \in U
        <4>1. CASE i = n
          BY <4>1
        <4>2. CASE i # n
          <5>1. i \in 1..(n - 1)
            BY <2>3, <4>2
          <5> QED BY <2>8, <5>1
        <4> QED BY <4>1, <4>2
      <3> QED BY <3>1, <3>2
    <2>10. \A i, j \in 1..n : i < j => u[i] < u[j]
      <3> SUFFICES ASSUME NEW i \in 1..n, NEW j \in 1..n, i < j PROVE u[i] < u[j]
        OBVIOUS
      <3>1. i \in 1..(n - 1)
        BY <2>3
      <3>2. CASE j = n
        BY <2>8, <2>9, <3>1, <3>2
      <3>3. CASE j # n
        <4>1. j \in 1..(n - 1)
          BY <2>3, <3>3
        <4>2. s[i] < s[j]
          BY <2>7, <3>1, <4>1 DEF InOrder
        <4> QED BY <2>8, <3>1, <4>1, <4>2
      <3> QED BY <3>2, <3>3
    <2>11. ASSUME NEW e \in U PROVE \E i \in 1..n : u[i] = e
      <3>1. CASE e = top
        BY <2>3, <2>9, <3>1
      <3>2. CASE e # top
        <4>1. PICK i \in 1..(n - 1) : s[i] = e
          BY <2>7, <3>2 DEF InOrder
        <4> QED BY <2>3, <2>8, <4>1
      <3> QED BY <3>1, <3>2
    <2>12. InOrder(U, n, u)
      <3> HIDE DEF u
      <3> QED BY <2>9, <2>10, <2>11 DEF InOrder
    <2> QED BY <2>2, <2>12
  <1>3. S \in SUBSET S /\ Cardinality(S) \in Nat
    BY <1>1
  <1> QED BY <1>2, <1>3

\* What the model counts out.
LEMMA ToSeqFits ==
  ASSUME NEW S, S \subseteq Nat, IsFiniteSet(S)
  PROVE  /\ Cardinality(S) \in Nat
         /\ ToSeq(S) \in [1..Cardinality(S) -> S] /\ ToSeq(S) \in Seq(S) /\ Len(ToSeq(S)) = Cardinality(S)
         /\ \A i, j \in 1..Cardinality(S) : i < j => ToSeq(S)[i] < ToSeq(S)[j]
  <1> DEFINE n == Cardinality(S)
  <1>1. n \in Nat /\ \E s \in [1..n -> S] : \A i, j \in 1..n : i < j => s[i] < s[j]
    BY Ordered DEF InOrder
  <1>2. ToSeq(S) \in [1..n -> S] /\ \A i, j \in 1..n : i < j => ToSeq(S)[i] < ToSeq(S)[j]
    BY <1>1 DEF ToSeq
  <1> HIDE DEF n
  <1>3. ToSeq(S) \in Seq(S) /\ Len(ToSeq(S)) = n
    BY <1>1, <1>2
  <1> QED BY <1>1, <1>2, <1>3 DEF n

----------------------------------------------------------------------------
(* The invariant: the rows of the store and of the working copy name rows  *)
(* of the declared types, and a frame takes a transition its type has.     *)

RowFields == {"id", "type", "state", "version", "attrs", "spans", "erased", "next",
              "admitted", "writes", "prop"}
FrameFields == {"type", "x", "id", "inputs", "cause", "begun", "pos", "from", "was", "attrs", "todo"}
CtxFields == {"phase", "work", "events", "next", "frames", "root", "occurred", "filed", "at",
              "to", "admits", "asserted", "last", "wrote", "group", "erased", "redIn", "redWr", "first"}
EventFields == {"pos", "object", "seq", "x", "type", "from", "to", "source", "cause", "inputs", "wrote", "held"}

Names(w, v, u) == v \in DOMAIN w /\ w[v].type = u

\* A proposal's row holds no attribute and joins no chain.
ProposalRow(o) ==
  DOMAIN o = RowFields /\ o.type = PROPOSAL /\ DOMAIN o.attrs = {} /\ o.next = None

DeclaredRow(w, o) ==
  /\ DOMAIN o = RowFields
  /\ o.type \in DOMAIN Decl /\ o.state \in DOMAIN Decl[o.type].states
  /\ DOMAIN o.attrs = Attrs(o.type)
  /\ \A a \in Attrs(o.type) :
       Decl[o.type].attrs[a].ref # "" /\ o.attrs[a] # Absent => Names(w, o.attrs[a], Decl[o.type].attrs[a].ref)
  /\ o.next # None => o.next \in DOMAIN w /\ w[o.next].type \in DOMAIN Decl

RowFits(w, o) == ProposalRow(o) \/ DeclaredRow(w, o)

Rows(w) ==
  /\ IsFiniteSet(DOMAIN w) /\ DOMAIN w = 1..Cardinality(DOMAIN w)
  /\ \A k \in DOMAIN w : w[k].id = k /\ RowFits(w, w[k])

TodoFits(w, f, st) ==
  \/ st.op \in {"settle", "chain", "ungroup"}
  \/ st.op = "member" /\ st.id \in DOMAIN w /\ w[st.id].type \in DOMAIN Decl
  \/ st.op = "cascade" /\ Has(st.clause.type, st.clause.x)
  \/ /\ st.op = "call" /\ st.target.k = "id" /\ st.target.n \in DOMAIN w
     /\ Has(w[st.target.n].type, st.x)
  \/ StepFits(f.type, X(f), st)

\* A transition being taken, and what it knows once its checks are passed.
FrameFits(w, f) ==
  /\ DOMAIN f = FrameFields
  /\ Has(f.type, f.x)
  /\ f.id # None => Names(w, f.id, f.type)
  /\ f.begun =>
       /\ f.id # None
       /\ \A n \in DOMAIN f.inputs :
            InputRef(f.type, X(f), n) # "" => Names(w, f.inputs[n], InputRef(f.type, X(f), n))
       /\ X(f).other \subseteq DOMAIN f.inputs
       /\ IsSeq(f.todo) /\ \A st \in Range(f.todo) : TodoFits(w, f, st)

\* Rows are added, and none becomes another type's.
Grown(w, u) == DOMAIN w \subseteq DOMAIN u /\ \A k \in DOMAIN w : u[k].type = w[k].type

\* The proposal an approval decides, which the working copy does not show.
FirstFits(d) == /\ ProposalRow(d.row) /\ d.row.id \in DOMAIN objects
                /\ objects[d.row.id].type = PROPOSAL /\ d.row.admitted = {}

Deciding(c) ==
  /\ DOMAIN c = CtxFields /\ c.phase \in {"take", "write"}
  /\ Rows(c.work) /\ Grown(objects, c.work)
  /\ IsSeq(c.frames) /\ \A f \in Range(c.frames) : FrameFits(c.work, f)
  /\ c.first = {} \/ \E d \in c.first : c.first = {d} /\ FirstFits(d)
  /\ c.phase = "write" => \A id \in DOMAIN c.work : c.work[id].admitted = Failing(c.work, id)

RowsInv == Rows(objects) /\ AdmissionsStand /\ (ctx = Idle \/ Deciding(ctx))


----------------------------------------------------------------------------
(* What an invariant reads.                                                *)

\* Two sets of rows that agree on what an object's invariants read find the
\* same of them false.
LEMMA FailingAgrees ==
  ASSUME NEW w, NEW u, NEW id,
         w[id].type = u[id].type, w[id].state = u[id].state, w[id].attrs = u[id].attrs,
         w[id].type \in DOMAIN Decl,
         \A i \in Decl[w[id].type].invs : \A clause \in i.rule : \A atom \in clause :
           Atom(w, id, EmptyFn, atom) = Atom(u, id, EmptyFn, atom),
         \A a \in Uniques(w[id].type) :
           /\ Keyed(w, id, a) <=> Keyed(u, id, a)
           /\ Keyed(w, id, a) => (Rivals(w, id, a) = {} <=> Rivals(u, id, a) = {}),
         Identity(w[id]) # Absent =>
           ((\E k \in DOMAIN w \ {id} : Identity(w[k]) = Identity(w[id]))
            <=> (\E k \in DOMAIN u \ {id} : Identity(u[k]) = Identity(u[id])))
  PROVE  Failing(w, id) = Failing(u, id)
  <1> DEFINE T == Decl[w[id].type]
  <1>1. Declares(w[id]) /\ Declares(u[id]) /\ TypeOf(w[id]) = T /\ TypeOf(u[id]) = T
    BY DEF Declares, TypeOf
  <1>2. Invariants(w[id]) = T.invs /\ Invariants(u[id]) = T.invs
    BY <1>1 DEF Invariants
  <1>3. \A i \in T.invs : Truth(w, id, EmptyFn, i.rule) = Truth(u, id, EmptyFn, i.rule)
    <2> SUFFICES ASSUME NEW i \in T.invs
                 PROVE  Truth(w, id, EmptyFn, i.rule) = Truth(u, id, EmptyFn, i.rule)
      OBVIOUS
    <2>1. \A clause \in i.rule : {Atom(w, id, EmptyFn, a) : a \in clause} = {Atom(u, id, EmptyFn, a) : a \in clause}
      OBVIOUS
    <2>2. \A clause \in i.rule : Or({Atom(w, id, EmptyFn, a) : a \in clause}) = Or({Atom(u, id, EmptyFn, a) : a \in clause})
      BY <2>1
    <2>3. {Or({Atom(w, id, EmptyFn, a) : a \in clause}) : clause \in i.rule}
          = {Or({Atom(u, id, EmptyFn, a) : a \in clause}) : clause \in i.rule}
      BY <2>2
    <2> QED BY <2>3 DEF Truth
  <1>4. {i \in Invariants(w[id]) : Truth(w, id, EmptyFn, i.rule) = "false"}
        = {i \in Invariants(u[id]) : Truth(u, id, EmptyFn, i.rule) = "false"}
    BY <1>2, <1>3
  <1>5. StateOf(w[id]) = StateOf(u[id]) /\ Identity(w[id]) = Identity(u[id])
    BY <1>1, Zenon DEF StateOf, Identity
  <1>6. {b \in Uniques(w[id].type) : Keyed(w, id, b) /\ Rivals(w, id, b) # {}}
        = {b \in Uniques(u[id].type) : Keyed(u, id, b) /\ Rivals(u, id, b) # {}}
    OBVIOUS
  <1>7. (Identity(w[id]) # Absent /\ \E k \in DOMAIN w \ {id} : Identity(w[k]) = Identity(w[id]))
        <=> (Identity(u[id]) # Absent /\ \E k \in DOMAIN u \ {id} : Identity(u[k]) = Identity(u[id]))
    BY <1>5
  <1> QED BY <1>1, <1>4, <1>5, <1>6, <1>7 DEF Failing

\* What an atom reads of its own object, that object tells.
LEMMA AtomOwn ==
  ASSUME NEW w, NEW u, NEW id, NEW atom, atom.op \in {"state", "present"},
         w[id].state = u[id].state, w[id].attrs = u[id].attrs
  PROVE  Atom(w, id, EmptyFn, atom) = Atom(u, id, EmptyFn, atom)
  BY DEF Atom

\* A uniqueness keeps an object by what it is.
LEMMA KeyedOwn ==
  ASSUME NEW w, NEW u, NEW id, NEW a \in Attrs(w[id].type), w[id].type \in DOMAIN Decl,
         w[id].type = u[id].type, w[id].state = u[id].state, w[id].attrs = u[id].attrs
  PROVE  Keyed(w, id, a) <=> Keyed(u, id, a)
  <1> DEFINE spec == Decl[w[id].type].attrs[a]
  <1>1. \A clause \in spec.among : \A atom \in clause : atom.op \in {"state", "present"}
    BY DeclAssumption, Zenon DEF TypeFits, Attrs
  <1>2. \A clause \in spec.among : \A atom \in clause :
          Atom(w, id, EmptyFn, atom) = Atom(u, id, EmptyFn, atom)
    BY <1>1, AtomOwn
  <1>3. \A clause \in spec.among : {Atom(w, id, EmptyFn, b) : b \in clause} = {Atom(u, id, EmptyFn, b) : b \in clause}
    BY <1>2
  <1>4. \A clause \in spec.among : Or({Atom(w, id, EmptyFn, b) : b \in clause}) = Or({Atom(u, id, EmptyFn, b) : b \in clause})
    BY <1>3
  <1>5. {Or({Atom(w, id, EmptyFn, b) : b \in clause}) : clause \in spec.among}
        = {Or({Atom(u, id, EmptyFn, b) : b \in clause}) : clause \in spec.among}
    BY <1>4
  <1>6. Truth(w, id, EmptyFn, spec.among) = Truth(u, id, EmptyFn, spec.among)
    BY <1>5 DEF Truth
  <1> QED BY <1>6 DEF Keyed

\* The facts of a declared row a proof needs.
LEMMA RowFacts ==
  ASSUME NEW w, Rows(w), NEW k \in DOMAIN w, w[k].type \in DOMAIN Decl
  PROVE  DeclaredRow(w, w[k]) /\ w[k].id = k /\ TypeFits(w[k].type)
         /\ k \in Nat /\ k # None
  <1>1. w[k].id = k /\ RowFits(w, w[k]) /\ k \in Nat /\ k # None
    <2>1. Cardinality(DOMAIN w) \in Nat
      BY FS_CardinalityType DEF Rows
    <2> QED BY <2>1 DEF Rows, None
  <1>2. w[k].type # PROPOSAL
    BY DeclAssumption, Zenon
  <1> QED BY <1>1, <1>2, DeclAssumption, Zenon DEF RowFits, ProposalRow

\* An atom of an invariant of its type, as the checks let it through.
LEMMA AtomFacts ==
  ASSUME NEW t \in DOMAIN Decl, NEW i \in Decl[t].invs, NEW clause \in i.rule, NEW atom \in clause
  PROVE  AtomFits(t, i.hops, atom)
  BY DeclAssumption, Zenon DEF TypeFits

\* Rows that are the same but for the proposals among them.
LEMMA FailingSame ==
  ASSUME NEW w, NEW u, Rows(w), NEW id \in DOMAIN w, w[id].type = u[id].type,
         \A k : k \in DOMAIN w /\ w[k].type \in DOMAIN Decl <=> k \in DOMAIN u /\ u[k].type \in DOMAIN Decl,
         \A k \in DOMAIN w : w[k].type \in DOMAIN Decl =>
           u[k].type = w[k].type /\ u[k].state = w[k].state /\ u[k].attrs = w[k].attrs
  PROVE  Failing(w, id) = Failing(u, id)
  <1>1. CASE w[id].type \notin DOMAIN Decl
    BY <1>1 DEF Failing, Declares
  <1>2. CASE w[id].type \in DOMAIN Decl
    <2> DEFINE t == w[id].type
    <2>1. u[id].state = w[id].state /\ u[id].attrs = w[id].attrs /\ DeclaredRow(w, w[id])
      BY <1>2, RowFacts
    <2>2. ASSUME NEW i \in Decl[t].invs, NEW clause \in i.rule, NEW atom \in clause
          PROVE  Atom(w, id, EmptyFn, atom) = Atom(u, id, EmptyFn, atom)
      <3>1. AtomFits(t, i.hops, atom)
        BY <1>2, <2>2, AtomFacts
      <3>2. CASE atom.op \in {"state", "present"}
        BY <2>1, <3>2, AtomOwn
      <3>3. CASE atom.op = "parts"
        <4>1. atom.type \in DOMAIN Decl
          BY <3>1, <3>3 DEF AtomFits
        <4>2. Parts(w, atom.type, atom.by, id) = Parts(u, atom.type, atom.by, id)
          BY <4>1 DEF Parts
        <4> QED BY <3>3, <4>2 DEF Atom
      <3>4. CASE atom.op = "through"
        <4>1. atom.by \in Attrs(t) /\ Decl[t].attrs[atom.by].ref # ""
          BY <3>1, <3>4, Zenon DEF AtomFits
        <4>2. Decl[t].attrs[atom.by].ref \in DOMAIN Decl
          BY <1>2, <4>1, DeclAssumption, Zenon DEF TypeFits, Attrs
        <4>3. w[id].attrs[atom.by] # Absent =>
                /\ w[id].attrs[atom.by] \in DOMAIN w
                /\ w[w[id].attrs[atom.by]].type \in DOMAIN Decl
          BY <2>1, <4>1, <4>2, Zenon DEF DeclaredRow, Names
        <4>4. w[id].attrs[atom.by] # Absent => w[w[id].attrs[atom.by]].state = u[w[id].attrs[atom.by]].state
          BY <4>3
        <4> QED BY <2>1, <3>4, <4>4 DEF Atom
      <3> QED BY <3>1, <3>2, <3>3, <3>4, Zenon DEF AtomFits
    <2>3. ASSUME NEW k \in DOMAIN w, w[k].type \in DOMAIN Decl, NEW a \in Attrs(w[k].type)
          PROVE  Keyed(w, k, a) <=> Keyed(u, k, a)
      BY <2>3, KeyedOwn
    <2>4. ASSUME NEW a \in Uniques(t)
          PROVE  Rivals(w, id, a) = Rivals(u, id, a)
      <3>1. a \in Attrs(t)
        BY <2>4 DEF Uniques
      <3>2. ASSUME NEW k \in DOMAIN w, w[k].type = t
            PROVE  /\ Keyed(w, k, a) <=> Keyed(u, k, a)
                   /\ u[k].type = t /\ k \in DOMAIN u
                   /\ KeyOf(w[k], Decl[t].attrs[a].key) = KeyOf(u[k], Decl[t].attrs[a].key)
        BY <1>2, <2>3, <3>1, <3>2 DEF KeyOf
      <3>3. \A k \in DOMAIN u : u[k].type = t => k \in DOMAIN w /\ w[k].type = t
        BY <1>2
      <3>4. KeyOf(w[id], Decl[t].attrs[a].key) = KeyOf(u[id], Decl[t].attrs[a].key)
        BY <3>2
      <3> QED BY <3>2, <3>3, <3>4 DEF Rivals
    <2>5. \A a \in Uniques(t) : Keyed(w, id, a) <=> Keyed(u, id, a)
      BY <1>2, <2>3 DEF Uniques
    <2>6. \A k \in DOMAIN w : w[k].type \in DOMAIN Decl => Identity(w[k]) = Identity(u[k])
      BY Zenon DEF Identity, Declares, TypeOf
    <2>7. \A k : Identity(w[k]) # Absent => w[k].type \in DOMAIN Decl
      BY Zenon DEF Identity, Declares
    <2>8. \A k : Identity(u[k]) # Absent => u[k].type \in DOMAIN Decl
      BY Zenon DEF Identity, Declares
    <2>9. Identity(w[id]) # Absent =>
            ((\E k \in DOMAIN w \ {id} : Identity(w[k]) = Identity(w[id]))
             <=> (\E k \in DOMAIN u \ {id} : Identity(u[k]) = Identity(u[id])))
      BY <1>2, <2>6, <2>7, <2>8
    <2> HIDE DEF t
    <2> QED BY <1>2, <2>1, <2>2, <2>4, <2>5, <2>9, FailingAgrees DEF t
  <1> QED BY <1>1, <1>2

\* No invariant of an object a decision does not look at again reads what the
\* decision wrote: a part or a whole of it, or one that holds its key, as it
\* is or as the store held it, would have led to it.
LEMMA Unaffected ==
  ASSUME Rows(objects), Rows(ctx.work), Grown(objects, ctx.work),
         NEW id \in DOMAIN ctx.work, id \notin Affected
  PROVE  /\ id \in DOMAIN objects /\ ctx.work[id] = objects[id]
         /\ Failing(ctx.work, id) = Failing(objects, id)
  <1> DEFINE V == {ctx.work[k] : k \in Touched} \cup {objects[k] : k \in Touched \cap DOMAIN objects}
             t == objects[id].type
  <1>1. id \notin Touched /\ id \notin Related(V)
    BY DEF Affected
  <1>2. id \in DOMAIN objects /\ ctx.work[id] = objects[id]
    BY <1>1 DEF Touched
  <1>3. \A k \in DOMAIN ctx.work : k \notin Touched => k \in DOMAIN objects /\ ctx.work[k] = objects[k]
    BY DEF Touched
  <1>4. \A k \in DOMAIN objects : k \in DOMAIN ctx.work
    BY DEF Grown
  <1>5. \A k \in DOMAIN ctx.work : k \in Touched => ctx.work[k] \in V
    OBVIOUS
  <1>6. \A k \in DOMAIN objects : k \in Touched => objects[k] \in V
    OBVIOUS
  <1>7. \A u \in DOMAIN Decl : \A v \in V : id \notin Sharing(u, v) /\ \A h \in Hops(u) : id \notin BackFrom(h, u, v)
    <2> SUFFICES ASSUME NEW u \in DOMAIN Decl, NEW v \in V
                 PROVE  id \notin (UNION {BackFrom(h, u, v) : h \in Hops(u)}) \cup Sharing(u, v)
      OBVIOUS
    <2> HIDE DEF V
    <2> DEFINE R(a, b) == (UNION {BackFrom(h, a, b) : h \in Hops(a)}) \cup Sharing(a, b)
    <2>1. Related(V) = UNION {R(a, b) : a \in DOMAIN Decl, b \in V}
      BY DEF Related
    <2>2. R(u, v) \in {R(a, b) : a \in DOMAIN Decl, b \in V}
      OBVIOUS
    <2> HIDE DEF R
    <2>3. id \notin R(u, v)
      BY <1>1, <2>1, <2>2
    <2> QED BY <2>3 DEF R
  <1>8. CASE t \notin DOMAIN Decl
    BY <1>2, <1>8 DEF Failing, Declares
  <1>9. CASE t \in DOMAIN Decl
    <2>1. DeclaredRow(objects, objects[id]) /\ TypeFits(t)
      BY <1>2, <1>9, RowFacts
    <2> HIDE DEF V
    <2>2. ASSUME NEW i \in Decl[t].invs, NEW clause \in i.rule, NEW atom \in clause
          PROVE  Atom(ctx.work, id, EmptyFn, atom) = Atom(objects, id, EmptyFn, atom)
      <3>1. AtomFits(t, i.hops, atom) /\ i.hops \subseteq Hops(t)
        BY <1>9, <2>2, AtomFacts DEF Hops
      <3>2. CASE atom.op \in {"state", "present"}
        BY <1>2, <3>2, AtomOwn
      <3>3. CASE atom.op = "parts"
        <4>1. PICK h \in Hops(t) : h.op = "parts" /\ h.type = atom.type /\ h.by = atom.by
          BY <3>1, <3>3 DEF AtomFits
        <4>2. \A v \in V : ~ (v.type = atom.type /\ v.attrs[atom.by] = id)
          BY <1>7, <1>9, <4>1 DEF BackFrom
        <4>3. Parts(ctx.work, atom.type, atom.by, id) \subseteq Parts(objects, atom.type, atom.by, id)
          BY <1>3, <1>5, <4>2 DEF Parts
        <4>4. Parts(objects, atom.type, atom.by, id) \subseteq Parts(ctx.work, atom.type, atom.by, id)
          BY <1>3, <1>4, <1>6, <4>2 DEF Parts
        <4>5. Parts(ctx.work, atom.type, atom.by, id) = Parts(objects, atom.type, atom.by, id)
          BY <4>3, <4>4
        <4> QED BY <3>3, <4>5 DEF Atom
      <3>4. CASE atom.op = "through"
        <4> DEFINE q == objects[id].attrs[atom.by]
        <4>1. PICK h \in Hops(t) : h.op = "through" /\ h.by = atom.by
          BY <3>1, <3>4, Zenon DEF AtomFits
        <4>2. atom.by \in Attrs(t) /\ Decl[t].attrs[atom.by].ref # ""
          BY <3>1, <3>4, Zenon DEF AtomFits
        <4>3. q # Absent => q \in DOMAIN objects /\ q \in DOMAIN ctx.work
          BY <1>4, <2>1, <4>2, Zenon DEF DeclaredRow, Names
        <4>4. \A v \in V : v.id # q
          BY <1>2, <1>7, <1>9, <4>1 DEF BackFrom
        <4>5. q # Absent => q \notin Touched
          BY <1>5, <4>3, <4>4 DEF Rows
        <4>6. q # Absent => ctx.work[q] = objects[q]
          BY <1>3, <4>3, <4>5
        <4> QED BY <1>2, <3>4, <4>6 DEF Atom
      <3> QED BY <3>1, <3>2, <3>3, <3>4, Zenon DEF AtomFits
    <2>3. ASSUME NEW a \in Uniques(t)
          PROVE  /\ Keyed(ctx.work, id, a) <=> Keyed(objects, id, a)
                 /\ Keyed(ctx.work, id, a) => Rivals(ctx.work, id, a) = Rivals(objects, id, a)
      <3> DEFINE key == Decl[t].attrs[a].key
      <3>1. a \in Attrs(t)
        BY <2>3 DEF Uniques
      <3>2. Keyed(ctx.work, id, a) <=> Keyed(objects, id, a)
        BY <1>2, <1>9, <3>1, KeyedOwn
      <3>3. \A v \in V : ~ (/\ v.type = t /\ \A b \in key : v.attrs[b] # Absent
                            /\ KeyOf(objects[id], key) = KeyOf(v, key))
        BY <1>2, <1>7, <1>9, <2>3 DEF Sharing
      <3>4. ASSUME Keyed(ctx.work, id, a), NEW k \in Rivals(ctx.work, id, a)
            PROVE  k \in Rivals(objects, id, a)
        <4>1. /\ k \in DOMAIN ctx.work \ {id} /\ ctx.work[k].type = t /\ Keyed(ctx.work, k, a)
              /\ KeyOf(ctx.work[k], key) = KeyOf(objects[id], key)
          BY <1>2, <3>4 DEF Rivals
        <4>2. \A b \in key : ctx.work[k].attrs[b] # Absent
          BY <4>1 DEF Keyed
        <4>3. k \notin Touched
          BY <1>5, <3>3, <4>1, <4>2
        <4>4. k \in DOMAIN objects /\ ctx.work[k] = objects[k]
          BY <1>3, <4>1, <4>3
        <4>5. Keyed(objects, k, a)
          BY <1>9, <3>1, <4>1, <4>4, KeyedOwn
        <4> QED BY <4>1, <4>4, <4>5 DEF Rivals
      <3>5. ASSUME Keyed(ctx.work, id, a), NEW k \in Rivals(objects, id, a)
            PROVE  k \in Rivals(ctx.work, id, a)
        <4>1. /\ k \in DOMAIN objects \ {id} /\ objects[k].type = t /\ Keyed(objects, k, a)
              /\ KeyOf(objects[k], key) = KeyOf(objects[id], key)
          BY <3>5 DEF Rivals
        <4>2. \A b \in key : objects[k].attrs[b] # Absent
          BY <4>1 DEF Keyed
        <4>3. k \notin Touched
          BY <1>6, <3>3, <4>1, <4>2
        <4>4. k \in DOMAIN ctx.work /\ ctx.work[k] = objects[k]
          BY <1>3, <1>4, <4>1, <4>3
        <4>5. Keyed(ctx.work, k, a)
          BY <1>9, <3>1, <4>1, <4>4, KeyedOwn
        <4> QED BY <1>2, <4>1, <4>4, <4>5 DEF Rivals
      <3> QED BY <3>2, <3>4, <3>5
    <2>4. Identity(ctx.work[id]) # Absent =>
            ((\E k \in DOMAIN ctx.work \ {id} : Identity(ctx.work[k]) = Identity(ctx.work[id]))
             <=> (\E k \in DOMAIN objects \ {id} : Identity(objects[k]) = Identity(objects[id])))
      <3> SUFFICES ASSUME Identity(objects[id]) # Absent
                   PROVE  (\E k \in DOMAIN ctx.work \ {id} : Identity(ctx.work[k]) = Identity(objects[id]))
                          <=> (\E k \in DOMAIN objects \ {id} : Identity(objects[k]) = Identity(objects[id]))
        BY <1>2
      <3>1. \A v \in V : Identity(v) # Identity(objects[id])
        BY <1>2, <1>7, <1>9 DEF Sharing
      <3>2. \A k \in DOMAIN ctx.work : Identity(ctx.work[k]) = Identity(objects[id]) =>
              k \in DOMAIN objects /\ Identity(objects[k]) = Identity(objects[id])
        BY <1>3, <1>5, <3>1
      <3>3. \A k \in DOMAIN objects : Identity(objects[k]) = Identity(objects[id]) =>
              k \in DOMAIN ctx.work /\ Identity(ctx.work[k]) = Identity(objects[id])
        BY <1>3, <1>4, <1>6, <3>1
      <3> QED BY <3>2, <3>3
    <2> HIDE DEF t
    <2> QED BY <1>2, <1>9, <2>2, <2>3, <2>4, FailingAgrees DEF t
  <1> QED BY <1>2, <1>8, <1>9

----------------------------------------------------------------------------
(* Rows that stay rows of their types.                                     *)

\* A row left as it was, but for attributes made absent and a proposal's state.
Alike(o, p) ==
  /\ DOMAIN p = RowFields /\ p.id = o.id /\ p.type = o.type /\ p.next = o.next
  /\ DOMAIN p.attrs = DOMAIN o.attrs /\ \A a \in DOMAIN o.attrs : p.attrs[a] \in {o.attrs[a], Absent}
  /\ o.type \in DOMAIN Decl => p.state = o.state

\* What names a row goes on naming one where rows are only added.
LEMMA FitsGrown ==
  ASSUME NEW w, NEW u, Grown(w, u)
  PROVE  /\ \A o : RowFits(w, o) => RowFits(u, o)
         /\ \A f : FrameFits(w, f) => FrameFits(u, f)
  <1>1. \A v, t : Names(w, v, t) => Names(u, v, t)
    BY DEF Grown, Names
  <1>2. \A k \in DOMAIN w : k \in DOMAIN u /\ u[k].type = w[k].type
    BY DEF Grown
  <1>3. ASSUME NEW o, RowFits(w, o) PROVE RowFits(u, o)
    BY <1>1, <1>2, <1>3, Zenon DEF RowFits, DeclaredRow
  <1>4. ASSUME NEW f, NEW st, TodoFits(w, f, st) PROVE TodoFits(u, f, st)
    BY <1>2, <1>4 DEF TodoFits
  <1>5. ASSUME NEW f, FrameFits(w, f) PROVE FrameFits(u, f)
    BY <1>1, <1>4, <1>5, Zenon DEF FrameFits
  <1> QED BY <1>3, <1>5

LEMMA RowsAlike ==
  ASSUME NEW w, NEW u, Rows(w), DOMAIN u = DOMAIN w, \A k \in DOMAIN w : Alike(w[k], u[k])
  PROVE  Rows(u) /\ Grown(w, u)
  <1>1. Grown(w, u)
    BY DEF Grown, Alike
  <1>2. ASSUME NEW k \in DOMAIN u PROVE u[k].id = k /\ RowFits(u, u[k])
    <2>1. Alike(w[k], u[k]) /\ w[k].id = k /\ RowFits(u, w[k])
      BY <1>1, <1>2, FitsGrown DEF Rows
    <2>2. CASE ProposalRow(w[k])
      BY <2>1, <2>2 DEF Alike, RowFits, ProposalRow, None
    <2>3. CASE DeclaredRow(u, w[k])
      BY <2>1, <2>3, Zenon DEF Alike, RowFits, DeclaredRow
    <2> QED BY <2>1, <2>2, <2>3 DEF RowFits, Alike
  <1> QED BY <1>1, <1>2 DEF Rows

\* A row written again, or one more.
LEMMA RowsSet ==
  ASSUME NEW w, NEW u, NEW o, Rows(w), RowFits(w, o),
         \/ o.id \in DOMAIN w /\ o.type = w[o.id].type
         \/ o.id = Cardinality(DOMAIN w) + 1,
         DOMAIN u = DOMAIN w \cup {o.id}, u[o.id] = o, \A k \in DOMAIN w \ {o.id} : u[k] = w[k]
  PROVE  Rows(u) /\ Grown(w, u)
  <1> DEFINE n == Cardinality(DOMAIN w)
  <1>1. n \in Nat /\ DOMAIN w = 1..n /\ IsFiniteSet(DOMAIN w)
    BY FS_CardinalityType DEF Rows
  <1>2. Grown(w, u)
    BY <1>1 DEF Grown
  <1>3. IsFiniteSet(DOMAIN u) /\ DOMAIN u = 1..Cardinality(DOMAIN u)
    <2>1. CASE o.id \in DOMAIN w
      <3>1. DOMAIN u = DOMAIN w
        BY <2>1
      <3> QED BY <1>1, <3>1
    <2>2. CASE o.id = n + 1
      <3>1. DOMAIN u = 1..(n + 1)
        BY <1>1, <2>2
      <3>2. Cardinality(1..(n + 1)) = n + 1 /\ IsFiniteSet(1..(n + 1))
        <4>1. n + 1 \in Int /\ 1 \in Int /\ 1 <= n + 1
          BY <1>1
        <4> QED BY <4>1, FS_Interval
      <3> QED BY <3>1, <3>2
    <2> QED BY <2>1, <2>2
  <1>4. ASSUME NEW k \in DOMAIN u PROVE u[k].id = k /\ RowFits(u, u[k])
    <2>1. CASE k = o.id
      BY <1>2, <2>1, FitsGrown
    <2>2. CASE k # o.id
      BY <1>2, <2>2, FitsGrown DEF Rows
    <2> QED BY <2>1, <2>2
  <1> QED BY <1>2, <1>3, <1>4 DEF Rows

----------------------------------------------------------------------------
(* A decision's working copy and its frames.                               *)

\* A step of a decision that adds rows or leaves them of their types.
LEMMA DecidingStep ==
  ASSUME Deciding(ctx), NEW d, DOMAIN d = CtxFields, d.phase = "take", d.first = ctx.first,
         Rows(d.work), Grown(ctx.work, d.work),
         IsSeq(d.frames), \A f \in Range(d.frames) : FrameFits(d.work, f)
  PROVE  Deciding(d)
  <1>1. Grown(objects, d.work)
    BY DEF Deciding, Grown
  <1> QED BY <1>1 DEF Deciding

\* While the store's rows stay, what is said of the decision is enough.
LEMMA RowsStay ==
  ASSUME RowsInv, objects' = objects, ctx' = Idle \/ Deciding(ctx')
  PROVE  RowsInv'
  <1>1. Rows(objects)' /\ AdmissionsStand'
    BY DEF RowsInv, AdmissionsStand
  <1>2. Deciding(ctx') => Deciding(ctx)'
    BY DEF Deciding, FirstFits
  <1>3. (ctx' = Idle) => (ctx = Idle)'
    BY DEF Idle
  <1> QED BY <1>1, <1>2, <1>3 DEF RowsInv

\* The frames of a decision, the innermost written again, left or with one more
\* above it.
LEMMA FramesSet ==
  ASSUME NEW w, NEW s, NEW g, IsSeq(s), s # <<>>, \A f \in Range(s) : FrameFits(w, f), FrameFits(w, g)
  PROVE  /\ IsSeq(Append(Front(s), g)) /\ \A f \in Range(Append(Front(s), g)) : FrameFits(w, f)
         /\ IsSeq(Front(s)) /\ \A f \in Range(Front(s)) : FrameFits(w, f)
         /\ \A h : FrameFits(w, h) =>
              /\ IsSeq(Append(Append(Front(s), g), h))
              /\ \A f \in Range(Append(Append(Front(s), g), h)) : FrameFits(w, f)
  <1>1. IsSeq(Front(s)) /\ Range(Front(s)) \subseteq Range(s)
    BY SeqRest
  <1>2. IsSeq(Append(Front(s), g)) /\ Range(Append(Front(s), g)) = Range(Front(s)) \cup {g}
    BY <1>1, SeqAppend
  <1>3. ASSUME NEW h, FrameFits(w, h)
        PROVE  /\ IsSeq(Append(Append(Front(s), g), h))
               /\ \A f \in Range(Append(Append(Front(s), g), h)) : FrameFits(w, f)
    <2>1. /\ IsSeq(Append(Append(Front(s), g), h))
          /\ Range(Append(Append(Front(s), g), h)) = Range(Append(Front(s), g)) \cup {h}
      BY <1>2, SeqAppend
    <2> QED BY <1>1, <1>2, <1>3, <2>1
  <1> QED BY <1>1, <1>2, <1>3

\* The frame a step is of, and the frames once the step is done.
LEMMA TopFits ==
  ASSUME RowsInv, ctx.phase = "take", ctx.frames # <<>>
  PROVE  /\ Deciding(ctx) /\ Rows(ctx.work) /\ IsSeq(ctx.frames) /\ DOMAIN ctx = CtxFields
         /\ \A f \in Range(ctx.frames) : FrameFits(ctx.work, f)
         /\ FrameFits(ctx.work, Top)
         /\ Top.begun => /\ Top.id \in DOMAIN ctx.work /\ ctx.work[Top.id].type = Top.type
                         /\ Top.type \in DOMAIN Decl /\ DeclaredRow(ctx.work, ctx.work[Top.id])
                         /\ ctx.work[Top.id].id = Top.id /\ IsSeq(Top.todo)
  <1>1. Deciding(ctx)
    BY DEF RowsInv, Idle
  <1>2. FrameFits(ctx.work, Top)
    BY <1>1, SeqRest DEF Deciding, Top
  <1>3. Top.begun => /\ Top.id \in DOMAIN ctx.work /\ ctx.work[Top.id].type = Top.type
                     /\ Top.type \in DOMAIN Decl /\ IsSeq(Top.todo)
    BY <1>2, Zenon DEF FrameFits, Names, Has
  <1>4. Top.begun => DeclaredRow(ctx.work, ctx.work[Top.id]) /\ ctx.work[Top.id].id = Top.id
    BY <1>1, <1>3, RowFacts DEF Deciding
  <1> QED BY <1>1, <1>2, <1>3, <1>4 DEF Deciding

\* A step of the innermost transition: it fits, and so does what is left of it.
LEMMA DoingFits ==
  ASSUME RowsInv, NEW op, Doing(op)
  PROVE  /\ objects' = objects
         /\ ctx.phase = "take" /\ ctx.frames # <<>> /\ Top.begun /\ Top.todo # <<>> /\ Head(Top.todo).op = op
         /\ TodoFits(ctx.work, Top, Head(Top.todo))
         /\ FrameFits(ctx.work, [Top EXCEPT !.todo = Tail(@)])
         /\ IsSeq(Rest(ctx.frames)) /\ \A f \in Range(Rest(ctx.frames)) : FrameFits(ctx.work, f)
  <1>1. objects' = objects /\ ctx.phase = "take" /\ ctx.frames # <<>> /\ Top.begun /\ Top.todo # <<>> /\ Head(Top.todo).op = op
    BY DEF Doing
  <1>2. FrameFits(ctx.work, Top) /\ IsSeq(Top.todo)
    BY <1>1, TopFits
  <1>3. Head(Top.todo) \in Range(Top.todo) /\ IsSeq(Tail(Top.todo)) /\ Range(Tail(Top.todo)) \subseteq Range(Top.todo)
    BY <1>1, <1>2, SeqRest
  <1>4. TodoFits(ctx.work, Top, Head(Top.todo))
    BY <1>1, <1>2, <1>3, Zenon DEF FrameFits
  <1>5. ASSUME NEW todo, IsSeq(todo), \A st \in Range(todo) : TodoFits(ctx.work, Top, st)
        PROVE  FrameFits(ctx.work, [Top EXCEPT !.todo = todo])
    BY <1>1, <1>2, <1>5, Zenon DEF FrameFits, FrameFields, X, TodoFits
  <1>6. FrameFits(ctx.work, [Top EXCEPT !.todo = Tail(@)])
    BY <1>1, <1>2, <1>3, <1>5, Zenon DEF FrameFits
  <1>7. Rest(ctx.frames) = Append(Front(ctx.frames), [Top EXCEPT !.todo = Tail(@)])
    BY DEF Rest, Top
  <1>8. IsSeq(Rest(ctx.frames)) /\ \A f \in Range(Rest(ctx.frames)) : FrameFits(ctx.work, f)
    <2>1. IsSeq(ctx.frames) /\ \A f \in Range(ctx.frames) : FrameFits(ctx.work, f)
      BY <1>1, TopFits
    <2> DEFINE g == [Top EXCEPT !.todo = Tail(@)]
    <2> HIDE DEF g
    <2>2. FrameFits(ctx.work, g)
      BY <1>6 DEF g
    <2>3. IsSeq(Append(Front(ctx.frames), g)) /\ \A f \in Range(Append(Front(ctx.frames), g)) : FrameFits(ctx.work, f)
      BY <1>1, <2>1, <2>2, FramesSet
    <2> QED BY <1>7, <2>3 DEF g
  <1> QED BY <1>1, <1>4, <1>6, <1>8

\* The innermost transition given more to do.
LEMMA TodoSet ==
  ASSUME RowsInv, ctx.phase = "take", ctx.frames # <<>>, Top.begun,
         NEW todo, IsSeq(todo), \A st \in Range(todo) : TodoFits(ctx.work, Top, st)
  PROVE  /\ IsSeq(Append(Front(ctx.frames), [Top EXCEPT !.todo = todo]))
         /\ \A f \in Range(Append(Front(ctx.frames), [Top EXCEPT !.todo = todo])) : FrameFits(ctx.work, f)
  <1>1. FrameFits(ctx.work, Top)
    BY TopFits
  <1>2. FrameFits(ctx.work, [Top EXCEPT !.todo = todo])
    BY <1>1, Zenon DEF FrameFits, FrameFields, X, TodoFits
  <1> QED BY <1>2, TopFits, FramesSet

\* What an expression reads names an object of the type it is of.
LEMMA ValNames ==
  ASSUME NEW f, NEW e, Rows(ctx.work) /\ FrameFits(ctx.work, f) /\ f.begun,
         e.k \in {"input", "attr", "this"}, e.k = "attr" => e.n \in Attrs(f.type),
         ExprRef(f.type, X(f), e) # "", Val(f, e) # Absent
  PROVE  Names(ctx.work, Val(f, e), ExprRef(f.type, X(f), e))
  <1>1. Names(ctx.work, f.id, f.type) /\ f.type \in DOMAIN Decl
    BY Zenon DEF FrameFits, Has
  <1>2. CASE e.k = "input"
    BY <1>2, Zenon DEF FrameFits, Val, ExprRef, Given
  <1>3. CASE e.k = "attr"
    <2>1. DeclaredRow(ctx.work, ctx.work[f.id]) /\ ctx.work[f.id].type = f.type
      BY <1>1, RowFacts, Zenon DEF Names
    <2> QED BY <1>3, <2>1, Zenon DEF DeclaredRow, Val, ExprRef
  <1>4. CASE e.k = "this"
    BY <1>1, <1>4, Zenon DEF Val, ExprRef
  <1> QED BY <1>2, <1>3, <1>4, Zenon

\* A step that leaves the store's rows and leads the decision on.
LEMMA StepKeeps ==
  ASSUME RowsInv, ctx.phase = "take", ctx.frames # <<>>, objects' = objects, NEW d, ctx' = d,
         DOMAIN d = CtxFields, d.phase = "take", d.first = ctx.first,
         Rows(d.work), Grown(ctx.work, d.work),
         IsSeq(d.frames), \A f \in Range(d.frames) : FrameFits(ctx.work, f)
  PROVE  RowsInv'
  <1>1. \A f \in Range(d.frames) : FrameFits(d.work, f)
    BY FitsGrown
  <1>2. Deciding(d)
    BY <1>1, TopFits, DecidingStep
  <1> QED BY <1>2, RowsStay

LEMMA GrownSame == \A w : Grown(w, w)
  BY DEF Grown

LEMMA RefuseKeeps ==
  ASSUME RowsInv, objects' = objects, NEW clause, Refuse(clause)
  PROVE  RowsInv'
  BY RowsStay DEF Refuse

\* On to the next step, the rows as they were.
LEMMA GoKeeps ==
  ASSUME RowsInv, NEW op, Doing(op), NEW g, ctx' = [ctx EXCEPT !.group = g, !.frames = Rest(@)]
  PROVE  RowsInv'
  <1> DEFINE d == [ctx EXCEPT !.group = g, !.frames = Rest(@)]
  <1>1. objects' = objects /\ ctx.phase = "take" /\ ctx.frames # <<>>
    BY DoingFits
  <1>2. DOMAIN ctx = CtxFields /\ Rows(ctx.work)
    BY <1>1, TopFits
  <1>3. DOMAIN d = CtxFields /\ d.phase = "take" /\ d.first = ctx.first /\ d.work = ctx.work /\ d.frames = Rest(ctx.frames)
    BY <1>1, <1>2 DEF CtxFields
  <1>4. IsSeq(d.frames) /\ \A f \in Range(d.frames) : FrameFits(ctx.work, f)
    BY <1>3, DoingFits
  <1> HIDE DEF d
  <1>5. ctx' = d
    BY DEF d
  <1> QED BY <1>1, <1>2, <1>3, <1>4, <1>5, GrownSame, StepKeeps

LEMMA GoAsIs ==
  ASSUME RowsInv, NEW op, Doing(op), Go(ctx)
  PROVE  RowsInv'
  <1>1. DOMAIN ctx = CtxFields
    BY DoingFits, TopFits
  <1>2. ctx' = [ctx EXCEPT !.group = ctx.group, !.frames = Rest(@)]
    BY <1>1 DEF Go, CtxFields
  <1> QED BY <1>2, GoKeeps, Zenon

\* On to the next step, one row written.
LEMMA GoWrites ==
  ASSUME RowsInv, NEW op, Doing(op), NEW o, RowFits(ctx.work, o),
         o.id \in DOMAIN ctx.work, o.type = ctx.work[o.id].type,
         NEW wrote, ctx' = [ctx EXCEPT !.work = [@ EXCEPT ![o.id] = o], !.wrote = wrote, !.frames = Rest(@)]
  PROVE  RowsInv'
  <1> DEFINE w == [ctx.work EXCEPT ![o.id] = o]
             d == [ctx EXCEPT !.work = w, !.wrote = wrote, !.frames = Rest(@)]
  <1>1. objects' = objects /\ ctx.phase = "take" /\ ctx.frames # <<>>
    BY DoingFits
  <1>2. DOMAIN ctx = CtxFields /\ Rows(ctx.work)
    BY <1>1, TopFits
  <1>3. DOMAIN d = CtxFields /\ d.phase = "take" /\ d.first = ctx.first /\ d.work = w /\ d.frames = Rest(ctx.frames)
    BY <1>1, <1>2 DEF CtxFields
  <1>4. IsSeq(d.frames) /\ \A f \in Range(d.frames) : FrameFits(ctx.work, f)
    BY <1>3, DoingFits
  <1>5. Rows(w) /\ Grown(ctx.work, w)
    <2>1. DOMAIN w = DOMAIN ctx.work \cup {o.id} /\ w[o.id] = o /\ \A k \in DOMAIN ctx.work \ {o.id} : w[k] = ctx.work[k]
      OBVIOUS
    <2> HIDE DEF w
    <2> QED BY <1>2, <2>1, RowsSet
  <1>6. ctx' = d
    OBVIOUS
  <1> HIDE DEF d, w
  <1> QED BY <1>1, <1>3, <1>4, <1>5, <1>6, StepKeeps

\* What the rest of a transition's outcome does.
LEMMA LocationKeeps ==
  ASSUME RowsInv, NEW op, Doing(op), NEW a \in Attrs(Top.type), NEW v,
         Decl[Top.type].attrs[a].ref # "" /\ v # Absent => Names(ctx.work, v, Decl[Top.type].attrs[a].ref),
         Go(Location(ctx, Top.id, a, v))
  PROVE  RowsInv'
  <1> DEFINE o == [ctx.work[Top.id] EXCEPT !.attrs[a] = v]
  <1>1. /\ Top.id \in DOMAIN ctx.work /\ ctx.work[Top.id].type = Top.type /\ ctx.work[Top.id].id = Top.id
        /\ DeclaredRow(ctx.work, ctx.work[Top.id]) /\ DOMAIN ctx = CtxFields
    BY DoingFits, TopFits, Zenon
  <1>2. o.id = Top.id /\ o.type = Top.type /\ RowFits(ctx.work, o)
    BY <1>1, Zenon DEF DeclaredRow, RowFits, RowFields
  <1>3. ctx' = [ctx EXCEPT !.work = [@ EXCEPT ![o.id] = o], !.wrote = Marked(ctx.wrote, Top.id, {a}), !.frames = Rest(@)]
    BY <1>1, <1>2, Zenon DEF Go, Location, CtxFields
  <1> HIDE DEF o
  <1> QED BY <1>1, <1>2, <1>3, GoWrites, Zenon

LEMMA AssignKeeps ==
  ASSUME RowsInv, Assign
  PROVE  RowsInv'
  <1> DEFINE st == Head(Top.todo)
             v == Val(Top, st.expr)
  <1>1. Doing("assign") /\ objects' = objects /\ st.op = "assign" /\ TodoFits(ctx.work, Top, st)
    BY DoingFits DEF Assign
  <1>2. /\ FrameFits(ctx.work, Top) /\ Top.begun /\ Rows(ctx.work)
    BY <1>1, DoingFits, TopFits
  <1>3. StepFits(Top.type, X(Top), st)
    BY <1>1 DEF TodoFits
  <1>4. CASE Go(ctx)
    BY <1>1, <1>4, GoAsIs
  <1>5. CASE Refuse("value_in_range")
    BY <1>1, <1>5, RefuseKeeps
  <1>6. CASE Go(Location(ctx, Top.id, st.at, v))
    <2>1. st.at \in Attrs(Top.type)
      BY <1>1, <1>3, Zenon DEF StepFits
    <2>2. Decl[Top.type].attrs[st.at].ref # "" /\ v # Absent => Names(ctx.work, v, Decl[Top.type].attrs[st.at].ref)
      <3> SUFFICES ASSUME Decl[Top.type].attrs[st.at].ref # "", v # Absent
                   PROVE  Names(ctx.work, v, Decl[Top.type].attrs[st.at].ref)
        BY Zenon
      <3>1. /\ st.expr.k \in {"input", "attr", "this"} /\ (st.expr.k = "attr" => st.expr.n \in Attrs(Top.type))
            /\ ExprRef(Top.type, X(Top), st.expr) = Decl[Top.type].attrs[st.at].ref
        BY <1>1, <1>3, Zenon DEF StepFits
      <3> HIDE DEF st
      <3>2. Names(ctx.work, Val(Top, st.expr), ExprRef(Top.type, X(Top), st.expr))
        <4>1. ExprRef(Top.type, X(Top), st.expr) # "" /\ Val(Top, st.expr) # Absent
          BY <3>1, Zenon
        <4> QED BY <1>2, <3>1, <4>1, ValNames, Zenon
      <3> QED BY <3>1, <3>2, Zenon
    <2> HIDE DEF v, st
    <2> QED BY <1>1, <1>6, <2>1, <2>2, LocationKeeps, Zenon
  <1> QED BY <1>4, <1>5, <1>6 DEF Assign

LEMMA ClearKeeps ==
  ASSUME RowsInv, Clear
  PROVE  RowsInv'
  <1> DEFINE st == Head(Top.todo)
  <1>1. Doing("clear") /\ st.op = "clear" /\ TodoFits(ctx.work, Top, st)
    BY DoingFits DEF Clear
  <1>2. st.at \in Attrs(Top.type)
    BY <1>1, Zenon DEF TodoFits, StepFits
  <1>3. Go(Location(ctx, Top.id, st.at, Absent))
    BY DEF Clear
  <1> HIDE DEF st
  <1> QED BY <1>1, <1>2, <1>3, LocationKeeps, Zenon

LEMMA SupersedeKeeps ==
  ASSUME RowsInv, Supersede
  PROVE  RowsInv'
  <1> DEFINE st == Head(Top.todo)
             o == [ctx.work[Top.id] EXCEPT !.next = Top.inputs[st.input]]
  <1>1. Doing("supersede") /\ st.op = "supersede" /\ TodoFits(ctx.work, Top, st)
    BY DoingFits DEF Supersede
  <1>2. /\ Top.id \in DOMAIN ctx.work /\ ctx.work[Top.id].type = Top.type /\ ctx.work[Top.id].id = Top.id
        /\ DeclaredRow(ctx.work, ctx.work[Top.id]) /\ DOMAIN ctx = CtxFields /\ FrameFits(ctx.work, Top) /\ Top.begun
    BY <1>1, DoingFits, TopFits
  <1>3. st.input \in X(Top).other \cap DOMAIN X(Top).refs /\ X(Top).refs[st.input] \in DOMAIN Decl
    BY <1>1, Zenon DEF TodoFits, StepFits
  <1>4. Names(ctx.work, Top.inputs[st.input], X(Top).refs[st.input])
    <2>1. InputRef(Top.type, X(Top), st.input) = X(Top).refs[st.input]
      BY <1>3, Zenon DEF InputRef
    <2>2. st.input \in DOMAIN Top.inputs
      BY <1>2, <1>3, Zenon DEF FrameFits
    <2>3. X(Top).refs[st.input] # ""
      <3>1. "" \notin DOMAIN Decl
        BY DeclAssumption, Zenon
      <3> QED BY <1>3, <3>1, Zenon
    <2> QED BY <1>2, <2>1, <2>2, <2>3, Zenon DEF FrameFits
  <1>5. o.id = Top.id /\ o.type = Top.type /\ RowFits(ctx.work, o)
    BY <1>2, <1>3, <1>4, Zenon DEF DeclaredRow, RowFits, RowFields, Names
  <1>6. ctx' = [ctx EXCEPT !.work = [@ EXCEPT ![o.id] = o], !.wrote = ctx.wrote, !.frames = Rest(@)]
    BY <1>2, <1>5 DEF Supersede, Go, CtxFields
  <1> HIDE DEF o
  <1> QED BY <1>1, <1>2, <1>5, <1>6, GoWrites, Zenon

\* A transition caused: its frame above the rest of this one.
LEMMA CauseKeeps ==
  ASSUME RowsInv, NEW op, Doing(op), NEW t, NEW xn, Has(t, xn), NEW id, id # None => Names(ctx.work, id, t),
         NEW inputs, NEW cause, Cause(Frame(t, xn, id, inputs, cause))
  PROVE  RowsInv'
  <1> DEFINE h == Frame(t, xn, id, inputs, cause)
             d == [ctx EXCEPT !.frames = Append(Rest(@), h)]
  <1>1. /\ objects' = objects /\ ctx.phase = "take" /\ ctx.frames # <<>>
        /\ IsSeq(Rest(ctx.frames)) /\ \A f \in Range(Rest(ctx.frames)) : FrameFits(ctx.work, f)
    BY DoingFits
  <1>2. DOMAIN ctx = CtxFields /\ Rows(ctx.work)
    BY <1>1, TopFits
  <1>3. FrameFits(ctx.work, h)
    BY Zenon DEF FrameFits, Frame, FrameFields
  <1> HIDE DEF h
  <1>4. IsSeq(Append(Rest(ctx.frames), h)) /\ \A f \in Range(Append(Rest(ctx.frames), h)) : FrameFits(ctx.work, f)
    BY <1>1, <1>3, SeqAppend
  <1>5. DOMAIN d = CtxFields /\ d.phase = "take" /\ d.first = ctx.first /\ d.work = ctx.work /\ d.frames = Append(Rest(ctx.frames), h)
    BY <1>1, <1>2 DEF CtxFields
  <1>6. ctx' = d
    BY DEF Cause, h
  <1> HIDE DEF d
  <1> QED BY <1>1, <1>2, <1>4, <1>5, <1>6, GrownSame, StepKeeps

LEMMA CallKeeps ==
  ASSUME RowsInv, Call
  PROVE  RowsInv'
  <1> DEFINE st == Head(Top.todo)
             id == IF st.target.k = "id" THEN st.target.n ELSE Val(Top, st.target)
  <1>1. Doing("call") /\ st.op = "call" /\ TodoFits(ctx.work, Top, st)
    BY DoingFits DEF Call
  <1>2. FrameFits(ctx.work, Top) /\ Top.begun /\ Rows(ctx.work)
    BY <1>1, DoingFits, TopFits
  <1>3. CASE Go(ctx)
    BY <1>1, <1>3, GoAsIs
  <1>4. CASE id # Absent /\ Cause(Frame(ctx.work[id].type, st.x, id, Arguments(Top, st.args), Top.pos))
    <2>1. id \in DOMAIN ctx.work /\ Has(ctx.work[id].type, st.x)
      <3>1. CASE st.target.k = "id" /\ st.target.n \in DOMAIN ctx.work /\ Has(ctx.work[st.target.n].type, st.x)
        BY <3>1
      <3>2. CASE StepFits(Top.type, X(Top), st)
        <4> DEFINE t == ExprRef(Top.type, X(Top), st.target)
        <4>1. /\ st.target.k \in {"input", "attr", "this"} /\ (st.target.k = "attr" => st.target.n \in Attrs(Top.type))
              /\ Has(t, st.x)
          BY <1>1, <3>2, Zenon DEF StepFits
        <4>2. t # "" /\ id = Val(Top, st.target)
          BY <4>1, DeclAssumption, Zenon DEF Has
        <4> HIDE DEF st
        <4>3. Names(ctx.work, Val(Top, st.target), t)
          <5>1. ExprRef(Top.type, X(Top), st.target) # "" /\ Val(Top, st.target) # Absent
            BY <1>4, <4>2, Zenon
          <5> QED BY <1>2, <4>1, <5>1, ValNames, Zenon
        <4> QED BY <4>1, <4>2, <4>3, Zenon DEF Names
      <3> QED BY <1>1, <3>1, <3>2 DEF TodoFits
    <2>2. Names(ctx.work, id, ctx.work[id].type)
      BY <2>1 DEF Names
    <2> HIDE DEF id, st
    <2> QED BY <1>1, <1>4, <2>1, <2>2, CauseKeeps
  <1> QED BY <1>3, <1>4 DEF Call

LEMMA CreateKeeps ==
  ASSUME RowsInv, Create
  PROVE  RowsInv'
  <1> DEFINE st == Head(Top.todo)
  <1>1. Doing("create") /\ st.op = "create" /\ TodoFits(ctx.work, Top, st)
    BY DoingFits DEF Create
  <1>2. Has(st.type, st.x)
    BY <1>1, Zenon DEF TodoFits, StepFits
  <1>3. Cause(Frame(st.type, st.x, None, Arguments(Top, st.args), Top.pos))
    BY DEF Create
  <1> HIDE DEF st
  <1> QED BY <1>1, <1>2, <1>3, CauseKeeps

\* Calls of the parts, each a declared object.
LEMMA CallsFit ==
  ASSUME Rows(ctx.work), NEW ids, ids \subseteq DOMAIN ctx.work, NEW xn, NEW args, NEW t, Has(t, xn),
         \A p \in ids : ctx.work[p].type = t
  PROVE  /\ IsSeq(Calls(ids, xn, args))
         /\ \A f : \A st \in Range(Calls(ids, xn, args)) : TodoFits(ctx.work, f, st)
  <1> DEFINE n == Cardinality(ids)
             s == ToSeq(ids)
  <1>1. ids \subseteq Nat /\ IsFiniteSet(ids)
    <2>1. Cardinality(DOMAIN ctx.work) \in Nat
      BY FS_CardinalityType DEF Rows
    <2>2. DOMAIN ctx.work \subseteq Nat
      BY <2>1 DEF Rows
    <2> QED BY <2>2, FS_Subset DEF Rows
  <1>2. n \in Nat /\ s \in [1..n -> ids]
    BY <1>1, ToSeqFits
  <1> HIDE DEF s, n
  <1> DEFINE u == [i \in 1..n |-> [op |-> "call", target |-> [k |-> "id", n |-> s[i]], x |-> xn, args |-> args]]
  <1>3. Calls(ids, xn, args) = u
    BY DEF Calls, s, n
  <1>4. DOMAIN u = 1..n /\ \A i \in 1..n : /\ u[i].op = "call" /\ u[i].target.k = "id" /\ u[i].target.n = s[i]
                                           /\ u[i].x = xn
    OBVIOUS
  <1>5. u \in Seq(Range(u))
    <2>1. u \in [1..n -> Range(u)]
      BY DEF Range
    <2> HIDE DEF u
    <2> QED BY <1>2, <2>1
  <1>6. ASSUME NEW f, NEW st \in Range(u) PROVE TodoFits(ctx.work, f, st)
    <2>1. PICK i \in 1..n : st = u[i]
      BY <1>6 DEF Range
    <2>2. s[i] \in DOMAIN ctx.work /\ ctx.work[s[i]].type = t
      BY <1>2
    <2> QED BY <1>4, <2>1, <2>2 DEF TodoFits
  <1> QED BY <1>3, <1>5, <1>6 DEF IsSeq

\* More to do ahead of the rest.
LEMMA AheadKeeps ==
  ASSUME RowsInv, NEW op, Doing(op), NEW more, IsSeq(more), \A st \in Range(more) : TodoFits(ctx.work, Top, st),
         NEW todo, todo \in {more, more \o Tail(Top.todo)}, NEW g,
         ctx' = [ctx EXCEPT !.group = g, !.frames = Append(Front(@), [Top EXCEPT !.todo = todo])]
  PROVE  RowsInv'
  <1> DEFINE s == Append(Front(ctx.frames), [Top EXCEPT !.todo = todo])
             d == [ctx EXCEPT !.group = g, !.frames = s]
  <1>1. objects' = objects /\ ctx.phase = "take" /\ ctx.frames # <<>> /\ Top.begun /\ Top.todo # <<>>
    BY DoingFits
  <1>2. DOMAIN ctx = CtxFields /\ Rows(ctx.work) /\ FrameFits(ctx.work, Top) /\ IsSeq(Top.todo)
    BY <1>1, TopFits
  <1>3. IsSeq(Tail(Top.todo)) /\ Range(Tail(Top.todo)) \subseteq Range(Top.todo)
    BY <1>1, <1>2, SeqRest
  <1>4. IsSeq(more \o Tail(Top.todo)) /\ Range(more \o Tail(Top.todo)) = Range(more) \cup Range(Tail(Top.todo))
    BY <1>3, SeqCat
  <1>5. IsSeq(todo) /\ \A st \in Range(todo) : TodoFits(ctx.work, Top, st)
    BY <1>1, <1>2, <1>3, <1>4, Zenon DEF FrameFits
  <1>6. IsSeq(s) /\ \A f \in Range(s) : FrameFits(ctx.work, f)
    BY <1>1, <1>5, TodoSet
  <1> HIDE DEF s
  <1>7. DOMAIN d = CtxFields /\ d.phase = "take" /\ d.first = ctx.first /\ d.work = ctx.work /\ d.frames = s
    BY <1>1, <1>2 DEF CtxFields
  <1>8. ctx' = d
    BY DEF s
  <1> HIDE DEF d
  <1> QED BY <1>1, <1>2, <1>6, <1>7, <1>8, GrownSame, StepKeeps

LEMMA EachKeeps ==
  ASSUME RowsInv, Each
  PROVE  RowsInv'
  <1> DEFINE st == Head(Top.todo)
             ids == Parts(ctx.work, st.type, st.by, Top.id)
             calls == Calls(ids, st.x, st.args)
  <1>1. Doing("each") /\ st.op = "each" /\ TodoFits(ctx.work, Top, st)
    BY DoingFits DEF Each
  <1>2. Has(st.type, st.x)
    BY <1>1, Zenon DEF TodoFits, StepFits
  <1>3. Rows(ctx.work) /\ DOMAIN ctx = CtxFields
    BY <1>1, DoingFits, TopFits
  <1>4. ids \subseteq DOMAIN ctx.work /\ \A p \in ids : ctx.work[p].type = st.type
    BY DEF Parts
  <1>5. ctx' = [ctx EXCEPT !.group = ctx.group, !.frames = Append(Front(@), [Top EXCEPT !.todo = calls \o Tail(Top.todo)])]
    BY <1>3 DEF Each, CtxFields
  <1>6. IsSeq(calls) /\ \A s \in Range(calls) : TodoFits(ctx.work, Top, s)
    <2> HIDE DEF st, ids
    <2> QED BY <1>2, <1>3, <1>4, CallsFit
  <1> HIDE DEF calls
  <1> QED BY <1>1, <1>5, <1>6, AheadKeeps, Zenon

LEMMA CascadeKeeps ==
  ASSUME RowsInv, Cascade
  PROVE  RowsInv'
  <1> DEFINE cl == Head(Top.todo).clause
             open == {p \in Parts(ctx.work, cl.type, cl.by, Top.id) : Top.x \in cl.on /\ ~ Finished(ctx.work, p)}
             calls == Calls(open, cl.x, cl.args)
  <1>1. Doing("cascade") /\ Head(Top.todo).op = "cascade" /\ TodoFits(ctx.work, Top, Head(Top.todo))
    BY DoingFits DEF Cascade
  <1>2. Has(cl.type, cl.x)
    BY <1>1, Zenon DEF TodoFits, StepFits
  <1>3. Rows(ctx.work) /\ DOMAIN ctx = CtxFields
    BY <1>1, DoingFits, TopFits
  <1>4. open \subseteq DOMAIN ctx.work /\ \A p \in open : ctx.work[p].type = cl.type
    BY DEF Parts
  <1>5. ctx' = [ctx EXCEPT !.group = ctx.group, !.frames = Append(Front(@), [Top EXCEPT !.todo = calls \o Tail(Top.todo)])]
    BY <1>3 DEF Cascade, CtxFields
  <1>6. IsSeq(calls) /\ \A s \in Range(calls) : TodoFits(ctx.work, Top, s)
    <2> HIDE DEF cl, open
    <2> QED BY <1>2, <1>3, <1>4, CallsFit
  <1> HIDE DEF calls
  <1> QED BY <1>1, <1>5, <1>6, AheadKeeps, Zenon

LEMMA SettleKeeps ==
  ASSUME RowsInv, Settle
  PROVE  RowsInv'
  <1>1. Doing("settle") /\ objects' = objects
    BY DoingFits, Zenon DEF Settle
  <1>2. Go(ctx) \/ (\E clause : Refuse(clause))
    BY Zenon DEF Settle
  <1> QED BY <1>1, <1>2, GoAsIs, RefuseKeeps

LEMMA UngroupKeeps ==
  ASSUME RowsInv, Ungroup
  PROVE  RowsInv'
  <1>1. Doing("ungroup")
    BY DEF Ungroup
  <1>2. DOMAIN ctx = CtxFields
    BY <1>1, DoingFits, TopFits
  <1>3. ctx' = [ctx EXCEPT !.group = FALSE, !.frames = Rest(@)]
    BY <1>2 DEF Ungroup, Go, CtxFields
  <1> QED BY <1>1, <1>3, GoKeeps, Zenon

\* No chain joins an object to a proposal.
LEMMA GroupDeclared ==
  ASSUME NEW w, Rows(w), NEW id \in DOMAIN w, w[id].type \in DOMAIN Decl
  PROVE  \A k \in Group(w, id) : k \in DOMAIN w /\ w[k].type \in DOMAIN Decl
  <1> DEFINE S == {k \in DOMAIN w : w[k].type \in DOMAIN Decl}
  <1>1. S \in SUBSET DOMAIN w /\ id \in S
    OBVIOUS
  <1>2. Ahead(w, S)
    <2> SUFFICES ASSUME NEW k \in S PROVE w[k].next \in S \cup {None}
      BY DEF Ahead
    <2>1. DeclaredRow(w, w[k])
      BY RowFacts
    <2> QED BY <2>1, Zenon DEF DeclaredRow
  <1>3. Behind(w, S)
    <2> SUFFICES ASSUME NEW k \in DOMAIN w, w[k].next \in S PROVE k \in S
      BY DEF Behind
    <2>1. w[k].next # None
      BY RowFacts
    <2>2. ~ ProposalRow(w[k]) /\ RowFits(w, w[k])
      BY <2>1 DEF ProposalRow, Rows
    <2> QED BY <2>2, Zenon DEF RowFits, DeclaredRow
  <1> QED BY <1>1, <1>2, <1>3 DEF Group

LEMMA ChainKeeps ==
  ASSUME RowsInv, Chain
  PROVE  RowsInv'
  <1> DEFINE S == Group(ctx.work, Top.id) \ {Top.id}
             ids == ToSeq(S)
             members == [i \in DOMAIN ids |-> [op |-> "member", id |-> ids[i]]]
             last == [op |-> "ungroup"]
  <1>1. Doing("chain")
    BY DEF Chain
  <1>2. /\ DOMAIN ctx = CtxFields /\ Rows(ctx.work) /\ Top.id \in DOMAIN ctx.work
        /\ ctx.work[Top.id].type \in DOMAIN Decl
    BY <1>1, DoingFits, TopFits
  <1>3. \A k \in S : k \in DOMAIN ctx.work /\ ctx.work[k].type \in DOMAIN Decl
    BY <1>2, GroupDeclared
  <1>4. S \subseteq Nat /\ IsFiniteSet(S)
    <2>1. Cardinality(DOMAIN ctx.work) \in Nat
      BY <1>2, FS_CardinalityType DEF Rows
    <2>2. DOMAIN ctx.work \subseteq Nat
      BY <1>2, <2>1 DEF Rows
    <2> HIDE DEF S
    <2> QED BY <1>2, <1>3, <2>2, FS_Subset DEF Rows
  <1> HIDE DEF S
  <1>5. ids \in [1..Cardinality(S) -> S] /\ Cardinality(S) \in Nat
    BY <1>4, ToSeqFits
  <1> HIDE DEF ids
  <1>6. IsSeq(members) /\ \A st \in Range(members) : TodoFits(ctx.work, Top, st)
    <2>1. DOMAIN members = 1..Cardinality(S) /\ \A i \in 1..Cardinality(S) : members[i].op = "member" /\ members[i].id = ids[i]
      BY <1>5
    <2>2. members \in Seq(Range(members))
      <3>1. members \in [1..Cardinality(S) -> Range(members)]
        BY <1>5, <2>1 DEF Range
      <3> HIDE DEF members
      <3> QED BY <1>5, <3>1
    <2>3. ASSUME NEW st \in Range(members) PROVE TodoFits(ctx.work, Top, st)
      <3>1. PICK i \in 1..Cardinality(S) : st = members[i]
        BY <2>1, <2>3 DEF Range
      <3>2. st.op = "member" /\ st.id \in S
        BY <1>5, <2>1, <3>1
      <3> QED BY <1>3, <3>2 DEF TodoFits
    <2> QED BY <2>2, <2>3 DEF IsSeq
  <1> DEFINE more == Append(members, last)
  <1>7. IsSeq(more) /\ \A st \in Range(more) : TodoFits(ctx.work, Top, st)
    <2> HIDE DEF members
    <2>1. IsSeq(more) /\ Range(more) = Range(members) \cup {last}
      BY <1>6, SeqAppend
    <2>2. TodoFits(ctx.work, Top, last)
      BY DEF TodoFits
    <2> QED BY <1>6, <2>1, <2>2
  <1>8. CASE Go(ctx)
    BY <1>1, <1>8, GoAsIs
  <1>9. CASE ctx' = [ctx EXCEPT !.group = TRUE, !.frames = Append(Front(@), [Top EXCEPT !.todo = members \o <<last>>])]
    <2>1. members \o <<last>> = more
      <3> HIDE DEF members, last
      <3>1. members \in Seq(Range(members) \cup {last})
        BY <1>6 DEF IsSeq
      <3> QED BY <3>1
    <2> HIDE DEF members, last
    <2> DEFINE todo == more
    <2>2. ctx' = [ctx EXCEPT !.group = TRUE, !.frames = Append(Front(@), [Top EXCEPT !.todo = todo])]
      BY <1>9, <2>1, Zenon
    <2> HIDE DEF more
    <2> QED BY <1>1, <1>7, <2>2, AheadKeeps, Zenon
  <1> QED BY <1>8, <1>9 DEF Chain, S, ids

LEMMA MemberKeeps ==
  ASSUME RowsInv, Member
  PROVE  RowsInv'
  <1> DEFINE id == Head(Top.todo).id
             t == ctx.work[id].type
             xn == CHOOSE x \in Erasures(t) : TRUE
             given == Given(Top) \cap Decl[t].trans[xn].other
  <1>1. Doing("member") /\ Head(Top.todo).op = "member" /\ TodoFits(ctx.work, Top, Head(Top.todo))
    BY DoingFits, Zenon DEF Member
  <1>2. id \in DOMAIN ctx.work /\ t \in DOMAIN Decl
    BY <1>1, Zenon DEF TodoFits, StepFits
  <1>3. CASE Go(ctx)
    BY <1>1, <1>3, GoAsIs
  <1>4. CASE Erasures(t) # {} /\ Cause(Frame(t, xn, id, [k \in given |-> Top.inputs[k]], Top.pos))
    <2>1. xn \in Erasures(t)
      BY <1>4, Zenon
    <2>2. Has(t, xn)
      BY <1>2, <2>1, Zenon DEF Has, Erasures
    <2>3. Names(ctx.work, id, t)
      BY <1>2 DEF Names
    <2> DEFINE inputs == [k \in given |-> Top.inputs[k]]
    <2>4. Cause(Frame(t, xn, id, inputs, Top.pos))
      BY <1>4, Zenon
    <2> HIDE DEF inputs, xn, t, id
    <2> QED BY <1>1, <2>2, <2>3, <2>4, CauseKeeps
  <1> QED BY <1>3, <1>4, Zenon DEF Member

----------------------------------------------------------------------------
(* A transition begun.                                                     *)

LEMMA AlikeSame ==
  ASSUME NEW o, DOMAIN o = RowFields
  PROVE  Alike(o, o)
  BY DEF Alike

LEMMA AlikeTwice ==
  ASSUME NEW o, NEW p, NEW q, Alike(o, p), Alike(p, q)
  PROVE  Alike(o, q)
  BY DEF Alike

\* Every row has a row's fields.
LEMMA RowDomain ==
  ASSUME NEW w, Rows(w), NEW k \in DOMAIN w
  PROVE  DOMAIN w[k] = RowFields
  BY Zenon DEF Rows, RowFits, ProposalRow, DeclaredRow

\* What an erasure writes on the objects its values flowed into.
LEMMA RedactAlike ==
  ASSUME NEW c, DOMAIN c = CtxFields, NEW id, NEW p, NEW reached, Rows(c.work)
  PROVE  LET d == RedactOthers(c, id, p, reached) IN
         /\ DOMAIN d = CtxFields
         /\ d.phase = c.phase /\ d.first = c.first /\ d.frames = c.frames
         /\ DOMAIN d.work = DOMAIN c.work /\ \A k \in DOMAIN c.work : Alike(c.work[k], d.work[k])
  <1> DEFINE d == RedactOthers(c, id, p, reached)
             named == {EventAt(r[1]).object : r \in reached.in} \cup {r[1] : r \in reached.clear}
             ids == {k \in DOMAIN c.work \ {id} : k \in named /\ ~ (c.work[k].erased /\ k \in DOMAIN c.erased)}
             gone(k) == IF c.work[k].erased THEN {} ELSE {r \in reached.clear : r[1] = k}
             left(k) == LET o == c.work[k] IN
               [o EXCEPT !.version = @ + 1,
                  !.attrs = [a \in DOMAIN @ |-> IF \E r \in gone(k) : r[2] = a THEN Absent ELSE @[a]],
                  !.spans = [e \in DOMAIN @ |-> [i \in DOMAIN @[e] |->
                               IF <<k, e, @[e][i].pos>> \in gone(k)
                               THEN [@[e][i] EXCEPT !.value = Absent] ELSE @[e][i]]]]
  <1>1. /\ DOMAIN d = CtxFields /\ d.phase = c.phase /\ d.first = c.first /\ d.frames = c.frames
        /\ d.work = [k \in DOMAIN c.work |-> IF k \in ids THEN left(k) ELSE c.work[k]]
    BY Zenon DEF RedactOthers, CtxFields
  <1>2. ASSUME NEW k \in DOMAIN c.work PROVE Alike(c.work[k], left(k)) /\ Alike(c.work[k], c.work[k])
    <2> DEFINE o == c.work[k]
               q == left(k)
    <2> HIDE DEF gone
    <2>1. DOMAIN o = RowFields
      BY RowDomain
    <2>2. /\ DOMAIN q = RowFields /\ q.id = o.id /\ q.type = o.type /\ q.next = o.next /\ q.state = o.state
          /\ DOMAIN q.attrs = DOMAIN o.attrs /\ \A a \in DOMAIN o.attrs : q.attrs[a] \in {o.attrs[a], Absent}
      BY <2>1 DEF RowFields
    <2> HIDE DEF q
    <2>3. Alike(o, q)
      BY <2>2 DEF Alike
    <2> QED BY <2>1, <2>3, AlikeSame DEF q
  <1> HIDE DEF d, left, ids
  <1>3. DOMAIN d.work = DOMAIN c.work /\ \A k \in DOMAIN c.work : Alike(c.work[k], d.work[k])
    BY <1>1, <1>2
  <1> QED BY <1>1, <1>3 DEF d

\* The intervals recorded, or left as they were, a row is what it was.
LEMMA RecordedAlike ==
  ASSUME NEW o, NEW was, NEW p, NEW at, DOMAIN o = RowFields
  PROVE  LET q == RecordSpans(o, was, p, at) IN
         /\ DOMAIN q = RowFields /\ q.id = o.id /\ q.type = o.type /\ q.next = o.next /\ q.state = o.state
         /\ q.attrs = o.attrs /\ q.admitted = o.admitted /\ q.prop = o.prop /\ q.version = o.version
  BY DEF RecordSpans, RowFields

LEMMA SpannedAlike ==
  ASSUME NEW o, NEW was, NEW p, NEW at, DOMAIN o = RowFields
  PROVE  LET q == Spanned(o, was, p, at) IN
         /\ DOMAIN q = RowFields /\ q.id = o.id /\ q.type = o.type /\ q.next = o.next /\ q.state = o.state
         /\ q.attrs = o.attrs /\ q.admitted = o.admitted /\ q.prop = o.prop /\ q.version = o.version
  BY RecordedAlike DEF Spanned

\* What it writes on the proposals.
LEMMA InvalidateAlike ==
  ASSUME NEW c, DOMAIN c = CtxFields, NEW id, NEW p, Rows(c.work)
  PROVE  LET d == InvalidateProposals(c, id, p) IN
         /\ DOMAIN d = CtxFields
         /\ d.phase = c.phase /\ d.first = c.first /\ d.frames = c.frames
         /\ DOMAIN d.work = DOMAIN c.work /\ \A k \in DOMAIN c.work : Alike(c.work[k], d.work[k])
  <1> DEFINE d == InvalidateProposals(c, id, p)
  <1>1. DOMAIN d = CtxFields /\ d.phase = c.phase /\ d.first = c.first /\ d.frames = c.frames
    BY Zenon DEF InvalidateProposals, CtxFields
  <1>2. DOMAIN d.work = DOMAIN c.work
    BY Zenon DEF InvalidateProposals, CtxFields
  <1>3. ASSUME NEW k \in DOMAIN c.work PROVE Alike(c.work[k], d.work[k])
    <2> DEFINE o == c.work[k]
    <2>1. DOMAIN o = RowFields
      BY RowDomain
    <2>2. CASE d.work[k] = o
      BY <2>1, <2>2, AlikeSame
    <2>3. CASE d.work[k] # o
      <3>1. PICK state, inputs, was, at :
              d.work[k] = Spanned([o EXCEPT !.version = @ + 1, !.state = state, !.prop.inputs = inputs], was, at, c.at)
        BY <1>3, <2>3, Zenon DEF InvalidateProposals, CtxFields
      <3>2. o.type = PROPOSAL
        BY <1>3, <2>3, Zenon DEF InvalidateProposals, CtxFields
      <3>3. o.type \notin DOMAIN Decl
        BY <3>2, DeclAssumption, Zenon
      <3> DEFINE q == [o EXCEPT !.version = @ + 1, !.state = state, !.prop.inputs = inputs]
      <3>4. /\ DOMAIN q = RowFields /\ q.id = o.id /\ q.type = o.type /\ q.next = o.next /\ q.attrs = o.attrs
        BY <2>1 DEF RowFields
      <3>5. d.work[k] = Spanned(q, was, at, c.at)
        BY <3>1
      <3> HIDE DEF q, o, d
      <3>6. Alike(o, d.work[k])
        BY <3>3, <3>4, <3>5, SpannedAlike DEF Alike
      <3> QED BY <3>6 DEF o, d
    <2> QED BY <2>2, <2>3
  <1> QED BY <1>1, <1>2, <1>3

LEMMA ErasedAlike ==
  ASSUME NEW c, DOMAIN c = CtxFields, Rows(c.work), NEW id \in DOMAIN c.work, NEW p
  PROVE  LET d == Erased(c, c.work[id], p) IN
         /\ DOMAIN d = CtxFields
         /\ d.phase = c.phase /\ d.first = c.first /\ d.frames = c.frames
         /\ DOMAIN d.work = DOMAIN c.work /\ \A k \in DOMAIN c.work : Alike(c.work[k], d.work[k])
         /\ d.work[id].version = c.work[id].version
  <1> DEFINE o == c.work[id]
             d == Erased(c, o, p)
             gone == {a \in Personal(o.type) : o.attrs[a] # Absent}
             reached == Reached(o.id, gone)
             bare == [o EXCEPT !.erased = TRUE,
                        !.attrs = [a \in DOMAIN @ |-> IF a \in gone THEN Absent ELSE @[a]],
                        !.spans = [e \in DOMAIN @ |-> IF ~ (e \in Personal(o.type)) THEN @[e]
                                     ELSE [i \in DOMAIN @[e] |-> [@[e][i] EXCEPT !.value = Absent]]]]
             others == RedactOthers(c, o.id, p, reached)
             marked == [others EXCEPT !.erased = Marked(@, o.id, gone)]
             inv == InvalidateProposals(marked, o.id, p)
  <1>1. o.id = id /\ DOMAIN o = RowFields
    BY RowDomain DEF Rows
  <1>2. Alike(o, bare) /\ bare.id = id /\ bare.version = o.version
    <2> HIDE DEF gone
    <2>1. /\ DOMAIN bare = RowFields /\ bare.id = o.id /\ bare.type = o.type /\ bare.next = o.next /\ bare.state = o.state
          /\ bare.version = o.version
          /\ DOMAIN bare.attrs = DOMAIN o.attrs /\ \A a \in DOMAIN o.attrs : bare.attrs[a] \in {o.attrs[a], Absent}
      BY <1>1 DEF RowFields
    <2> HIDE DEF bare
    <2> QED BY <1>1, <2>1 DEF Alike
  <1>3. d = [inv EXCEPT !.work = Put(@, bare)]
    BY DEF Erased
  <1> HIDE DEF bare, reached, gone, o
  <1>4. /\ DOMAIN others = CtxFields /\ others.phase = c.phase /\ others.first = c.first /\ others.frames = c.frames
        /\ DOMAIN others.work = DOMAIN c.work /\ \A k \in DOMAIN c.work : Alike(c.work[k], others.work[k])
    BY RedactAlike
  <1>5. Rows(others.work)
    BY <1>4, RowsAlike
  <1> HIDE DEF others
  <1>6. /\ DOMAIN marked = CtxFields /\ marked.phase = c.phase /\ marked.first = c.first /\ marked.frames = c.frames
        /\ marked.work = others.work
    BY <1>4 DEF CtxFields
  <1> HIDE DEF marked
  <1>7. /\ DOMAIN inv = CtxFields /\ inv.phase = c.phase /\ inv.first = c.first /\ inv.frames = c.frames
        /\ DOMAIN inv.work = DOMAIN c.work /\ \A k \in DOMAIN c.work : Alike(marked.work[k], inv.work[k])
    BY <1>4, <1>5, <1>6, InvalidateAlike
  <1> HIDE DEF inv
  <1>8. DOMAIN d = CtxFields /\ d.phase = c.phase /\ d.first = c.first /\ d.frames = c.frames /\ d.work = Put(inv.work, bare)
    BY <1>3, <1>7 DEF CtxFields
  <1> HIDE DEF d
  <1>9. DOMAIN d.work = DOMAIN c.work /\ d.work[id] = bare /\ \A k \in DOMAIN c.work \ {id} : d.work[k] = inv.work[k]
    BY <1>2, <1>7, <1>8 DEF Put
  <1>10. ASSUME NEW k \in DOMAIN c.work PROVE Alike(c.work[k], d.work[k])
    <2>1. CASE k = id
      BY <1>2, <1>9, <2>1 DEF o
    <2>2. CASE k # id
      BY <1>4, <1>6, <1>7, <1>9, <2>2, AlikeTwice
    <2> QED BY <2>1, <2>2
  <1>11. d.work[id].version = o.version
    BY <1>2, <1>9
  <1> QED BY <1>8, <1>9, <1>10, <1>11 DEF d, o

\* What a transition has to do: the steps of its effect, its cascades and
\* what settles it.
LEMMA RemainingIs ==
  ASSUME NEW t, NEW xn, Has(t, xn)
  PROVE  /\ IsSeq(Remaining(t, xn))
         /\ \A st \in Range(Remaining(t, xn)) :
              \/ st \in Range(Decl[t].trans[xn].effect)
              \/ st.op = "cascade" /\ Has(st.clause.type, st.clause.x)
              \/ st.op \in {"settle", "chain"}
  <1> DEFINE x == Decl[t].trans[xn]
             clauses == Decl[t].cascade
             casc == [i \in DOMAIN clauses |-> [op |-> "cascade", clause |-> clauses[i]]]
             settle == <<[op |-> "settle"]>>
             chain == IF x.kind = "erasure" THEN <<[op |-> "chain"]>> ELSE <<>>
  <1>1. TypeFits(t) /\ TransFits(t, x)
    BY DeclAssumption, Zenon DEF Has, TypeFits
  <1>2. IsSeq(x.effect)
    BY <1>1 DEF TransFits
  <1>3. IsSeq(clauses) /\ \A clause \in Range(clauses) : Has(clause.type, clause.x)
    BY <1>1, Zenon DEF TypeFits
  <1>4. IsSeq(casc) /\ \A st \in Range(casc) : st.op = "cascade" /\ Has(st.clause.type, st.clause.x)
    <2>1. DOMAIN casc = 1..Len(clauses) /\ Len(clauses) \in Nat /\ DOMAIN clauses = 1..Len(clauses)
      BY <1>3 DEF IsSeq
    <2>2. casc \in [1..Len(clauses) -> Range(casc)]
      BY <2>1 DEF Range
    <2>3. \A i \in DOMAIN casc : casc[i].op = "cascade" /\ casc[i].clause = clauses[i] /\ clauses[i] \in Range(clauses)
      BY <2>1 DEF Range
    <2> HIDE DEF casc
    <2>4. casc \in Seq(Range(casc))
      BY <2>1, <2>2
    <2> QED BY <1>3, <2>3, <2>4 DEF IsSeq, Range
  <1>5. IsSeq(settle) /\ \A st \in Range(settle) : st.op = "settle"
    BY DEF IsSeq, Range
  <1>6. IsSeq(chain) /\ \A st \in Range(chain) : st.op = "chain"
    <2>1. IsSeq(<<>>) /\ Range(<<>>) = {}
      BY DEF IsSeq, Range
    <2>2. IsSeq(<<[op |-> "chain"]>>) /\ \A st \in Range(<<[op |-> "chain"]>>) : st.op = "chain"
      BY DEF IsSeq, Range
    <2> QED BY <2>1, <2>2
  <1>7. Remaining(t, xn) = x.effect \o casc \o settle \o chain
    BY DEF Remaining
  <1> HIDE DEF casc, settle, chain
  <1>8. /\ IsSeq(x.effect \o casc \o settle \o chain)
        /\ Range(x.effect \o casc \o settle \o chain) = Range(x.effect) \cup Range(casc) \cup Range(settle) \cup Range(chain)
    <2>1. IsSeq(x.effect \o casc) /\ Range(x.effect \o casc) = Range(x.effect) \cup Range(casc)
      BY <1>2, <1>4, SeqCat
    <2>2. IsSeq(x.effect \o casc \o settle) /\ Range(x.effect \o casc \o settle) = Range(x.effect) \cup Range(casc) \cup Range(settle)
      BY <1>5, <2>1, SeqCat
    <2> QED BY <1>6, <2>2, SeqCat
  <1> QED BY <1>4, <1>5, <1>6, <1>7, <1>8

\* It fits the transition.
LEMMA RemainingFits ==
  ASSUME NEW t, NEW xn, Has(t, xn)
  PROVE  /\ IsSeq(Remaining(t, xn))
         /\ \A w, f : f.type = t /\ f.x = xn => \A st \in Range(Remaining(t, xn)) : TodoFits(w, f, st)
  <1>1. \A st \in Range(Decl[t].trans[xn].effect) : StepFits(t, Decl[t].trans[xn], st)
    BY DeclAssumption, Zenon DEF Has, TypeFits, TransFits
  <1>2. ASSUME NEW w, NEW f, f.type = t, f.x = xn, NEW st \in Range(Remaining(t, xn))
        PROVE  TodoFits(w, f, st)
    BY <1>1, <1>2, RemainingIs DEF TodoFits, X
  <1> QED BY <1>2, RemainingIs

\* A row written on the working copy, whether it is of it or one more.
LEMMA PutFits ==
  ASSUME NEW w, Rows(w), NEW o, RowFits(w, o),
         \/ o.id \in DOMAIN w /\ o.type = w[o.id].type
         \/ o.id = Cardinality(DOMAIN w) + 1
  PROVE  Rows(Put(w, o)) /\ Grown(w, Put(w, o)) /\ o.id \in DOMAIN Put(w, o) /\ Put(w, o)[o.id] = o
  <1> DEFINE u == Put(w, o)
  <1>1. DOMAIN u = DOMAIN w \cup {o.id} /\ u[o.id] = o /\ \A k \in DOMAIN w \ {o.id} : u[k] = w[k]
    BY DEF Put
  <1> HIDE DEF u
  <1>2. Rows(u) /\ Grown(w, u)
    BY <1>1, RowsSet
  <1> QED BY <1>1, <1>2 DEF u

\* The object a transition is taken of, found or made.
LEMMA NewFits ==
  ASSUME NEW w, NEW id, id # None, NEW t \in DOMAIN Decl, NEW state \in DOMAIN Decl[t].states
  PROVE  RowFits(w, New(id, t, state)) /\ New(id, t, state).id = id /\ New(id, t, state).type = t
  <1> DEFINE o == New(id, t, state)
  <1>1. /\ DOMAIN o = RowFields /\ o.id = id /\ o.type = t /\ o.state = state /\ o.attrs = Blank(t) /\ o.next = None
    BY DEF New, RowFields
  <1> HIDE DEF o
  <1>2. DOMAIN Blank(t) = Attrs(t) /\ \A a \in Attrs(t) : Blank(t)[a] = Absent
    BY DEF Blank
  <1>3. DeclaredRow(w, o)
    BY <1>1, <1>2, Zenon DEF DeclaredRow
  <1> QED BY <1>1, <1>3 DEF RowFits, o

\* A frame begun: its object's own transition, with all of it to do.
BegunFrame(g) ==
  /\ g.begun /\ g.type = Top.type /\ g.x = Top.x /\ g.inputs = Top.inputs /\ g.cause = Top.cause
  /\ g.pos = ctx.next /\ g.todo = Remaining(Top.type, Top.x)

\* What that leaves of the rows: their successors, and of all but its own
\* object their states.
BegunRows(w, id) ==
  /\ DOMAIN w = DOMAIN ctx.work \cup {id}
  /\ \A k \in DOMAIN ctx.work :
       /\ w[k].next = ctx.work[k].next /\ w[k].type = ctx.work[k].type
       /\ k # id /\ ctx.work[k].type \in DOMAIN Decl => w[k].state = ctx.work[k].state
  /\ w[id].type = Top.type
  /\ id \in DOMAIN ctx.work =>
       /\ id = Top.id /\ X(Top).kind # "initial"
       /\ w[id].state = CASE X(Top).kind = "external" -> X(Top).to
                          [] X(Top).kind = "assertion" -> ctx.to
                          [] OTHER -> ctx.work[id].state
  /\ id \notin DOMAIN ctx.work => X(Top).kind = "initial" /\ w[id].next = None /\ w[id].state = X(Top).to

\* And of the events, and of the rows but its own: what an erasure leaves of
\* them, if it is one.
BegunEvents(e, id) ==
  \E c, d :
    /\ DOMAIN c = CtxFields /\ Rows(c.work)
    /\ c.next = ctx.next + 1 /\ c.events = ctx.events /\ c.root = ctx.root
    /\ DOMAIN c.work = DOMAIN ctx.work \cup {id} /\ \A k \in DOMAIN ctx.work : c.work[k] = ctx.work[k]
    /\ c.work[id].type = Top.type /\ (id \notin DOMAIN ctx.work => c.work[id].version = 0)
    /\ d = c \/ d = Erased(c, c.work[id], ctx.next)
    /\ e.next = d.next /\ e.events = d.events /\ e.root = d.root /\ e.first = ctx.first /\ e.phase = "take"
    /\ DOMAIN e.work = DOMAIN c.work /\ \A k \in DOMAIN c.work \ {id} : e.work[k] = d.work[k]
    /\ e.work[id].version = c.work[id].version

LEMMA BeginLeaves ==
  ASSUME RowsInv, Begin
  PROVE  \/ \E clause : Refuse(clause)
         \/ /\ Checked(Top) = "ok"
            /\ \E e, g : /\ ctx' = e /\ Deciding(e) /\ e.frames = Append(Front(ctx.frames), g)
                         /\ BegunFrame(g) /\ BegunRows(e.work, g.id) /\ BegunEvents(e, g.id)
  <1> DEFINE f == Top
             x == X(f)
             p == ctx.next
             found == IF f.id # None THEN ctx.work[f.id]
                      ELSE New(Cardinality(DOMAIN ctx.work) + 1, f.type, x.to)
             c == [ctx EXCEPT !.next = @ + 1, !.work = Put(@, found),
                              !.asserted = IF x.kind = "assertion" THEN f.id ELSE @]
             d == IF x.kind = "erasure" THEN Erased(c, found, p) ELSE c
             takes == Given(f) \cap (x.required \cup x.optional)
             o == [d.work[found.id] EXCEPT
                     !.state = CASE x.kind = "external" -> x.to
                                 [] x.kind = "assertion" -> ctx.to
                                 [] OTHER -> @,
                     !.attrs = [a \in DOMAIN @ |-> IF a \in takes THEN f.inputs[a] ELSE @[a]]]
             g == [f EXCEPT !.begun = TRUE, !.id = o.id, !.pos = p,
                            !.from = IF f.id = None THEN "" ELSE found.state,
                            !.was = Tracks(found), !.attrs = found.attrs,
                            !.todo = Remaining(f.type, f.x)]
             e == [d EXCEPT !.work = Put(@, o), !.wrote = Over(@, [k \in {o.id} |-> takes]),
                            !.frames = Append(Front(@), g)]
  <1>1. ctx.phase = "take" /\ ctx.frames # <<>> /\ ~ Top.begun /\ objects' = objects
    BY Zenon DEF Begin
  <1>2. /\ DOMAIN ctx = CtxFields /\ Rows(ctx.work) /\ FrameFits(ctx.work, f) /\ IsSeq(ctx.frames)
        /\ \A h \in Range(ctx.frames) : FrameFits(ctx.work, h)
    BY <1>1, TopFits
  <1>3. CASE Checked(f) # "ok"
    BY <1>3, Zenon DEF Begin
  <1>4. CASE Checked(f) = "ok"
    <2>1. ctx' = e
      BY <1>4, Zenon DEF Begin
    <2>2. Has(f.type, f.x) /\ TypeFits(f.type) /\ TransFits(f.type, x)
      BY <1>2, DeclAssumption, Zenon DEF FrameFits, Has, TypeFits, X
    <2>3. InputsFit(f) /\ AssertionFits(f) /\ (x.kind = "initial" <=> f.id = None)
      BY <1>4 DEF Checked
    <2>4. /\ RowFits(ctx.work, found) /\ found.type = f.type /\ found.type \in DOMAIN Decl /\ found.id # None
          /\ \/ /\ found.id \in DOMAIN ctx.work /\ found.type = ctx.work[found.id].type
                /\ found.id = f.id /\ f.id # None /\ found = ctx.work[f.id]
             \/ /\ found.id = Cardinality(DOMAIN ctx.work) + 1 /\ f.id = None
                /\ found.next = None /\ found.state = x.to /\ found.version = 0
      <3>1. CASE f.id # None
        <4>1. f.id \in DOMAIN ctx.work /\ ctx.work[f.id].type = f.type /\ f.type \in DOMAIN Decl
          BY <1>2, <2>2, <3>1, Zenon DEF FrameFits, Names, Has
        <4>2. ctx.work[f.id].id = f.id /\ RowFits(ctx.work, ctx.work[f.id])
          BY <1>2, <4>1 DEF Rows
        <4> QED BY <3>1, <4>1, <4>2
      <3>2. CASE f.id = None
        <4> DEFINE n == Cardinality(DOMAIN ctx.work) + 1
        <4>1. n # None
          <5>1. Cardinality(DOMAIN ctx.work) \in Nat
            BY <1>2, FS_CardinalityType DEF Rows
          <5> QED BY <5>1 DEF None
        <4>2. f.type \in DOMAIN Decl /\ x.to \in DOMAIN Decl[f.type].states
          BY <2>2, <2>3, <3>2 DEF Has, TransFits
        <4>3. found = New(n, f.type, x.to)
          BY <3>2
        <4> HIDE DEF n, found, x
        <4>4. RowFits(ctx.work, found) /\ found.id = n /\ found.type = f.type
          BY <4>1, <4>2, <4>3, NewFits
        <4>5. found.next = None /\ found.state = x.to /\ found.version = 0
          BY <4>3 DEF New
        <4> QED BY <3>2, <4>1, <4>2, <4>4, <4>5 DEF n
      <3> QED BY <3>1, <3>2
    <2> DEFINE w == Put(ctx.work, found)
    <2>5. Rows(w) /\ Grown(ctx.work, w) /\ found.id \in DOMAIN w /\ w[found.id] = found
      <3> HIDE DEF found
      <3> QED BY <1>2, <2>4, PutFits
    <2> HIDE DEF found
    <2>6. DOMAIN c = CtxFields /\ c.phase = "take" /\ c.first = ctx.first /\ c.frames = ctx.frames /\ c.work = w
          /\ c.next = p + 1 /\ c.events = ctx.events /\ c.root = ctx.root
      BY <1>1, <1>2 DEF CtxFields
    <2>18. found.id \notin DOMAIN ctx.work => f.id = None
      BY <2>4
    <2>19. f.id = None => found.id \notin DOMAIN ctx.work
      <3>1. Cardinality(DOMAIN ctx.work) \in Nat
        BY <1>2, FS_CardinalityType DEF Rows
      <3>2. Cardinality(DOMAIN ctx.work) + 1 \notin DOMAIN ctx.work
        BY <1>2, <3>1 DEF Rows
      <3> QED BY <2>4, <3>2
    <2>20. DOMAIN w = DOMAIN ctx.work \cup {found.id} /\ \A k \in DOMAIN ctx.work : w[k] = ctx.work[k]
      BY <2>4, <2>18, <2>19 DEF Put
    <2>21. d = c \/ d = Erased(c, c.work[found.id], p)
      <3>1. c.work[found.id] = found /\ found.id \in DOMAIN c.work
        BY <2>5, <2>6
      <3> HIDE DEF c, p, found, w
      <3> QED BY <3>1
    <2> HIDE DEF c, w
    <2>7. /\ DOMAIN d = CtxFields /\ d.phase = "take" /\ d.first = ctx.first /\ d.frames = ctx.frames
          /\ DOMAIN d.work = DOMAIN w /\ \A k \in DOMAIN w : Alike(w[k], d.work[k])
          /\ d.work[found.id].version = found.version
      <3>1. CASE x.kind = "erasure"
        <4>1. found = c.work[found.id] /\ found.id \in DOMAIN c.work /\ Rows(c.work)
          BY <2>5, <2>6
        <4>2. d = Erased(c, c.work[found.id], p)
          BY <3>1, <4>1
        <4> HIDE DEF d, p
        <4> QED BY <2>6, <4>1, <4>2, ErasedAlike
      <3>2. CASE x.kind # "erasure"
        <4>1. \A k \in DOMAIN w : Alike(w[k], w[k])
          BY <2>5, RowDomain, AlikeSame
        <4> QED BY <2>5, <2>6, <3>2, <4>1
      <3> QED BY <3>1, <3>2
    <2> HIDE DEF d
    <2>8. Rows(d.work) /\ Grown(w, d.work) /\ Grown(ctx.work, d.work)
      <3>1. Rows(d.work) /\ Grown(w, d.work)
        BY <2>5, <2>7, RowsAlike
      <3> QED BY <2>5, <3>1 DEF Grown
    <2> DEFINE row == d.work[found.id]
    <2>9. found.id \in DOMAIN d.work /\ row.type = f.type /\ row.id = found.id /\ DeclaredRow(d.work, row)
      <3>1. found.id \in DOMAIN d.work /\ row.type = f.type /\ f.type \in DOMAIN Decl
        BY <2>4, <2>5, <2>7 DEF Alike
      <3> QED BY <2>8, <3>1, RowFacts
    <2>10. /\ DOMAIN o = RowFields /\ o.id = row.id /\ o.type = row.type /\ o.next = row.next
           /\ o.version = row.version
           /\ o.state \in {x.to, ctx.to, row.state}
           /\ x.kind \notin {"external", "assertion"} => o.state = row.state
           /\ x.kind = "external" => o.state = x.to
           /\ x.kind = "assertion" => o.state = ctx.to
           /\ DOMAIN o.attrs = DOMAIN row.attrs
           /\ \A a \in DOMAIN o.attrs : o.attrs[a] = IF a \in takes THEN f.inputs[a] ELSE row.attrs[a]
      <3>1. DOMAIN row = RowFields
        BY <2>9, Zenon DEF DeclaredRow
      <3> HIDE DEF row, takes, f, x
      <3>2. o = [row EXCEPT !.state = CASE x.kind = "external" -> x.to
                                        [] x.kind = "assertion" -> ctx.to
                                        [] OTHER -> row.state,
                            !.attrs = [a \in DOMAIN row.attrs |-> IF a \in takes THEN f.inputs[a] ELSE row.attrs[a]]]
        BY DEF row
      <3> HIDE DEF o
      <3> QED BY <3>1, <3>2 DEF RowFields
    <2> HIDE DEF o, row
    <2>11. RowFits(d.work, o)
      <3>1. o.state \in DOMAIN Decl[o.type].states
        <4>1. x.kind = "external" => x.to \in DOMAIN Decl[f.type].states
          BY <2>2 DEF TransFits
        <4>2. x.kind = "assertion" => ctx.to \in DOMAIN Decl[f.type].states
          BY <2>2, <2>3 DEF AssertionFits, TransFits
        <4>3. row.state \in DOMAIN Decl[f.type].states
          BY <2>9, Zenon DEF DeclaredRow
        <4> QED BY <2>9, <2>10, <4>1, <4>2, <4>3
      <3>2. ASSUME NEW a \in Attrs(o.type), Decl[o.type].attrs[a].ref # "", o.attrs[a] # Absent
            PROVE  Names(d.work, o.attrs[a], Decl[o.type].attrs[a].ref)
        <4>1. a \in Attrs(f.type) /\ DOMAIN o.attrs = Attrs(f.type) /\ o.type = f.type
          BY <2>9, <2>10, <3>2, Zenon DEF DeclaredRow
        <4>2. CASE a \in takes
          <5>1. a \notin DOMAIN x.refs /\ a \in Given(f) /\ o.attrs[a] = f.inputs[a]
            BY <2>2, <2>10, <4>1, <4>2 DEF TransFits
          <5>2. InputRef(f.type, x, a) = Decl[f.type].attrs[a].ref
            BY <4>1, <5>1 DEF InputRef
          <5>3. Names(ctx.work, f.inputs[a], Decl[f.type].attrs[a].ref)
            BY <2>3, <3>2, <4>1, <5>1, <5>2, Zenon DEF InputsFit, RefersIn, Names, Given
          <5> QED BY <2>8, <4>1, <5>1, <5>3 DEF Grown, Names
        <4>3. CASE a \notin takes
          <5>1. o.attrs[a] = row.attrs[a]
            BY <2>10, <4>1, <4>3
          <5> QED BY <2>9, <3>2, <4>1, <5>1, Zenon DEF DeclaredRow
        <4> QED BY <4>2, <4>3
      <3> QED BY <2>9, <2>10, <3>1, <3>2, Zenon DEF RowFits, DeclaredRow
    <2>12. Rows(Put(d.work, o)) /\ Grown(d.work, Put(d.work, o)) /\ o.id \in DOMAIN Put(d.work, o)
           /\ Put(d.work, o)[o.id] = o
      BY <2>8, <2>9, <2>10, <2>11, PutFits DEF row
    <2> DEFINE u == Put(d.work, o)
    <2>13. Grown(ctx.work, u)
      BY <2>8, <2>12 DEF Grown
    <2>22. /\ DOMAIN g = FrameFields /\ g.type = f.type /\ g.x = f.x /\ g.id = o.id /\ g.inputs = f.inputs
           /\ g.todo = Remaining(f.type, f.x) /\ g.begun /\ g.cause = f.cause /\ g.pos = p
      BY <1>2, Zenon DEF FrameFits, FrameFields
    <2>14. FrameFits(u, g)
      <3>1. /\ DOMAIN g = FrameFields /\ g.type = f.type /\ g.x = f.x /\ g.id = o.id /\ g.inputs = f.inputs
            /\ g.todo = Remaining(f.type, f.x)
        BY <2>22
      <3> HIDE DEF g
      <3>2. o.id # None /\ Names(u, o.id, f.type)
        BY <2>4, <2>9, <2>10, <2>12 DEF Names
      <3>3. ASSUME NEW n \in DOMAIN f.inputs, InputRef(f.type, x, n) # ""
            PROVE  Names(u, f.inputs[n], InputRef(f.type, x, n))
        BY <2>3, <2>13, <3>3, Zenon DEF InputsFit, RefersIn, Names, Grown
      <3>4. x.other \subseteq DOMAIN f.inputs
        BY <2>3, Zenon DEF InputsFit, Needed, Given
      <3>5. IsSeq(g.todo) /\ \A st \in Range(g.todo) : TodoFits(u, g, st)
        BY <2>2, <3>1, RemainingFits
      <3>6. X(g) = x
        BY <3>1 DEF X
      <3> HIDE DEF x
      <3> QED BY <2>2, <3>1, <3>2, <3>3, <3>4, <3>5, <3>6, Zenon DEF FrameFits
    <2>15. /\ DOMAIN e = CtxFields /\ e.phase = "take" /\ e.first = ctx.first /\ e.work = u
           /\ e.frames = Append(Front(ctx.frames), g) /\ e.next = d.next /\ e.events = d.events
           /\ e.root = d.root
      BY <2>7 DEF CtxFields
    <2>23. DOMAIN u = DOMAIN d.work /\ u[o.id] = o /\ \A k \in DOMAIN d.work \ {o.id} : u[k] = d.work[k]
      BY <2>9, <2>10 DEF Put
    <2> HIDE DEF e, u, g
    <2>16. IsSeq(e.frames) /\ \A h \in Range(e.frames) : FrameFits(u, h)
      <3>1. \A h \in Range(ctx.frames) : FrameFits(u, h)
        BY <1>2, <2>13, FitsGrown
      <3>2. IsSeq(Append(Front(ctx.frames), g)) /\ \A h \in Range(Append(Front(ctx.frames), g)) : FrameFits(u, h)
        BY <1>1, <1>2, <2>14, <3>1, FramesSet
      <3> QED BY <2>15, <3>2
    <2>17. Deciding(e)
      <3>1. Rows(e.work) /\ Grown(ctx.work, e.work)
        BY <2>12, <2>13, <2>15 DEF u
      <3> QED BY <1>1, <2>15, <2>16, <3>1, TopFits, DecidingStep
    <2>24. BegunFrame(g)
      BY <2>22 DEF BegunFrame
    <2>25. BegunRows(u, g.id)
      <3> DEFINE id == found.id
      <3>1. g.id = id /\ o.id = id
        BY <2>9, <2>10, <2>22
      <3>2. DOMAIN u = DOMAIN ctx.work \cup {id}
        BY <2>7, <2>20, <2>23
      <3>3. \A k \in DOMAIN w : /\ d.work[k].next = w[k].next /\ d.work[k].type = w[k].type
                                /\ w[k].type \in DOMAIN Decl => d.work[k].state = w[k].state
        BY <2>7 DEF Alike
      <3>4. o.type = f.type /\ o.next = found.next /\ row.state = found.state
        <4>1. row.next = found.next /\ row.state = found.state
          <5>1. /\ d.work[found.id].next = w[found.id].next
                /\ w[found.id].type \in DOMAIN Decl => d.work[found.id].state = w[found.id].state
            BY <2>5, <3>3
          <5> QED BY <2>4, <2>5, <5>1 DEF row
        <4> QED BY <2>9, <2>10, <4>1
      <3>5. ASSUME NEW k \in DOMAIN ctx.work
            PROVE  /\ u[k].next = ctx.work[k].next /\ u[k].type = ctx.work[k].type
                   /\ k # id /\ ctx.work[k].type \in DOMAIN Decl => u[k].state = ctx.work[k].state
        <4>1. k \in DOMAIN w /\ w[k] = ctx.work[k] /\ k \in DOMAIN d.work
          BY <2>7, <2>20
        <4>2. CASE k = id
          <5>1. u[k] = o /\ ctx.work[k] = found
            BY <2>5, <2>23, <3>1, <4>1, <4>2
          <5> QED BY <2>4, <3>4, <4>2, <5>1
        <4>3. CASE k # id
          <5>1. u[k] = d.work[k]
            BY <2>23, <3>1, <4>1, <4>3
          <5> QED BY <3>3, <4>1, <5>1
        <4> HIDE DEF u, id
        <4> QED BY <4>2, <4>3
      <3>6. CASE f.id # None
        <4>1. id \in DOMAIN ctx.work /\ id = f.id /\ x.kind # "initial" /\ found.state = ctx.work[id].state
          BY <2>3, <2>4, <2>18, <3>6
        <4> HIDE DEF x
        <4>2. o.state = CASE x.kind = "external" -> x.to
                          [] x.kind = "assertion" -> ctx.to
                          [] OTHER -> ctx.work[id].state
          BY <2>10, <3>4, <4>1
        <4> HIDE DEF id
        <4> QED BY <2>23, <3>1, <3>2, <3>4, <3>5, <4>1, <4>2 DEF BegunRows, x
      <3>7. CASE f.id = None
        <4>1. id \notin DOMAIN ctx.work /\ x.kind = "initial" /\ found.next = None /\ found.state = x.to
          BY <2>3, <2>4, <2>19, <3>7
        <4> HIDE DEF x
        <4>2. o.state = x.to
          BY <2>10, <3>4, <4>1
        <4> HIDE DEF id
        <4> QED BY <2>23, <3>1, <3>2, <3>4, <3>5, <4>1, <4>2 DEF BegunRows, x
      <3> QED BY <3>6, <3>7
    <2>26. BegunEvents(e, g.id)
      <3> DEFINE id == found.id
      <3>1. Rows(c.work) /\ g.id = id /\ o.id = id
        BY <2>5, <2>6, <2>9, <2>10, <2>22
      <3>2. DOMAIN u = DOMAIN w /\ \A k \in DOMAIN w \ {id} : u[k] = d.work[k]
        BY <2>7, <2>23, <3>1
      <3> HIDE DEF id
      <3>3. d = c \/ d = Erased(c, c.work[id], p)
        BY <2>21 DEF id
      <3>4. /\ DOMAIN c.work = DOMAIN ctx.work \cup {id} /\ \A k \in DOMAIN ctx.work : c.work[k] = ctx.work[k]
            /\ c.work[id].type = Top.type /\ (id \notin DOMAIN ctx.work => c.work[id].version = 0)
        BY <2>4, <2>5, <2>6, <2>20 DEF id
      <3>5. DOMAIN e.work = DOMAIN c.work /\ \A k \in DOMAIN c.work \ {id} : e.work[k] = d.work[k]
        BY <2>6, <2>15, <3>2
      <3>8. e.work[id].version = c.work[id].version
        <4>1. u[id] = o /\ o.version = row.version /\ c.work[found.id] = found
          BY <2>5, <2>6, <2>10, <2>23, <3>1
        <4> QED BY <2>7, <2>15, <4>1 DEF id, row
      <3>6. /\ c.next = ctx.next + 1 /\ c.events = ctx.events /\ c.root = ctx.root /\ DOMAIN c = CtxFields
            /\ e.next = d.next /\ e.events = d.events /\ e.root = d.root /\ e.first = ctx.first /\ e.phase = "take"
        BY <2>6, <2>15
      <3> HIDE DEF f, x, takes
      <3>7. BegunEvents(e, id)
        BY <3>1, <3>3, <3>4, <3>5, <3>6, <3>8, Zenon DEF BegunEvents
      <3> QED BY <3>1, <3>7
    <2> QED BY <1>4, <2>1, <2>15, <2>17, <2>24, <2>25, <2>26
  <1> QED BY <1>3, <1>4

LEMMA BeginKeeps ==
  ASSUME RowsInv, Begin
  PROVE  RowsInv'
  <1>1. objects' = objects
    BY Zenon DEF Begin
  <1> QED BY <1>1, BeginLeaves, RefuseKeeps, RowsStay

\* What a transition leaves behind: its row, that keeps its place and its type,
\* and its event.
LEMMA LeaveLeaves ==
  ASSUME RowsInv, Leave
  PROVE  \/ Refuse("occurred_within")
         \/ \E done, e, last, wrote :
              /\ DOMAIN done = RowFields /\ done.id = Top.id /\ done.type = ctx.work[Top.id].type
              /\ done.next = ctx.work[Top.id].next /\ done.state = ctx.work[Top.id].state
              /\ done.attrs = ctx.work[Top.id].attrs /\ done.version = ctx.work[Top.id].version + 1
              /\ DOMAIN e = EventFields /\ e.pos = Top.pos /\ e.cause = Top.cause
              /\ e.x = Top.x /\ e.object = Top.id /\ e.seq = done.version /\ e.to = done.state
              /\ ctx' = [ctx EXCEPT !.work = [@ EXCEPT ![Top.id] = done], !.events = ctx.events \cup {e},
                                    !.last = last, !.wrote = wrote, !.frames = Front(@)]
  <1>1. ctx.phase = "take" /\ ctx.frames # <<>> /\ Top.begun
    BY Zenon DEF Leave
  <1>2. DOMAIN ctx = CtxFields /\ Top.id \in DOMAIN ctx.work /\ ctx.work[Top.id].id = Top.id
        /\ DOMAIN ctx.work[Top.id] = RowFields
    BY <1>1, TopFits, Zenon DEF DeclaredRow
  <1> DEFINE held == ctx.work[Top.id]
             x == X(Top)
             fixes == {m \in x.corrects : /\ m \in Tracked(Top.type) /\ held.attrs[m] # Top.attrs[m]
                                          /\ held.spans[m] # <<>>}
             o == [held EXCEPT !.spans = [d \in DOMAIN @ |->
                     IF d \in fixes THEN CorrectSpan(@[d], held.attrs[d]) ELSE @[d]]]
             was == [d \in DOMAIN Top.was |-> IF d \in fixes THEN held.attrs[d] ELSE Top.was[d]]
             touched == (IF Top.id \in DOMAIN ctx.wrote THEN ctx.wrote[Top.id] ELSE {}) \cup {a \in DOMAIN o.attrs : o.attrs[a] # Top.attrs[a]}
             done == [RecordSpans(o, was, Top.pos, ctx.at) EXCEPT
                        !.version = @ + 1,
                        !.writes = [a \in DOMAIN @ |-> IF a \in touched THEN Top.pos ELSE @[a]]]
             source == CASE x.kind = "assertion" -> "asserted"
                         [] x.kind = "erasure" -> "erased"
                         [] x.corrects # {} -> "corrected"
                         [] OTHER -> "observed"
             e == Event(Top.pos, done, Top.x, Top.from, source, Top.cause,
                        IF x.kind = "erasure" THEN EmptyFn ELSE Top.inputs,
                        WroteBetween(Base(ctx, Top.id), done.attrs), NotHeld)
             last == Over(ctx.last, [k \in {Top.id} |-> done.attrs])
             wrote == [k \in DOMAIN ctx.wrote \ {Top.id} |-> ctx.wrote[k]]
  <1>3. \/ Refuse("occurred_within")
        \/ ctx' = [ctx EXCEPT !.work[Top.id] = done, !.events = @ \cup {e}, !.last = Over(@, [k \in {Top.id} |-> done.attrs]),
                              !.wrote = [k \in DOMAIN @ \ {Top.id} |-> @[k]], !.frames = Front(@)]
    BY Zenon DEF Leave
  <1>4. /\ DOMAIN o = RowFields /\ o.id = Top.id /\ o.type = held.type /\ o.next = held.next
        /\ o.state = held.state /\ o.attrs = held.attrs /\ o.version = held.version
    BY <1>2 DEF RowFields
  <1>5. /\ DOMAIN e = EventFields /\ e.pos = Top.pos /\ e.cause = Top.cause /\ e.x = Top.x /\ e.object = done.id
        /\ e.seq = done.version /\ e.to = done.state
    BY Zenon DEF Event, EventFields
  <1> HIDE DEF e, o, was, touched
  <1>6. /\ DOMAIN done = RowFields /\ done.id = Top.id /\ done.type = held.type /\ done.next = held.next
        /\ done.state = held.state /\ done.attrs = held.attrs /\ done.version = held.version + 1
    <2> DEFINE q == RecordSpans(o, was, Top.pos, ctx.at)
    <2>1. /\ DOMAIN q = RowFields /\ q.id = o.id /\ q.type = o.type /\ q.next = o.next /\ q.state = o.state
          /\ q.attrs = o.attrs /\ q.version = o.version
      BY <1>4, RecordedAlike
    <2> HIDE DEF q
    <2>2. done = [q EXCEPT !.version = @ + 1,
                           !.writes = [a \in DOMAIN @ |-> IF a \in touched THEN Top.pos ELSE @[a]]]
      BY DEF q
    <2> HIDE DEF done
    <2> QED BY <1>4, <2>1, <2>2 DEF RowFields
  <1> HIDE DEF done
  <1>7. \/ Refuse("occurred_within")
        \/ ctx' = [ctx EXCEPT !.work = [@ EXCEPT ![Top.id] = done], !.events = ctx.events \cup {e},
                              !.last = last, !.wrote = wrote, !.frames = Front(@)]
    BY <1>2, <1>3 DEF CtxFields
  <1> HIDE DEF last, wrote
  <1>8. e.object = Top.id
    BY <1>5, <1>6
  <1>9. /\ DOMAIN done = RowFields /\ done.id = Top.id /\ done.type = ctx.work[Top.id].type
        /\ done.next = ctx.work[Top.id].next /\ done.state = ctx.work[Top.id].state
        /\ done.attrs = ctx.work[Top.id].attrs /\ done.version = ctx.work[Top.id].version + 1
    BY <1>6
  <1>10. /\ DOMAIN e = EventFields /\ e.pos = Top.pos /\ e.cause = Top.cause
         /\ e.x = Top.x /\ e.object = Top.id /\ e.seq = done.version /\ e.to = done.state
    BY <1>5, <1>8
  <1> HIDE DEF held
  <1> QED BY <1>7, <1>9, <1>10, ZenonT(60)

LEMMA LeaveKeeps ==
  ASSUME RowsInv, Leave
  PROVE  RowsInv'
  <1>1. ctx.phase = "take" /\ ctx.frames # <<>> /\ Top.begun /\ objects' = objects
    BY Zenon DEF Leave
  <1>2. /\ DOMAIN ctx = CtxFields /\ Rows(ctx.work) /\ IsSeq(ctx.frames)
        /\ \A h \in Range(ctx.frames) : FrameFits(ctx.work, h)
        /\ Top.id \in DOMAIN ctx.work /\ ctx.work[Top.id].id = Top.id /\ DeclaredRow(ctx.work, ctx.work[Top.id])
    BY <1>1, TopFits
  <1>3. CASE Refuse("occurred_within")
    BY <1>1, <1>3, RefuseKeeps
  <1>4. ASSUME NEW done, NEW e, NEW last, NEW wrote,
               DOMAIN done = RowFields, done.id = Top.id, done.type = ctx.work[Top.id].type,
               done.next = ctx.work[Top.id].next, done.state = ctx.work[Top.id].state,
               done.attrs = ctx.work[Top.id].attrs,
               ctx' = [ctx EXCEPT !.work = [@ EXCEPT ![Top.id] = done], !.events = ctx.events \cup {e},
                                  !.last = last, !.wrote = wrote, !.frames = Front(@)]
        PROVE  RowsInv'
    <2> DEFINE w == [ctx.work EXCEPT ![Top.id] = done]
               d == [ctx EXCEPT !.work = w, !.events = ctx.events \cup {e}, !.last = last, !.wrote = wrote, !.frames = Front(@)]
    <2>1. ctx' = d
      BY <1>2, <1>4 DEF CtxFields
    <2>2. Rows(w) /\ Grown(ctx.work, w)
      <3>1. RowFits(ctx.work, done)
        BY <1>2, <1>4, Zenon DEF DeclaredRow, RowFits
      <3>2. DOMAIN w = DOMAIN ctx.work \cup {done.id} /\ w[done.id] = done /\ \A k \in DOMAIN ctx.work \ {done.id} : w[k] = ctx.work[k]
        BY <1>2, <1>4
      <3>3. done.id \in DOMAIN ctx.work /\ done.type = ctx.work[done.id].type
        BY <1>2, <1>4
      <3> HIDE DEF w
      <3> QED BY <1>2, <3>1, <3>2, <3>3, RowsSet
    <2>3. DOMAIN d = CtxFields /\ d.phase = "take" /\ d.first = ctx.first /\ d.work = w /\ d.frames = Front(ctx.frames)
      BY <1>1, <1>2 DEF CtxFields
    <2>4. IsSeq(Front(ctx.frames)) /\ \A f \in Range(Front(ctx.frames)) : FrameFits(ctx.work, f)
      BY <1>1, <1>2, SeqRest
    <2> HIDE DEF d, w
    <2> QED BY <1>1, <2>1, <2>2, <2>3, <2>4, StepKeeps
  <1> QED BY <1>3, <1>4, LeaveLeaves, Zenon

----------------------------------------------------------------------------
(* A change concluded and written.                                         *)

\* An admission written on each object looked at: on the others it stands as
\* the store has it.
LEMMA ConcludeKeeps ==
  ASSUME RowsInv, Conclude
  PROVE  RowsInv'
  <1> DEFINE u == [id \in DOMAIN ctx.work |->
                     IF id \in Affected THEN [ctx.work[id] EXCEPT !.admitted = Admitted(id)] ELSE ctx.work[id]]
             d == [ctx EXCEPT !.phase = "write", !.work = u]
  <1>1. ctx.phase = "take" /\ ctx.frames = <<>> /\ objects' = objects
    BY DEF Conclude
  <1>2. Deciding(ctx) /\ Rows(objects) /\ AdmissionsStand
    BY <1>1 DEF RowsInv, Idle
  <1>3. DOMAIN ctx = CtxFields /\ Rows(ctx.work) /\ Grown(objects, ctx.work)
    BY <1>2 DEF Deciding
  <1>4. CASE Refuse("invariant_violated")
    BY <1>1, <1>4, RefuseKeeps
  <1>5. CASE ctx' = d
    <2>1. \A k \in DOMAIN ctx.work : /\ DOMAIN u[k] = RowFields /\ u[k].id = ctx.work[k].id /\ u[k].type = ctx.work[k].type
                                     /\ u[k].next = ctx.work[k].next /\ u[k].state = ctx.work[k].state
                                     /\ u[k].attrs = ctx.work[k].attrs
                                     /\ k \in Affected => u[k].admitted = Failing(ctx.work, k)
                                     /\ k \notin Affected => u[k] = ctx.work[k]
      <3> SUFFICES ASSUME NEW k \in DOMAIN ctx.work
                   PROVE  /\ DOMAIN u[k] = RowFields /\ u[k].id = ctx.work[k].id /\ u[k].type = ctx.work[k].type
                          /\ u[k].next = ctx.work[k].next /\ u[k].state = ctx.work[k].state
                          /\ u[k].attrs = ctx.work[k].attrs
                          /\ k \in Affected => u[k].admitted = Failing(ctx.work, k)
                          /\ k \notin Affected => u[k] = ctx.work[k]
        OBVIOUS
      <3>1. DOMAIN ctx.work[k] = RowFields
        BY <1>3, RowDomain
      <3> QED BY <3>1 DEF RowFields, Admitted
    <2>2. DOMAIN u = DOMAIN ctx.work
      OBVIOUS
    <2> HIDE DEF u
    <2>3. Rows(u) /\ Grown(ctx.work, u)
      <3>1. \A k \in DOMAIN ctx.work : Alike(ctx.work[k], u[k])
        BY <2>1 DEF Alike
      <3> QED BY <1>3, <2>2, <3>1, RowsAlike
    <2>4. ASSUME NEW id \in DOMAIN u PROVE u[id].admitted = Failing(u, id)
      <3>1. Failing(ctx.work, id) = Failing(u, id)
        BY <1>3, <2>1, <2>2, FailingSame
      <3>2. CASE id \in Affected
        BY <2>1, <2>2, <3>1, <3>2
      <3>3. CASE id \notin Affected
        <4>1. /\ id \in DOMAIN objects /\ ctx.work[id] = objects[id]
              /\ Failing(ctx.work, id) = Failing(objects, id)
          BY <1>2, <1>3, <2>2, <3>3, Unaffected
        <4> QED BY <1>2, <2>1, <2>2, <3>1, <3>3, <4>1 DEF AdmissionsStand
      <3> QED BY <3>2, <3>3
    <2>5. DOMAIN d = CtxFields /\ d.phase = "write" /\ d.first = ctx.first /\ d.work = u /\ d.frames = <<>>
      BY <1>1, <1>3 DEF CtxFields
    <2> HIDE DEF d
    <2>6. Deciding(d)
      <3>1. IsSeq(d.frames) /\ Range(d.frames) = {}
        BY <2>5 DEF IsSeq, Range
      <3>2. Grown(objects, u)
        BY <1>3, <2>3 DEF Grown
      <3>3. d.first = {} \/ \E e \in d.first : d.first = {e} /\ FirstFits(e)
        BY <1>2, <2>5 DEF Deciding
      <3> QED BY <2>3, <2>4, <2>5, <3>1, <3>2, <3>3 DEF Deciding
    <2> QED BY <1>1, <1>5, <2>6, RowsStay
  <1> QED BY <1>4, <1>5 DEF Conclude

\* The store's rows replaced, and no decision under way.
LEMMA StoreKeeps ==
  ASSUME NEW u, Rows(u), \A id \in DOMAIN u : u[id].admitted = Failing(u, id), objects' = u, ctx' = Idle
  PROVE  RowsInv'
  <1>1. Rows(objects)' /\ AdmissionsStand'
    BY DEF AdmissionsStand
  <1> QED BY <1>1 DEF RowsInv, Idle

\* A proposal's row written over rows on which the admissions stand.
LEMMA ProposalSet ==
  ASSUME NEW w, NEW u, NEW o, Rows(w), \A id \in DOMAIN w : w[id].admitted = Failing(w, id),
         ProposalRow(o), o.admitted = {},
         \/ o.id \in DOMAIN w /\ w[o.id].type = PROPOSAL
         \/ o.id = Cardinality(DOMAIN w) + 1,
         DOMAIN u = DOMAIN w \cup {o.id}, u[o.id] = o, \A k \in DOMAIN w \ {o.id} : u[k] = w[k]
  PROVE  Rows(u) /\ \A id \in DOMAIN u : u[id].admitted = Failing(u, id)
  <1>1. PROPOSAL \notin DOMAIN Decl
    BY DeclAssumption, Zenon
  <1>2. o.type = PROPOSAL /\ RowFits(w, o)
    BY DEF ProposalRow, RowFits
  <1>3. Rows(u) /\ Grown(w, u)
    BY <1>2, RowsSet
  <1>4. o.id \in DOMAIN w => w[o.id].type = PROPOSAL
    <2>1. Cardinality(DOMAIN w) \in Nat
      BY FS_CardinalityType DEF Rows
    <2>2. Cardinality(DOMAIN w) + 1 \notin DOMAIN w
      BY <2>1 DEF Rows
    <2> QED BY <2>2
  <1>5. ASSUME NEW id \in DOMAIN u PROVE u[id].admitted = Failing(u, id)
    <2>1. CASE id = o.id
      BY <1>1, <1>2, <2>1 DEF Failing, Declares
    <2>2. CASE id # o.id
      <3>1. id \in DOMAIN w /\ u[id] = w[id]
        BY <2>2
      <3>2. \A k : k \in DOMAIN w /\ w[k].type \in DOMAIN Decl <=> k \in DOMAIN u /\ u[k].type \in DOMAIN Decl
        BY <1>1, <1>2, <1>4
      <3>3. \A k \in DOMAIN w : w[k].type \in DOMAIN Decl =>
              u[k].type = w[k].type /\ u[k].state = w[k].state /\ u[k].attrs = w[k].attrs
        BY <1>1, <1>4
      <3>4. Failing(w, id) = Failing(u, id)
        BY <3>1, <3>2, <3>3, FailingSame
      <3> QED BY <3>1, <3>4
    <2> QED BY <2>1, <2>2
  <1> QED BY <1>3, <1>5

\* A row but for its intervals.
LEMMA EmptiedSame ==
  ASSUME NEW o, DOMAIN o = RowFields
  PROVE  /\ DOMAIN Emptied(o) = RowFields
         /\ \A f \in RowFields \ {"spans"} : Emptied(o)[f] = o[f]
  BY DEF Emptied, RowFields

LEMMA MergedRows ==
  ASSUME RowsInv, ctx.phase = "write"
  PROVE  Rows(Merged) /\ \A id \in DOMAIN Merged : Merged[id].admitted = Failing(Merged, id)
  <1>1. Deciding(ctx)
    BY DEF RowsInv, Idle
  <1>2. Rows(ctx.work) /\ \A id \in DOMAIN ctx.work : ctx.work[id].admitted = Failing(ctx.work, id)
    BY <1>1 DEF Deciding
  <1> DEFINE u == Merged
  <1>3. CASE ctx.first = {}
    <2>1. DOMAIN u = DOMAIN ctx.work /\ \A k \in DOMAIN ctx.work : u[k] = ctx.work[k]
      BY <1>3 DEF Merged
    <2> HIDE DEF u
    <2>2. \A k \in DOMAIN ctx.work : Alike(ctx.work[k], u[k])
      BY <1>2, <2>1, RowDomain, AlikeSame
    <2>3. Rows(u)
      BY <1>2, <2>1, <2>2, RowsAlike
    <2>4. ASSUME NEW id \in DOMAIN u PROVE u[id].admitted = Failing(u, id)
      <3>1. Failing(ctx.work, id) = Failing(u, id)
        BY <1>2, <2>1, FailingSame
      <3> QED BY <1>2, <2>1, <3>1
    <2> QED BY <2>3, <2>4 DEF u
  <1>4. CASE ctx.first # {}
    <2>1. PICK d \in ctx.first : ctx.first = {d} /\ FirstFits(d)
      BY <1>1, <1>4 DEF Deciding
    <2> DEFINE o == d.row
    <2>2. ProposalRow(o) /\ o.admitted = {} /\ o.id \in DOMAIN ctx.work /\ ctx.work[o.id].type = PROPOSAL
      BY <1>1, <2>1 DEF FirstFits, Deciding, Grown
    <2>3. (CHOOSE e \in ctx.first : TRUE) = d
      BY <2>1
    <2>4. DOMAIN u = DOMAIN ctx.work \cup {o.id} /\ u[o.id] = o /\ \A k \in DOMAIN ctx.work \ {o.id} : u[k] = ctx.work[k]
      BY <2>1, <2>2, <2>3 DEF Merged
    <2> HIDE DEF u, o
    <2>5. Rows(u) /\ \A id \in DOMAIN u : u[id].admitted = Failing(u, id)
      BY <1>2, <2>2, <2>4, ProposalSet
    <2> QED BY <2>5 DEF u
  <1> QED BY <1>3, <1>4

LEMMA StoredSame ==
  ASSUME RowsInv, ctx.phase = "write"
  PROVE  /\ DOMAIN Stored = DOMAIN Merged
         /\ \A k \in DOMAIN Merged :
              LET o == Merged[k]
                  q == Stored[k] IN
              /\ DOMAIN q = RowFields /\ q.id = o.id /\ q.type = o.type /\ q.state = o.state /\ q.version = o.version
              /\ q.attrs = o.attrs /\ q.next = o.next /\ q.admitted = o.admitted /\ q.prop = o.prop
  <1> SUFFICES ASSUME NEW k \in DOMAIN Merged
               PROVE  LET o == Merged[k]
                          q == Stored[k] IN
                      /\ DOMAIN q = RowFields /\ q.id = o.id /\ q.type = o.type /\ q.state = o.state
                      /\ q.version = o.version /\ q.attrs = o.attrs /\ q.next = o.next
                      /\ q.admitted = o.admitted /\ q.prop = o.prop
    BY Zenon DEF Stored, Merged
  <1>1. DOMAIN Merged[k] = RowFields
    BY MergedRows, RowDomain
  <1>2. Stored[k] = Emptied(Merged[k])
    BY Zenon DEF Stored, Merged
  <1> QED BY <1>1, <1>2, EmptiedSame DEF RowFields

\* What a write leaves in the store.
LEMMA WriteStores ==
  ASSUME Write
  PROVE  \/ objects' = objects /\ log' = log
         \/ /\ ~ \E e \in Known \cup {d.event : d \in ctx.first} : Taken(e, Known \cup {d.event : d \in ctx.first})
            /\ objects' = Stored
            /\ log' = [p \in 1..Cardinality(Known \cup {d.event : d \in ctx.first}) |->
                         Redacted(CHOOSE e \in Known \cup {d.event : d \in ctx.first} : e.pos = p)]
  BY Zenon DEF Write

LEMMA WriteKeeps ==
  ASSUME RowsInv, Write
  PROVE  RowsInv'
  <1>1. ctx.phase = "write" /\ ctx' = Idle
    BY DEF Write
  <1>2. CASE objects' = objects
    BY <1>1, <1>2, RowsStay
  <1>3. CASE objects' = Stored
    <2> DEFINE w == Merged
               u == Stored
    <2>1. Rows(w) /\ \A id \in DOMAIN w : w[id].admitted = Failing(w, id)
      BY <1>1, MergedRows
    <2>2. /\ DOMAIN u = DOMAIN w
          /\ \A k \in DOMAIN w : /\ DOMAIN u[k] = RowFields /\ u[k].id = w[k].id /\ u[k].type = w[k].type
                                 /\ u[k].state = w[k].state /\ u[k].attrs = w[k].attrs /\ u[k].next = w[k].next
                                 /\ u[k].admitted = w[k].admitted
      BY <1>1, StoredSame
    <2> HIDE DEF u, w
    <2>3. \A k \in DOMAIN w : Alike(w[k], u[k])
      BY <2>2 DEF Alike
    <2>4. Rows(u)
      BY <2>1, <2>2, <2>3, RowsAlike
    <2>5. ASSUME NEW id \in DOMAIN u PROVE u[id].admitted = Failing(u, id)
      <3>1. Failing(w, id) = Failing(u, id)
        BY <2>1, <2>2, FailingSame
      <3> QED BY <2>1, <2>2, <3>1
    <2> QED BY <1>1, <1>3, <2>4, <2>5, StoreKeeps DEF u
  <1> QED BY <1>2, <1>3, WriteStores

----------------------------------------------------------------------------
(* Requests.                                                               *)

LEMMA AnswerKeeps ==
  ASSUME RowsInv, NEW clause, Answer(clause)
  PROVE  RowsInv'
  BY RowsStay DEF Answer

\* A request taken up: the store's rows, and one transition to take.
LEMMA StartKeeps ==
  ASSUME NEW r, NEW c, NEW cause, NEW filed, NEW occurred, NEW first,
         RowsInv, Asked(r) = "ok", objects' = objects,
         first = {} \/ \E d \in first : first = {d} /\ FirstFits(d),
         ctx' = Started(r, Frame(r.type, r.x, r.id, r.inputs, c), cause, filed, occurred, first)
  PROVE  RowsInv'
  <1> DEFINE f == Frame(r.type, r.x, r.id, r.inputs, c)
             d == Started(r, f, cause, filed, occurred, first)
  <1>1. Has(r.type, r.x) /\ (r.id # None => Names(objects, r.id, r.type))
    BY Zenon DEF Asked, Has, Names
  <1>2. FrameFits(objects, f)
    BY <1>1, Zenon DEF FrameFits, Frame, FrameFields
  <1> HIDE DEF f
  <1>3. DOMAIN d = CtxFields /\ d.phase = "take" /\ d.first = first /\ d.work = objects /\ d.frames = <<f>>
    BY DEF Started, CtxFields
  <1> HIDE DEF d
  <1>4. IsSeq(<<f>>) /\ Range(<<f>>) = {f}
    BY DEF IsSeq, Range
  <1>5. Rows(objects) /\ Grown(objects, objects)
    BY GrownSame DEF RowsInv
  <1>6. Deciding(d)
    BY <1>2, <1>3, <1>4, <1>5 DEF Deciding
  <1> QED BY <1>6, RowsStay DEF d, f

LEMMA AskKeeps ==
  ASSUME RowsInv, NEW r, Ask(r)
  PROVE  RowsInv'
  <1>1. CASE Answer(Asked(r))
    BY <1>1, AnswerKeeps
  <1>2. CASE /\ Asked(r) = "ok" /\ objects' = objects
             /\ ctx' = Started(r, Frame(r.type, r.x, r.id, r.inputs, None), None, None, r.occurred, {})
    BY <1>2, StartKeeps
  <1> QED BY <1>1, <1>2, Zenon DEF Ask

\* Nothing is being decided, and a proposal's row is written.
LEMMA PutProposal ==
  ASSUME NEW o, RowsInv, ctx' = Idle, ProposalRow(o), o.admitted = {}, objects' = Put(objects, o),
         \/ o.id \in DOMAIN objects /\ objects[o.id].type = PROPOSAL
         \/ o.id = Cardinality(DOMAIN objects) + 1
  PROVE  RowsInv'
  <1> DEFINE u == Put(objects, o)
  <1>1. DOMAIN u = DOMAIN objects \cup {o.id} /\ u[o.id] = o /\ \A k \in DOMAIN objects \ {o.id} : u[k] = objects[k]
    BY DEF Put
  <1>2. Rows(objects) /\ \A id \in DOMAIN objects : objects[id].admitted = Failing(objects, id)
    BY DEF RowsInv, AdmissionsStand
  <1>3. objects' = u
    OBVIOUS
  <1> HIDE DEF u
  <1>4. Rows(u) /\ \A id \in DOMAIN u : u[id].admitted = Failing(u, id)
    <2> DEFINE w == objects
    <2>1. /\ Rows(w) /\ \A id \in DOMAIN w : w[id].admitted = Failing(w, id)
          /\ DOMAIN u = DOMAIN w \cup {o.id} /\ u[o.id] = o /\ \A k \in DOMAIN w \ {o.id} : u[k] = w[k]
          /\ (o.id \in DOMAIN w /\ w[o.id].type = PROPOSAL) \/ o.id = Cardinality(DOMAIN w) + 1
      BY <1>1, <1>2
    <2> HIDE DEF w
    <2> QED BY <2>1, ProposalSet
  <1> QED BY <1>3, <1>4, StoreKeeps

\* The row of a proposal filed.
LEMMA FileRow ==
  ASSUME NEW r, File(r), Filed(r) = "ok"
  PROVE  /\ ctx' = Idle
         /\ \E o : /\ objects' = Put(objects, o) /\ ProposalRow(o) /\ o.admitted = {}
                   /\ o.id = Cardinality(DOMAIN objects) + 1
  <1> DEFINE prop == [target |-> r.id, type |-> r.type, x |-> r.x, inputs |-> r.inputs,
                      by |-> r.actor, filed |-> now, occurred |-> r.occurred, expires |-> r.expires]
             row == [id |-> Cardinality(DOMAIN objects) + 1, type |-> PROPOSAL, state |-> "PENDING",
                     version |-> 1, attrs |-> EmptyFn, spans |-> [d \in {"state"} |-> <<>>],
                     erased |-> FALSE, next |-> None, admitted |-> {}, writes |-> EmptyFn, prop |-> prop]
             o == RecordSpans(row, EmptyFn, Len(log) + 1, now)
  <1>1. ctx' = Idle /\ objects' = Put(objects, o)
    BY Zenon DEF File, Sent
  <1> HIDE DEF prop
  <1>2. /\ DOMAIN row = RowFields /\ row.id = Cardinality(DOMAIN objects) + 1 /\ row.type = PROPOSAL
        /\ row.next = None /\ row.attrs = EmptyFn /\ row.admitted = {}
    BY DEF RowFields
  <1> HIDE DEF row
  <1>3. /\ DOMAIN o = RowFields /\ o.id = row.id /\ o.type = row.type /\ o.next = row.next
        /\ o.attrs = row.attrs /\ o.admitted = row.admitted
    BY <1>2, RecordedAlike
  <1>4. DOMAIN EmptyFn = {}
    BY DEF EmptyFn
  <1> HIDE DEF o
  <1>5. ProposalRow(o) /\ o.admitted = {} /\ o.id = Cardinality(DOMAIN objects) + 1
    BY <1>2, <1>3, <1>4 DEF ProposalRow
  <1> QED BY <1>1, <1>5

LEMMA FileKeeps ==
  ASSUME RowsInv, NEW r, File(r)
  PROVE  RowsInv'
  <1>1. CASE Answer(Filed(r))
    BY <1>1, AnswerKeeps
  <1>2. CASE Filed(r) = "ok"
    BY <1>2, FileRow, PutProposal
  <1> QED BY <1>1, <1>2, Zenon DEF File

\* The row of a proposal decided.
LEMMA DecidedFits ==
  ASSUME RowsInv, NEW id \in DOMAIN objects, objects[id].type = PROPOSAL, NEW to
  PROVE  /\ ProposalRow(Decided(id, to).row) /\ Decided(id, to).row.id = id
         /\ Decided(id, to).row.admitted = {}
  <1> DEFINE o == objects[id]
             p == [o EXCEPT !.state = to, !.version = @ + 1]
             q == RecordSpans(p, [d \in {"state"} |-> o.state], Len(log) + 1, now)
  <1>1. PROPOSAL \notin DOMAIN Decl
    BY DeclAssumption, Zenon
  <1>2. ProposalRow(o) /\ o.id = id
    BY <1>1, Zenon DEF RowsInv, Rows, RowFits, DeclaredRow
  <1>3. o.admitted = {}
    BY <1>1 DEF RowsInv, AdmissionsStand, Failing, Declares
  <1>4. /\ DOMAIN p = RowFields /\ p.id = o.id /\ p.type = o.type /\ p.next = o.next
        /\ p.attrs = o.attrs /\ p.admitted = o.admitted
    BY <1>2 DEF ProposalRow, RowFields
  <1> HIDE DEF p
  <1>5. /\ DOMAIN q = RowFields /\ q.id = p.id /\ q.type = p.type /\ q.next = p.next
        /\ q.attrs = p.attrs /\ q.admitted = p.admitted
    BY <1>4, RecordedAlike
  <1>6. Decided(id, to).row = q
    BY DEF Decided, p
  <1> HIDE DEF q
  <1> QED BY <1>2, <1>3, <1>4, <1>5, <1>6 DEF ProposalRow

LEMMA DecideProposalKeeps ==
  ASSUME RowsInv, NEW r \in Requests, DecideProposal(r)
  PROVE  RowsInv'
  <1> DEFINE prop == objects[r.id].prop
             to == CASE r.act = "approve" -> "EXECUTED" [] r.act = "reject" -> "REJECTED" [] OTHER -> "WITHDRAWN"
             held == [r EXCEPT !.id = prop.target, !.type = prop.type, !.x = prop.x, !.inputs = prop.inputs,
                               !.expected = None, !.occurred = prop.occurred]
             d == Decided(r.id, to)
             f == Frame(held.type, held.x, held.id, held.inputs, Len(log) + 1)
  <1>1. r.id \in DOMAIN objects /\ objects[r.id].type = PROPOSAL /\ ctx = Idle
    BY Zenon DEF DecideProposal, Sent
  <1>2. ProposalRow(d.row) /\ d.row.id = r.id /\ d.row.admitted = {}
    BY <1>1, DecidedFits
  <1>3. CASE \E clause : Answer(clause)
    BY <1>3, AnswerKeeps
  <1>4. CASE objects' = Put(objects, d.row) /\ ctx' = ctx
    <2> DEFINE o == d.row
    <2> HIDE DEF o, d
    <2>1. objects' = Put(objects, o) /\ ProposalRow(o) /\ o.id = r.id /\ o.admitted = {} /\ ctx' = Idle
      BY <1>1, <1>2, <1>4 DEF o
    <2> QED BY <1>1, <2>1, PutProposal
  <1>5. CASE /\ Asked(held) = "ok" /\ objects' = objects
             /\ ctx' = Started(held, f, Len(log) + 1, prop.filed, prop.occurred, {d})
    <2>1. FirstFits(d)
      BY <1>1, <1>2 DEF FirstFits
    <2> DEFINE first == {d}
               n == Len(log) + 1
    <2>2. \E e \in first : first = {e} /\ FirstFits(e)
      BY <2>1
    <2> HIDE DEF d, held
    <2>3. ctx' = Started(held, Frame(held.type, held.x, held.id, held.inputs, n), n, prop.filed, prop.occurred, first)
      BY <1>5
    <2> HIDE DEF first, n
    <2> QED BY <1>5, <2>2, <2>3, StartKeeps
  <1> QED BY <1>3, <1>4, <1>5, Zenon DEF DecideProposal

----------------------------------------------------------------------------
(* The theorem.                                                            *)

\* The stock's objects, as their creations left them.
LEMMA InitRows ==
  ASSUME Init
  PROVE  RowsInv /\ \A id \in DOMAIN objects : objects[id].type # PROPOSAL
  <1> DEFINE w == [id \in DOMAIN Stock |-> Founded(id)]
  <1>1. objects = w /\ ctx = Idle
    BY Zenon DEF Init
  <1>2. DOMAIN Stock = 1..Len(Stock) /\ Len(Stock) \in Nat
    <2>1. IsSeq(Stock)
      BY StockAssumption, Zenon
    <2> QED BY <2>1 DEF IsSeq
  <1>3. IsFiniteSet(DOMAIN w) /\ DOMAIN w = 1..Cardinality(DOMAIN w)
    <2>1. IsFiniteSet(1..Len(Stock)) /\ Cardinality(1..Len(Stock)) = Len(Stock)
      <3>1. 1 \in Int /\ Len(Stock) \in Int
        BY <1>2
      <3>2. IsFiniteSet(1..Len(Stock)) /\ Cardinality(1..Len(Stock)) = IF 1 > Len(Stock) THEN 0 ELSE Len(Stock) - 1 + 1
        BY <3>1, FS_Interval
      <3> QED BY <1>2, <3>2
    <2> QED BY <1>2, <2>1
  <1>4. ASSUME NEW id \in DOMAIN w
        PROVE  /\ w[id].id = id /\ w[id].type = Stock[id].type /\ DOMAIN w[id] = RowFields
               /\ w[id].attrs = Over(Blank(Stock[id].type), Stock[id].inputs)
               /\ w[id].next = None /\ w[id].state = Decl[Stock[id].type].trans[Stock[id].x].to
               /\ w[id].admitted = {}
    <2> DEFINE s == Stock[id]
               x == Decl[s.type].trans[s.x]
               o == New(id, s.type, x.to)
               made == [o EXCEPT !.version = 1, !.attrs = Over(@, s.inputs),
                                 !.writes = [a \in DOMAIN @ |-> IF a \in DOMAIN s.inputs THEN id ELSE None]]
               q == RecordSpans(made, EmptyFn, id, 1)
    <2>1. w[id] = q
      BY <1>4 DEF Founded
    <2>2. /\ DOMAIN o = RowFields /\ o.id = id /\ o.type = s.type /\ o.next = None /\ o.state = x.to
          /\ o.attrs = Blank(s.type) /\ o.admitted = {}
      BY DEF New, RowFields
    <2> HIDE DEF o
    <2>3. /\ DOMAIN made = RowFields /\ made.id = id /\ made.type = s.type /\ made.next = None /\ made.state = x.to
          /\ made.attrs = Over(Blank(s.type), s.inputs) /\ made.admitted = {}
      BY <2>2 DEF RowFields
    <2> HIDE DEF made
    <2>4. /\ DOMAIN q = RowFields /\ q.id = made.id /\ q.type = made.type /\ q.next = made.next /\ q.state = made.state
          /\ q.attrs = made.attrs /\ q.admitted = made.admitted
      BY <2>3, RecordedAlike
    <2> HIDE DEF q, w
    <2> QED BY <2>1, <2>3, <2>4
  <1> HIDE DEF w
  <1>5. DOMAIN w = DOMAIN Stock
    BY DEF w
  <1>6. ASSUME NEW id \in DOMAIN w PROVE DeclaredRow(w, w[id])
    <2> DEFINE s == Stock[id]
               t == s.type
    <2>1. /\ Has(t, s.x) /\ Decl[t].trans[s.x].kind = "initial" /\ DOMAIN s.inputs \subseteq Attrs(t)
          /\ \A a \in DOMAIN s.inputs : Decl[t].attrs[a].ref # "" =>
               s.inputs[a] \in DOMAIN Stock /\ Stock[s.inputs[a]].type = Decl[t].attrs[a].ref
      BY <1>5, <1>6, StockAssumption, Zenon
    <2>2. t \in DOMAIN Decl /\ TransFits(t, Decl[t].trans[s.x])
      BY <2>1, DeclAssumption, Zenon DEF Has, TypeFits
    <2>3. Decl[t].trans[s.x].to \in DOMAIN Decl[t].states
      BY <2>1, <2>2, Zenon DEF TransFits
    <2>4. /\ DOMAIN w[id].attrs = Attrs(t)
          /\ \A a \in Attrs(t) : w[id].attrs[a] = IF a \in DOMAIN s.inputs THEN s.inputs[a] ELSE Absent
      <3> DEFINE b == Blank(t)
                 v == Over(b, s.inputs)
      <3>1. DOMAIN b = Attrs(t) /\ \A a \in Attrs(t) : b[a] = Absent
        BY DEF Blank
      <3> HIDE DEF b
      <3>2. DOMAIN v = Attrs(t) /\ \A a \in Attrs(t) : v[a] = IF a \in DOMAIN s.inputs THEN s.inputs[a] ELSE Absent
        <4> HIDE DEF s, t
        <4> QED BY <2>1, <3>1, Zenon DEF Over
      <3>3. w[id].attrs = v
        BY <1>4, <1>6 DEF b
      <3> HIDE DEF v
      <3> QED BY <3>2, <3>3
    <2>5. ASSUME NEW a \in Attrs(t), Decl[t].attrs[a].ref # "", w[id].attrs[a] # Absent
          PROVE  Names(w, w[id].attrs[a], Decl[t].attrs[a].ref)
      <3>1. a \in DOMAIN s.inputs /\ w[id].attrs[a] = s.inputs[a]
        BY <2>4, <2>5, Zenon
      <3> DEFINE v == s.inputs[a]
      <3>2. v \in DOMAIN Stock /\ Stock[v].type = Decl[t].attrs[a].ref
        BY <2>1, <2>5, <3>1, Zenon
      <3> HIDE DEF v
      <3>3. v \in DOMAIN w /\ w[v].type = Decl[t].attrs[a].ref
        BY <1>4, <1>5, <3>2
      <3> QED BY <3>1, <3>3 DEF Names, v
    <2> QED BY <1>4, <2>2, <2>3, <2>4, <2>5, Zenon DEF DeclaredRow
  <1>7. Rows(w)
    BY <1>3, <1>4, <1>6 DEF Rows, RowFits
  <1>8. \A id \in DOMAIN w : w[id].admitted = Failing(w, id)
    <2>1. \A id \in DOMAIN Stock : Failing(w, id) = {}
      BY StockAssumption, Zenon DEF w
    <2> QED BY <1>4, <1>5, <2>1
  <1>9. \A id \in DOMAIN w : w[id].type # PROPOSAL
    BY <1>6, DeclAssumption, Zenon DEF DeclaredRow
  <1> QED BY <1>1, <1>7, <1>8, <1>9 DEF RowsInv, AdmissionsStand

LEMMA RowsStep ==
  ASSUME RowsInv, [Next]_vars
  PROVE  RowsInv'
  <1>1. ASSUME NEW r \in Requests, Ask(r) \/ File(r) \/ DecideProposal(r) PROVE RowsInv'
    BY <1>1, AskKeeps, FileKeeps, DecideProposalKeeps
  <1>2. CASE Begin \/ Assign \/ Clear \/ Supersede \/ Call \/ Create \/ Each \/ Cascade
    BY <1>2, BeginKeeps, AssignKeeps, ClearKeeps, SupersedeKeeps, CallKeeps, CreateKeeps, EachKeeps, CascadeKeeps
  <1>3. CASE Settle \/ Chain \/ Member \/ Ungroup \/ Leave \/ Conclude \/ Write
    BY <1>3, SettleKeeps, ChainKeeps, MemberKeeps, UngroupKeeps, LeaveKeeps, ConcludeKeeps, WriteKeeps
  <1>4. CASE objects' = objects /\ ctx' = ctx
    <2>1. ctx' = Idle \/ Deciding(ctx')
      BY <1>4 DEF RowsInv
    <2> QED BY <1>4, <2>1, RowsStay
  <1>5. CASE Tick
    BY <1>4, <1>5 DEF Tick
  <1>6. CASE Quiet \/ UNCHANGED vars
    BY <1>4, <1>6 DEF Quiet, vars
  <1> QED BY <1>1, <1>2, <1>3, <1>5, <1>6 DEF Next

\* The rows are of their types, in the store and in the working copy.
THEOREM RowsAreTyped == Spec => []RowsInv
  <1>1. Init => RowsInv
    BY InitRows
  <1>2. RowsInv /\ [Next]_vars => RowsInv'
    BY RowsStep
  <1> QED BY <1>1, <1>2, PTL DEF Spec

\* What an invariant finds false in the store is what stands admitted, no more
\* and no less, whatever a request wrote and on whichever objects, though its
\* decision looks again at those alone that `affected_by_writes` finds.
THEOREM AdmissionsHold == Spec => []AdmissionsStand
  <1>1. RowsInv => AdmissionsStand
    BY DEF RowsInv
  <1> QED BY <1>1, RowsAreTyped, PTL

----------------------------------------------------------------------------
(* Chains.  An edge leads from an object to the one that supersedes it, or *)
(* to the one that a begun transition is still to name its successor.      *)

Nexts(w) == {<<k, w[k].next>> : k \in {j \in DOMAIN w : w[j].next # None}}
Naming(todo) == {st \in Range(todo) : st.op = "supersede"}
Pending(f) == IF f.begun THEN {<<f.id, f.inputs[st.input]>> : st \in Naming(f.todo)} ELSE {}
Pendings(s) == UNION {Pending(f) : f \in Range(s)}

Superseding(w, k) == k \in DOMAIN w /\ w[k].type \in DOMAIN Decl /\ StateOf(w[k]).superseding

\* Edges lead from superseding objects only, and each downwards.
Downward(w, E) ==
  /\ \A e \in E : Superseding(w, e[1]) /\ e[2] \in DOMAIN w
  /\ \E r \in [DOMAIN w -> Nat] : \A e \in E : r[e[2]] < r[e[1]]

\* All transitions are begun but the innermost, and the one requested is taken
\* from a state it is taken from.
Stacked(w, s) ==
  /\ \A i \in 1..(Len(s) - 1) : s[i].begun
  /\ Len(s) = 1 /\ ~ s[1].begun /\ s[1].id # None => TakesFrom(s[1].type, X(s[1]), w[s[1].id].state)

ChainsInv ==
  /\ Downward(objects, Nexts(objects))
  /\ ctx # Idle => /\ Downward(ctx.work, Nexts(ctx.work) \cup Pendings(ctx.frames))
                   /\ Stacked(ctx.work, ctx.frames)

LEMMA DownwardSub ==
  ASSUME NEW w, NEW u, NEW E, NEW F, Downward(w, F), E \subseteq F, DOMAIN w \subseteq DOMAIN u,
         \A k : Superseding(w, k) => Superseding(u, k)
  PROVE  Downward(u, E)
  <1>1. PICK r \in [DOMAIN w -> Nat] : \A e \in F : r[e[2]] < r[e[1]]
    BY DEF Downward
  <1>2. \A e \in E : Superseding(w, e[1]) /\ e[1] \in DOMAIN w /\ e[2] \in DOMAIN w
    BY DEF Downward, Superseding
  <1> DEFINE q == [k \in DOMAIN u |-> IF k \in DOMAIN w THEN r[k] ELSE 0]
  <1>3. q \in [DOMAIN u -> Nat]
    BY <1>1
  <1>4. \A e \in E : q[e[2]] < q[e[1]]
    BY <1>1, <1>2
  <1>5. \A e \in E : Superseding(u, e[1]) /\ e[2] \in DOMAIN u
    BY <1>2
  <1> HIDE DEF q
  <1> QED BY <1>3, <1>4, <1>5 DEF Downward

\* Rows that keep their types, and the declared their states, are superseding
\* as they were.
LEMMA SupersedingSame ==
  ASSUME NEW w, NEW u, DOMAIN w \subseteq DOMAIN u,
         \A k \in DOMAIN w : w[k].type \in DOMAIN Decl => u[k].type = w[k].type /\ u[k].state = w[k].state
  PROVE  \A k : Superseding(w, k) => Superseding(u, k)
  BY DEF Superseding, StateOf, TypeOf

\* The innermost of the frames written again, and one more above it.
LEMMA FramesDown ==
  ASSUME NEW s, NEW g, NEW w, IsSeq(s), s # <<>>, \A i \in 1..(Len(s) - 1) : s[i].begun,
         g.begun, Pending(g) \subseteq Pending(Last(s))
  PROVE  /\ Pendings(Append(Front(s), g)) \subseteq Pendings(s) /\ Stacked(w, Append(Front(s), g))
         /\ \A h : ~ h.begun => /\ Pendings(Append(Append(Front(s), g), h)) \subseteq Pendings(s)
                                /\ Stacked(w, Append(Append(Front(s), g), h))
  <1> DEFINE b == Front(s)
             u == Append(b, g)
  <1>1. /\ IsSeq(b) /\ Range(b) \subseteq Range(s) /\ Last(s) \in Range(s) /\ Len(s) \in Nat \ {0}
        /\ Len(b) = Len(s) - 1 /\ \A i \in 1..(Len(s) - 1) : b[i] = s[i]
    BY SeqRest
  <1> HIDE DEF b
  <1>2. /\ IsSeq(u) /\ Range(u) = Range(b) \cup {g} /\ Last(u) = g /\ u # <<>> /\ Len(u) = Len(b) + 1
        /\ \A i \in 1..Len(b) : u[i] = b[i]
    BY <1>1, SeqAppend
  <1>3. u[Len(u)] = g
    BY <1>2 DEF Last
  <1> HIDE DEF u
  <1>4. Pendings(u) \subseteq Pendings(s)
    BY <1>1, <1>2 DEF Pendings
  <1>5. \A i \in 1..Len(u) : u[i].begun
    <2> SUFFICES ASSUME NEW i \in 1..Len(u) PROVE u[i].begun
      OBVIOUS
    <2>1. CASE i = Len(u)
      BY <1>3, <2>1
    <2>2. CASE i # Len(u)
      <3>1. i \in 1..(Len(s) - 1) /\ i \in 1..Len(b)
        BY <1>1, <1>2, <2>2
      <3> QED BY <1>1, <1>2, <3>1
    <2> QED BY <2>1, <2>2
  <1>6. Len(u) \in Nat \ {0}
    BY <1>1, <1>2
  <1>7. Stacked(w, u)
    BY <1>5, <1>6 DEF Stacked
  <1>8. ASSUME NEW h, ~ h.begun
        PROVE  Pendings(Append(u, h)) \subseteq Pendings(s) /\ Stacked(w, Append(u, h))
    <2> DEFINE v == Append(u, h)
    <2>1. /\ Range(v) = Range(u) \cup {h} /\ Len(v) = Len(u) + 1 /\ \A i \in 1..Len(u) : v[i] = u[i]
      BY <1>2, SeqAppend
    <2> HIDE DEF v
    <2>2. Pendings(v) \subseteq Pendings(s)
      <3>1. Pending(h) = {}
        BY <1>8 DEF Pending
      <3> QED BY <1>4, <2>1, <3>1 DEF Pendings
    <2>3. Stacked(w, v)
      <3>1. Len(v) # 1 /\ 1..(Len(v) - 1) = 1..Len(u)
        BY <1>6, <2>1
      <3> QED BY <1>5, <2>1, <3>1 DEF Stacked
    <2> QED BY <2>2, <2>3 DEF v
  <1> QED BY <1>4, <1>7, <1>8 DEF u, b

\* While the store's rows stay, what is said of the decision is enough.
LEMMA ChainsStay ==
  ASSUME ChainsInv, objects' = objects,
         ctx' = Idle \/ (/\ Downward(ctx'.work, Nexts(ctx'.work) \cup Pendings(ctx'.frames))
                         /\ Stacked(ctx'.work, ctx'.frames))
  PROVE  ChainsInv'
  BY DEF ChainsInv, Idle

\* A step of the innermost transition that names no successor it was not to
\* name.
LEMMA ChainsKept ==
  ASSUME NEW d, NEW g, RowsInv, ChainsInv, ctx.phase = "take", ctx.frames # <<>>, objects' = objects, ctx' = d,
         g.begun, Pending(g) \subseteq Pending(Top),
         \/ d.frames = Append(Front(ctx.frames), g)
         \/ \E h : ~ h.begun /\ d.frames = Append(Append(Front(ctx.frames), g), h),
         Nexts(d.work) \subseteq Nexts(ctx.work) \cup Pendings(ctx.frames),
         DOMAIN ctx.work \subseteq DOMAIN d.work,
         \A k : Superseding(ctx.work, k) => Superseding(d.work, k)
  PROVE  ChainsInv'
  <1>1. /\ ctx # Idle /\ IsSeq(ctx.frames) /\ \A i \in 1..(Len(ctx.frames) - 1) : ctx.frames[i].begun
        /\ Downward(ctx.work, Nexts(ctx.work) \cup Pendings(ctx.frames))
    <2>1. ctx # Idle
      BY DEF Idle
    <2> QED BY <2>1, TopFits DEF ChainsInv, Stacked
  <1>2. Pending(g) \subseteq Pending(Last(ctx.frames))
    BY DEF Top
  <1>3. Pendings(d.frames) \subseteq Pendings(ctx.frames) /\ Stacked(d.work, d.frames)
    <2> DEFINE s == ctx.frames
               w == d.work
    <2> HIDE DEF s, w
    <2>1. /\ Pendings(Append(Front(s), g)) \subseteq Pendings(s) /\ Stacked(w, Append(Front(s), g))
          /\ \A h : ~ h.begun => /\ Pendings(Append(Append(Front(s), g), h)) \subseteq Pendings(s)
                                 /\ Stacked(w, Append(Append(Front(s), g), h))
      BY <1>1, <1>2, FramesDown DEF s
    <2> QED BY <2>1 DEF s, w
  <1>4. Downward(d.work, Nexts(d.work) \cup Pendings(d.frames))
    BY <1>1, <1>3, DownwardSub
  <1> QED BY <1>3, <1>4, ChainsStay

\* More to do, none of it the naming of a successor.
LEMMA NamesNoMore ==
  ASSUME NEW todo, RowsInv, ctx.phase = "take", ctx.frames # <<>>, Top.begun, Naming(todo) \subseteq Naming(Top.todo)
  PROVE  [Top EXCEPT !.todo = todo].begun /\ Pending([Top EXCEPT !.todo = todo]) \subseteq Pending(Top)
  <1> DEFINE g == [Top EXCEPT !.todo = todo]
  <1>1. DOMAIN Top = FrameFields
    BY TopFits, Zenon DEF FrameFits
  <1>2. g.begun = Top.begun /\ g.id = Top.id /\ g.inputs = Top.inputs /\ g.todo = todo
    BY <1>1 DEF FrameFields
  <1> HIDE DEF g
  <1>3. Pending(g) \subseteq Pending(Top)
    BY <1>2 DEF Pending
  <1> QED BY <1>2, <1>3 DEF g

LEMMA NamingTail ==
  ASSUME NEW todo, NEW more, IsSeq(todo), todo # <<>>, IsSeq(more), Naming(more) = {}
  PROVE  Naming(Tail(todo)) \subseteq Naming(todo) /\ Naming(more \o Tail(todo)) \subseteq Naming(todo)
  <1>1. IsSeq(Tail(todo)) /\ Range(Tail(todo)) \subseteq Range(todo)
    BY SeqRest
  <1>2. Range(more \o Tail(todo)) = Range(more) \cup Range(Tail(todo))
    BY <1>1, SeqCat
  <1> QED BY <1>1, <1>2 DEF Naming

\* A step of the outcome, with what is left to do and maybe a transition caused.
LEMMA ChainsDoing ==
  ASSUME NEW d, NEW more, NEW op, RowsInv, ChainsInv, Doing(op), objects' = objects, ctx' = d,
         IsSeq(more), Naming(more) = {},
         \/ d.frames = Rest(ctx.frames)
         \/ d.frames = Append(Front(ctx.frames), [Top EXCEPT !.todo = more \o Tail(@)])
         \/ d.frames = Append(Front(ctx.frames), [Top EXCEPT !.todo = more])
         \/ \E h : ~ h.begun /\ d.frames = Append(Rest(ctx.frames), h),
         Nexts(d.work) \subseteq Nexts(ctx.work) \cup Pendings(ctx.frames),
         DOMAIN ctx.work \subseteq DOMAIN d.work,
         \A k : Superseding(ctx.work, k) => Superseding(d.work, k)
  PROVE  ChainsInv'
  <1>1. ctx.phase = "take" /\ ctx.frames # <<>> /\ Top.begun /\ Top.todo # <<>>
    BY DoingFits
  <1>2. IsSeq(Top.todo) /\ DOMAIN Top = FrameFields
    BY <1>1, TopFits, Zenon DEF FrameFits
  <1> DEFINE G(todo) == [Top EXCEPT !.todo = todo]
  <1>3. Rest(ctx.frames) = Append(Front(ctx.frames), G(Tail(Top.todo)))
    BY DEF Rest, Top
  <1>4. \A todo \in {Tail(Top.todo), more \o Tail(Top.todo), more} :
          G(todo).begun /\ Pending(G(todo)) \subseteq Pending(Top)
    <2>1. /\ Naming(Tail(Top.todo)) \subseteq Naming(Top.todo)
          /\ Naming(more \o Tail(Top.todo)) \subseteq Naming(Top.todo)
      BY <1>1, <1>2, NamingTail
    <2> QED BY <1>1, <2>1, NamesNoMore
  <1>5. [Top EXCEPT !.todo = more \o Tail(@)] = G(more \o Tail(Top.todo)) /\ [Top EXCEPT !.todo = more] = G(more)
    BY <1>2 DEF FrameFields
  <1> HIDE DEF G
  <1>6. \E g : /\ g.begun /\ Pending(g) \subseteq Pending(Top)
               /\ \/ d.frames = Append(Front(ctx.frames), g)
                  \/ \E h : ~ h.begun /\ d.frames = Append(Append(Front(ctx.frames), g), h)
    <2>1. CASE d.frames = Rest(ctx.frames)
      BY <1>3, <1>4, <2>1
    <2>2. CASE d.frames = Append(Front(ctx.frames), [Top EXCEPT !.todo = more \o Tail(@)])
      BY <1>4, <1>5, <2>2
    <2>3. CASE d.frames = Append(Front(ctx.frames), [Top EXCEPT !.todo = more])
      BY <1>4, <1>5, <2>3
    <2>4. CASE \E h : ~ h.begun /\ d.frames = Append(Rest(ctx.frames), h)
      BY <1>3, <1>4, <2>4
    <2> QED BY <2>1, <2>2, <2>3, <2>4
  <1> QED BY <1>1, <1>6, ChainsKept

\* Rows of the same successors, types and states.
ChainsSame(w, u) ==
  /\ DOMAIN u = DOMAIN w
  /\ \A k \in DOMAIN w : u[k].next = w[k].next /\ u[k].type = w[k].type /\ u[k].state = w[k].state

LEMMA NextsSame ==
  ASSUME NEW w, NEW u, ChainsSame(w, u)
  PROVE  Nexts(u) = Nexts(w) /\ \A k : Superseding(u, k) <=> Superseding(w, k)
  <1>1. {j \in DOMAIN u : u[j].next # None} = {j \in DOMAIN w : w[j].next # None}
    BY DEF ChainsSame
  <1>2. Nexts(u) = Nexts(w)
    BY <1>1 DEF Nexts, ChainsSame
  <1>3. \A k : Superseding(u, k) <=> Superseding(w, k)
    BY DEF Superseding, StateOf, TypeOf, ChainsSame
  <1> QED BY <1>2, <1>3

LEMMA ChainsGo ==
  ASSUME NEW d, NEW op, RowsInv, ChainsInv, Doing(op), ctx' = d, ChainsSame(ctx.work, d.work),
         \/ d.frames = Rest(ctx.frames)
         \/ \E h : ~ h.begun /\ d.frames = Append(Rest(ctx.frames), h)
  PROVE  ChainsInv'
  <1>1. Nexts(d.work) = Nexts(ctx.work) /\ \A k : Superseding(d.work, k) <=> Superseding(ctx.work, k)
    <2> DEFINE w == ctx.work
               u == d.work
    <2> HIDE DEF w, u
    <2>1. Nexts(u) = Nexts(w) /\ \A k : Superseding(u, k) <=> Superseding(w, k)
      <3>1. ChainsSame(w, u)
        BY DEF w, u
      <3> QED BY <3>1, NextsSame
    <2> QED BY <2>1 DEF w, u
  <1>2. DOMAIN d.work = DOMAIN ctx.work
    BY DEF ChainsSame
  <1>3. IsSeq(<<>>) /\ Naming(<<>>) = {}
    BY DEF IsSeq, Range, Naming
  <1>4. objects' = objects
    BY DoingFits
  <1> DEFINE more == <<>>
  <1>5. IsSeq(more) /\ Naming(more) = {}
    BY <1>3
  <1> HIDE DEF more
  <1> QED BY <1>1, <1>2, <1>4, <1>5, ChainsDoing

LEMMA LocationChains ==
  ASSUME NEW op, NEW a, NEW v, RowsInv, ChainsInv, Doing(op), Go(Location(ctx, Top.id, a, v))
  PROVE  ChainsInv'
  <1> DEFINE d == [Location(ctx, Top.id, a, v) EXCEPT !.frames = Rest(@)]
  <1>1. DOMAIN ctx = CtxFields /\ DOMAIN ctx.work[Top.id] = RowFields
    BY DoingFits, TopFits, Zenon DEF DeclaredRow
  <1>2. d.frames = Rest(ctx.frames) /\ d.work = [ctx.work EXCEPT ![Top.id].attrs[a] = v]
    BY <1>1 DEF Location, CtxFields
  <1>3. ctx' = d
    BY DEF Go
  <1> HIDE DEF d
  <1>4. ChainsSame(ctx.work, d.work)
    BY <1>1, <1>2 DEF ChainsSame, RowFields
  <1> QED BY <1>2, <1>3, <1>4, ChainsGo

LEMMA RefuseChains ==
  ASSUME NEW clause, ChainsInv, objects' = objects, Refuse(clause)
  PROVE  ChainsInv'
  BY ChainsStay DEF Refuse

LEMMA GoChains ==
  ASSUME NEW op, NEW g, RowsInv, ChainsInv, Doing(op), ctx' = [ctx EXCEPT !.group = g, !.frames = Rest(@)]
  PROVE  ChainsInv'
  <1> DEFINE d == [ctx EXCEPT !.group = g, !.frames = Rest(@)]
  <1>1. DOMAIN ctx = CtxFields
    BY DoingFits, TopFits
  <1>2. d.frames = Rest(ctx.frames) /\ d.work = ctx.work
    BY <1>1 DEF CtxFields
  <1>3. ctx' = d
    OBVIOUS
  <1> HIDE DEF d
  <1> QED BY <1>2, <1>3, ChainsGo DEF ChainsSame

LEMMA GoAsIsChains ==
  ASSUME NEW op, RowsInv, ChainsInv, Doing(op), Go(ctx)
  PROVE  ChainsInv'
  <1>1. DOMAIN ctx = CtxFields
    BY DoingFits, TopFits
  <1>2. ctx' = [ctx EXCEPT !.group = ctx.group, !.frames = Rest(@)]
    BY <1>1 DEF Go, CtxFields
  <1> QED BY <1>2, GoChains, Zenon

LEMMA CauseChains ==
  ASSUME NEW op, NEW t, NEW xn, NEW id, NEW inputs, NEW cause, RowsInv, ChainsInv, Doing(op),
         Cause(Frame(t, xn, id, inputs, cause))
  PROVE  ChainsInv'
  <1> DEFINE h == Frame(t, xn, id, inputs, cause)
             d == [ctx EXCEPT !.frames = Append(Rest(@), h)]
  <1>1. DOMAIN ctx = CtxFields
    BY DoingFits, TopFits
  <1>2. ~ h.begun
    BY Zenon DEF Frame
  <1> HIDE DEF h
  <1>3. d.frames = Append(Rest(ctx.frames), h) /\ d.work = ctx.work
    BY <1>1 DEF CtxFields
  <1>4. ctx' = d
    BY DEF Cause, h
  <1> HIDE DEF d
  <1> QED BY <1>2, <1>3, <1>4, ChainsGo DEF ChainsSame

\* More to do, of which nothing names a successor.
LEMMA AheadChains ==
  ASSUME NEW op, NEW more, NEW todo, NEW g, RowsInv, ChainsInv, Doing(op), IsSeq(more), Naming(more) = {},
         todo \in {more, more \o Tail(Top.todo)},
         ctx' = [ctx EXCEPT !.group = g, !.frames = Append(Front(@), [Top EXCEPT !.todo = todo])]
  PROVE  ChainsInv'
  <1> DEFINE d == [ctx EXCEPT !.group = g, !.frames = Append(Front(@), [Top EXCEPT !.todo = todo])]
  <1>1. DOMAIN ctx = CtxFields /\ objects' = objects /\ FrameFits(ctx.work, Top)
    BY DoingFits, TopFits
  <1>2. [Top EXCEPT !.todo = more \o Tail(@)] = [Top EXCEPT !.todo = more \o Tail(Top.todo)]
    BY <1>1, Zenon DEF FrameFits, FrameFields
  <1>3. d.work = ctx.work /\ d.frames = Append(Front(ctx.frames), [Top EXCEPT !.todo = todo])
    BY <1>1 DEF CtxFields
  <1>4. ctx' = d
    OBVIOUS
  <1> HIDE DEF d
  <1>5. \/ d.frames = Append(Front(ctx.frames), [Top EXCEPT !.todo = more \o Tail(@)])
        \/ d.frames = Append(Front(ctx.frames), [Top EXCEPT !.todo = more])
    BY <1>2, <1>3
  <1>6. Nexts(d.work) \subseteq Nexts(ctx.work) \cup Pendings(ctx.frames) /\ DOMAIN ctx.work \subseteq DOMAIN d.work
        /\ \A k : Superseding(ctx.work, k) => Superseding(d.work, k)
    BY <1>3
  <1> QED BY <1>1, <1>4, <1>5, <1>6, ChainsDoing

\* Calls name no successor.
LEMMA CallsName ==
  ASSUME NEW ids, NEW xn, NEW args
  PROVE  Naming(Calls(ids, xn, args)) = {}
  BY DEF Naming, Calls, Range

LEMMA AssignChains ==
  ASSUME RowsInv, ChainsInv, Assign
  PROVE  ChainsInv'
  <1>1. Doing("assign") /\ objects' = objects
    BY DoingFits DEF Assign
  <1>2. Go(ctx) \/ (\E clause : Refuse(clause)) \/ (\E a, v : Go(Location(ctx, Top.id, a, v)))
    BY Zenon DEF Assign
  <1> QED BY <1>1, <1>2, GoAsIsChains, RefuseChains, LocationChains

LEMMA ClearChains ==
  ASSUME RowsInv, ChainsInv, Clear
  PROVE  ChainsInv'
  BY LocationChains DEF Clear

\* The successor named: the edge was to be.
LEMMA SupersedeChains ==
  ASSUME RowsInv, ChainsInv, Supersede
  PROVE  ChainsInv'
  <1> DEFINE st == Head(Top.todo)
             v == Top.inputs[st.input]
             w == [ctx.work EXCEPT ![Top.id].next = v]
             d == [ctx EXCEPT !.work = w, !.frames = Rest(@)]
  <1>1. Doing("supersede") /\ objects' = objects /\ st.op = "supersede" /\ Top.begun /\ Top.todo # <<>>
        /\ ctx.phase = "take" /\ ctx.frames # <<>>
    BY DoingFits DEF Supersede
  <1>2. /\ DOMAIN ctx = CtxFields /\ Top.id \in DOMAIN ctx.work /\ DOMAIN ctx.work[Top.id] = RowFields
        /\ IsSeq(Top.todo) /\ IsSeq(ctx.frames)
    BY <1>1, TopFits, Zenon DEF DeclaredRow
  <1>3. <<Top.id, v>> \in Pendings(ctx.frames)
    <2>1. st \in Range(Top.todo) /\ Top \in Range(ctx.frames)
      BY <1>1, <1>2, SeqRest DEF Top
    <2>2. st \in Naming(Top.todo)
      BY <1>1, <2>1 DEF Naming
    <2>3. <<Top.id, v>> \in Pending(Top)
      BY <1>1, <2>2 DEF Pending
    <2> QED BY <2>1, <2>3 DEF Pendings
  <1> HIDE DEF st, v
  <1>4. ctx' = d
    BY <1>2 DEF Supersede, Go, CtxFields, st, v
  <1>5. d.work = w /\ d.frames = Rest(ctx.frames)
    BY <1>2 DEF CtxFields
  <1> HIDE DEF d
  <1>6. /\ DOMAIN w = DOMAIN ctx.work
        /\ \A k \in DOMAIN ctx.work : /\ w[k].type = ctx.work[k].type /\ w[k].state = ctx.work[k].state
                                      /\ w[k].next = IF k = Top.id THEN v ELSE ctx.work[k].next
    BY <1>2 DEF RowFields
  <1> HIDE DEF w
  <1>7. Nexts(w) \subseteq Nexts(ctx.work) \cup Pendings(ctx.frames)
    <2> SUFFICES ASSUME NEW k \in DOMAIN w, w[k].next # None
                 PROVE  <<k, w[k].next>> \in Nexts(ctx.work) \cup Pendings(ctx.frames)
      BY DEF Nexts
    <2>1. CASE k = Top.id
      BY <1>3, <1>6, <2>1
    <2>2. CASE k # Top.id
      BY <1>6, <2>2 DEF Nexts
    <2> QED BY <2>1, <2>2
  <1>8. \A k : Superseding(ctx.work, k) => Superseding(w, k)
    BY <1>6 DEF Superseding, StateOf, TypeOf
  <1> DEFINE more == <<>>
  <1>9. IsSeq(more) /\ Naming(more) = {}
    BY DEF IsSeq, Range, Naming
  <1> HIDE DEF more
  <1> QED BY <1>1, <1>4, <1>5, <1>6, <1>7, <1>8, <1>9, ChainsDoing

LEMMA CallChains ==
  ASSUME RowsInv, ChainsInv, Call
  PROVE  ChainsInv'
  <1>1. Doing("call") /\ (Go(ctx) \/ \E t, xn, id, inputs, cause : Cause(Frame(t, xn, id, inputs, cause)))
    BY Zenon DEF Call
  <1> QED BY <1>1, GoAsIsChains, CauseChains

LEMMA CreateChains ==
  ASSUME RowsInv, ChainsInv, Create
  PROVE  ChainsInv'
  <1>1. Doing("create") /\ \E t, xn, id, inputs, cause : Cause(Frame(t, xn, id, inputs, cause))
    BY Zenon DEF Create
  <1> QED BY <1>1, CauseChains

LEMMA MemberChains ==
  ASSUME RowsInv, ChainsInv, Member
  PROVE  ChainsInv'
  <1>1. Doing("member") /\ (Go(ctx) \/ \E t, xn, id, inputs, cause : Cause(Frame(t, xn, id, inputs, cause)))
    BY Zenon DEF Member
  <1> QED BY <1>1, GoAsIsChains, CauseChains

LEMMA SettleChains ==
  ASSUME RowsInv, ChainsInv, Settle
  PROVE  ChainsInv'
  <1>1. Doing("settle") /\ objects' = objects
    BY DoingFits, Zenon DEF Settle
  <1>2. Go(ctx) \/ (\E clause : Refuse(clause))
    BY Zenon DEF Settle
  <1> QED BY <1>1, <1>2, GoAsIsChains, RefuseChains

LEMMA UngroupChains ==
  ASSUME RowsInv, ChainsInv, Ungroup
  PROVE  ChainsInv'
  <1>1. Doing("ungroup")
    BY DEF Ungroup
  <1>2. DOMAIN ctx = CtxFields
    BY <1>1, DoingFits, TopFits
  <1>3. ctx' = [ctx EXCEPT !.group = FALSE, !.frames = Rest(@)]
    BY <1>2 DEF Ungroup, Go, CtxFields
  <1> QED BY <1>1, <1>3, GoChains, Zenon

LEMMA EachChains ==
  ASSUME RowsInv, ChainsInv, Each
  PROVE  ChainsInv'
  <1> DEFINE st == Head(Top.todo)
             ids == Parts(ctx.work, st.type, st.by, Top.id)
             calls == Calls(ids, st.x, st.args)
  <1>1. Doing("each") /\ st.op = "each" /\ TodoFits(ctx.work, Top, st)
    BY DoingFits DEF Each
  <1>2. Has(st.type, st.x)
    BY <1>1, Zenon DEF TodoFits, StepFits
  <1>3. Rows(ctx.work) /\ DOMAIN ctx = CtxFields
    BY <1>1, DoingFits, TopFits
  <1>4. ids \subseteq DOMAIN ctx.work /\ \A p \in ids : ctx.work[p].type = st.type
    BY DEF Parts
  <1>5. ctx' = [ctx EXCEPT !.group = ctx.group, !.frames = Append(Front(@), [Top EXCEPT !.todo = calls \o Tail(Top.todo)])]
    BY <1>3 DEF Each, CtxFields
  <1>6. IsSeq(calls) /\ Naming(calls) = {}
    <2> HIDE DEF st, ids
    <2> QED BY <1>2, <1>3, <1>4, CallsFit, CallsName
  <1> HIDE DEF calls
  <1> QED BY <1>1, <1>5, <1>6, AheadChains, Zenon

LEMMA CascadeChains ==
  ASSUME RowsInv, ChainsInv, Cascade
  PROVE  ChainsInv'
  <1> DEFINE cl == Head(Top.todo).clause
             open == {p \in Parts(ctx.work, cl.type, cl.by, Top.id) : Top.x \in cl.on /\ ~ Finished(ctx.work, p)}
             calls == Calls(open, cl.x, cl.args)
  <1>1. Doing("cascade") /\ Head(Top.todo).op = "cascade" /\ TodoFits(ctx.work, Top, Head(Top.todo))
    BY DoingFits DEF Cascade
  <1>2. Has(cl.type, cl.x)
    BY <1>1, Zenon DEF TodoFits, StepFits
  <1>3. Rows(ctx.work) /\ DOMAIN ctx = CtxFields
    BY <1>1, DoingFits, TopFits
  <1>4. open \subseteq DOMAIN ctx.work /\ \A p \in open : ctx.work[p].type = cl.type
    BY DEF Parts
  <1>5. ctx' = [ctx EXCEPT !.group = ctx.group, !.frames = Append(Front(@), [Top EXCEPT !.todo = calls \o Tail(Top.todo)])]
    BY <1>3 DEF Cascade, CtxFields
  <1>6. IsSeq(calls) /\ Naming(calls) = {}
    <2> HIDE DEF cl, open
    <2> QED BY <1>2, <1>3, <1>4, CallsFit, CallsName
  <1> HIDE DEF calls
  <1> QED BY <1>1, <1>5, <1>6, AheadChains, Zenon

LEMMA ChainChains ==
  ASSUME RowsInv, ChainsInv, Chain
  PROVE  ChainsInv'
  <1> DEFINE S == Group(ctx.work, Top.id) \ {Top.id}
             ids == ToSeq(S)
             members == [i \in DOMAIN ids |-> [op |-> "member", id |-> ids[i]]]
             last == [op |-> "ungroup"]
  <1>1. Doing("chain")
    BY DEF Chain
  <1>2. Rows(ctx.work)
    BY <1>1, DoingFits, TopFits
  <1>3. ids \in [1..Cardinality(S) -> S] /\ Cardinality(S) \in Nat
    <2>1. Cardinality(DOMAIN ctx.work) \in Nat /\ IsFiniteSet(DOMAIN ctx.work)
      BY <1>2, FS_CardinalityType DEF Rows
    <2>2. DOMAIN ctx.work \subseteq Nat /\ S \subseteq DOMAIN ctx.work
      BY <1>2, <2>1 DEF Rows, Group
    <2> HIDE DEF S
    <2>3. S \subseteq Nat /\ IsFiniteSet(S)
      BY <2>1, <2>2, FS_Subset
    <2> QED BY <2>3, ToSeqFits
  <1> HIDE DEF ids, S
  <1>4. IsSeq(members) /\ Naming(members) = {}
    <2>1. DOMAIN members = 1..Cardinality(S) /\ \A i \in 1..Cardinality(S) : members[i].op = "member"
      BY <1>3
    <2>2. members \in [1..Cardinality(S) -> Range(members)]
      BY <2>1 DEF Range
    <2> HIDE DEF members
    <2>3. members \in Seq(Range(members))
      BY <1>3, <2>2
    <2> QED BY <2>1, <2>3 DEF IsSeq, Naming, Range
  <1> DEFINE more == Append(members, last)
  <1> HIDE DEF members
  <1>5. IsSeq(more) /\ Naming(more) = {}
    <2>1. IsSeq(more) /\ Range(more) = Range(members) \cup {last}
      BY <1>4, SeqAppend
    <2> QED BY <1>4, <2>1 DEF Naming
  <1>6. CASE Go(ctx)
    BY <1>1, <1>6, GoAsIsChains
  <1>7. CASE ctx' = [ctx EXCEPT !.group = TRUE, !.frames = Append(Front(@), [Top EXCEPT !.todo = members \o <<last>>])]
    <2> HIDE DEF last
    <2>1. members \o <<last>> = more
      <3>1. members \in Seq(Range(members) \cup {last})
        BY <1>4 DEF IsSeq
      <3> QED BY <3>1
    <2> DEFINE todo == more
    <2>2. ctx' = [ctx EXCEPT !.group = TRUE, !.frames = Append(Front(@), [Top EXCEPT !.todo = todo])]
      BY <1>7, <2>1
    <2> HIDE DEF more
    <2> QED BY <1>1, <1>5, <2>2, AheadChains, Zenon
  <1> QED BY <1>6, <1>7 DEF Chain, S, ids, members, last

\* The transition left, those around it are begun.
LEMMA FrontDown ==
  ASSUME NEW s, NEW w, IsSeq(s), s # <<>>, \A i \in 1..(Len(s) - 1) : s[i].begun
  PROVE  Pendings(Front(s)) \subseteq Pendings(s) /\ Stacked(w, Front(s))
  <1> DEFINE b == Front(s)
  <1>1. /\ Range(b) \subseteq Range(s) /\ Len(s) \in Nat \ {0} /\ Len(b) = Len(s) - 1
        /\ \A i \in 1..(Len(s) - 1) : b[i] = s[i]
    BY SeqRest
  <1> HIDE DEF b
  <1>2. Pendings(b) \subseteq Pendings(s)
    BY <1>1 DEF Pendings
  <1>3. \A i \in 1..Len(b) : b[i].begun
    BY <1>1
  <1>4. \A i \in 1..(Len(b) - 1) : i \in 1..Len(b)
    BY <1>1
  <1>5. Len(b) = 1 => b[1].begun
    BY <1>3
  <1>6. Stacked(w, b)
    BY <1>3, <1>4, <1>5 DEF Stacked
  <1> QED BY <1>2, <1>6 DEF b

\* Rows whose chains are the same, and frames that are to name no more.
LEMMA ChainsLess ==
  ASSUME NEW w, NEW u, NEW E, NEW F, ChainsSame(w, u), Downward(w, Nexts(w) \cup E), F \subseteq E
  PROVE  Downward(u, Nexts(u) \cup F)
  <1>1. Nexts(u) = Nexts(w) /\ \A k : Superseding(u, k) <=> Superseding(w, k)
    BY NextsSame
  <1>2. DOMAIN w \subseteq DOMAIN u
    BY DEF ChainsSame
  <1>3. Nexts(u) \cup F \subseteq Nexts(w) \cup E
    BY <1>1
  <1> DEFINE G == Nexts(u) \cup F
             H == Nexts(w) \cup E
  <1> HIDE DEF G, H
  <1>4. Downward(u, G)
    BY <1>1, <1>2, <1>3, DownwardSub DEF G, H
  <1> QED BY <1>4 DEF G

LEMMA LeaveChains ==
  ASSUME RowsInv, ChainsInv, Leave
  PROVE  ChainsInv'
  <1>1. ctx.phase = "take" /\ ctx.frames # <<>> /\ objects' = objects
    BY Zenon DEF Leave
  <1>2. /\ DOMAIN ctx = CtxFields /\ IsSeq(ctx.frames) /\ \A i \in 1..(Len(ctx.frames) - 1) : ctx.frames[i].begun
        /\ Downward(ctx.work, Nexts(ctx.work) \cup Pendings(ctx.frames))
    <2>1. ctx # Idle
      BY <1>1 DEF Idle
    <2> QED BY <1>1, <2>1, TopFits DEF ChainsInv, Stacked
  <1>3. CASE Refuse("occurred_within")
    BY <1>1, <1>3, RefuseChains
  <1>4. ASSUME NEW done, NEW e, NEW last, NEW wrote,
               DOMAIN done = RowFields, done.id = Top.id, done.type = ctx.work[Top.id].type,
               done.next = ctx.work[Top.id].next, done.state = ctx.work[Top.id].state,
               done.attrs = ctx.work[Top.id].attrs,
               ctx' = [ctx EXCEPT !.work = [@ EXCEPT ![Top.id] = done], !.events = ctx.events \cup {e},
                                  !.last = last, !.wrote = wrote, !.frames = Front(@)]
        PROVE  ChainsInv'
    <2> DEFINE w == [ctx.work EXCEPT ![Top.id] = done]
    <2>1. ctx'.work = w /\ ctx'.frames = Front(ctx.frames)
      BY <1>2, <1>4 DEF CtxFields
    <2>2. ChainsSame(ctx.work, w)
      BY <1>4 DEF ChainsSame
    <2> HIDE DEF w
    <2>3. Pendings(Front(ctx.frames)) \subseteq Pendings(ctx.frames) /\ Stacked(w, Front(ctx.frames))
      BY <1>1, <1>2, FrontDown
    <2>4. Downward(w, Nexts(w) \cup Pendings(Front(ctx.frames)))
      BY <1>2, <2>2, <2>3, ChainsLess
    <2>5. Downward(ctx'.work, Nexts(ctx'.work) \cup Pendings(ctx'.frames)) /\ Stacked(ctx'.work, ctx'.frames)
      BY <2>1, <2>3, <2>4
    <2> QED BY <1>1, <2>5, ChainsStay
  <1> QED BY <1>3, <1>4, LeaveLeaves, Zenon

LEMMA ConcludeChains ==
  ASSUME RowsInv, ChainsInv, Conclude
  PROVE  ChainsInv'
  <1>1. ctx.phase = "take" /\ ctx.frames = <<>> /\ objects' = objects
    BY DEF Conclude
  <1>2. /\ DOMAIN ctx = CtxFields /\ Rows(ctx.work)
        /\ Downward(ctx.work, Nexts(ctx.work) \cup Pendings(ctx.frames)) /\ Stacked(ctx.work, ctx.frames)
    BY <1>1 DEF RowsInv, Deciding, Idle, ChainsInv
  <1>3. CASE Refuse("invariant_violated")
    BY <1>1, <1>3, RefuseChains
  <1> DEFINE u == [id \in DOMAIN ctx.work |->
                     IF id \in Affected THEN [ctx.work[id] EXCEPT !.admitted = Admitted(id)] ELSE ctx.work[id]]
  <1>4. CASE ctx' = [ctx EXCEPT !.phase = "write", !.work = u]
    <2>1. ctx'.work = u /\ ctx'.frames = ctx.frames
      BY <1>2, <1>4 DEF CtxFields
    <2>2. \A k \in DOMAIN ctx.work : DOMAIN ctx.work[k] = RowFields
      BY <1>2, RowDomain
    <2>3. ChainsSame(ctx.work, u)
      BY <2>2 DEF ChainsSame, RowFields
    <2> HIDE DEF u
    <2>4. Downward(u, Nexts(u) \cup Pendings(ctx.frames))
      BY <1>2, <2>3, ChainsLess
    <2>5. Stacked(u, ctx.frames)
      BY <1>1 DEF Stacked
    <2> QED BY <1>1, <2>1, <2>4, <2>5, ChainsStay
  <1> QED BY <1>3, <1>4 DEF Conclude

\* A proposal joins no chain.
LEMMA ProposalChains ==
  ASSUME NEW w, NEW u, NEW o, Downward(w, Nexts(w)), ProposalRow(o), o.id \in DOMAIN w => w[o.id].type = PROPOSAL,
         DOMAIN u = DOMAIN w \cup {o.id}, u[o.id] = o, \A k \in DOMAIN w \ {o.id} : u[k] = w[k]
  PROVE  Downward(u, Nexts(u))
  <1>1. PROPOSAL \notin DOMAIN Decl /\ o.next = None
    BY DeclAssumption, Zenon DEF ProposalRow
  <1>2. Nexts(u) \subseteq Nexts(w)
    BY <1>1 DEF Nexts
  <1>3. ASSUME NEW k, Superseding(w, k) PROVE Superseding(u, k)
    BY <1>1, <1>3 DEF Superseding, StateOf, TypeOf
  <1> QED BY <1>2, <1>3, DownwardSub

\* The store's rows replaced, and no decision under way.
LEMMA ChainsStore ==
  ASSUME NEW u, Downward(u, Nexts(u)), objects' = u, ctx' = Idle
  PROVE  ChainsInv'
  BY DEF ChainsInv

LEMMA WriteChains ==
  ASSUME RowsInv, ChainsInv, Write
  PROVE  ChainsInv'
  <1>1. ctx.phase = "write" /\ ctx' = Idle
    BY DEF Write
  <1>2. Deciding(ctx) /\ Downward(ctx.work, Nexts(ctx.work) \cup Pendings(ctx.frames))
    BY <1>1 DEF RowsInv, Idle, ChainsInv
  <1>3. CASE objects' = objects
    BY <1>1, <1>3, ChainsStay
  <1> DEFINE u == Merged
  <1>4. Downward(u, Nexts(u))
    <2>1. Downward(ctx.work, Nexts(ctx.work))
      <3> DEFINE w == ctx.work
                 E == Nexts(w)
                 F == E \cup Pendings(ctx.frames)
      <3>1. Downward(w, F) /\ E \subseteq F
        BY <1>2
      <3> HIDE DEF w, E, F
      <3>2. Downward(w, E)
        BY <3>1, DownwardSub
      <3> QED BY <3>2 DEF w, E
    <2>2. CASE ctx.first = {}
      <3>1. DOMAIN u = DOMAIN ctx.work /\ \A k \in DOMAIN ctx.work : u[k] = ctx.work[k]
        BY <2>2 DEF Merged
      <3> HIDE DEF u
      <3>2. ChainsSame(ctx.work, u)
        BY <3>1 DEF ChainsSame
      <3> DEFINE E == Pendings(ctx.frames)
                 F == {}
      <3>3. Downward(u, Nexts(u) \cup F)
        <4>1. Downward(ctx.work, Nexts(ctx.work) \cup E) /\ F \subseteq E
          BY <1>2
        <4> HIDE DEF E, F
        <4> QED BY <3>2, <4>1, ChainsLess
      <3>4. Nexts(u) \cup F = Nexts(u)
        OBVIOUS
      <3>5. Downward(u, Nexts(u))
        BY <3>3, <3>4
      <3> QED BY <3>5 DEF u
    <2>3. CASE ctx.first # {}
      <3>1. PICK d \in ctx.first : ctx.first = {d} /\ FirstFits(d)
        BY <1>2, <2>3 DEF Deciding
      <3> DEFINE o == d.row
      <3>2. ProposalRow(o) /\ o.id \in DOMAIN ctx.work /\ ctx.work[o.id].type = PROPOSAL
        BY <1>2, <3>1 DEF FirstFits, Deciding, Grown
      <3>3. (CHOOSE e \in ctx.first : TRUE) = d
        BY <3>1
      <3>4. DOMAIN u = DOMAIN ctx.work \cup {o.id} /\ u[o.id] = o /\ \A k \in DOMAIN ctx.work \ {o.id} : u[k] = ctx.work[k]
        BY <3>1, <3>2, <3>3 DEF Merged
      <3> HIDE DEF u, o
      <3>5. Downward(u, Nexts(u))
        BY <2>1, <3>2, <3>4, ProposalChains
      <3> QED BY <3>5 DEF u
    <2> QED BY <2>2, <2>3
  <1>5. CASE objects' = Stored
    <2> DEFINE v == Stored
               F == {}
    <2>1. ChainsSame(u, v)
      BY <1>1, StoredSame DEF ChainsSame
    <2>2. Downward(u, Nexts(u) \cup F)
      <3>1. Nexts(u) \cup F = Nexts(u)
        OBVIOUS
      <3> QED BY <1>4, <3>1
    <2> HIDE DEF u, v
    <2>3. Downward(v, Nexts(v) \cup F)
      <3> HIDE DEF F
      <3> QED BY <2>1, <2>2, ChainsLess
    <2>4. Nexts(v) \cup F = Nexts(v)
      OBVIOUS
    <2>5. Downward(v, Nexts(v))
      BY <2>3, <2>4
    <2> QED BY <1>1, <1>5, <2>5, ChainsStore DEF v
  <1> QED BY <1>3, <1>5, WriteStores

LEMMA AnswerChains ==
  ASSUME NEW clause, ChainsInv, Answer(clause)
  PROVE  ChainsInv'
  BY ChainsStay DEF Answer

\* A request taken up: its transition is taken from a state it is taken from.
LEMMA StartChains ==
  ASSUME NEW r, NEW c, NEW cause, NEW filed, NEW occurred, NEW first,
         ChainsInv, Asked(r) = "ok", objects' = objects,
         ctx' = Started(r, Frame(r.type, r.x, r.id, r.inputs, c), cause, filed, occurred, first)
  PROVE  ChainsInv'
  <1> DEFINE f == Frame(r.type, r.x, r.id, r.inputs, c)
             d == Started(r, f, cause, filed, occurred, first)
             s == <<f>>
  <1>1. r.id # None => TakesFrom(r.type, X(f), objects[r.id].state)
    BY Zenon DEF Asked, X, Frame
  <1>2. f.type = r.type /\ f.id = r.id /\ ~ f.begun
    BY Zenon DEF Frame
  <1> HIDE DEF f
  <1>3. d.work = objects /\ d.frames = s
    BY DEF Started
  <1>4. ctx' = d
    BY DEF f
  <1> HIDE DEF d
  <1>5. Len(s) = 1 /\ s[1] = f /\ Range(s) = {f}
    BY DEF Range
  <1> HIDE DEF s
  <1>6. Stacked(objects, s)
    BY <1>1, <1>2, <1>5 DEF Stacked
  <1>7. Pendings(s) = {}
    BY <1>2, <1>5 DEF Pendings, Pending
  <1>8. Downward(objects, Nexts(objects) \cup Pendings(s))
    <2>1. Nexts(objects) \cup Pendings(s) = Nexts(objects)
      BY <1>7
    <2> QED BY <2>1 DEF ChainsInv
  <1> QED BY <1>3, <1>4, <1>6, <1>8, ChainsStay

LEMMA AskChains ==
  ASSUME NEW r, ChainsInv, Ask(r)
  PROVE  ChainsInv'
  <1>1. CASE Answer(Asked(r))
    BY <1>1, AnswerChains
  <1>2. CASE /\ Asked(r) = "ok" /\ objects' = objects
             /\ ctx' = Started(r, Frame(r.type, r.x, r.id, r.inputs, None), None, None, r.occurred, {})
    BY <1>2, StartChains
  <1> QED BY <1>1, <1>2, Zenon DEF Ask

\* Nothing is being decided, and a proposal's row is written.
LEMMA PutChains ==
  ASSUME NEW o, RowsInv, ChainsInv, ctx' = Idle, ProposalRow(o), objects' = Put(objects, o),
         \/ o.id \in DOMAIN objects /\ objects[o.id].type = PROPOSAL
         \/ o.id = Cardinality(DOMAIN objects) + 1
  PROVE  ChainsInv'
  <1> DEFINE u == Put(objects, o)
             w == objects
  <1>1. DOMAIN u = DOMAIN objects \cup {o.id} /\ u[o.id] = o /\ \A k \in DOMAIN objects \ {o.id} : u[k] = objects[k]
    BY DEF Put
  <1>2. Downward(w, Nexts(w))
    BY DEF ChainsInv
  <1>3. o.id \in DOMAIN objects => objects[o.id].type = PROPOSAL
    <2>1. Cardinality(DOMAIN objects) \in Nat
      BY FS_CardinalityType DEF RowsInv, Rows
    <2>2. Cardinality(DOMAIN objects) + 1 \notin DOMAIN objects
      BY <2>1 DEF RowsInv, Rows
    <2> QED BY <2>2
  <1>4. objects' = u /\ w = objects
    OBVIOUS
  <1> HIDE DEF u, w
  <1>5. Downward(u, Nexts(u))
    <2>1. /\ o.id \in DOMAIN w => w[o.id].type = PROPOSAL
          /\ DOMAIN u = DOMAIN w \cup {o.id} /\ u[o.id] = o /\ \A k \in DOMAIN w \ {o.id} : u[k] = w[k]
      BY <1>1, <1>3, <1>4
    <2> QED BY <1>2, <2>1, ProposalChains
  <1> QED BY <1>4, <1>5, ChainsStore

LEMMA FileChains ==
  ASSUME NEW r, RowsInv, ChainsInv, File(r)
  PROVE  ChainsInv'
  <1>1. CASE Answer(Filed(r))
    BY <1>1, AnswerChains
  <1>2. CASE Filed(r) = "ok"
    BY <1>2, FileRow, PutChains
  <1> QED BY <1>1, <1>2, Zenon DEF File

LEMMA DecideProposalChains ==
  ASSUME NEW r \in Requests, RowsInv, ChainsInv, DecideProposal(r)
  PROVE  ChainsInv'
  <1> DEFINE prop == objects[r.id].prop
             to == CASE r.act = "approve" -> "EXECUTED" [] r.act = "reject" -> "REJECTED" [] OTHER -> "WITHDRAWN"
             held == [r EXCEPT !.id = prop.target, !.type = prop.type, !.x = prop.x, !.inputs = prop.inputs,
                               !.expected = None, !.occurred = prop.occurred]
             d == Decided(r.id, to)
             f == Frame(held.type, held.x, held.id, held.inputs, Len(log) + 1)
  <1>1. r.id \in DOMAIN objects /\ objects[r.id].type = PROPOSAL /\ ctx = Idle
    BY Zenon DEF DecideProposal, Sent
  <1>2. CASE \E clause : Answer(clause)
    BY <1>2, AnswerChains
  <1>3. CASE objects' = Put(objects, d.row) /\ ctx' = ctx
    <2> DEFINE o == d.row
    <2>1. ProposalRow(o) /\ o.id = r.id
      BY <1>1, DecidedFits
    <2> HIDE DEF o, d
    <2>2. objects' = Put(objects, o) /\ ctx' = Idle
      BY <1>1, <1>3 DEF o
    <2> QED BY <1>1, <2>1, <2>2, PutChains
  <1>4. CASE /\ Asked(held) = "ok" /\ objects' = objects
             /\ ctx' = Started(held, f, Len(log) + 1, prop.filed, prop.occurred, {d})
    <2> DEFINE first == {d}
               n == Len(log) + 1
    <2> HIDE DEF d, held
    <2>1. ctx' = Started(held, Frame(held.type, held.x, held.id, held.inputs, n), n, prop.filed, prop.occurred, first)
      BY <1>4
    <2> HIDE DEF first, n
    <2> QED BY <1>4, <2>1, StartChains
  <1> QED BY <1>2, <1>3, <1>4, Zenon DEF DecideProposal

\* No object of the stock is superseded.
LEMMA InitChains ==
  ASSUME Init
  PROVE  ChainsInv
  <1>1. objects = [id \in DOMAIN Stock |-> Founded(id)] /\ ctx = Idle
    BY Zenon DEF Init
  <1>2. ASSUME NEW id \in DOMAIN objects PROVE objects[id].next = None
    <2> DEFINE s == Stock[id]
               x == Decl[s.type].trans[s.x]
               o == New(id, s.type, x.to)
               made == [o EXCEPT !.version = 1, !.attrs = Over(@, s.inputs),
                                 !.writes = [a \in DOMAIN @ |-> IF a \in DOMAIN s.inputs THEN id ELSE None]]
               q == RecordSpans(made, EmptyFn, id, 1)
    <2>1. objects[id] = q
      BY <1>1, <1>2, Zenon DEF Founded
    <2>2. DOMAIN o = RowFields /\ o.next = None
      BY DEF New, RowFields
    <2> HIDE DEF o
    <2>3. DOMAIN made = RowFields /\ made.next = None
      BY <2>2 DEF RowFields
    <2> HIDE DEF made
    <2>4. q.next = made.next
      BY <2>3, RecordedAlike
    <2> HIDE DEF q
    <2> QED BY <2>1, <2>3, <2>4
  <1>3. Nexts(objects) = {}
    BY <1>2 DEF Nexts
  <1>4. Downward(objects, {})
    <2>1. [k \in DOMAIN objects |-> 0] \in [DOMAIN objects -> Nat]
      OBVIOUS
    <2> QED BY <2>1 DEF Downward
  <1> QED BY <1>1, <1>3, <1>4 DEF ChainsInv

\* Edges more from one object to others that lead nowhere yet: those others at
\* the bottom, everything else a step up.
LEMMA DownwardMore ==
  ASSUME NEW w, NEW u, NEW E, NEW N, NEW id, Downward(w, E), DOMAIN u = DOMAIN w \cup {id},
         \A k : Superseding(w, k) => Superseding(u, k),
         \A n \in N : /\ n[1] = id /\ Superseding(u, id)
                      /\ n[2] \in DOMAIN w /\ n[2] # id /\ ~ Superseding(w, n[2])
  PROVE  Downward(u, E \cup N)
  <1>1. PICK r \in [DOMAIN w -> Nat] : \A e \in E : r[e[2]] < r[e[1]]
    BY DEF Downward
  <1>2. \A e \in E : Superseding(w, e[1]) /\ e[1] \in DOMAIN w /\ e[2] \in DOMAIN w
    BY DEF Downward, Superseding
  <1> DEFINE V == {n[2] : n \in N}
             q == [k \in DOMAIN u |-> IF k \in V THEN 0 ELSE IF k \in DOMAIN w THEN r[k] + 1 ELSE 1]
  <1>3. \A k \in DOMAIN w : r[k] \in Nat
    BY <1>1
  <1>4. q \in [DOMAIN u -> Nat]
    BY <1>3
  <1>5. /\ \A k \in DOMAIN u : k \in V => q[k] = 0
        /\ \A k \in DOMAIN w : k \notin V => q[k] = r[k] + 1
        /\ \A k \in DOMAIN u : k \notin V => q[k] > 0
    BY <1>3
  <1>6. \A n \in N : n[2] \in V /\ n[2] \in DOMAIN u
    OBVIOUS
  <1>7. \A v \in V : v \in DOMAIN w /\ v # id /\ ~ Superseding(w, v)
    OBVIOUS
  <1> HIDE DEF q, V
  <1>8. \A e \in E : q[e[2]] < q[e[1]]
    <2> SUFFICES ASSUME NEW e \in E PROVE q[e[2]] < q[e[1]]
      OBVIOUS
    <2>1. e[1] \notin V /\ e[1] \in DOMAIN w /\ e[2] \in DOMAIN w /\ e[2] \in DOMAIN u
      BY <1>2, <1>7
    <2>2. r[e[1]] \in Nat /\ r[e[2]] \in Nat /\ r[e[2]] < r[e[1]] /\ q[e[1]] = r[e[1]] + 1
      BY <1>1, <1>3, <1>5, <2>1
    <2>3. q[e[2]] = 0 \/ q[e[2]] = r[e[2]] + 1
      BY <1>5, <2>1
    <2> QED BY <2>2, <2>3
  <1>9. \A n \in N : q[n[2]] < q[n[1]]
    <2> SUFFICES ASSUME NEW n \in N PROVE q[n[2]] < q[n[1]]
      OBVIOUS
    <2>1. q[n[2]] = 0
      BY <1>5, <1>6
    <2>2. n[1] = id /\ id \notin V /\ id \in DOMAIN u
      BY <1>7
    <2>3. q[id] > 0
      BY <1>5, <2>2
    <2> QED BY <2>1, <2>2, <2>3
  <1>10. \A e \in E \cup N : Superseding(u, e[1]) /\ e[2] \in DOMAIN u
    BY <1>2
  <1>11. \A e \in E \cup N : q[e[2]] < q[e[1]]
    BY <1>8, <1>9
  <1> QED BY <1>4, <1>10, <1>11 DEF Downward

\* A final object stays as it is: no transition but an erasure is taken from a
\* final state, and a superseding state is one.
LEMMA FinalStays ==
  ASSUME NEW t, NEW xn, NEW state, Has(t, xn), state \in DOMAIN Decl[t].states,
         TakesFrom(t, Decl[t].trans[xn], state), Decl[t].trans[xn].kind \in {"external", "assertion"}
  PROVE  ~ Decl[t].states[state].superseding
  <1> DEFINE x == Decl[t].trans[xn]
  <1>1. TypeFits(t) /\ TransFits(t, x)
    BY DeclAssumption, Zenon DEF Has, TypeFits
  <1>2. Decl[t].states[state].superseding => Decl[t].states[state].final
    BY <1>1, Zenon DEF TypeFits
  <1>3. x.kind = "external" => \A s \in x.from : ~ Decl[t].states[s].final
    BY <1>1 DEF TransFits
  <1>4. ~ Decl[t].states[state].final
    <2>1. CASE x.kind = "assertion"
      BY <2>1 DEF TakesFrom
    <2>2. CASE x.kind = "external" /\ x.any
      BY <2>2 DEF TakesFrom
    <2>3. CASE x.kind = "external" /\ ~ x.any
      BY <1>3, <2>3 DEF TakesFrom
    <2> QED BY <2>1, <2>2, <2>3
  <1> QED BY <1>2, <1>4

\* The steps of a transition that name a successor are those of its effect.
LEMMA RemainingNames ==
  ASSUME NEW t, NEW xn, Has(t, xn)
  PROVE  Naming(Remaining(t, xn)) \subseteq Range(Decl[t].trans[xn].effect)
  BY RemainingIs DEF Naming

\* A transition begun stands on those that caused it.
LEMMA FramesBegun ==
  ASSUME NEW s, NEW g, NEW w, IsSeq(s), s # <<>>, \A i \in 1..(Len(s) - 1) : s[i].begun, g.begun
  PROVE  /\ Pendings(Append(Front(s), g)) \subseteq Pendings(s) \cup Pending(g)
         /\ Stacked(w, Append(Front(s), g))
  <1> DEFINE b == Front(s)
             u == Append(b, g)
  <1>1. /\ IsSeq(b) /\ Range(b) \subseteq Range(s) /\ Len(s) \in Nat \ {0}
        /\ Len(b) = Len(s) - 1 /\ \A i \in 1..(Len(s) - 1) : b[i] = s[i]
    BY SeqRest
  <1> HIDE DEF b
  <1>2. /\ Range(u) = Range(b) \cup {g} /\ Last(u) = g /\ Len(u) = Len(b) + 1 /\ \A i \in 1..Len(b) : u[i] = b[i]
    BY <1>1, SeqAppend
  <1>3. u[Len(u)] = g
    BY <1>2 DEF Last
  <1> HIDE DEF u
  <1>4. Pendings(u) \subseteq Pendings(s) \cup Pending(g)
    BY <1>1, <1>2 DEF Pendings
  <1>5. Len(u) = Len(s) /\ \A i \in 1..(Len(u) - 1) : u[i] = s[i]
    BY <1>1, <1>2
  <1>6. Stacked(w, u)
    BY <1>3, <1>5 DEF Stacked
  <1> QED BY <1>4, <1>6 DEF u, b

\* A superseding object is one still, and the successors a transition is now to
\* name are objects that nothing supersedes.
LEMMA BeginChains ==
  ASSUME RowsInv, ChainsInv, Begin
  PROVE  ChainsInv'
  <1> DEFINE f == Top
             x == X(f)
  <1>1. ctx.phase = "take" /\ ctx.frames # <<>> /\ ~ f.begun /\ objects' = objects
    BY Zenon DEF Begin
  <1>2. /\ Deciding(ctx) /\ Rows(ctx.work) /\ IsSeq(ctx.frames) /\ FrameFits(ctx.work, f)
    BY <1>1, TopFits
  <1>3. /\ Downward(ctx.work, Nexts(ctx.work) \cup Pendings(ctx.frames)) /\ Stacked(ctx.work, ctx.frames)
    BY <1>1 DEF ChainsInv, Idle
  <1>4. CASE \E clause : Refuse(clause)
    BY <1>1, <1>4, RefuseChains
  <1>5. ASSUME Checked(f) = "ok", NEW e, NEW g, ctx' = e, Deciding(e), e.frames = Append(Front(ctx.frames), g),
               BegunFrame(g), BegunRows(e.work, g.id)
        PROVE  ChainsInv'
    <2> DEFINE w == ctx.work
               u == e.work
               id == g.id
               E == Nexts(w) \cup Pendings(ctx.frames)
               N == Pending(g)
    <2>1. /\ Has(f.type, f.x) /\ TypeFits(f.type) /\ TransFits(f.type, x) /\ x = Decl[f.type].trans[f.x]
          /\ f.type \in DOMAIN Decl /\ (f.id # None => f.id \in DOMAIN w /\ w[f.id].type = f.type)
      BY <1>2, DeclAssumption, Zenon DEF FrameFits, Has, TypeFits, X, Names
    <2>2. Caused(f) /\ InputsFit(f) /\ SuccessorOpen(f) /\ (x.kind = "initial" <=> f.id = None)
      BY <1>5 DEF Checked
    <2>3. f.id # None => TakesFrom(f.type, x, w[f.id].state)
      <3>1. CASE Depth = 0
        <4>1. Len(ctx.frames) = 1
          <5>1. Len(ctx.frames) \in Nat
            BY <1>2 DEF IsSeq
          <5> QED BY <3>1, <5>1 DEF Depth
        <4>2. ctx.frames[1] = f
          BY <4>1 DEF Top, Last
        <4> QED BY <1>1, <1>3, <4>1, <4>2 DEF Stacked
      <3>2. CASE Depth # 0
        BY <2>2, <3>2 DEF Caused
      <3> QED BY <3>1, <3>2
    <2>4. g.begun /\ g.inputs = f.inputs /\ g.todo = Remaining(f.type, f.x)
      BY <1>5 DEF BegunFrame
    <2>5. /\ DOMAIN u = DOMAIN w \cup {id} /\ u[id].type = f.type
          /\ \A k \in DOMAIN w : /\ u[k].next = w[k].next
                                 /\ (k # id /\ w[k].type \in DOMAIN Decl => u[k].state = w[k].state)
          /\ id \in DOMAIN w => id = f.id
          /\ x.kind = "external" => u[id].state = x.to
          /\ x.kind \notin {"initial", "external", "assertion"} => u[id].state = w[id].state
          /\ id \notin DOMAIN w => x.kind = "initial" /\ u[id].next = None /\ u[id].state = x.to
          /\ x.kind = "initial" => id \notin DOMAIN w
      BY <1>5 DEF BegunRows
    <2>6. id # f.id => id \notin DOMAIN w
      BY <2>5
    <2> HIDE DEF x, f
    <2>7. ASSUME NEW k, Superseding(w, k) PROVE Superseding(u, k)
      <3>1. k \in DOMAIN w /\ w[k].type \in DOMAIN Decl /\ Decl[w[k].type].states[w[k].state].superseding
        BY <2>7 DEF Superseding, StateOf, TypeOf
      <3>2. CASE k # id
        <4>1. u[k].type = w[k].type
          BY <1>5, <3>1 DEF BegunRows
        <4> QED BY <2>5, <3>1, <3>2, <4>1, Zenon DEF Superseding, StateOf, TypeOf
      <3>3. CASE k = id
        <4>1. id = f.id /\ w[id].type = f.type /\ f.id # None
          BY <1>2, <2>1, <2>5, <3>1, <3>3, RowFacts
        <4>2. DeclaredRow(w, w[id]) /\ w[id].state \in DOMAIN Decl[f.type].states
          <5>1. id \in DOMAIN w /\ w[id].type \in DOMAIN Decl /\ Rows(w)
            BY <1>2, <3>1, <3>3
          <5> HIDE DEF w, id
          <5>2. DeclaredRow(w, w[id])
            BY <5>1, RowFacts
          <5> QED BY <4>1, <5>2, Zenon DEF DeclaredRow
        <4>3. x.kind \notin {"external", "assertion"}
          BY <2>1, <2>3, <3>1, <3>3, <4>1, <4>2, FinalStays
        <4>4. x.kind # "initial"
          BY <2>2, <4>1
        <4>5. u[id].state = w[id].state
          BY <2>5, <4>3, <4>4
        <4> QED BY <2>1, <2>5, <3>1, <3>3, <4>1, <4>5, Zenon DEF Superseding, StateOf, TypeOf
      <3> QED BY <3>2, <3>3
    <2>8. ASSUME NEW n \in N
          PROVE  n[1] = id /\ Superseding(u, id) /\ n[2] \in DOMAIN w /\ n[2] # id /\ ~ Superseding(w, n[2])
      <3>1. PICK st \in Naming(g.todo) : n = <<id, g.inputs[st.input]>>
        BY <2>4 DEF Pending
      <3>2. st \in Range(x.effect) /\ st.op = "supersede"
        BY <2>1, <2>4, <3>1, RemainingNames DEF Naming
      <3>3. /\ st.input \in x.other \cap DOMAIN x.refs /\ x.refs[st.input] \in DOMAIN Decl
            /\ x.kind \in {"initial", "external"} /\ Decl[f.type].states[x.to].superseding
        BY <2>1, <3>2, Zenon DEF TransFits, StepFits
      <3> DEFINE v == f.inputs[st.input]
      <3>4. v \in DOMAIN w /\ w[v].type \in DOMAIN Decl /\ st.input \in Given(f)
        <4>1. st.input \in Given(f) /\ InputRef(f.type, x, st.input) = x.refs[st.input]
          BY <2>2, <3>3, Zenon DEF InputsFit, Needed, InputRef, x
        <4>2. x.refs[st.input] # ""
          BY <3>3, DeclAssumption, Zenon
        <4> QED BY <2>2, <3>3, <4>1, <4>2, Zenon DEF InputsFit, RefersIn, Given, x
      <3>5. PICK i \in DOMAIN x.effect : st = x.effect[i]
        BY <3>2 DEF Range
      <3>6. v # f.id /\ ~ (v \in DOMAIN w /\ StateOf(w[v]).superseding)
        BY <2>2, <3>2, <3>4, <3>5, Zenon DEF SuccessorOpen, x
      <3>7. n[1] = id /\ n[2] = v
        BY <2>4, <3>1
      <3>8. v # id
        BY <2>6, <3>4, <3>6
      <3>9. Superseding(u, id)
        <4>1. u[id].state = x.to /\ id \in DOMAIN u
          BY <2>5, <3>3
        <4> QED BY <2>1, <2>5, <3>3, <4>1 DEF Superseding, StateOf, TypeOf
      <3>10. ~ Superseding(w, v)
        BY <3>6 DEF Superseding
      <3> QED BY <3>4, <3>7, <3>8, <3>9, <3>10
    <2>9. Downward(u, E \cup N)
      <3>1. Downward(w, E) /\ DOMAIN u = DOMAIN w \cup {id}
        BY <1>3, <2>5
      <3> HIDE DEF w, u, E, N, id
      <3> QED BY <2>7, <2>8, <3>1, DownwardMore
    <2>10. Nexts(u) \subseteq Nexts(w)
      <3> SUFFICES ASSUME NEW k \in DOMAIN u, u[k].next # None PROVE <<k, u[k].next>> \in Nexts(w)
        BY DEF Nexts
      <3>1. k \in DOMAIN w /\ u[k].next = w[k].next
        BY <2>5
      <3> QED BY <3>1 DEF Nexts
    <2>11. /\ Pendings(Append(Front(ctx.frames), g)) \subseteq Pendings(ctx.frames) \cup Pending(g)
           /\ Stacked(u, Append(Front(ctx.frames), g))
      <3> HIDE DEF u
      <3>1. \A i \in 1..(Len(ctx.frames) - 1) : ctx.frames[i].begun
        BY <1>3 DEF Stacked
      <3> QED BY <1>1, <1>2, <2>4, <3>1, FramesBegun
    <2>12. Downward(e.work, Nexts(e.work) \cup Pendings(e.frames))
      <3> DEFINE F == Nexts(u) \cup Pendings(e.frames)
                 G == E \cup N
      <3>1. F \subseteq G
        BY <1>5, <2>10, <2>11
      <3>2. Downward(u, G)
        BY <2>9
      <3> HIDE DEF F, G, u
      <3>3. Downward(u, F)
        BY <3>1, <3>2, DownwardSub
      <3> QED BY <3>3 DEF F, u
    <2>13. Stacked(e.work, e.frames)
      BY <1>5, <2>11
    <2> QED BY <1>1, <1>5, <2>12, <2>13, ChainsStay
  <1> QED BY <1>4, <1>5, BeginLeaves

LEMMA ChainsStep ==
  ASSUME RowsInv, ChainsInv, [Next]_vars
  PROVE  ChainsInv'
  <1>1. ASSUME NEW r \in Requests, Ask(r) \/ File(r) \/ DecideProposal(r) PROVE ChainsInv'
    BY <1>1, AskChains, FileChains, DecideProposalChains
  <1>2. CASE Begin \/ Assign \/ Clear \/ Supersede \/ Call \/ Create \/ Each \/ Cascade
    BY <1>2, BeginChains, AssignChains, ClearChains, SupersedeChains, CallChains, CreateChains, EachChains, CascadeChains
  <1>3. CASE Settle \/ Chain \/ Member \/ Ungroup \/ Leave \/ Conclude \/ Write
    BY <1>3, SettleChains, ChainChains, MemberChains, UngroupChains, LeaveChains, ConcludeChains, WriteChains
  <1>4. CASE objects' = objects /\ ctx' = ctx
    BY <1>4 DEF ChainsInv
  <1>5. CASE Tick
    BY <1>4, <1>5 DEF Tick
  <1>6. CASE Quiet \/ UNCHANGED vars
    BY <1>4, <1>6 DEF Quiet, vars
  <1> QED BY <1>1, <1>2, <1>3, <1>5, <1>6 DEF Next

\* Where edges lead downwards nothing is among what stands above it.
LEMMA EndsDownward ==
  ASSUME Downward(objects, Nexts(objects))
  PROVE  ChainsEnd
  <1> SUFFICES ASSUME NEW id \in DOMAIN objects, objects[id].next # None
               PROVE  ~ (id \in GroupAhead(objects, objects[id].next))
    BY DEF ChainsEnd
  <1>1. PICK r \in [DOMAIN objects -> Nat] : \A e \in Nexts(objects) : r[e[2]] < r[e[1]]
    BY DEF Downward
  <1>2. \A k \in DOMAIN objects : objects[k].next # None =>
          objects[k].next \in DOMAIN objects /\ r[objects[k].next] < r[k]
    <2> SUFFICES ASSUME NEW k \in DOMAIN objects, objects[k].next # None
                 PROVE  objects[k].next \in DOMAIN objects /\ r[objects[k].next] < r[k]
      OBVIOUS
    <2>1. <<k, objects[k].next>> \in Nexts(objects)
      BY DEF Nexts
    <2> QED BY <1>1, <2>1 DEF Downward
  <1> DEFINE n == objects[id].next
             S == {k \in DOMAIN objects : r[k] <= r[n]}
  <1>3. n \in DOMAIN objects /\ r[n] < r[id] /\ r[n] \in Nat /\ r[id] \in Nat
    BY <1>1, <1>2
  <1>4. n \in S /\ id \notin S
    BY <1>3
  <1>5. Ahead(objects, S)
    <2> SUFFICES ASSUME NEW k \in S, objects[k].next # None PROVE objects[k].next \in S
      BY DEF Ahead
    <2>1. objects[k].next \in DOMAIN objects /\ r[objects[k].next] < r[k]
      BY <1>2
    <2>2. r[objects[k].next] \in Nat /\ r[k] \in Nat /\ r[k] <= r[n]
      BY <1>1, <2>1
    <2> QED BY <1>3, <2>1, <2>2
  <1> QED BY <1>3, <1>4, <1>5 DEF GroupAhead

THEOREM ChainsDescend == Spec => [](RowsInv /\ ChainsInv)
  <1>1. Init => RowsInv /\ ChainsInv
    BY InitRows, InitChains
  <1>2. RowsInv /\ ChainsInv /\ [Next]_vars => (RowsInv /\ ChainsInv)'
    BY RowsStep, ChainsStep
  <1> QED BY <1>1, <1>2, PTL DEF Spec

\* A chain of supersession ends: an object is never among those that stand
\* above the one that supersedes it, so that the walks of an erasure's group
\* (request.rs) come to an end, whatever transitions a cascade took between a
\* successor's being found free and its being written down.
THEOREM ChainsEndSomewhere == Spec => []ChainsEnd
  <1>1. ChainsInv => ChainsEnd
    BY EndsDownward DEF ChainsInv
  <1> QED BY <1>1, ChainsDescend, PTL

----------------------------------------------------------------------------
(* What a step of an outcome leaves alone: the request's events and the    *)
(* count of them, the frames below the innermost, and of that one all but  *)
(* what it has to do.                                                      *)

SameFrame(g) == /\ g.begun = Top.begun /\ g.pos = Top.pos /\ g.cause = Top.cause
                /\ g.type = Top.type /\ g.x = Top.x /\ g.id = Top.id

KeptFrames(s) ==
  \E g : /\ SameFrame(g)
         /\ \/ s = Append(Front(ctx.frames), g)
            \/ \E h : ~ h.begun /\ h.cause = Top.pos /\ s = Append(Append(Front(ctx.frames), g), h)

KeptRest(d) ==
  /\ DOMAIN d = CtxFields
  /\ d.phase = ctx.phase /\ d.events = ctx.events /\ d.next = ctx.next /\ d.first = ctx.first /\ d.root = ctx.root
  /\ DOMAIN d.work = DOMAIN ctx.work /\ d.work[Top.id].type = ctx.work[Top.id].type
  /\ d.work[Top.id].version = ctx.work[Top.id].version
  /\ \A k \in DOMAIN ctx.work : k # Top.id => d.work[k] = ctx.work[k]

Kept(d) == KeptRest(d) /\ KeptFrames(d.frames)

LEMMA TodoSame ==
  ASSUME NEW todo, RowsInv, ctx.phase = "take", ctx.frames # <<>>
  PROVE  SameFrame([Top EXCEPT !.todo = todo])
  <1>1. DOMAIN Top = FrameFields
    BY TopFits, Zenon DEF FrameFits
  <1> QED BY <1>1 DEF SameFrame, FrameFields

LEMMA RestKept ==
  ASSUME RowsInv, ctx.phase = "take", ctx.frames # <<>>
  PROVE  /\ KeptFrames(Rest(ctx.frames))
         /\ \A h : ~ h.begun /\ h.cause = Top.pos => KeptFrames(Append(Rest(ctx.frames), h))
  <1> DEFINE g == [Top EXCEPT !.todo = Tail(Top.todo)]
  <1>1. SameFrame(g)
    BY TodoSame
  <1>2. Rest(ctx.frames) = Append(Front(ctx.frames), g)
    <2>1. DOMAIN Top = FrameFields
      BY TopFits, Zenon DEF FrameFits
    <2> QED BY <2>1 DEF Rest, Top, FrameFields
  <1> HIDE DEF g
  <1> QED BY <1>1, <1>2 DEF KeptFrames

LEMMA GoKept ==
  ASSUME NEW op, NEW c, RowsInv, Doing(op), KeptRest(c), c.frames = ctx.frames, Go(c)
  PROVE  Kept(ctx')
  <1> DEFINE d == [c EXCEPT !.frames = Rest(@)]
  <1>1. ctx' = d
    BY DEF Go
  <1>2. d.frames = Rest(ctx.frames) /\ KeptRest(d)
    BY DEF KeptRest, CtxFields
  <1> HIDE DEF d
  <1>3. KeptFrames(d.frames)
    BY <1>2, RestKept, DoingFits
  <1> QED BY <1>1, <1>2, <1>3 DEF Kept

LEMMA GoAsIsKept ==
  ASSUME NEW op, RowsInv, Doing(op), Go(ctx)
  PROVE  Kept(ctx')
  <1>1. KeptRest(ctx)
    BY DoingFits, TopFits DEF KeptRest
  <1> QED BY <1>1, GoKept

LEMMA LocationKept ==
  ASSUME NEW op, NEW a, NEW v, RowsInv, Doing(op), Go(Location(ctx, Top.id, a, v))
  PROVE  Kept(ctx')
  <1> DEFINE c == Location(ctx, Top.id, a, v)
  <1>1. DOMAIN ctx = CtxFields /\ Top.id \in DOMAIN ctx.work /\ DOMAIN ctx.work[Top.id] = RowFields
    BY DoingFits, TopFits, Zenon DEF DeclaredRow
  <1>2. KeptRest(c) /\ c.frames = ctx.frames
    BY <1>1 DEF Location, KeptRest, CtxFields, RowFields
  <1> HIDE DEF c
  <1>3. Go(c)
    BY DEF c
  <1> QED BY <1>2, <1>3, GoKept

LEMMA CauseKept ==
  ASSUME NEW op, NEW t, NEW xn, NEW id, NEW inputs, RowsInv, Doing(op), Cause(Frame(t, xn, id, inputs, Top.pos))
  PROVE  Kept(ctx')
  <1> DEFINE h == Frame(t, xn, id, inputs, Top.pos)
             d == [ctx EXCEPT !.frames = Append(Rest(@), h)]
  <1>1. DOMAIN ctx = CtxFields
    BY DoingFits, TopFits
  <1>2. ~ h.begun /\ h.cause = Top.pos
    BY Zenon DEF Frame
  <1> HIDE DEF h
  <1>3. d.frames = Append(Rest(ctx.frames), h) /\ KeptRest(d)
    BY <1>1 DEF KeptRest, CtxFields
  <1>4. ctx' = d
    BY DEF Cause, h
  <1> HIDE DEF d
  <1>5. KeptFrames(d.frames)
    BY <1>2, <1>3, RestKept, DoingFits
  <1> QED BY <1>3, <1>4, <1>5 DEF Kept

LEMMA MoreKept ==
  ASSUME NEW op, NEW todo, NEW b, RowsInv, Doing(op),
         ctx' = [ctx EXCEPT !.group = b, !.frames = Append(Front(@), [Top EXCEPT !.todo = todo])]
  PROVE  Kept(ctx')
  <1> DEFINE g == [Top EXCEPT !.todo = todo]
             d == [ctx EXCEPT !.group = b, !.frames = Append(Front(@), g)]
  <1>1. DOMAIN ctx = CtxFields
    BY DoingFits, TopFits
  <1>2. SameFrame(g)
    BY DoingFits, TodoSame
  <1>3. ctx' = d
    OBVIOUS
  <1> HIDE DEF g
  <1>4. d.frames = Append(Front(ctx.frames), g) /\ KeptRest(d)
    BY <1>1 DEF KeptRest, CtxFields
  <1> HIDE DEF d
  <1>5. KeptFrames(d.frames)
    BY <1>2, <1>4 DEF KeptFrames
  <1> QED BY <1>3, <1>4, <1>5 DEF Kept

Outcome == Assign \/ Clear \/ Supersede \/ Call \/ Create \/ Each \/ Cascade \/ Settle \/ Chain \/ Member \/ Ungroup

\* Every step of an outcome is one of these, or a refusal.
LEMMA OutcomeKept ==
  ASSUME RowsInv, Outcome
  PROVE  /\ ctx.phase = "take" /\ ctx.frames # <<>> /\ Top.begun /\ UNCHANGED <<objects, log, now>>
         /\ Kept(ctx') \/ \E clause : Refuse(clause)
  <1>1. ASSUME NEW op, Doing(op)
        PROVE  ctx.phase = "take" /\ ctx.frames # <<>> /\ Top.begun /\ UNCHANGED <<objects, log, now>>
    BY <1>1 DEF Doing
  <1>2. CASE Assign
    <2>1. Doing("assign") /\ (Go(ctx) \/ (\E clause : Refuse(clause)) \/ (\E a, v : Go(Location(ctx, Top.id, a, v))))
      BY <1>2, Zenon DEF Assign
    <2> QED BY <1>1, <2>1, GoAsIsKept, LocationKept
  <1>3. CASE Clear
    BY <1>1, <1>3, LocationKept DEF Clear
  <1>4. CASE Supersede
    <2> DEFINE v == Top.inputs[Head(Top.todo).input]
               c == [ctx EXCEPT !.work[Top.id].next = v]
    <2>1. Doing("supersede") /\ Go(c)
      BY <1>4 DEF Supersede
    <2> HIDE DEF v
    <2>2. DOMAIN ctx = CtxFields /\ Top.id \in DOMAIN ctx.work /\ DOMAIN ctx.work[Top.id] = RowFields
      BY <2>1, DoingFits, TopFits, Zenon DEF DeclaredRow
    <2>3. KeptRest(c) /\ c.frames = ctx.frames
      BY <2>2 DEF KeptRest, CtxFields, RowFields
    <2> HIDE DEF c
    <2> QED BY <1>1, <2>1, <2>3, GoKept
  <1>5. CASE Call
    <2>1. Doing("call") /\ (Go(ctx) \/ \E t, xn, id, inputs : Cause(Frame(t, xn, id, inputs, Top.pos)))
      BY <1>5, Zenon DEF Call
    <2> QED BY <1>1, <2>1, GoAsIsKept, CauseKept
  <1>6. CASE Create
    <2>1. Doing("create") /\ \E t, xn, id, inputs : Cause(Frame(t, xn, id, inputs, Top.pos))
      BY <1>6, Zenon DEF Create
    <2> QED BY <1>1, <2>1, CauseKept
  <1>7. CASE Member
    <2>1. Doing("member") /\ (Go(ctx) \/ \E t, xn, id, inputs : Cause(Frame(t, xn, id, inputs, Top.pos)))
      BY <1>7, Zenon DEF Member
    <2> QED BY <1>1, <2>1, GoAsIsKept, CauseKept
  <1>8. CASE Settle
    <2>1. Doing("settle") /\ (Go(ctx) \/ \E clause : Refuse(clause))
      BY <1>8, Zenon DEF Settle
    <2> QED BY <1>1, <2>1, GoAsIsKept
  <1>9. CASE Ungroup
    <2> DEFINE c == [ctx EXCEPT !.group = FALSE]
    <2>1. Doing("ungroup") /\ Go(c)
      BY <1>9 DEF Ungroup
    <2>2. KeptRest(c) /\ c.frames = ctx.frames
      BY <2>1, DoingFits, TopFits DEF KeptRest, CtxFields
    <2> HIDE DEF c
    <2> QED BY <1>1, <2>1, <2>2, GoKept
  <1>10. ASSUME NEW op, NEW more, Doing(op),
                ctx' = [ctx EXCEPT !.frames = Append(Front(@), [Top EXCEPT !.todo = more \o Tail(@)])]
         PROVE  Kept(ctx')
    <2> DEFINE todo == more \o Tail(Top.todo)
    <2>1. DOMAIN ctx = CtxFields /\ FrameFits(ctx.work, Top)
      BY <1>10, DoingFits, TopFits
    <2>2. [Top EXCEPT !.todo = more \o Tail(@)] = [Top EXCEPT !.todo = todo]
      BY <2>1, Zenon DEF FrameFits, FrameFields
    <2> HIDE DEF todo
    <2>3. ctx' = [ctx EXCEPT !.group = ctx.group, !.frames = Append(Front(@), [Top EXCEPT !.todo = todo])]
      BY <1>10, <2>1, <2>2 DEF CtxFields
    <2> QED BY <1>10, <2>3, MoreKept, Zenon
  <1>11. CASE Each
    <2>1. /\ Doing("each")
          /\ \E more : ctx' = [ctx EXCEPT !.frames = Append(Front(@), [Top EXCEPT !.todo = more \o Tail(@)])]
      BY <1>11, Zenon DEF Each
    <2> QED BY <1>1, <1>10, <2>1
  <1>12. CASE Cascade
    <2>1. /\ Doing("cascade")
          /\ \E more : ctx' = [ctx EXCEPT !.frames = Append(Front(@), [Top EXCEPT !.todo = more \o Tail(@)])]
      BY <1>12, Zenon DEF Cascade
    <2> QED BY <1>1, <1>10, <2>1
  <1>13. CASE Chain
    <2>1. /\ Doing("chain")
          /\ Go(ctx) \/ \E todo : ctx' = [ctx EXCEPT !.group = TRUE, !.frames = Append(Front(@), [Top EXCEPT !.todo = todo])]
      BY <1>13, Zenon DEF Chain
    <2> QED BY <1>1, <2>1, GoAsIsKept, MoreKept, Zenon
  <1> QED BY <1>2, <1>3, <1>4, <1>5, <1>6, <1>7, <1>8, <1>9, <1>11, <1>12, <1>13 DEF Outcome

LEMMA ToSeqOnto ==
  ASSUME NEW S, S \subseteq Nat, IsFiniteSet(S)
  PROVE  \A k \in S : \E i \in 1..Cardinality(S) : ToSeq(S)[i] = k
  <1> DEFINE n == Cardinality(S)
             s == ToSeq(S)
  <1>1. n \in Nat /\ s \in [1..n -> S] /\ \A i, j \in 1..n : i < j => s[i] < s[j]
    BY ToSeqFits
  <1> HIDE DEF s
  <1>2. \A i, j \in 1..n : s[i] = s[j] => i = j
    <2> SUFFICES ASSUME NEW i \in 1..n, NEW j \in 1..n, i # j PROVE s[i] # s[j]
      OBVIOUS
    <2>1. s[i] \in Nat /\ s[j] \in Nat
      BY <1>1
    <2>2. i < j \/ j < i
      BY <1>1
    <2> QED BY <1>1, <2>1, <2>2
  <1>3. s \in Injection(1..n, S)
    BY <1>1, <1>2 DEF Injection, IsInjective
  <1>4. Cardinality(1..n) = n
    BY <1>1, FS_Interval
  <1>5. s \in Surjection(1..n, S)
    BY <1>3, <1>4, FS_Injection
  <1> QED BY <1>5 DEF Surjection, s

\* The events N are numbered from a up to b, one each, and come of event p.
Numbers(N, a, b, p) ==
  /\ a \in Nat /\ b \in Nat /\ a <= b
  /\ \A e \in N : DOMAIN e = EventFields /\ e.pos \in a..(b - 1) /\ e.cause = p
  /\ \A e, f \in N : e.pos = f.pos => e = f
  /\ \A q \in a..(b - 1) : \E e \in N : e.pos = q

LEMMA NumbersMore ==
  ASSUME NEW M, NEW N, NEW a, NEW b, NEW c, NEW p, Numbers(M, a, b, p), Numbers(N, b, c, p)
  PROVE  Numbers(M \cup N, a, c, p)
  <1>1. a \in Nat /\ b \in Nat /\ c \in Nat /\ a <= b /\ b <= c
    BY DEF Numbers
  <1>2. \A e \in M \cup N : DOMAIN e = EventFields /\ e.pos \in a..(c - 1) /\ e.cause = p
    BY <1>1 DEF Numbers
  <1>3. ASSUME NEW e \in M \cup N, NEW f \in M \cup N, e.pos = f.pos PROVE e = f
    <2>1. (e \in M /\ f \in M) \/ (e \in N /\ f \in N)
      BY <1>1, <1>3 DEF Numbers
    <2> QED BY <1>3, <2>1 DEF Numbers
  <1>4. ASSUME NEW q \in a..(c - 1) PROVE \E e \in M \cup N : e.pos = q
    <2>1. q \in a..(b - 1) \/ q \in b..(c - 1)
      BY <1>1
    <2> QED BY <2>1 DEF Numbers
  <1> QED BY <1>1, <1>2, <1>3, <1>4 DEF Numbers

\* An event for each of n places.
LEMMA NumbersEach ==
  ASSUME NEW n \in Nat, NEW a \in Nat, NEW p, NEW E,
         \A i \in 1..n : DOMAIN E[i] = EventFields /\ E[i].pos = a + i - 1 /\ E[i].cause = p
  PROVE  Numbers({E[i] : i \in 1..n}, a, a + n, p)
  <1> DEFINE N == {E[i] : i \in 1..n}
  <1>1. a + n \in Nat /\ a <= a + n
    OBVIOUS
  <1>2. \A e \in N : DOMAIN e = EventFields /\ e.pos \in a..(a + n - 1) /\ e.cause = p
    OBVIOUS
  <1>3. ASSUME NEW e \in N, NEW f \in N, e.pos = f.pos PROVE e = f
    <2>1. PICK i \in 1..n : e = E[i]
      OBVIOUS
    <2>2. PICK j \in 1..n : f = E[j]
      OBVIOUS
    <2>3. a + i - 1 = a + j - 1
      BY <1>3, <2>1, <2>2
    <2>4. i = j
      BY <2>3
    <2> QED BY <2>1, <2>2, <2>4
  <1>4. ASSUME NEW q \in a..(a + n - 1) PROVE \E e \in N : e.pos = q
    <2>1. q - a + 1 \in 1..n /\ a + (q - a + 1) - 1 = q
      OBVIOUS
    <2>2. E[q - a + 1].pos = q /\ E[q - a + 1] \in N
      BY <2>1
    <2> QED BY <2>2
  <1> QED BY <1>1, <1>2, <1>3, <1>4 DEF Numbers

LEMMA EventIs ==
  ASSUME NEW p, NEW o, NEW x, NEW from, NEW source, NEW cause, NEW inputs, NEW wrote, NEW held
  PROVE  LET e == Event(p, o, x, from, source, cause, inputs, wrote, held) IN
         /\ DOMAIN e = EventFields /\ e.pos = p /\ e.cause = cause /\ e.object = o.id /\ e.seq = o.version
         /\ e.x = x /\ e.to = o.state
  BY DEF Event, EventFields

\* An erasure's events, one on each other object its values flowed into.
Adds(c, d, p) == \E N : d.events = c.events \cup N /\ Numbers(N, c.next, d.next, p)

LEMMA RedactAdds ==
  ASSUME NEW c, DOMAIN c = CtxFields, c.next \in Nat, NEW id, NEW p, NEW reached, Rows(c.work)
  PROVE  Adds(c, RedactOthers(c, id, p, reached), p) /\ RedactOthers(c, id, p, reached).root = c.root
  <1> DEFINE d == RedactOthers(c, id, p, reached)
             named == {EventAt(r[1]).object : r \in reached.in} \cup {r[1] : r \in reached.clear}
             ids == {k \in DOMAIN c.work \ {id} : k \in named /\ ~ (c.work[k].erased /\ k \in DOMAIN c.erased)}
             place == ToSeq(ids)
             gone(k) == IF c.work[k].erased THEN {} ELSE {r \in reached.clear : r[1] = k}
             left(k) == LET o == c.work[k] IN
               [o EXCEPT !.version = @ + 1,
                  !.attrs = [a \in DOMAIN @ |-> IF \E r \in gone(k) : r[2] = a THEN Absent ELSE @[a]],
                  !.spans = [e \in DOMAIN @ |-> [i \in DOMAIN @[e] |->
                               IF <<k, e, @[e][i].pos>> \in gone(k)
                               THEN [@[e][i] EXCEPT !.value = Absent] ELSE @[e][i]]]]
             event(i) == LET o == left(place[i]) IN
               Event(c.next + i - 1, o, "redact", o.state, "erased", p, EmptyFn,
                     WroteBetween(Base(c, o.id), o.attrs), NotHeld)
             n == Cardinality(ids)
             E == [i \in 1..n |-> event(i)]
             N == {E[i] : i \in 1..n}
  <1>1. n \in Nat /\ DOMAIN place = 1..n /\ Len(place) = n
    <2>1. Cardinality(DOMAIN c.work) \in Nat
      BY FS_CardinalityType DEF Rows
    <2>2. ids \subseteq Nat /\ IsFiniteSet(ids)
      <3>1. DOMAIN c.work \subseteq Nat /\ ids \in SUBSET DOMAIN c.work /\ IsFiniteSet(DOMAIN c.work)
        BY <2>1 DEF Rows
      <3> HIDE DEF ids
      <3> QED BY <3>1, FS_Subset
    <2> HIDE DEF ids
    <2> QED BY <2>2, ToSeqFits
  <1>2. d.events = c.events \cup {event(i) : i \in DOMAIN place} /\ d.next = c.next + Len(place) /\ d.root = c.root
    BY Zenon DEF RedactOthers, CtxFields
  <1>3. \A i \in 1..n : E[i] = event(i) /\ DOMAIN E[i] = EventFields /\ E[i].pos = c.next + i - 1 /\ E[i].cause = p
    <2> HIDE DEF left, place, n
    <2> QED BY EventIs
  <1> HIDE DEF event, place, n, d
  <1>4. N = {event(i) : i \in DOMAIN place}
    BY <1>1, <1>3
  <1>5. Numbers(N, c.next, c.next + n, p)
    <2>1. \A i \in 1..n : DOMAIN E[i] = EventFields /\ E[i].pos = c.next + i - 1 /\ E[i].cause = p
      BY <1>3
    <2> HIDE DEF E
    <2> QED BY <1>1, <2>1, NumbersEach
  <1> HIDE DEF N
  <1>6. Adds(c, d, p)
    BY <1>1, <1>2, <1>4, <1>5 DEF Adds
  <1> QED BY <1>2, <1>6 DEF d

\* Two sets of numbers with nothing in common, one in order after the other:
\* each number has one place.
LEMMA PlacesFit ==
  ASSUME NEW S, NEW T, S \subseteq Nat, T \subseteq Nat, IsFiniteSet(S), IsFiniteSet(T), S \cap T = {}
  PROVE  LET s == ToSeq(S) \o ToSeq(T) IN
         /\ Len(s) \in Nat /\ DOMAIN s = 1..Len(s)
         /\ \A i \in 1..Len(s) : s[i] \in S \cup T
         /\ \A i, j \in 1..Len(s) : s[i] = s[j] => i = j
         /\ \A k \in S \cup T : \E i \in 1..Len(s) : s[i] = k
  <1> DEFINE a == ToSeq(S)
             b == ToSeq(T)
             n == Cardinality(S)
             m == Cardinality(T)
             s == a \o b
  <1>1. /\ n \in Nat /\ a \in [1..n -> S] /\ a \in Seq(S) /\ Len(a) = n
        /\ \A i, j \in 1..n : i < j => a[i] < a[j]
        /\ \A k \in S : \E i \in 1..n : a[i] = k
    BY ToSeqFits, ToSeqOnto
  <1>2. /\ m \in Nat /\ b \in [1..m -> T] /\ b \in Seq(T) /\ Len(b) = m
        /\ \A i, j \in 1..m : i < j => b[i] < b[j]
        /\ \A k \in T : \E i \in 1..m : b[i] = k
    BY ToSeqFits, ToSeqOnto
  <1> HIDE DEF a, b, n, m
  <1>3. a \in Seq(S \cup T) /\ b \in Seq(S \cup T)
    BY <1>1, <1>2
  <1>4. /\ s \in Seq(S \cup T) /\ Len(s) = n + m
        /\ \A i \in 1..n : s[i] = a[i]
        /\ \A i \in (n + 1)..(n + m) : s[i] = b[i - n]
    BY <1>1, <1>2, <1>3
  <1> HIDE DEF s
  <1>5. Len(s) \in Nat /\ DOMAIN s = 1..Len(s) /\ \A i \in 1..Len(s) : s[i] \in S \cup T
    BY <1>4
  <1>6. \A i \in 1..m : s[n + i] = b[i]
    <2> SUFFICES ASSUME NEW i \in 1..m PROVE s[n + i] = b[i]
      OBVIOUS
    <2>1. n + i \in (n + 1)..(n + m) /\ (n + i) - n = i
      BY <1>1, <1>2
    <2> QED BY <1>4, <2>1
  <1>7. ASSUME NEW i \in 1..(n + m), NEW j \in 1..(n + m), i < j PROVE s[i] # s[j]
    <2>1. CASE j <= n
      <3>1. i \in 1..n /\ j \in 1..n
        BY <1>1, <1>7, <2>1
      <3>2. a[i] \in Nat /\ a[j] \in Nat /\ a[i] < a[j]
        BY <1>1, <1>7, <3>1
      <3> QED BY <1>4, <3>1, <3>2
    <2>2. CASE i > n
      <3> DEFINE x == i - n
                 y == j - n
      <3>1. x \in 1..m /\ y \in 1..m /\ x < y /\ i = n + x /\ j = n + y
        BY <1>1, <1>2, <1>7, <2>2
      <3> HIDE DEF x, y
      <3>2. b[x] \in Nat /\ b[y] \in Nat /\ b[x] < b[y]
        BY <1>2, <3>1
      <3>3. s[i] = b[x] /\ s[j] = b[y]
        BY <1>6, <3>1
      <3> QED BY <3>2, <3>3
    <2>3. CASE i <= n /\ j > n
      <3> DEFINE y == j - n
      <3>1. i \in 1..n /\ y \in 1..m /\ j = n + y
        BY <1>1, <1>2, <1>7, <2>3
      <3> HIDE DEF y
      <3>2. s[i] \in S /\ s[j] \in T
        BY <1>1, <1>2, <1>4, <1>6, <3>1
      <3> QED BY <3>2
    <2> QED BY <1>1, <2>1, <2>2, <2>3
  <1>8. \A i, j \in 1..Len(s) : s[i] = s[j] => i = j
    <2> SUFFICES ASSUME NEW i \in 1..Len(s), NEW j \in 1..Len(s), i # j PROVE s[i] # s[j]
      OBVIOUS
    <2>1. i < j \/ j < i
      BY <1>5
    <2> QED BY <1>4, <1>7, <2>1
  <1>9. ASSUME NEW k \in S \cup T PROVE \E i \in 1..Len(s) : s[i] = k
    <2>1. CASE k \in S
      <3>1. PICK i \in 1..n : a[i] = k
        BY <1>1, <2>1
      <3>2. i \in 1..(n + m)
        BY <1>1, <1>2
      <3> QED BY <1>4, <3>1, <3>2
    <2>2. CASE k \in T
      <3>1. PICK i \in 1..m : b[i] = k
        BY <1>2, <2>2
      <3>2. n + i \in 1..(n + m)
        BY <1>1, <1>2
      <3> QED BY <1>4, <1>6, <3>1, <3>2
    <2> QED BY <2>1, <2>2
  <1> QED BY <1>5, <1>8, <1>9 DEF s, a, b

LEMMA InvalidateAdds ==
  ASSUME NEW c, DOMAIN c = CtxFields, c.next \in Nat, NEW id, NEW p, Rows(c.work)
  PROVE  Adds(c, InvalidateProposals(c, id, p), p) /\ InvalidateProposals(c, id, p).root = c.root
  <1> DEFINE d == InvalidateProposals(c, id, p)
             on == {k \in DOMAIN c.work : c.work[k].type = PROPOSAL /\ c.work[k].prop.target = id}
             pending == {k \in on : c.work[k].state = "PENDING"}
             personal(k) == LET q == c.work[k].prop IN
               {n \in DOMAIN q.inputs : PersonalByOwn(q.type, Decl[q.type].trans[q.x], n)}
             decided == {k \in on \ pending : personal(k) # {}}
             place == ToSeq(pending) \o ToSeq(decided)
             at(k) == c.next + (CHOOSE i \in DOMAIN place : place[i] = k) - 1
             kept(k) == IF k \in pending THEN EmptyFn
                        ELSE [n \in DOMAIN c.work[k].prop.inputs \ personal(k) |-> c.work[k].prop.inputs[n]]
             state(k) == IF k \in pending THEN "INVALIDATED" ELSE c.work[k].state
             left(k) == LET o == c.work[k] IN
               Spanned([o EXCEPT !.version = @ + 1, !.state = state(k), !.prop.inputs = kept(k)],
                       [e \in {"state"} |-> o.state], at(k), c.at)
             event(k) == Event(at(k), left(k), IF k \in pending THEN "invalidate" ELSE "redact",
                               c.work[k].state, "erased", p, EmptyFn, EmptyFn, Held(kept(k)))
             n == Len(place)
             E == [i \in 1..n |-> event(place[i])]
             N == {E[i] : i \in 1..n}
  <1>1. /\ n \in Nat /\ DOMAIN place = 1..n
        /\ \A i \in 1..n : place[i] \in pending \cup decided
        /\ \A i, j \in 1..n : place[i] = place[j] => i = j
        /\ \A k \in pending \cup decided : \E i \in 1..n : place[i] = k
    <2>1. Cardinality(DOMAIN c.work) \in Nat
      BY FS_CardinalityType DEF Rows
    <2>2. DOMAIN c.work \subseteq Nat /\ IsFiniteSet(DOMAIN c.work)
      BY <2>1 DEF Rows
    <2>3. pending \in SUBSET DOMAIN c.work /\ decided \in SUBSET DOMAIN c.work /\ pending \cap decided = {}
      OBVIOUS
    <2> HIDE DEF pending, decided
    <2>4. IsFiniteSet(pending) /\ IsFiniteSet(decided) /\ pending \subseteq Nat /\ decided \subseteq Nat
      BY <2>2, <2>3, FS_Subset
    <2> QED BY <2>3, <2>4, PlacesFit
  <1>2. d.events = c.events \cup {event(k) : k \in pending \cup decided} /\ d.next = c.next + n /\ d.root = c.root
    BY Zenon DEF InvalidateProposals, CtxFields
  <1> HIDE DEF place, pending, decided, d
  <1>3. \A i \in 1..n : at(place[i]) = c.next + i - 1
    BY <1>1
  <1> HIDE DEF at, n
  <1>4. \A i \in 1..n : E[i] = event(place[i]) /\ DOMAIN E[i] = EventFields /\ E[i].pos = c.next + i - 1 /\ E[i].cause = p
    <2> HIDE DEF left, kept
    <2> QED BY <1>3, EventIs
  <1> HIDE DEF event, E
  <1>5. N = {event(k) : k \in pending \cup decided}
    <2>1. \A i \in 1..n : E[i] \in {event(k) : k \in pending \cup decided}
      BY <1>1, <1>4
    <2>2. ASSUME NEW k \in pending \cup decided PROVE event(k) \in N
      <3>1. PICK i \in 1..n : place[i] = k
        BY <1>1
      <3>2. E[i] = event(k)
        BY <1>4, <3>1
      <3> QED BY <3>2
    <2> QED BY <2>1, <2>2
  <1>6. Numbers(N, c.next, c.next + n, p)
    <2>1. \A i \in 1..n : DOMAIN E[i] = EventFields /\ E[i].pos = c.next + i - 1 /\ E[i].cause = p
      BY <1>4
    <2> DEFINE m == n
    <2>2. m \in Nat /\ \A i \in 1..m : DOMAIN E[i] = EventFields /\ E[i].pos = c.next + i - 1 /\ E[i].cause = p
      BY <1>1, <2>1
    <2> HIDE DEF m
    <2>3. Numbers({E[i] : i \in 1..m}, c.next, c.next + m, p)
      BY <2>2, NumbersEach
    <2> QED BY <2>3 DEF m
  <1> HIDE DEF N
  <1>7. Adds(c, d, p)
    BY <1>2, <1>5, <1>6 DEF Adds
  <1> QED BY <1>2, <1>7 DEF d

LEMMA ErasedAdds ==
  ASSUME NEW c, DOMAIN c = CtxFields, c.next \in Nat, Rows(c.work), NEW id \in DOMAIN c.work, NEW p
  PROVE  LET d == Erased(c, c.work[id], p) IN Adds(c, d, p) /\ d.root = c.root
  <1> DEFINE o == c.work[id]
             d == Erased(c, o, p)
             gone == {a \in Personal(o.type) : o.attrs[a] # Absent}
             reached == Reached(o.id, gone)
             bare == [o EXCEPT !.erased = TRUE,
                        !.attrs = [a \in DOMAIN @ |-> IF a \in gone THEN Absent ELSE @[a]],
                        !.spans = [e \in DOMAIN @ |-> IF ~ (e \in Personal(o.type)) THEN @[e]
                                     ELSE [i \in DOMAIN @[e] |-> [@[e][i] EXCEPT !.value = Absent]]]]
             others == RedactOthers(c, o.id, p, reached)
             marked == [others EXCEPT !.erased = Marked(@, o.id, gone)]
             inv == InvalidateProposals(marked, o.id, p)
  <1>1. d = [inv EXCEPT !.work = Put(@, bare)]
    BY DEF Erased
  <1> HIDE DEF bare, reached, gone, o
  <1>2. /\ DOMAIN others = CtxFields /\ Adds(c, others, p) /\ others.root = c.root
        /\ DOMAIN others.work = DOMAIN c.work /\ \A k \in DOMAIN c.work : Alike(c.work[k], others.work[k])
    BY RedactAlike, RedactAdds
  <1>3. Rows(others.work)
    BY <1>2, RowsAlike
  <1> HIDE DEF others
  <1>4. DOMAIN marked = CtxFields /\ marked.work = others.work /\ marked.events = others.events
        /\ marked.next = others.next /\ marked.root = others.root
    BY <1>2 DEF CtxFields
  <1> HIDE DEF marked
  <1>5. PICK M : others.events = c.events \cup M /\ Numbers(M, c.next, others.next, p)
    BY <1>2 DEF Adds
  <1>6. DOMAIN inv = CtxFields /\ Adds(marked, inv, p) /\ inv.root = marked.root
    <2>1. marked.next \in Nat /\ Rows(marked.work)
      BY <1>3, <1>4, <1>5 DEF Numbers
    <2> QED BY <1>4, <2>1, InvalidateAlike, InvalidateAdds
  <1> HIDE DEF inv
  <1>7. PICK N : inv.events = marked.events \cup N /\ Numbers(N, marked.next, inv.next, p)
    BY <1>6 DEF Adds
  <1>8. d.events = inv.events /\ d.next = inv.next /\ d.root = inv.root
    BY <1>1, <1>6 DEF CtxFields
  <1> HIDE DEF d
  <1>9. d.events = c.events \cup (M \cup N) /\ Numbers(M \cup N, c.next, d.next, p)
    BY <1>4, <1>5, <1>7, <1>8, NumbersMore
  <1>10. Adds(c, d, p)
    BY <1>9 DEF Adds
  <1> QED BY <1>2, <1>4, <1>6, <1>8, <1>10 DEF d, o

----------------------------------------------------------------------------
(* The log.  A request's own events are numbered after the log's and after *)
(* that of the approval it executes; a transition takes its number when it *)
(* is begun, and its event when it is left, so the numbers are those of    *)
(* the events and of the transitions begun, each once.                     *)

Low(c) == Len(log) + Cardinality(c.first)

\* What an event comes of: what the request comes of, or an event of its own
\* numbered before.
From(c, cause, p) == cause = c.root \/ cause \in (Low(c) + 1)..(p - 1)

FirstCounts(c) ==
  \/ c.first = {} /\ c.root = None
  \/ /\ c.root = Len(log) + 1
     /\ \E d \in c.first : /\ c.first = {d} /\ DOMAIN d.event = EventFields
                           /\ d.event.pos = c.root /\ d.event.cause = None

EventsCount(c) ==
  /\ \A e \in c.events : /\ DOMAIN e = EventFields
                         /\ e.pos \in (Low(c) + 1)..(c.next - 1) /\ From(c, e.cause, e.pos)
  /\ \A e, f \in c.events : e.pos = f.pos => e = f

FramesCount(c) ==
  /\ \A i \in DOMAIN c.frames : From(c, c.frames[i].cause, c.next)
  /\ \A i \in DOMAIN c.frames : c.frames[i].begun =>
       /\ c.frames[i].pos \in (Low(c) + 1)..(c.next - 1) /\ From(c, c.frames[i].cause, c.frames[i].pos)
       /\ \A e \in c.events : e.pos # c.frames[i].pos
  /\ \A i, j \in DOMAIN c.frames : c.frames[i].begun /\ c.frames[j].begun /\ c.frames[i].pos = c.frames[j].pos => i = j

AllCount(c) ==
  \A p \in (Low(c) + 1)..(c.next - 1) : \/ \E e \in c.events : e.pos = p
                                        \/ \E i \in DOMAIN c.frames : c.frames[i].begun /\ c.frames[i].pos = p

Counted(c) ==
  /\ c.next \in Nat /\ Low(c) < c.next
  /\ FirstCounts(c) /\ EventsCount(c) /\ FramesCount(c) /\ AllCount(c)
  /\ c.phase = "write" => c.frames = <<>>

LogCounts(l) ==
  IsSeq(l) /\ \A p \in DOMAIN l : DOMAIN l[p] = EventFields /\ l[p].pos = p /\ l[p].cause \in 0..(p - 1)

LogInv == now \in 1..MaxNow /\ LogCounts(log) /\ (ctx # Idle => Counted(ctx))

\* While the log stays, what is said of the decision is enough.
LEMMA LogStay ==
  ASSUME LogInv, log' = log, now' = now, ctx' = Idle \/ Counted(ctx')
  PROVE  LogInv'
  <1>1. (now \in 1..MaxNow)' /\ LogCounts(log)'
    BY DEF LogInv
  <1>2. CASE ctx' = Idle
    BY <1>1, <1>2 DEF LogInv, Idle
  <1>3. CASE Counted(ctx')
    <2>1. Counted(ctx)'
      BY <1>3 DEF Counted, FirstCounts, EventsCount, FramesCount, AllCount, From, Low
    <2> QED BY <1>1, <2>1 DEF LogInv
  <1> QED BY <1>2, <1>3

LEMMA LowIs ==
  ASSUME LogInv, NEW c, FirstCounts(c)
  PROVE  /\ Len(log) \in Nat /\ Low(c) \in Nat /\ c.root \in 0..Low(c) /\ Len(log) <= Low(c)
         /\ c.first = {} => Low(c) = Len(log)
         /\ c.first # {} => Low(c) = Len(log) + 1 /\ c.root = Low(c)
  <1>1. Len(log) \in Nat
    BY DEF LogInv, LogCounts, IsSeq
  <1>2. c.first = {} => Cardinality(c.first) = 0
    BY FS_EmptySet
  <1>3. (\E d \in c.first : c.first = {d}) => Cardinality(c.first) = 1
    BY FS_Singleton
  <1> QED BY <1>1, <1>2, <1>3 DEF FirstCounts, Low, None

\* The frames a step of an outcome leaves, by their places.
LEMMA KeptIndex ==
  ASSUME RowsInv, ctx.phase = "take", ctx.frames # <<>>, Top.begun, NEW s, KeptFrames(s)
  PROVE  /\ DOMAIN ctx.frames \subseteq DOMAIN s /\ s # <<>> /\ 1 \in DOMAIN ctx.frames
         /\ \A i \in DOMAIN ctx.frames :
              /\ s[i].begun = ctx.frames[i].begun /\ s[i].pos = ctx.frames[i].pos /\ s[i].cause = ctx.frames[i].cause
              /\ s[i].x = ctx.frames[i].x /\ s[i].id = ctx.frames[i].id
         /\ \A i \in DOMAIN s \ DOMAIN ctx.frames : ~ s[i].begun /\ s[i].cause = Top.pos
         /\ Len(ctx.frames) \in DOMAIN ctx.frames /\ ctx.frames[Len(ctx.frames)] = Top
  <1> DEFINE n == Len(ctx.frames)
             b == Front(ctx.frames)
  <1>1. IsSeq(ctx.frames)
    BY TopFits
  <1>2. /\ n \in Nat \ {0} /\ DOMAIN ctx.frames = 1..n /\ IsSeq(b) /\ Len(b) = n - 1
        /\ \A i \in 1..(n - 1) : b[i] = ctx.frames[i]
    BY <1>1, SeqRest
  <1>3. ctx.frames[n] = Top
    BY DEF Top, Last
  <1> HIDE DEF n, b
  <1>4. PICK g : /\ SameFrame(g)
                 /\ \/ s = Append(b, g)
                    \/ \E h : ~ h.begun /\ h.cause = Top.pos /\ s = Append(Append(b, g), h)
    BY DEF KeptFrames, b
  <1> DEFINE u == Append(b, g)
  <1>5. IsSeq(u) /\ Len(u) = n /\ Last(u) = g /\ u # <<>> /\ \A i \in 1..(n - 1) : u[i] = ctx.frames[i]
    BY <1>2, SeqAppend
  <1>6. u[n] = g /\ DOMAIN u = 1..n
    BY <1>5 DEF Last, IsSeq
  <1> HIDE DEF u
  <1>7. \A i \in 1..n :
              /\ u[i].begun = ctx.frames[i].begun /\ u[i].pos = ctx.frames[i].pos /\ u[i].cause = ctx.frames[i].cause
              /\ u[i].x = ctx.frames[i].x /\ u[i].id = ctx.frames[i].id
    <2> SUFFICES ASSUME NEW i \in 1..n
                 PROVE  /\ u[i].begun = ctx.frames[i].begun /\ u[i].pos = ctx.frames[i].pos
                        /\ u[i].cause = ctx.frames[i].cause
                        /\ u[i].x = ctx.frames[i].x /\ u[i].id = ctx.frames[i].id
      OBVIOUS
    <2>1. CASE i = n
      BY <1>3, <1>4, <1>6, <2>1 DEF SameFrame
    <2>2. CASE i # n
      <3>1. i \in 1..(n - 1)
        BY <1>2, <2>2
      <3> QED BY <1>5, <3>1
    <2> QED BY <2>1, <2>2
  <1>8. CASE s = u
    BY <1>2, <1>3, <1>5, <1>6, <1>7, <1>8
  <1>9. ASSUME NEW h, ~ h.begun, h.cause = Top.pos, s = Append(u, h)
        PROVE  /\ DOMAIN s = 1..(n + 1) /\ s # <<>> /\ s[n + 1] = h /\ \A i \in 1..n : s[i] = u[i]
    <2>1. IsSeq(s) /\ s # <<>> /\ Last(s) = h /\ Len(s) = n + 1 /\ \A i \in 1..n : s[i] = u[i]
      BY <1>5, <1>9, SeqAppend
    <2> QED BY <2>1 DEF Last, IsSeq
  <1>10. CASE \E h : ~ h.begun /\ h.cause = Top.pos /\ s = Append(u, h)
    <2>1. PICK h : ~ h.begun /\ h.cause = Top.pos /\ s = Append(u, h)
      BY <1>10
    <2>2. DOMAIN s = 1..(n + 1) /\ s # <<>> /\ s[n + 1] = h /\ \A i \in 1..n : s[i] = u[i]
      BY <1>9, <2>1
    <2>3. \A i \in 1..(n + 1) : i \in 1..n \/ i = n + 1
      BY <1>2
    <2> QED BY <1>2, <1>3, <1>7, <2>1, <2>2, <2>3
  <1> QED BY <1>4, <1>8, <1>10 DEF u, n

LEMMA KeptCounts ==
  ASSUME RowsInv, LogInv, ctx.phase = "take", ctx.frames # <<>>, Top.begun, NEW d, Kept(d)
  PROVE  Counted(d)
  <1>1. Counted(ctx)
    BY DEF LogInv, Idle
  <1>2. /\ d.phase = "take" /\ d.events = ctx.events /\ d.next = ctx.next /\ d.first = ctx.first /\ d.root = ctx.root
    BY DEF Kept, KeptRest
  <1> DEFINE s == d.frames
             n == Len(ctx.frames)
  <1>3. /\ DOMAIN ctx.frames \subseteq DOMAIN s
        /\ \A i \in DOMAIN ctx.frames :
             s[i].begun = ctx.frames[i].begun /\ s[i].pos = ctx.frames[i].pos /\ s[i].cause = ctx.frames[i].cause
        /\ \A i \in DOMAIN s \ DOMAIN ctx.frames : ~ s[i].begun /\ s[i].cause = Top.pos
        /\ n \in DOMAIN ctx.frames /\ ctx.frames[n] = Top
    BY KeptIndex DEF Kept
  <1>4. Low(d) = Low(ctx) /\ \A cause, p : From(d, cause, p) <=> From(ctx, cause, p)
    BY <1>2 DEF Low, From
  <1>5. From(ctx, Top.pos, ctx.next)
    BY <1>1, <1>3 DEF Counted, FramesCount, From
  <1> HIDE DEF s, n
  <1>6. FirstCounts(d) /\ EventsCount(d)
    BY <1>1, <1>2, <1>4 DEF Counted, FirstCounts, EventsCount
  <1>7. FramesCount(d)
    <2>1. \A i \in DOMAIN s : From(ctx, s[i].cause, ctx.next)
      BY <1>1, <1>3, <1>5 DEF Counted, FramesCount
    <2>2. \A i \in DOMAIN s : s[i].begun => i \in DOMAIN ctx.frames
      BY <1>3
    <2>3. \A i \in DOMAIN s : s[i].begun =>
            /\ s[i].pos \in (Low(ctx) + 1)..(ctx.next - 1) /\ From(ctx, s[i].cause, s[i].pos)
            /\ \A e \in ctx.events : e.pos # s[i].pos
      BY <1>1, <1>3, <2>2 DEF Counted, FramesCount
    <2>4. \A i, j \in DOMAIN s : s[i].begun /\ s[j].begun /\ s[i].pos = s[j].pos => i = j
      BY <1>1, <1>3, <2>2 DEF Counted, FramesCount
    <2> QED BY <1>2, <1>4, <2>1, <2>3, <2>4 DEF FramesCount, s
  <1>8. AllCount(d)
    <2>1. \A i \in DOMAIN ctx.frames : i \in DOMAIN s /\ s[i].begun = ctx.frames[i].begun /\ s[i].pos = ctx.frames[i].pos
      BY <1>3
    <2> QED BY <1>1, <1>2, <1>4, <2>1 DEF Counted, AllCount, s
  <1> QED BY <1>1, <1>2, <1>4, <1>6, <1>7, <1>8 DEF Counted

LEMMA OutcomeCounts ==
  ASSUME RowsInv, LogInv, Outcome
  PROVE  LogInv'
  <1>1. /\ ctx.phase = "take" /\ ctx.frames # <<>> /\ Top.begun /\ UNCHANGED <<objects, log, now>>
        /\ Kept(ctx') \/ \E clause : Refuse(clause)
    BY OutcomeKept
  <1>2. CASE Kept(ctx')
    <2> DEFINE d == ctx'
    <2>1. Kept(d)
      BY <1>2
    <2> HIDE DEF d
    <2>2. Counted(d)
      BY <1>1, <2>1, KeptCounts
    <2> QED BY <1>1, <2>2, LogStay DEF d
  <1>3. CASE \E clause : Refuse(clause)
    BY <1>1, <1>3, LogStay DEF Refuse
  <1> QED BY <1>1, <1>2, <1>3

LEMMA LeaveCounts ==
  ASSUME RowsInv, LogInv, Leave
  PROVE  LogInv'
  <1>1. ctx.phase = "take" /\ ctx.frames # <<>> /\ Top.begun /\ log' = log /\ now' = now
    BY Zenon DEF Leave
  <1>2. Counted(ctx) /\ DOMAIN ctx = CtxFields /\ IsSeq(ctx.frames)
    BY <1>1, TopFits DEF LogInv, Idle
  <1>3. CASE Refuse("occurred_within")
    BY <1>1, <1>3, LogStay DEF Refuse
  <1>4. ASSUME NEW done, NEW e, NEW last, NEW wrote,
               DOMAIN done = RowFields, done.id = Top.id, done.type = ctx.work[Top.id].type,
               done.next = ctx.work[Top.id].next, done.state = ctx.work[Top.id].state,
               done.attrs = ctx.work[Top.id].attrs,
               DOMAIN e = EventFields, e.pos = Top.pos, e.cause = Top.cause, e.x = Top.x, e.object = Top.id,
               ctx' = [ctx EXCEPT !.work = [@ EXCEPT ![Top.id] = done], !.events = ctx.events \cup {e},
                                  !.last = last, !.wrote = wrote, !.frames = Front(@)]
        PROVE  LogInv'
    <2> DEFINE d == ctx'
               s == Front(ctx.frames)
               n == Len(ctx.frames)
    <2>1. /\ d.phase = "take" /\ d.events = ctx.events \cup {e} /\ d.next = ctx.next /\ d.first = ctx.first
          /\ d.root = ctx.root /\ d.frames = s
      BY <1>1, <1>2, <1>4 DEF CtxFields
    <2>2. /\ n \in Nat \ {0} /\ DOMAIN ctx.frames = 1..n /\ DOMAIN s = 1..(n - 1)
          /\ \A i \in 1..(n - 1) : s[i] = ctx.frames[i]
      BY <1>1, <1>2, SeqRest DEF IsSeq
    <2>3. ctx.frames[n] = Top /\ n \in DOMAIN ctx.frames /\ \A i \in DOMAIN s : i \in DOMAIN ctx.frames /\ i # n
      BY <2>2 DEF Top, Last
    <2>4. Low(d) = Low(ctx) /\ \A cause, p : From(d, cause, p) <=> From(ctx, cause, p)
      BY <2>1 DEF Low, From
    <2> HIDE DEF d, s, n
    <2>5. /\ Top.pos \in (Low(ctx) + 1)..(ctx.next - 1) /\ From(ctx, Top.cause, Top.pos)
          /\ \A f \in ctx.events : f.pos # Top.pos
      BY <1>1, <1>2, <2>3 DEF Counted, FramesCount
    <2>6. FirstCounts(d)
      BY <1>2, <2>1 DEF Counted, FirstCounts
    <2>7. EventsCount(d)
      BY <1>2, <1>4, <2>1, <2>4, <2>5 DEF Counted, EventsCount
    <2>8. FramesCount(d)
      <3>1. \A i \in DOMAIN s : s[i] = ctx.frames[i]
        BY <2>2
      <3>2. \A i \in DOMAIN s : From(ctx, s[i].cause, ctx.next)
        BY <1>2, <2>3, <3>1 DEF Counted, FramesCount
      <3>3. \A i \in DOMAIN s : s[i].begun =>
              /\ s[i].pos \in (Low(ctx) + 1)..(ctx.next - 1) /\ From(ctx, s[i].cause, s[i].pos)
              /\ \A f \in ctx.events : f.pos # s[i].pos
        BY <1>2, <2>3, <3>1 DEF Counted, FramesCount
      <3>4. \A i, j \in DOMAIN s : s[i].begun /\ s[j].begun /\ s[i].pos = s[j].pos => i = j
        BY <1>2, <2>3, <3>1 DEF Counted, FramesCount
      <3>5. \A i \in DOMAIN s : s[i].begun => s[i].pos # Top.pos
        BY <1>1, <1>2, <2>3, <3>1 DEF Counted, FramesCount
      <3> QED BY <1>4, <2>1, <2>4, <3>2, <3>3, <3>4, <3>5 DEF FramesCount
    <2>9. AllCount(d)
      <3> SUFFICES ASSUME NEW p \in (Low(ctx) + 1)..(ctx.next - 1)
                   PROVE  (\E f \in d.events : f.pos = p) \/ \E i \in DOMAIN s : s[i].begun /\ s[i].pos = p
        BY <2>1, <2>4 DEF AllCount
      <3>1. CASE \E f \in ctx.events : f.pos = p
        BY <2>1, <3>1
      <3>2. ASSUME NEW i \in DOMAIN ctx.frames, ctx.frames[i].begun, ctx.frames[i].pos = p
            PROVE  (\E f \in d.events : f.pos = p) \/ \E j \in DOMAIN s : s[j].begun /\ s[j].pos = p
        <4>1. CASE i = n
          BY <1>4, <2>1, <2>3, <3>2, <4>1
        <4>2. CASE i # n
          <5>1. i \in DOMAIN s /\ s[i] = ctx.frames[i]
            BY <2>2, <4>2
          <5> QED BY <3>2, <5>1
        <4> QED BY <4>1, <4>2
      <3> QED BY <1>2, <3>1, <3>2 DEF Counted, AllCount
    <2>10. Counted(d)
      BY <1>2, <2>1, <2>4, <2>6, <2>7, <2>8, <2>9 DEF Counted
    <2> QED BY <1>1, <2>10, LogStay DEF d
  <1> QED BY <1>3, <1>4, LeaveLeaves, Zenon

\* The events of a transition begun: none but an erasure's.
LEMMA EventsBegun ==
  ASSUME NEW e, NEW id, ctx.next \in Nat, BegunEvents(e, id)
  PROVE  /\ e.phase = "take" /\ e.first = ctx.first /\ e.root = ctx.root
         /\ \E N : e.events = ctx.events \cup N /\ Numbers(N, ctx.next + 1, e.next, ctx.next)
  <1>1. PICK c, d :
    /\ DOMAIN c = CtxFields /\ Rows(c.work)
    /\ c.next = ctx.next + 1 /\ c.events = ctx.events /\ c.root = ctx.root
    /\ DOMAIN c.work = DOMAIN ctx.work \cup {id}
    /\ d = c \/ d = Erased(c, c.work[id], ctx.next)
    /\ e.next = d.next /\ e.events = d.events /\ e.root = d.root /\ e.first = ctx.first /\ e.phase = "take"
    BY Zenon DEF BegunEvents
  <1>2. CASE d = c
    <2>1. Numbers({}, ctx.next + 1, e.next, ctx.next) /\ e.events = ctx.events \cup {}
      BY <1>1, <1>2 DEF Numbers
    <2> QED BY <1>1, <1>2, <2>1
  <1>3. CASE d = Erased(c, c.work[id], ctx.next)
    <2> DEFINE p == ctx.next
    <2>1. c.next \in Nat /\ id \in DOMAIN c.work /\ d = Erased(c, c.work[id], p)
      BY <1>1, <1>3
    <2> HIDE DEF p
    <2>2. Adds(c, d, p) /\ d.root = c.root
      BY <1>1, <2>1, ErasedAdds
    <2> QED BY <1>1, <2>2 DEF Adds, p
  <1> QED BY <1>1, <1>2, <1>3

LEMMA BeginCounts ==
  ASSUME RowsInv, LogInv, Begin
  PROVE  LogInv'
  <1>1. ctx.phase = "take" /\ ctx.frames # <<>> /\ ~ Top.begun /\ log' = log /\ now' = now
    BY Zenon DEF Begin
  <1>2. Counted(ctx) /\ DOMAIN ctx = CtxFields /\ IsSeq(ctx.frames) /\ ctx.next \in Nat
    BY <1>1, TopFits DEF LogInv, Idle, Counted
  <1>3. CASE \E clause : Refuse(clause)
    BY <1>1, <1>3, LogStay DEF Refuse
  <1>4. ASSUME NEW d, NEW g, ctx' = d, d.frames = Append(Front(ctx.frames), g), BegunFrame(g), BegunEvents(d, g.id)
        PROVE  LogInv'
    <2>1. PICK N : d.events = ctx.events \cup N /\ Numbers(N, ctx.next + 1, d.next, ctx.next)
      BY <1>2, <1>4, EventsBegun
    <2>2. d.phase = "take" /\ d.first = ctx.first /\ d.root = ctx.root
      BY <1>2, <1>4, EventsBegun
    <2> DEFINE n == Len(ctx.frames)
               b == Front(ctx.frames)
               s == Append(b, g)
    <2>3. n \in Nat \ {0} /\ DOMAIN ctx.frames = 1..n /\ IsSeq(b) /\ Len(b) = n - 1
          /\ \A i \in 1..(n - 1) : b[i] = ctx.frames[i]
      BY <1>1, <1>2, SeqRest
    <2>4. ctx.frames[n] = Top
      BY DEF Top, Last
    <2> HIDE DEF n, b
    <2>5. DOMAIN s = 1..n /\ s[n] = g /\ \A i \in 1..(n - 1) : s[i] = ctx.frames[i]
      <3>1. IsSeq(s) /\ Len(s) = n /\ Last(s) = g /\ \A i \in 1..(n - 1) : s[i] = b[i]
        BY <2>3, SeqAppend
      <3> QED BY <2>3, <3>1 DEF Last, IsSeq
    <2>6. d.frames = s
      BY <1>4 DEF b
    <2> HIDE DEF s
    <2>7. Low(d) = Low(ctx) /\ \A cause, p : From(d, cause, p) <=> From(ctx, cause, p)
      BY <2>2 DEF Low, From
    <2>8. /\ Low(ctx) \in Nat /\ ctx.next \in Nat /\ Low(ctx) < ctx.next /\ d.next \in Nat /\ ctx.next + 1 <= d.next
      BY <1>2, <2>1, LowIs DEF Counted, Numbers
    <2>9. \A i \in 1..n : i = n \/ i \in 1..(n - 1)
      BY <2>3
    <2>10. FirstCounts(d)
      BY <1>2, <2>2 DEF Counted, FirstCounts
    <2>11. \A cause, p : From(ctx, cause, p) /\ p \in Nat => \A q \in Nat : p <= q => From(ctx, cause, q)
      BY <2>8 DEF From
    <2>12. EventsCount(d)
      <3>1. \A e \in ctx.events : DOMAIN e = EventFields
                                  /\ e.pos \in (Low(ctx) + 1)..(d.next - 1) /\ From(ctx, e.cause, e.pos)
        BY <1>2, <2>8 DEF Counted, EventsCount
      <3>2. \A e \in N : DOMAIN e = EventFields /\ e.pos \in (ctx.next + 1)..(d.next - 1) /\ e.cause = ctx.next
        BY <2>1 DEF Numbers
      <3>3. \A e \in N : e.pos \in (Low(ctx) + 1)..(d.next - 1) /\ From(ctx, e.cause, e.pos)
        BY <2>8, <3>2 DEF From
      <3>4. \A e \in ctx.events, f \in N : e.pos # f.pos
        BY <1>2, <2>8, <3>2 DEF Counted, EventsCount
      <3>5. \A e, f \in d.events : e.pos = f.pos => e = f
        BY <1>2, <2>1, <3>4 DEF Counted, EventsCount, Numbers
      <3> QED BY <2>1, <2>7, <3>1, <3>2, <3>3, <3>5 DEF EventsCount
    <2>13. FramesCount(d)
      <3>1. \A i \in 1..(n - 1) : i \in DOMAIN ctx.frames /\ s[i] = ctx.frames[i]
        BY <2>3, <2>5
      <3>2. g.begun /\ g.pos = ctx.next /\ g.cause = Top.cause /\ n \in DOMAIN ctx.frames
        BY <1>4, <2>3 DEF BegunFrame
      <3>3. From(ctx, g.cause, ctx.next)
        BY <1>2, <2>4, <3>2 DEF Counted, FramesCount
      <3>4. \A i \in 1..n : From(ctx, s[i].cause, d.next)
        <4>1. \A i \in 1..n : From(ctx, s[i].cause, ctx.next)
          BY <1>2, <2>5, <2>9, <3>1, <3>3 DEF Counted, FramesCount
        <4> QED BY <1>2, <2>8, <2>11, <4>1
      <3>5. \A i \in 1..(n - 1) : s[i].begun =>
              /\ s[i].pos \in (Low(ctx) + 1)..(ctx.next - 1) /\ From(ctx, s[i].cause, s[i].pos)
              /\ \A e \in ctx.events : e.pos # s[i].pos
        BY <1>2, <3>1 DEF Counted, FramesCount
      <3>6. \A e \in N : e.pos \in (ctx.next + 1)..(d.next - 1)
        BY <2>1 DEF Numbers
      <3>7. \A e \in ctx.events : e.pos \in (Low(ctx) + 1)..(ctx.next - 1)
        BY <1>2 DEF Counted, EventsCount
      <3>8. ASSUME NEW i \in 1..n, s[i].begun
            PROVE  /\ s[i].pos \in (Low(ctx) + 1)..(d.next - 1) /\ From(ctx, s[i].cause, s[i].pos)
                   /\ \A e \in d.events : e.pos # s[i].pos
        <4>1. CASE i = n
          BY <1>2, <2>1, <2>5, <2>8, <3>2, <3>3, <3>6, <3>7, <4>1
        <4>2. CASE i \in 1..(n - 1)
          BY <2>1, <2>8, <3>5, <3>6, <3>8, <4>2
        <4> QED BY <2>9, <4>1, <4>2
      <3>9. \A i, j \in 1..(n - 1) : s[i].begun /\ s[j].begun /\ s[i].pos = s[j].pos => i = j
        BY <1>2, <3>1 DEF Counted, FramesCount
      <3>10. \A i \in 1..(n - 1) : s[i].begun => s[i].pos # s[n].pos
        BY <2>5, <2>8, <3>2, <3>5
      <3>11. \A i, j \in 1..n : s[i].begun /\ s[j].begun /\ s[i].pos = s[j].pos => i = j
        BY <2>9, <3>9, <3>10
      <3> QED BY <2>5, <2>6, <2>7, <3>4, <3>8, <3>11 DEF FramesCount
    <2>14. AllCount(d)
      <3> SUFFICES ASSUME NEW p \in (Low(ctx) + 1)..(d.next - 1)
                   PROVE  (\E f \in d.events : f.pos = p) \/ \E i \in 1..n : s[i].begun /\ s[i].pos = p
        BY <2>5, <2>6, <2>7 DEF AllCount
      <3>1. CASE p = ctx.next
        BY <1>4, <2>3, <2>5, <3>1 DEF BegunFrame
      <3>2. CASE p > ctx.next
        <4>1. p \in (ctx.next + 1)..(d.next - 1)
          BY <2>8, <3>2
        <4> QED BY <2>1, <4>1 DEF Numbers
      <3>3. CASE p < ctx.next
        <4>1. p \in (Low(ctx) + 1)..(ctx.next - 1)
          BY <2>8, <3>3
        <4>2. CASE \E f \in ctx.events : f.pos = p
          BY <2>1, <4>2
        <4>3. ASSUME NEW i \in DOMAIN ctx.frames, ctx.frames[i].begun, ctx.frames[i].pos = p
              PROVE  \E j \in 1..n : s[j].begun /\ s[j].pos = p
          <5>1. i # n
            BY <1>1, <2>4, <4>3
          <5>2. i \in 1..(n - 1)
            BY <2>3, <5>1
          <5> QED BY <2>5, <2>3, <4>3, <5>2
        <4> QED BY <1>2, <4>1, <4>2, <4>3 DEF Counted, AllCount
      <3> QED BY <2>8, <3>1, <3>2, <3>3
    <2>15. Counted(d)
      BY <1>2, <2>2, <2>7, <2>8, <2>10, <2>12, <2>13, <2>14 DEF Counted
    <2> QED BY <1>1, <1>4, <2>15, LogStay
  <1> QED BY <1>3, <1>4, BeginLeaves

\* A function over the first n numbers is a sequence.
LEMMA SeqOver ==
  ASSUME NEW n \in Nat, NEW s, s = [i \in 1..n |-> s[i]]
  PROVE  IsSeq(s)
  <1>1. s \in [1..n -> Range(s)]
    BY DEF Range
  <1> QED BY <1>1 DEF IsSeq

LEMMA ConcludeCounts ==
  ASSUME RowsInv, LogInv, Conclude
  PROVE  LogInv'
  <1> DEFINE u == [id \in DOMAIN ctx.work |->
                     IF id \in Affected THEN [ctx.work[id] EXCEPT !.admitted = Admitted(id)] ELSE ctx.work[id]]
             d == [ctx EXCEPT !.phase = "write", !.work = u]
  <1>1. ctx.phase = "take" /\ ctx.frames = <<>> /\ log' = log /\ now' = now
    BY DEF Conclude
  <1>2. Counted(ctx) /\ DOMAIN ctx = CtxFields
    BY <1>1 DEF LogInv, Idle, RowsInv, Deciding
  <1>3. CASE Refuse("invariant_violated")
    BY <1>1, <1>3, LogStay DEF Refuse
  <1>4. CASE ctx' = d
    <2> HIDE DEF u
    <2>1. /\ d.events = ctx.events /\ d.next = ctx.next /\ d.first = ctx.first /\ d.root = ctx.root
          /\ d.frames = ctx.frames
      BY <1>2 DEF CtxFields
    <2> HIDE DEF d
    <2>2. Counted(d)
      BY <1>1, <1>2, <2>1 DEF Counted, FirstCounts, EventsCount, FramesCount, AllCount, From, Low
    <2> QED BY <1>1, <1>4, <2>2, LogStay
  <1> QED BY <1>3, <1>4 DEF Conclude

\* The events of the log, of the approval and of the request, by their numbers.
All == Known \cup {d.event : d \in ctx.first}

LEMMA RedactedIs ==
  ASSUME NEW e, DOMAIN e = EventFields
  PROVE  LET d == Redacted(e) IN
         /\ DOMAIN d = EventFields /\ d.pos = e.pos /\ d.cause = e.cause /\ d.object = e.object
         /\ d.seq = e.seq /\ d.x = e.x /\ d.to = e.to /\ d.type = e.type
  BY DEF Redacted, EventFields

LEMMA AllNumbered ==
  ASSUME LogInv, ctx.phase = "write"
  PROVE  /\ ctx.next \in Nat /\ ctx.next # 0 /\ Cardinality(All) = ctx.next - 1
         /\ \A e \in All : DOMAIN e = EventFields /\ e.pos \in 1..(ctx.next - 1) /\ e.cause \in 0..(e.pos - 1)
         /\ \A e, f \in All : e.pos = f.pos => e = f
         /\ \A p \in 1..(ctx.next - 1) : \E e \in All : e.pos = p
  <1> DEFINE n == Len(log)
             N == ctx.next - 1
             S == {log[p] : p \in DOMAIN log}
             F == {d.event : d \in ctx.first}
  <1>1. /\ Counted(ctx) /\ ctx.frames = <<>>
        /\ ctx.next \in Nat /\ Low(ctx) < ctx.next
    BY DEF LogInv, Counted, Idle
  <1>2. /\ n \in Nat /\ Low(ctx) \in Nat /\ ctx.root \in 0..Low(ctx) /\ n <= Low(ctx)
        /\ ctx.first = {} => Low(ctx) = n
        /\ ctx.first # {} => Low(ctx) = n + 1 /\ ctx.root = Low(ctx)
    BY <1>1, LowIs DEF Counted
  <1>3. /\ DOMAIN log = 1..n
        /\ \A p \in 1..n : DOMAIN log[p] = EventFields /\ log[p].pos = p /\ log[p].cause \in 0..(p - 1)
    BY DEF LogInv, LogCounts, IsSeq
  <1> HIDE DEF n
  <1>4. \A e \in S : DOMAIN e = EventFields /\ e.pos \in 1..n /\ e.cause \in 0..(e.pos - 1) /\ e = log[e.pos]
    BY <1>3
  <1>5. \A p \in 1..n : log[p] \in S /\ log[p].pos = p
    BY <1>3
  <1>6. /\ F = {} => ctx.first = {}
        /\ \A e \in F : DOMAIN e = EventFields /\ e.pos = Low(ctx) /\ e.cause = 0 /\ Low(ctx) = n + 1
        /\ \A e, f \in F : e = f
    <2>1. CASE ctx.first = {}
      BY <2>1
    <2>2. CASE ctx.first # {}
      <3>1. PICK d \in ctx.first : /\ ctx.first = {d} /\ DOMAIN d.event = EventFields
                                   /\ d.event.pos = ctx.root /\ d.event.cause = None
        BY <1>1, <2>2 DEF Counted, FirstCounts
      <3>2. F = {d.event}
        BY <3>1
      <3> HIDE DEF F
      <3> QED BY <1>2, <2>2, <3>1, <3>2 DEF None
    <2> QED BY <2>1, <2>2
  <1>7. /\ \A e \in ctx.events : DOMAIN e = EventFields
                                 /\ e.pos \in (Low(ctx) + 1)..(ctx.next - 1) /\ From(ctx, e.cause, e.pos)
        /\ \A e, f \in ctx.events : e.pos = f.pos => e = f
    BY <1>1 DEF Counted, EventsCount
  <1>8. \A e \in ctx.events : e.cause \in 0..(e.pos - 1)
    <2> SUFFICES ASSUME NEW e \in ctx.events PROVE e.cause \in 0..(e.pos - 1)
      OBVIOUS
    <2>1. e.pos \in (Low(ctx) + 1)..(ctx.next - 1) /\ (e.cause = ctx.root \/ e.cause \in (Low(ctx) + 1)..(e.pos - 1))
      BY <1>7 DEF From
    <2> QED BY <1>1, <1>2, <2>1
  <1>9. \A p \in (Low(ctx) + 1)..(ctx.next - 1) : \E e \in ctx.events : e.pos = p
    BY <1>1 DEF Counted, AllCount
  <1>10. All = S \cup ctx.events \cup F
    BY DEF All, Known
  <1> HIDE DEF S, F
  <1>11. \A e \in All : DOMAIN e = EventFields /\ e.pos \in 1..N /\ e.cause \in 0..(e.pos - 1)
    <2> SUFFICES ASSUME NEW e \in All PROVE DOMAIN e = EventFields /\ e.pos \in 1..N /\ e.cause \in 0..(e.pos - 1)
      OBVIOUS
    <2>1. CASE e \in S
      BY <1>1, <1>2, <1>4, <2>1
    <2>2. CASE e \in ctx.events
      BY <1>1, <1>2, <1>7, <1>8, <2>2
    <2>3. CASE e \in F
      BY <1>1, <1>2, <1>6, <2>3
    <2> QED BY <1>10, <2>1, <2>2, <2>3
  <1>12. \A e, f \in All : e.pos = f.pos => e = f
    <2>1. \A e \in S : e.pos \in Int /\ e.pos <= n
      BY <1>2, <1>4
    <2>2. \A e \in F : e.pos = n + 1 /\ Low(ctx) = n + 1
      BY <1>6
    <2>3. \A e \in ctx.events : e.pos \in Int /\ e.pos > Low(ctx)
      BY <1>1, <1>2, <1>7
    <2>4. \A e, f \in S : e.pos = f.pos => e = f
      <3> SUFFICES ASSUME NEW e \in S, NEW f \in S, e.pos = f.pos PROVE e = f
        OBVIOUS
      <3>1. e = log[e.pos] /\ f = log[f.pos]
        BY <1>4
      <3> QED BY <3>1
    <2> SUFFICES ASSUME NEW e \in All, NEW f \in All, e.pos = f.pos PROVE e = f
      OBVIOUS
    <2>5. CASE e \in S
      BY <1>2, <1>10, <2>1, <2>2, <2>3, <2>4, <2>5
    <2>6. CASE e \in F
      BY <1>2, <1>6, <1>10, <2>1, <2>2, <2>3, <2>6
    <2>7. CASE e \in ctx.events
      BY <1>2, <1>7, <1>10, <2>1, <2>2, <2>3, <2>7
    <2> QED BY <1>10, <2>5, <2>6, <2>7
  <1>13. \A p \in 1..N : \E e \in All : e.pos = p
    <2> SUFFICES ASSUME NEW p \in 1..N PROVE \E e \in All : e.pos = p
      OBVIOUS
    <2>1. CASE p <= n
      <3>1. p \in 1..n
        BY <1>1, <1>2, <2>1
      <3> QED BY <1>5, <1>10, <3>1
    <2>2. CASE p > Low(ctx)
      <3>1. p \in (Low(ctx) + 1)..(ctx.next - 1)
        BY <1>1, <1>2, <2>2
      <3> QED BY <1>9, <1>10, <3>1
    <2>3. CASE n < p /\ p <= Low(ctx)
      <3>1. ctx.first # {} /\ p = Low(ctx)
        BY <1>1, <1>2, <2>3
      <3>2. PICK e : e \in F
        BY <1>6, <3>1
      <3> QED BY <1>6, <1>10, <3>1, <3>2
    <2> QED BY <1>1, <1>2, <2>1, <2>2, <2>3
  <1>14. Cardinality(All) = N
    <2> DEFINE f == [p \in 1..N |-> CHOOSE e \in All : e.pos = p]
    <2>1. \A p \in 1..N : f[p] \in All /\ f[p].pos = p
      BY <1>13
    <2>2. \A e \in All : \E p \in 1..N : f[p] = e
      <3> SUFFICES ASSUME NEW e \in All PROVE \E p \in 1..N : f[p] = e
        OBVIOUS
      <3>1. e.pos \in 1..N
        BY <1>11
      <3>2. f[e.pos] \in All /\ f[e.pos].pos = e.pos
        BY <2>1, <3>1
      <3>3. f[e.pos] = e
        BY <1>12, <3>2
      <3> QED BY <3>1, <3>3
    <2>3. f \in [1..N -> All]
      BY <2>1
    <2> HIDE DEF f
    <2>4. f \in Bijection(1..N, All)
      BY <2>1, <2>2, <2>3 DEF Bijection, Injection, Surjection, IsInjective
    <2>5. ExistsBijection(1..N, All)
      BY <2>4 DEF ExistsBijection
    <2>6. N \in Nat /\ IsFiniteSet(1..N) /\ Cardinality(1..N) = N
      <3>1. N \in Nat
        BY <1>1, <1>2
      <3> HIDE DEF N
      <3> QED BY <3>1, FS_Interval
    <2> HIDE DEF N
    <2> QED BY <2>5, <2>6, FS_Bijection
  <1> QED BY <1>1, <1>2, <1>11, <1>12, <1>13, <1>14

LEMMA WriteCounts ==
  ASSUME RowsInv, LogInv, Write
  PROVE  LogInv'
  <1>1. ctx.phase = "write" /\ ctx' = Idle /\ now' = now
    BY DEF Write
  <1>2. CASE log' = log
    BY <1>1, <1>2, LogStay
  <1>3. CASE log' = [p \in 1..Cardinality(All) |-> Redacted(CHOOSE e \in All : e.pos = p)]
    <2> DEFINE N == ctx.next - 1
               l == [p \in 1..N |-> Redacted(CHOOSE e \in All : e.pos = p)]
               E == All
    <2>1. /\ N \in Nat /\ Cardinality(All) = N
          /\ \A e \in E : DOMAIN e = EventFields /\ e.pos \in 1..N /\ e.cause \in 0..(e.pos - 1)
          /\ \A p \in 1..N : \E e \in E : e.pos = p
      BY <1>1, AllNumbered
    <2>2. log' = l
      BY <1>3, <2>1
    <2> HIDE DEF N
    <2>3. \A p \in 1..N : DOMAIN l[p] = EventFields /\ l[p].pos = p /\ l[p].cause \in 0..(p - 1)
      <3> SUFFICES ASSUME NEW p \in 1..N
                   PROVE  DOMAIN l[p] = EventFields /\ l[p].pos = p /\ l[p].cause \in 0..(p - 1)
        OBVIOUS
      <3> DEFINE e == CHOOSE f \in E : f.pos = p
      <3>1. e \in E /\ e.pos = p
        BY <2>1
      <3>2. l[p] = Redacted(e)
        OBVIOUS
      <3> HIDE DEF e, l, E
      <3>3. DOMAIN e = EventFields /\ e.cause \in 0..(p - 1)
        BY <2>1, <3>1
      <3> QED BY <3>1, <3>2, <3>3, RedactedIs
    <2>4. IsSeq(l) /\ DOMAIN l = 1..N
      <3>1. DOMAIN l = 1..N /\ l = [p \in 1..N |-> l[p]]
        OBVIOUS
      <3> HIDE DEF l
      <3> QED BY <2>1, <3>1, SeqOver
    <2> HIDE DEF l
    <2>5. LogCounts(l)
      BY <2>3, <2>4 DEF LogCounts
    <2>6. LogCounts(log)' /\ (now \in 1..MaxNow)'
      BY <1>1, <2>2, <2>5 DEF LogInv, LogCounts
    <2> QED BY <1>1, <2>6 DEF LogInv, Idle
  <1> QED BY <1>2, <1>3 DEF Write, All

\* One event more, of nothing before it.
LEMMA LogAppend ==
  ASSUME NEW e, LogInv, DOMAIN e = EventFields, e.pos = Len(log) + 1, e.cause = None,
         log' = Append(log, e), now' = now, ctx' = Idle
  PROVE  LogInv'
  <1> DEFINE l == Append(log, e)
             n == Len(log)
  <1>1. /\ IsSeq(log) /\ n \in Nat /\ DOMAIN log = 1..n
        /\ \A p \in 1..n : DOMAIN log[p] = EventFields /\ log[p].pos = p /\ log[p].cause \in 0..(p - 1)
    BY DEF LogInv, LogCounts, IsSeq
  <1>2. IsSeq(l) /\ Len(l) = n + 1 /\ Last(l) = e /\ \A p \in 1..n : l[p] = log[p]
    BY <1>1, SeqAppend
  <1>3. DOMAIN l = 1..(n + 1) /\ l[n + 1] = e
    BY <1>2 DEF IsSeq, Last
  <1> HIDE DEF l, n
  <1>4. \A p \in 1..(n + 1) : p = n + 1 \/ p \in 1..n
    BY <1>1
  <1>5. ASSUME NEW p \in 1..(n + 1)
        PROVE  DOMAIN l[p] = EventFields /\ l[p].pos = p /\ l[p].cause \in 0..(p - 1)
    <2>1. CASE p = n + 1
      BY <1>1, <1>3, <2>1 DEF None, n
    <2>2. CASE p \in 1..n
      BY <1>1, <1>2, <2>2
    <2> QED BY <1>4, <2>1, <2>2
  <1>6. LogCounts(l)
    BY <1>2, <1>3, <1>5 DEF LogCounts
  <1>7. log' = l
    BY DEF l
  <1>8. LogCounts(log)' /\ (now \in 1..MaxNow)'
    BY <1>6, <1>7 DEF LogInv, LogCounts
  <1> QED BY <1>8 DEF LogInv, Idle

LEMMA StartCounts ==
  ASSUME NEW r, NEW xf, NEW cause, NEW filed, NEW occurred, NEW first,
         LogInv, log' = log, now' = now, DOMAIN xf = FrameFields, ~ xf.begun, xf.cause = cause,
         \/ first = {} /\ cause = None
         \/ /\ cause = Len(log) + 1
            /\ \E d \in first : /\ first = {d} /\ DOMAIN d.event = EventFields
                                /\ d.event.pos = cause /\ d.event.cause = None,
         ctx' = Started(r, xf, cause, filed, occurred, first)
  PROVE  LogInv'
  <1> DEFINE d == Started(r, xf, cause, filed, occurred, first)
  <1>1. /\ d.phase = "take" /\ d.events = {} /\ d.next = Len(log) + 1 + Cardinality(first)
        /\ d.frames = <<xf>> /\ d.root = cause /\ d.first = first
    BY DEF Started
  <1> HIDE DEF d
  <1>2. FirstCounts(d)
    BY <1>1 DEF FirstCounts
  <1>3. Low(d) \in Nat /\ d.next = Low(d) + 1 /\ d.next \in Nat
    <2>1. Low(d) \in Nat /\ Len(log) \in Nat
      BY <1>2, LowIs
    <2>2. Low(d) = Len(log) + Cardinality(first)
      BY <1>1 DEF Low
    <2>3. Cardinality(first) \in Nat
      <3>1. CASE first = {}
        BY <3>1, FS_EmptySet
      <3>2. CASE \E e \in first : first = {e}
        <4>1. PICK e : first = {e}
          BY <3>2
        <4>2. Cardinality(first) = 1
          BY <4>1, FS_Singleton
        <4> QED BY <4>2
      <3> QED BY <3>1, <3>2
    <2> QED BY <1>1, <2>1, <2>2, <2>3
  <1>4. \A p \in (Low(d) + 1)..(d.next - 1) : FALSE
    BY <1>3
  <1>5. DOMAIN d.frames = {1} /\ d.frames[1] = xf
    BY <1>1
  <1>6. EventsCount(d) /\ FramesCount(d) /\ AllCount(d)
    BY <1>1, <1>4, <1>5 DEF EventsCount, FramesCount, AllCount, From
  <1>7. Counted(d)
    BY <1>1, <1>2, <1>3, <1>6 DEF Counted
  <1> QED BY <1>7, LogStay DEF d

LEMMA AnswerCounts ==
  ASSUME LogInv, NEW clause, Answer(clause)
  PROVE  LogInv'
  BY LogStay DEF Answer

LEMMA AskCounts ==
  ASSUME LogInv, NEW r, Ask(r)
  PROVE  LogInv'
  <1> DEFINE xf == Frame(r.type, r.x, r.id, r.inputs, None)
             first == {}
             none == None
  <1>1. CASE Answer(Asked(r))
    BY <1>1, AnswerCounts
  <1>2. CASE ctx' = Started(r, xf, None, None, r.occurred, {}) /\ log' = log /\ now' = now
    <2>1. DOMAIN xf = FrameFields /\ ~ xf.begun /\ xf.cause = none
      BY DEF Frame, FrameFields
    <2>2. ctx' = Started(r, xf, none, none, r.occurred, first) /\ (first = {} /\ none = None)
      BY <1>2
    <2> HIDE DEF xf, first, none
    <2> QED BY <1>2, <2>1, <2>2, StartCounts
  <1> QED BY <1>1, <1>2, Zenon DEF Ask

LEMMA FileCounts ==
  ASSUME LogInv, NEW r, File(r)
  PROVE  LogInv'
  <1>1. CASE Answer(Filed(r))
    BY <1>1, AnswerCounts
  <1>2. CASE Filed(r) = "ok"
    <2>1. ctx' = Idle /\ now' = now
      BY <1>2, Zenon DEF File, Sent
    <2>2. \E o : log' = Append(log, Event(Len(log) + 1, o, "propose", "", "observed", None, r.inputs, EmptyFn, Held(r.inputs)))
      BY <1>2, Zenon DEF File
    <2>3. PICK e : log' = Append(log, e) /\ DOMAIN e = EventFields /\ e.pos = Len(log) + 1 /\ e.cause = None
      <3>1. PICK o : log' = Append(log, Event(Len(log) + 1, o, "propose", "", "observed", None, r.inputs, EmptyFn, Held(r.inputs)))
        BY <2>2, Zenon
      <3> DEFINE e == Event(Len(log) + 1, o, "propose", "", "observed", None, r.inputs, EmptyFn, Held(r.inputs))
      <3>2. DOMAIN e = EventFields /\ e.pos = Len(log) + 1 /\ e.cause = None
        BY DEF Event, EventFields
      <3>3. log' = Append(log, e)
        BY <3>1, Zenon
      <3> HIDE DEF e
      <3> QED BY <3>2, <3>3
    <2> QED BY <2>1, <2>3, LogAppend
  <1> QED BY <1>1, <1>2, Zenon DEF File

LEMMA DecidedEvent ==
  ASSUME NEW id, NEW to
  PROVE  LET e == Decided(id, to).event IN
         DOMAIN e = EventFields /\ e.pos = Len(log) + 1 /\ e.cause = None /\ e.x = to
         /\ e.object = Decided(id, to).row.id /\ e.seq = Decided(id, to).row.version
         /\ e.to = Decided(id, to).row.state
  BY EventIs DEF Decided

LEMMA DecideProposalCounts ==
  ASSUME LogInv, NEW r, DecideProposal(r)
  PROVE  LogInv'
  <1> DEFINE prop == objects[r.id].prop
             to == CASE r.act = "approve" -> "EXECUTED" [] r.act = "reject" -> "REJECTED" [] OTHER -> "WITHDRAWN"
             held == [r EXCEPT !.id = prop.target, !.type = prop.type, !.x = prop.x, !.inputs = prop.inputs,
                               !.expected = None, !.occurred = prop.occurred]
             d == Decided(r.id, to)
             n == Len(log) + 1
             xf == Frame(held.type, held.x, held.id, held.inputs, n)
  <1>1. CASE \E clause : Answer(clause)
    BY <1>1, AnswerCounts
  <1>2. DOMAIN d.event = EventFields /\ d.event.pos = n /\ d.event.cause = None
    BY DecidedEvent
  <1>3. CASE log' = Append(log, d.event) /\ now' = now /\ ctx' = ctx
    <2>1. ctx' = Idle
      BY <1>3, Zenon DEF DecideProposal, Sent
    <2> DEFINE e == d.event
    <2>2. DOMAIN e = EventFields /\ e.pos = Len(log) + 1 /\ e.cause = None /\ log' = Append(log, e)
      BY <1>2, <1>3
    <2> HIDE DEF e
    <2> QED BY <1>3, <2>1, <2>2, LogAppend
  <1>4. CASE /\ ctx' = Started(held, xf, n, prop.filed, prop.occurred, {d})
             /\ log' = log /\ now' = now
    <2> DEFINE first == {d}
    <2>1. DOMAIN xf = FrameFields /\ ~ xf.begun /\ xf.cause = n
      BY DEF Frame, FrameFields
    <2>2. \E c \in first : first = {c} /\ DOMAIN c.event = EventFields /\ c.event.pos = n /\ c.event.cause = None
      BY <1>2
    <2>3. ctx' = Started(held, xf, n, prop.filed, prop.occurred, first) /\ n = Len(log) + 1
      BY <1>4
    <2> HIDE DEF xf, first, n, d, held
    <2> QED BY <1>4, <2>1, <2>2, <2>3, StartCounts
  <1> QED BY <1>1, <1>3, <1>4, Zenon DEF DecideProposal

LEMMA InitCounts ==
  ASSUME Init
  PROVE  LogInv
  <1> DEFINE e(id) == Event(id, Founded(id), Stock[id].x, "", "observed", None, Stock[id].inputs,
                            WroteBetween(Blank(Stock[id].type), Founded(id).attrs), NotHeld)
             n == Len(Stock)
             l == [id \in DOMAIN Stock |-> e(id)]
  <1>1. log = l /\ ctx = Idle /\ now = 1
    BY Zenon DEF Init
  <1>2. DOMAIN Stock = 1..n /\ n \in Nat
    <2>1. IsSeq(Stock)
      BY StockAssumption, Zenon
    <2> QED BY <2>1 DEF IsSeq
  <1>3. \A id \in DOMAIN Stock : DOMAIN l[id] = EventFields /\ l[id].pos = id /\ l[id].cause = None
    BY Zenon DEF Event, EventFields
  <1>4. DOMAIN l = 1..n /\ l = [id \in 1..n |-> l[id]]
    BY <1>2
  <1> HIDE DEF l, n
  <1>5. IsSeq(l)
    BY <1>2, <1>4, SeqOver
  <1>6. LogCounts(l)
    BY <1>2, <1>3, <1>4, <1>5 DEF LogCounts, None
  <1> QED BY <1>1, <1>6, ClockAssumption DEF LogInv

LEMMA LogStep ==
  ASSUME RowsInv, LogInv, [Next]_vars
  PROVE  LogInv'
  <1>1. ASSUME NEW r \in Requests, Ask(r) \/ File(r) \/ DecideProposal(r) PROVE LogInv'
    BY <1>1, AskCounts, FileCounts, DecideProposalCounts
  <1>2. CASE Begin \/ Leave \/ Conclude \/ Write
    BY <1>2, BeginCounts, LeaveCounts, ConcludeCounts, WriteCounts
  <1>3. CASE Outcome
    BY <1>3, OutcomeCounts
  <1>4. CASE log' = log /\ ctx' = ctx /\ now' = now
    <2>1. ctx' = Idle \/ Counted(ctx')
      BY <1>4 DEF LogInv
    <2> QED BY <1>4, <2>1, LogStay
  <1>5. CASE Tick
    <2>1. log' = log /\ ctx' = Idle /\ now' = now + 1 /\ now < MaxNow
      BY <1>5 DEF Tick
    <2>2. (now \in 1..MaxNow)'
      BY <2>1, ClockAssumption DEF LogInv
    <2>3. LogCounts(log)'
      BY <2>1 DEF LogInv, LogCounts
    <2> QED BY <2>1, <2>2, <2>3 DEF LogInv, Idle
  <1>6. CASE Quiet \/ UNCHANGED vars
    BY <1>4, <1>6 DEF Quiet, vars
  <1> QED BY <1>1, <1>2, <1>3, <1>5, <1>6 DEF Next, Outcome

\* The store's rows are of the declared types and states, one per id, every
\* reference names a row of its type, and an event's number is its place in
\* the log and follows that of the event it comes of, though a transition is
\* numbered where it begins and recorded where it ends.
THEOREM TypesHold == Spec => []TypeOK
  <1>1. RowsInv /\ LogInv => TypeOK
    <2> SUFFICES ASSUME RowsInv, LogInv PROVE TypeOK
      OBVIOUS
    <2>1. DOMAIN objects = 1..Cardinality(DOMAIN objects)
      BY DEF RowsInv, Rows
    <2>2. ASSUME NEW id \in DOMAIN objects
          PROVE  /\ objects[id].id = id
                 /\ objects[id].type = PROPOSAL \/ objects[id].state \in DOMAIN TypeOf(objects[id]).states
                 /\ objects[id].next \in DOMAIN objects \cup {None}
                 /\ \A a \in DOMAIN objects[id].attrs :
                      LET v == objects[id].attrs[a]
                          t == Decl[objects[id].type].attrs[a].ref IN
                      t # "" /\ v # Absent => v \in DOMAIN objects /\ objects[v].type = t
      <3>1. objects[id].id = id /\ RowFits(objects, objects[id])
        BY DEF RowsInv, Rows
      <3> QED BY <3>1, Zenon DEF RowFits, ProposalRow, DeclaredRow, TypeOf, Names
    <2>3. \A p \in DOMAIN log : log[p].pos = p /\ log[p].cause < p
      BY DEF LogInv, LogCounts, IsSeq
    <2>4. now \in 1..MaxNow /\ ctx.phase \in {"idle", "take", "write"}
      BY DEF LogInv, RowsInv, Deciding, Idle
    <2> QED BY <2>1, <2>2, <2>3, <2>4, Zenon DEF TypeOK
  <1>2. Init => RowsInv /\ LogInv
    BY InitRows, InitCounts
  <1>3. RowsInv /\ LogInv /\ [Next]_vars => RowsInv' /\ LogInv'
    BY RowsStep, LogStep
  <1> QED BY <1>1, <1>2, <1>3, PTL DEF Spec

----------------------------------------------------------------------------
(* Proposals.  An event on a proposal that neither files nor redacts it    *)
(* decides it.  In a request's working copy an erasure alone decides one:  *)
(* what an approval decides is not shown there, and the log refuses the    *)
(* approval's event where the request came to touch the proposal.          *)

PropFields == {"target", "type", "x", "inputs", "by", "filed", "occurred", "expires"}

Decisions(E, k) == {e \in E : e.object = k /\ ~ (e.x \in {"propose", "redact"})}

DecidedOnce(w, E) ==
  /\ \A e \in E : e.object \in DOMAIN w
  /\ \A k \in DOMAIN w : w[k].type = PROPOSAL =>
       IF w[k].state = "PENDING" THEN Decisions(E, k) = {}
       ELSE \E d \in E : Decisions(E, k) = {d} /\ d.to = w[k].state

RanAs(e, prop) == e.x = prop.x /\ (prop.target # None => e.object = prop.target)

RanOnce(w, E) ==
  \A k \in DOMAIN w : w[k].type = PROPOSAL =>
    \A a \in Decisions(E, k) : a.to = "EXECUTED" =>
      \E q \in E : {e \in E : e.cause = a.pos} = {q} /\ RanAs(q, w[k].prop)

PropFits(w) == \A k \in DOMAIN w : w[k].type = PROPOSAL => DOMAIN w[k].prop = PropFields

\* A proposal as the store has it, or one with an event that takes the number
\* its approval's would have.
Untouched(w, E, k) ==
  \/ w[k].version = objects[k].version /\ w[k].state = "PENDING" /\ \A e \in E : e.object # k
  \/ \E e \in E : e.object = k /\ e.seq = objects[k].version + 1

\* The rows w and the events E of a request, F the approval it executes.
Filings(w, E, F) ==
  /\ DecidedOnce(w, Range(log) \cup E) /\ PropFits(w)
  /\ \A e \in E : w[e.object].type = PROPOSAL => e.x = "redact" \/ e.to = "INVALIDATED"
  /\ \A k \in DOMAIN objects : objects[k].type = PROPOSAL =>
       /\ k \in DOMAIN w /\ w[k].type = PROPOSAL
       /\ w[k].prop.x = objects[k].prop.x /\ w[k].prop.target = objects[k].prop.target
  /\ \A d \in F : d.row.id \in DOMAIN w /\ w[d.row.id].type = PROPOSAL /\ Untouched(w, E, d.row.id)

Approved(d) ==
  LET k == d.row.id IN
  /\ d.event.object = k /\ d.event.x = "EXECUTED" /\ d.event.to = "EXECUTED" /\ d.row.state = "EXECUTED"
  /\ k \in DOMAIN objects /\ objects[k].type = PROPOSAL
  /\ d.event.seq = objects[k].version + 1 /\ d.row.version = objects[k].version + 1 /\ d.row.prop = objects[k].prop /\ objects[k].state = "PENDING"

\* The request recorded is the outermost transition, and the one event that
\* comes of the approval is its.
Runs(c, prop) ==
  IF c.frames = <<>>
  THEN \E q \in c.events : {e \in c.events : e.cause = c.root} = {q} /\ RanAs(q, prop)
  ELSE /\ c.frames[1].cause = c.root /\ c.frames[1].x = prop.x
       /\ prop.target # None => c.frames[1].id = prop.target
       /\ \A e \in c.events : e.cause # c.root
       /\ \A i \in DOMAIN c.frames : c.frames[i].cause = c.root => i = 1

InFlight(c) ==
  /\ Filings(c.work, c.events, c.first)
  /\ \A d \in c.first : Approved(d) /\ Runs(c, d.row.prop)

FilingInv ==
  /\ DecidedOnce(objects, Range(log)) /\ RanOnce(objects, Range(log)) /\ PropFits(objects)
  /\ ctx # Idle => InFlight(ctx)

\* A step on a proposal: none, a redaction, or an invalidation of a pending one.
Touches(o, q, N) ==
  /\ q.type = PROPOSAL /\ DOMAIN q.prop = DOMAIN o.prop
  /\ q.prop.x = o.prop.x /\ q.prop.target = o.prop.target
  /\ \/ N = {} /\ q.state = o.state /\ q.version = o.version
     \/ \E e : /\ N = {e} /\ e.seq = o.version + 1
               /\ \/ e.x = "redact" /\ q.state = o.state
                  \/ /\ e.x = "invalidate" /\ e.to = "INVALIDATED"
                     /\ o.state = "PENDING" /\ q.state = "INVALIDATED"

Moves(w, E, u, D) ==
  \E N :
    /\ D = E \cup N
    /\ DOMAIN w \subseteq DOMAIN u
    /\ \A e \in N : e.object \in DOMAIN u
    /\ \A k \in DOMAIN u : u[k].type = PROPOSAL => k \in DOMAIN w /\ w[k].type = PROPOSAL
    /\ \A k \in DOMAIN w : w[k].type = PROPOSAL => Touches(w[k], u[k], {e \in N : e.object = k})

LEMMA MovesFile ==
  ASSUME NEW w, NEW E, NEW u, NEW D, NEW F, Filings(w, E, F), Moves(w, E, u, D)
  PROVE  Filings(u, D, F)
  <1> DEFINE A == Range(log) \cup E
             B == Range(log) \cup D
  <1>1. PICK N :
    /\ D = E \cup N
    /\ DOMAIN w \subseteq DOMAIN u
    /\ \A e \in N : e.object \in DOMAIN u
    /\ \A k \in DOMAIN u : u[k].type = PROPOSAL => k \in DOMAIN w /\ w[k].type = PROPOSAL
    /\ \A k \in DOMAIN w : w[k].type = PROPOSAL => Touches(w[k], u[k], {e \in N : e.object = k})
    BY DEF Moves
  <1> DEFINE K(k) == {e \in N : e.object = k}
  <1>2. DecidedOnce(w, A) /\ PropFits(w) /\ B = A \cup N
    BY <1>1 DEF Filings
  <1>3. \A e \in A : e.object \in DOMAIN w
    BY <1>2 DEF DecidedOnce
  <1>4. \A k : Decisions(B, k) = Decisions(A, k) \cup Decisions(K(k), k)
    BY <1>2 DEF Decisions
  <1> HIDE DEF A, B
  <1>5. ASSUME NEW k \in DOMAIN u, u[k].type = PROPOSAL
        PROVE  /\ k \in DOMAIN w /\ w[k].type = PROPOSAL /\ Touches(w[k], u[k], K(k))
               /\ IF u[k].state = "PENDING" THEN Decisions(B, k) = {}
                  ELSE \E d \in B : Decisions(B, k) = {d} /\ d.to = u[k].state
    <2>1. k \in DOMAIN w /\ w[k].type = PROPOSAL /\ Touches(w[k], u[k], K(k))
      BY <1>1, <1>5
    <2> HIDE DEF K
    <2>2. IF w[k].state = "PENDING" THEN Decisions(A, k) = {}
          ELSE \E d \in A : Decisions(A, k) = {d} /\ d.to = w[k].state
      BY <1>2, <2>1 DEF DecidedOnce
    <2>3. CASE K(k) = {} /\ u[k].state = w[k].state
      <3>1. Decisions(B, k) = Decisions(A, k)
        BY <1>4, <2>3 DEF Decisions
      <3> QED BY <1>2, <2>1, <2>2, <2>3, <3>1
    <2>4. ASSUME NEW e, K(k) = {e}, e.x = "redact", u[k].state = w[k].state
          PROVE  IF u[k].state = "PENDING" THEN Decisions(B, k) = {}
                 ELSE \E d \in B : Decisions(B, k) = {d} /\ d.to = u[k].state
      <3>1. Decisions(B, k) = Decisions(A, k)
        BY <1>4, <2>4 DEF Decisions
      <3> QED BY <1>2, <2>2, <2>4, <3>1
    <2>5. ASSUME NEW e, K(k) = {e}, e.x = "invalidate", e.to = "INVALIDATED",
                 w[k].state = "PENDING", u[k].state = "INVALIDATED"
          PROVE  IF u[k].state = "PENDING" THEN Decisions(B, k) = {}
                 ELSE \E d \in B : Decisions(B, k) = {d} /\ d.to = u[k].state
      <3>1. e \in N /\ e.object = k
        BY <2>5 DEF K
      <3>2. Decisions(B, k) = {e}
        BY <1>4, <2>2, <2>5, <3>1 DEF Decisions
      <3> QED BY <1>2, <2>5, <3>1, <3>2
    <2> QED BY <2>1, <2>3, <2>4, <2>5 DEF Touches
  <1>6. DecidedOnce(u, B)
    <2>1. \A e \in B : e.object \in DOMAIN u
      BY <1>1, <1>2, <1>3
    <2> QED BY <1>5, <2>1 DEF DecidedOnce
  <1>7. PropFits(u)
    <2> SUFFICES ASSUME NEW k \in DOMAIN u, u[k].type = PROPOSAL PROVE DOMAIN u[k].prop = PropFields
      BY DEF PropFits
    <2>1. k \in DOMAIN w /\ w[k].type = PROPOSAL /\ DOMAIN u[k].prop = DOMAIN w[k].prop
      BY <1>5 DEF Touches
    <2> QED BY <1>2, <2>1 DEF PropFits
  <1>8. ASSUME NEW e \in D, u[e.object].type = PROPOSAL PROVE e.x = "redact" \/ e.to = "INVALIDATED"
    <2>1. CASE e \in E
      <3>1. e.object \in DOMAIN w
        BY <1>3, <2>1 DEF A
      <3>2. w[e.object].type = PROPOSAL
        BY <1>1, <1>8, <3>1
      <3> QED BY <2>1, <3>2 DEF Filings
    <2>2. CASE e \in N
      <3>1. e.object \in DOMAIN u /\ e \in K(e.object)
        BY <1>1, <2>2
      <3>2. Touches(w[e.object], u[e.object], K(e.object))
        BY <1>5, <1>8, <3>1
      <3> HIDE DEF K
      <3> QED BY <3>1, <3>2 DEF Touches
    <2> QED BY <1>1, <2>1, <2>2
  <1>9. ASSUME NEW k \in DOMAIN objects, objects[k].type = PROPOSAL
        PROVE  /\ k \in DOMAIN u /\ u[k].type = PROPOSAL
               /\ u[k].prop.x = objects[k].prop.x /\ u[k].prop.target = objects[k].prop.target
    <2>1. /\ k \in DOMAIN w /\ w[k].type = PROPOSAL
          /\ w[k].prop.x = objects[k].prop.x /\ w[k].prop.target = objects[k].prop.target
      BY <1>9 DEF Filings
    <2>2. Touches(w[k], u[k], K(k))
      BY <1>1, <2>1
    <2> QED BY <1>1, <2>1, <2>2 DEF Touches
  <1>10. ASSUME NEW d \in F
         PROVE  d.row.id \in DOMAIN u /\ u[d.row.id].type = PROPOSAL /\ Untouched(u, D, d.row.id)
    <2> DEFINE k == d.row.id
    <2>1. k \in DOMAIN w /\ w[k].type = PROPOSAL /\ Untouched(w, E, k)
      BY DEF Filings
    <2> HIDE DEF k
    <2>2. Touches(w[k], u[k], K(k)) /\ k \in DOMAIN u
      BY <1>1, <2>1
    <2>3. CASE \E e \in E : e.object = k /\ e.seq = objects[k].version + 1
      BY <1>1, <2>2, <2>3 DEF Untouched, Touches, k
    <2>4. CASE w[k].version = objects[k].version /\ w[k].state = "PENDING" /\ \A e \in E : e.object # k
      <3>1. CASE K(k) = {} /\ u[k].state = w[k].state /\ u[k].version = w[k].version
        <4>1. \A e \in D : e.object # k
          BY <1>1, <2>4, <3>1
        <4> QED BY <2>2, <2>4, <3>1, <4>1 DEF Untouched, Touches, k
      <3>2. CASE \E e : K(k) = {e} /\ e.seq = w[k].version + 1
        <4>1. PICK e : K(k) = {e} /\ e.seq = w[k].version + 1
          BY <3>2
        <4>2. e \in D /\ e.object = k
          BY <1>1, <4>1
        <4> QED BY <2>2, <2>4, <4>1, <4>2 DEF Untouched, Touches, k
      <3> HIDE DEF K
      <3> QED BY <2>2, <3>1, <3>2 DEF Touches
    <2> QED BY <2>1, <2>3, <2>4 DEF Untouched
  <1> QED BY <1>6, <1>7, <1>8, <1>9, <1>10 DEF Filings, B

\* A row that is no proposal's, written or added, and events on it.
LEMMA OtherFiles ==
  ASSUME NEW w, NEW E, NEW u, NEW N, NEW F, NEW id, Filings(w, E, F),
         id \in DOMAIN u, u[id].type # PROPOSAL, id \in DOMAIN w => w[id].type # PROPOSAL,
         DOMAIN u = DOMAIN w \cup {id}, \A k \in DOMAIN w \ {id} : u[k] = w[k],
         \A e \in N : e.object = id
  PROVE  Filings(u, E \cup N, F)
  <1> DEFINE D == E \cup N
  <1>1. \A k \in DOMAIN w : w[k].type = PROPOSAL => Touches(w[k], u[k], {e \in N : e.object = k})
    <2> SUFFICES ASSUME NEW k \in DOMAIN w, w[k].type = PROPOSAL
                 PROVE  Touches(w[k], u[k], {e \in N : e.object = k})
      OBVIOUS
    <2>1. u[k] = w[k] /\ {e \in N : e.object = k} = {}
      OBVIOUS
    <2> QED BY <2>1 DEF Touches
  <1>2. Moves(w, E, u, D)
    BY <1>1 DEF Moves
  <1> QED BY <1>2, MovesFile

\* What an erasure does to the rows S of others, each with its event: a
\* redaction of what its value flowed into, or the end of a proposal on it.
Rewrites(c, d, S, ev) ==
  /\ S \subseteq DOMAIN c.work
  /\ d.events = c.events \cup {ev[k] : k \in S}
  /\ DOMAIN d.work = DOMAIN c.work
  /\ \A k \in S :
       LET o == c.work[k]
           q == d.work[k] IN
       /\ ev[k].object = k /\ ev[k].seq = o.version + 1 /\ ev[k].to = q.state
       /\ q.version = o.version + 1 /\ q.type = o.type
       /\ (o.type = PROPOSAL =>
             DOMAIN q.prop = DOMAIN o.prop /\ q.prop.x = o.prop.x /\ q.prop.target = o.prop.target)
       /\ \/ ev[k].x = "redact" /\ q.state = o.state
          \/ ev[k].x = "invalidate" /\ o.state = "PENDING" /\ q.state = "INVALIDATED"
  /\ \A k \in DOMAIN c.work \ S : d.work[k] = c.work[k]

LEMMA RewritesFile ==
  ASSUME NEW c, NEW d, NEW S, NEW ev, NEW F, Rewrites(c, d, S, ev), Filings(c.work, c.events, F)
  PROVE  Filings(d.work, d.events, F)
  <1> DEFINE w == c.work
             u == d.work
             E == c.events
             N == {ev[k] : k \in S}
             D == E \cup N
  <1>1. S \subseteq DOMAIN w /\ d.events = D /\ DOMAIN u = DOMAIN w
    BY Zenon DEF Rewrites
  <1>2. \A k \in S : /\ ev[k].object = k /\ ev[k].seq = w[k].version + 1 /\ ev[k].to = u[k].state
                    /\ u[k].type = w[k].type
    BY Zenon DEF Rewrites
  <1>3. \A k \in DOMAIN w \ S : u[k] = w[k]
    BY Zenon DEF Rewrites
  <1>4. ASSUME NEW k \in S, w[k].type = PROPOSAL
        PROVE  /\ DOMAIN u[k].prop = DOMAIN w[k].prop
               /\ u[k].prop.x = w[k].prop.x /\ u[k].prop.target = w[k].prop.target
               /\ \/ ev[k].x = "redact" /\ u[k].state = w[k].state
                  \/ ev[k].x = "invalidate" /\ w[k].state = "PENDING" /\ u[k].state = "INVALIDATED"
    BY <1>4, Zenon DEF Rewrites
  <1>5. \A k : {e \in N : e.object = k} = IF k \in S THEN {ev[k]} ELSE {}
    BY <1>2
  <1> HIDE DEF w, u, E, N
  <1>6. ASSUME NEW k \in DOMAIN w, w[k].type = PROPOSAL
        PROVE  Touches(w[k], u[k], {e \in N : e.object = k})
    <2>1. CASE k \in S
      <3>1. {e \in N : e.object = k} = {ev[k]}
        BY <1>5, <2>1
      <3>2. u[k].type = PROPOSAL /\ ev[k].seq = w[k].version + 1 /\ ev[k].to = u[k].state
        BY <1>2, <1>6, <2>1
      <3>3. /\ DOMAIN u[k].prop = DOMAIN w[k].prop
            /\ u[k].prop.x = w[k].prop.x /\ u[k].prop.target = w[k].prop.target
            /\ \/ ev[k].x = "redact" /\ u[k].state = w[k].state
               \/ ev[k].x = "invalidate" /\ w[k].state = "PENDING" /\ u[k].state = "INVALIDATED"
        BY <1>4, <1>6, <2>1
      <3> QED BY <3>1, <3>2, <3>3 DEF Touches
    <2>2. CASE k \notin S
      <3>1. {e \in N : e.object = k} = {} /\ u[k] = w[k]
        BY <1>3, <1>5, <2>2
      <3> QED BY <1>6, <3>1 DEF Touches
    <2> QED BY <2>1, <2>2
  <1>7. \A e \in N : e.object \in DOMAIN u
    BY <1>1, <1>2 DEF N
  <1>8. \A k \in DOMAIN u : u[k].type = PROPOSAL => k \in DOMAIN w /\ w[k].type = PROPOSAL
    BY <1>1, <1>2, <1>3
  <1>9. Moves(w, E, u, D)
    BY <1>1, <1>6, <1>7, <1>8 DEF Moves
  <1> HIDE DEF D
  <1>10. Filings(u, D, F)
    BY <1>9, MovesFile DEF w, E
  <1> QED BY <1>1, <1>10 DEF u

LEMMA RedactWrites ==
  ASSUME NEW c, DOMAIN c = CtxFields, NEW id, NEW p, NEW reached, Rows(c.work)
  PROVE  \E S, ev : id \notin S /\ Rewrites(c, RedactOthers(c, id, p, reached), S, ev)
  <1> DEFINE d == RedactOthers(c, id, p, reached)
             named == {EventAt(r[1]).object : r \in reached.in} \cup {r[1] : r \in reached.clear}
             ids == {k \in DOMAIN c.work \ {id} : k \in named /\ ~ (c.work[k].erased /\ k \in DOMAIN c.erased)}
             place == ToSeq(ids)
             gone(k) == IF c.work[k].erased THEN {} ELSE {r \in reached.clear : r[1] = k}
             left(k) == LET o == c.work[k] IN
               [o EXCEPT !.version = @ + 1,
                  !.attrs = [a \in DOMAIN @ |-> IF \E r \in gone(k) : r[2] = a THEN Absent ELSE @[a]],
                  !.spans = [e \in DOMAIN @ |-> [i \in DOMAIN @[e] |->
                               IF <<k, e, @[e][i].pos>> \in gone(k)
                               THEN [@[e][i] EXCEPT !.value = Absent] ELSE @[e][i]]]]
             event(i) == LET o == left(place[i]) IN
               Event(c.next + i - 1, o, "redact", o.state, "erased", p, EmptyFn,
                     WroteBetween(Base(c, o.id), o.attrs), NotHeld)
             n == Cardinality(ids)
             u == [k \in DOMAIN c.work |-> IF k \in ids THEN left(k) ELSE c.work[k]]
             ev == [k \in ids |-> event(CHOOSE i \in 1..n : place[i] = k)]
  <1>1. /\ n \in Nat /\ DOMAIN place = 1..n /\ ids \subseteq DOMAIN c.work /\ id \notin ids
        /\ \A i \in 1..n : place[i] \in ids
        /\ \A i, j \in 1..n : place[i] = place[j] => i = j
        /\ \A k \in ids : \E i \in 1..n : place[i] = k
    <2>1. Cardinality(DOMAIN c.work) \in Nat
      BY FS_CardinalityType DEF Rows
    <2>2. DOMAIN c.work \subseteq Nat /\ ids \in SUBSET DOMAIN c.work /\ IsFiniteSet(DOMAIN c.work) /\ id \notin ids
      BY <2>1 DEF Rows
    <2> HIDE DEF ids
    <2>3. ids \subseteq Nat /\ IsFiniteSet(ids)
      BY <2>2, FS_Subset
    <2>4. /\ n \in Nat /\ place \in [1..n -> ids] /\ (\A i, j \in 1..n : i < j => place[i] < place[j])
          /\ \A k \in ids : \E i \in 1..n : place[i] = k
      BY <2>3, ToSeqFits, ToSeqOnto
    <2> HIDE DEF place, n
    <2>5. ASSUME NEW i \in 1..n, NEW j \in 1..n, place[i] = place[j] PROVE i = j
      <3>1. place[i] \in Nat /\ place[j] \in Nat
        BY <2>3, <2>4
      <3>2. ~ (i < j) /\ ~ (j < i)
        BY <2>4, <2>5, <3>1
      <3> QED BY <2>4, <3>2
    <2> QED BY <2>2, <2>4, <2>5
  <1>2. d.work = u /\ d.events = c.events \cup {event(i) : i \in DOMAIN place}
    BY Zenon DEF RedactOthers, CtxFields
  <1>3. ASSUME NEW k \in ids
        PROVE  LET o == left(k) IN
               /\ o.id = k /\ o.type = c.work[k].type /\ o.state = c.work[k].state /\ o.prop = c.work[k].prop
               /\ o.version = c.work[k].version + 1
    <2>1. DOMAIN c.work[k] = RowFields /\ c.work[k].id = k
      BY <1>1, RowDomain DEF Rows
    <2> HIDE DEF gone
    <2> QED BY <2>1 DEF RowFields
  <1> HIDE DEF left, ids, place, n, d
  <1>4. \A i \in 1..n : /\ event(i).object = place[i] /\ event(i).x = "redact"
                        /\ event(i).seq = c.work[place[i]].version + 1 /\ event(i).to = c.work[place[i]].state
    BY <1>1, <1>3 DEF Event
  <1> HIDE DEF event
  <1>5. ASSUME NEW k \in ids
        PROVE  \E i \in 1..n : place[i] = k /\ ev[k] = event(i)
    BY <1>1
  <1>6. {ev[k] : k \in ids} = {event(i) : i \in 1..n}
    <2>1. ASSUME NEW i \in 1..n PROVE event(i) \in {ev[k] : k \in ids}
      <3>1. place[i] \in ids /\ (CHOOSE j \in 1..n : place[j] = place[i]) = i
        BY <1>1
      <3> QED BY <3>1
    <2> HIDE DEF ev
    <2> QED BY <1>5, <2>1
  <1> HIDE DEF ev
  <1>7. d.events = c.events \cup {ev[k] : k \in ids}
    BY <1>1, <1>2, <1>6
  <1>8. ASSUME NEW k \in ids
        PROVE  /\ ev[k].object = k /\ ev[k].x = "redact" /\ ev[k].seq = c.work[k].version + 1
               /\ ev[k].to = c.work[k].state
    BY <1>4, <1>5
  <1>9. DOMAIN d.work = DOMAIN c.work /\ (\A k \in ids : d.work[k] = left(k))
        /\ \A k \in DOMAIN c.work \ ids : d.work[k] = c.work[k]
    BY <1>1, <1>2
  <1>10. Rewrites(c, d, ids, ev)
    BY <1>1, <1>3, <1>7, <1>8, <1>9 DEF Rewrites
  <1> QED BY <1>1, <1>10 DEF d

Rewritten(o, y, z) == [o EXCEPT !.version = @ + 1, !.state = y, !.prop.inputs = z]

LEMMA RecordedProposal ==
  ASSUME NEW o, NEW y, NEW z, NEW was, NEW t, NEW h, NEW q, DOMAIN o = RowFields, DOMAIN o.prop = PropFields,
         q = Spanned(Rewritten(o, y, z), was, t, h)
  PROVE  /\ q.id = o.id /\ q.type = o.type /\ q.state = y /\ q.version = o.version + 1
         /\ DOMAIN q.prop = DOMAIN o.prop /\ q.prop.x = o.prop.x /\ q.prop.target = o.prop.target
  <1> DEFINE v == Rewritten(o, y, z)
             l == Spanned(v, was, t, h)
  <1>1. /\ DOMAIN v = RowFields /\ v.id = o.id /\ v.type = o.type /\ v.state = y /\ v.version = o.version + 1
        /\ v.prop = [o.prop EXCEPT !.inputs = z]
    BY DEF RowFields, Rewritten
  <1> HIDE DEF v
  <1>2. DOMAIN v.prop = PropFields /\ v.prop.x = o.prop.x /\ v.prop.target = o.prop.target
    BY <1>1 DEF PropFields
  <1>3. /\ l.id = v.id /\ l.type = v.type /\ l.state = v.state /\ l.prop = v.prop /\ l.version = v.version
    BY <1>1, SpannedAlike
  <1>4. q = l
    BY DEF v
  <1> HIDE DEF l
  <1> QED BY <1>1, <1>2, <1>3, <1>4

LEMMA InvalidateWrites ==
  ASSUME NEW c, DOMAIN c = CtxFields, NEW id, NEW p, Rows(c.work), PropFits(c.work)
  PROVE  \E S, ev : /\ Rewrites(c, InvalidateProposals(c, id, p), S, ev)
                    /\ \A k \in S : c.work[k].type = PROPOSAL
  <1> DEFINE d == InvalidateProposals(c, id, p)
             on == {k \in DOMAIN c.work : c.work[k].type = PROPOSAL /\ c.work[k].prop.target = id}
             pending == {k \in on : c.work[k].state = "PENDING"}
             personal(k) == LET q == c.work[k].prop IN
               {n \in DOMAIN q.inputs : PersonalByOwn(q.type, Decl[q.type].trans[q.x], n)}
             decided == {k \in on \ pending : personal(k) # {}}
             place == ToSeq(pending) \o ToSeq(decided)
             at(k) == c.next + (CHOOSE i \in DOMAIN place : place[i] = k) - 1
             kept(k) == IF k \in pending THEN EmptyFn
                        ELSE [n \in DOMAIN c.work[k].prop.inputs \ personal(k) |-> c.work[k].prop.inputs[n]]
             state(k) == IF k \in pending THEN "INVALIDATED" ELSE c.work[k].state
             left(k) == LET o == c.work[k] IN
               Spanned([o EXCEPT !.version = @ + 1, !.state = state(k), !.prop.inputs = kept(k)],
                       [e \in {"state"} |-> o.state], at(k), c.at)
             event(k) == Event(at(k), left(k), IF k \in pending THEN "invalidate" ELSE "redact",
                               c.work[k].state, "erased", p, EmptyFn, EmptyFn, Held(kept(k)))
             S == pending \cup decided
             ev == [k \in S |-> event(k)]
             u == [k \in DOMAIN c.work |-> IF k \in S THEN left(k) ELSE c.work[k]]
  <1>1. d.work = u /\ d.events = c.events \cup {event(k) : k \in S}
    BY Zenon DEF InvalidateProposals, CtxFields
  <1>2. \A k \in S : k \in DOMAIN c.work /\ c.work[k].type = PROPOSAL
    BY Zenon
  <1>3. \A k \in S : (k \in pending => c.work[k].state = "PENDING")
    BY Zenon
  <1>4. ASSUME NEW k \in S
        PROVE  LET o == left(k)
                   q == c.work[k] IN
               /\ o.id = k /\ o.type = PROPOSAL /\ o.state = state(k) /\ o.version = q.version + 1
               /\ DOMAIN o.prop = DOMAIN q.prop /\ o.prop.x = q.prop.x /\ o.prop.target = q.prop.target
    <2> DEFINE o == c.work[k]
               t == at(k)
               y == state(k)
               z == kept(k)
               was == [e \in {"state"} |-> o.state]
    <2>1. DOMAIN o = RowFields /\ o.id = k /\ o.type = PROPOSAL
      BY <1>2, RowDomain, Zenon DEF Rows
    <2>2. DOMAIN o.prop = PropFields
      BY <1>2, Zenon DEF PropFits
    <2>3. left(k) = Spanned(Rewritten(o, y, z), was, t, c.at)
      BY Zenon DEF Rewritten
    <2> DEFINE h == c.at
               l == Spanned(Rewritten(o, y, z), was, t, h)
    <2>4. left(k) = l
      BY <2>3, Zenon
    <2> HIDE DEF o, t, y, z, was, left, S, h
    <2>5. /\ l.id = o.id /\ l.type = o.type /\ l.state = y /\ l.version = o.version + 1
          /\ DOMAIN l.prop = DOMAIN o.prop /\ l.prop.x = o.prop.x /\ l.prop.target = o.prop.target
      <3>1. l = Spanned(Rewritten(o, y, z), was, t, h)
        OBVIOUS
      <3> HIDE DEF l
      <3> QED BY <2>1, <2>2, <3>1, RecordedProposal
    <2> HIDE DEF l
    <2> QED BY <2>1, <2>4, <2>5 DEF o, y
  <1>5. /\ \A k \in pending : state(k) = "INVALIDATED"
        /\ \A k \in DOMAIN c.work : k \notin pending => state(k) = c.work[k].state
    OBVIOUS
  <1> HIDE DEF left, at, kept, state, pending, decided, d, S
  <1>6. \A k \in S : /\ event(k).object = k /\ event(k).seq = c.work[k].version + 1 /\ event(k).to = state(k)
                     /\ event(k).x = IF k \in pending THEN "invalidate" ELSE "redact"
    BY <1>4 DEF Event
  <1> HIDE DEF event
  <1>7. {ev[k] : k \in S} = {event(k) : k \in S} /\ \A k \in S : ev[k] = event(k)
    OBVIOUS
  <1> HIDE DEF ev
  <1>8. DOMAIN d.work = DOMAIN c.work /\ (\A k \in S : d.work[k] = left(k))
        /\ \A k \in DOMAIN c.work \ S : d.work[k] = c.work[k]
    BY <1>1, <1>2
  <1>9. \A k \in S : /\ ev[k].object = k /\ ev[k].seq = c.work[k].version + 1 /\ ev[k].to = state(k)
                     /\ ev[k].x = IF k \in pending THEN "invalidate" ELSE "redact"
    BY <1>6, <1>7
  <1>10. \A k \in S : \/ ev[k].x = "redact" /\ state(k) = c.work[k].state
                      \/ ev[k].x = "invalidate" /\ c.work[k].state = "PENDING" /\ state(k) = "INVALIDATED"
    BY <1>2, <1>3, <1>5, <1>9
  <1>11. S \subseteq DOMAIN c.work /\ d.events = c.events \cup {ev[k] : k \in S}
    BY <1>1, <1>2, <1>7
  <1>12. Rewrites(c, d, S, ev)
    BY <1>2, <1>4, <1>8, <1>9, <1>10, <1>11 DEF Rewrites
  <1> QED BY <1>2, <1>12 DEF d

LEMMA RewritesProps ==
  ASSUME NEW c, NEW d, NEW S, NEW ev, Rewrites(c, d, S, ev), PropFits(c.work)
  PROVE  PropFits(d.work)
  <1>1. S \subseteq DOMAIN c.work /\ DOMAIN d.work = DOMAIN c.work /\ \A k \in DOMAIN c.work \ S : d.work[k] = c.work[k]
    BY Zenon DEF Rewrites
  <1>2. \A k \in S : /\ d.work[k].type = c.work[k].type
                     /\ c.work[k].type = PROPOSAL => DOMAIN d.work[k].prop = DOMAIN c.work[k].prop
    BY Zenon DEF Rewrites
  <1> QED BY <1>1, <1>2 DEF PropFits

\* An erasure as the writes on others, then on the proposals, and its own row's.
LEMMA ErasedWrites ==
  ASSUME NEW c, DOMAIN c = CtxFields, Rows(c.work), PropFits(c.work), NEW id \in DOMAIN c.work, NEW p,
         c.work[id].type # PROPOSAL
  PROVE  \E m, i, S, T, ev, fv :
           LET d == Erased(c, c.work[id], p) IN
           /\ Rewrites(c, m, S, ev) /\ Rewrites(m, i, T, fv)
           /\ d.events = i.events /\ DOMAIN d.work = DOMAIN i.work /\ \A k \in DOMAIN i.work \ {id} : d.work[k] = i.work[k]
           /\ i.work[id].version = c.work[id].version /\ i.work[id].type = c.work[id].type
           /\ d.work[id].type = c.work[id].type
  <1> DEFINE o == c.work[id]
             d == Erased(c, o, p)
             gone == {a \in Personal(o.type) : o.attrs[a] # Absent}
             reached == Reached(o.id, gone)
             bare == [o EXCEPT !.erased = TRUE,
                        !.attrs = [a \in DOMAIN @ |-> IF a \in gone THEN Absent ELSE @[a]],
                        !.spans = [e \in DOMAIN @ |-> IF ~ (e \in Personal(o.type)) THEN @[e]
                                     ELSE [i \in DOMAIN @[e] |-> [@[e][i] EXCEPT !.value = Absent]]]]
             others == RedactOthers(c, o.id, p, reached)
             marked == [others EXCEPT !.erased = Marked(@, o.id, gone)]
             inv == InvalidateProposals(marked, o.id, p)
  <1>1. d = [inv EXCEPT !.work = Put(@, bare)]
    BY DEF Erased
  <1>2. bare.id = id /\ bare.type = o.type /\ o.id = id
    <2>1. DOMAIN o = RowFields /\ o.id = id
      BY RowDomain DEF Rows
    <2> HIDE DEF gone, o
    <2> QED BY <2>1 DEF RowFields
  <1> HIDE DEF bare, reached, gone
  <1>3. DOMAIN others = CtxFields /\ DOMAIN others.work = DOMAIN c.work
        /\ \A k \in DOMAIN c.work : Alike(c.work[k], others.work[k])
    BY RedactAlike
  <1>4. PICK S, ev : o.id \notin S /\ Rewrites(c, others, S, ev)
    BY RedactWrites
  <1>5. Rows(others.work)
    BY <1>3, RowsAlike
  <1> HIDE DEF others, o
  <1>6. PropFits(others.work)
    BY <1>4, RewritesProps
  <1>7. DOMAIN marked = CtxFields /\ marked.work = others.work /\ marked.events = others.events
    BY <1>3 DEF CtxFields
  <1> HIDE DEF marked
  <1>8. DOMAIN inv = CtxFields /\ DOMAIN inv.work = DOMAIN others.work
    BY <1>5, <1>7, InvalidateAlike
  <1>9. PICK T, fv : Rewrites(marked, inv, T, fv) /\ \A k \in T : marked.work[k].type = PROPOSAL
    BY <1>5, <1>6, <1>7, InvalidateWrites
  <1> HIDE DEF inv
  <1>10. Rewrites(others, inv, T, fv)
    BY <1>7, <1>9 DEF Rewrites
  <1>11. others.work[id] = o
    BY <1>2, <1>4, Zenon DEF Rewrites, o
  <1>12. inv.work[id] = o
    <2>1. id \notin T /\ id \in DOMAIN others.work
      BY <1>3, <1>7, <1>9, <1>11 DEF o
    <2> QED BY <1>10, <1>11, <2>1, Zenon DEF Rewrites
  <1>13. d.events = inv.events /\ d.work = Put(inv.work, bare)
    BY <1>1, <1>8 DEF CtxFields
  <1> DEFINE w == inv.work
             u == Put(w, bare)
  <1>14. DOMAIN u = DOMAIN w /\ u[id] = bare /\ \A k \in DOMAIN w \ {id} : u[k] = w[k]
    BY <1>2, <1>3, <1>8 DEF Put
  <1> HIDE DEF u, d
  <1>15. /\ d.events = inv.events /\ DOMAIN d.work = DOMAIN inv.work
         /\ \A k \in DOMAIN inv.work \ {id} : d.work[k] = inv.work[k]
         /\ inv.work[id].version = o.version /\ inv.work[id].type = o.type /\ d.work[id].type = o.type
    BY <1>2, <1>12, <1>13, <1>14 DEF u
  <1> QED BY <1>4, <1>10, <1>15 DEF d, o

LEMMA ErasedFiles ==
  ASSUME NEW c, DOMAIN c = CtxFields, Rows(c.work), NEW id \in DOMAIN c.work, NEW p, NEW F,
         c.work[id].type # PROPOSAL, Filings(c.work, c.events, F)
  PROVE  Filings(Erased(c, c.work[id], p).work, Erased(c, c.work[id], p).events, F)
  <1> DEFINE d == Erased(c, c.work[id], p)
  <1>1. PICK m, i, S, T, ev, fv :
          /\ Rewrites(c, m, S, ev) /\ Rewrites(m, i, T, fv)
          /\ d.events = i.events /\ DOMAIN d.work = DOMAIN i.work /\ \A k \in DOMAIN i.work \ {id} : d.work[k] = i.work[k]
          /\ i.work[id].version = c.work[id].version /\ i.work[id].type = c.work[id].type
          /\ d.work[id].type = c.work[id].type
    <2>1. PropFits(c.work)
      BY DEF Filings
    <2> QED BY <2>1, ErasedWrites
  <1> HIDE DEF d
  <1>2. Filings(i.work, i.events, F)
    <2>1. Filings(m.work, m.events, F)
      BY <1>1, RewritesFile
    <2> QED BY <1>1, <2>1, RewritesFile
  <1> DEFINE w == i.work
             u == d.work
             E == i.events
  <1>3. id \in DOMAIN w
    BY <1>1, Zenon DEF Rewrites
  <1>4. DOMAIN u = DOMAIN w \cup {id} /\ (\A k \in DOMAIN w \ {id} : u[k] = w[k])
        /\ u[id].type # PROPOSAL /\ w[id].type # PROPOSAL /\ id \in DOMAIN u /\ Filings(w, E, F)
    BY <1>1, <1>2, <1>3
  <1> HIDE DEF u, w, E
  <1>5. Filings(u, E \cup {}, F)
    BY <1>4, OtherFiles
  <1>6. E \cup {} = E
    OBVIOUS
  <1> QED BY <1>1, <1>5, <1>6 DEF u, E, d

\* While the store stays, what is said of the decision is enough.
LEMMA FilingStay ==
  ASSUME FilingInv, objects' = objects, log' = log, ctx' = Idle \/ InFlight(ctx')
  PROVE  FilingInv'
  <1>1. DecidedOnce(objects, Range(log))' /\ RanOnce(objects, Range(log))' /\ PropFits(objects)'
    BY DEF FilingInv, DecidedOnce, RanOnce, PropFits, Decisions, RanAs
  <1>2. CASE ctx' = Idle
    BY <1>1, <1>2 DEF FilingInv, Idle
  <1>3. CASE InFlight(ctx')
    <2>1. InFlight(ctx)'
      BY <1>3, Zenon DEF InFlight, Filings, DecidedOnce, Decisions, PropFits, Untouched, Approved, Runs, RanAs
    <2> QED BY <1>1, <2>1 DEF FilingInv
  <1> QED BY <1>2, <1>3

\* The object of a transition begun is no proposal.
LEMMA TopOther ==
  ASSUME RowsInv, ctx.phase = "take", ctx.frames # <<>>, Top.begun
  PROVE  Top.id \in DOMAIN ctx.work /\ ctx.work[Top.id].type # PROPOSAL
  <1>1. Top.id \in DOMAIN ctx.work /\ DeclaredRow(ctx.work, ctx.work[Top.id])
    BY TopFits
  <1>2. PROPOSAL \notin DOMAIN Decl
    BY DeclAssumption, Zenon
  <1> QED BY <1>1, <1>2, Zenon DEF DeclaredRow

LEMMA FlightIs ==
  ASSUME FilingInv, LogInv, ctx.phase \in {"take", "write"}
  PROVE  InFlight(ctx) /\ Counted(ctx)
  BY DEF FilingInv, LogInv, Idle

LEMMA KeptFiles ==
  ASSUME RowsInv, LogInv, FilingInv, ctx.phase = "take", ctx.frames # <<>>, Top.begun, NEW d, Kept(d)
  PROVE  InFlight(d)
  <1>1. InFlight(ctx) /\ Counted(ctx)
    BY FlightIs
  <1>2. /\ d.events = ctx.events /\ d.first = ctx.first /\ d.root = ctx.root
        /\ DOMAIN d.work = DOMAIN ctx.work /\ d.work[Top.id].type = ctx.work[Top.id].type
        /\ \A k \in DOMAIN ctx.work : k # Top.id => d.work[k] = ctx.work[k]
    BY DEF Kept, KeptRest
  <1>3. Filings(d.work, d.events, d.first)
    <2> DEFINE w == ctx.work
               u == d.work
               E == ctx.events
               F == ctx.first
               id == Top.id
    <2>1. id \in DOMAIN w /\ w[id].type # PROPOSAL
      BY TopOther
    <2>2. /\ Filings(w, E, F) /\ DOMAIN u = DOMAIN w \cup {id} /\ \A k \in DOMAIN w \ {id} : u[k] = w[k]
          /\ u[id].type # PROPOSAL /\ id \in DOMAIN u
      BY <1>1, <1>2, <2>1 DEF InFlight
    <2> HIDE DEF w, u, E, F, id
    <2>3. Filings(u, E \cup {}, F)
      BY <2>1, <2>2, OtherFiles
    <2>4. E \cup {} = E
      OBVIOUS
    <2> QED BY <1>2, <2>3, <2>4 DEF w, u, E, F, id
  <1> DEFINE s == d.frames
  <1>4. /\ DOMAIN ctx.frames \subseteq DOMAIN s /\ s # <<>> /\ 1 \in DOMAIN ctx.frames
        /\ \A i \in DOMAIN ctx.frames :
             s[i].cause = ctx.frames[i].cause /\ s[i].x = ctx.frames[i].x /\ s[i].id = ctx.frames[i].id
        /\ \A i \in DOMAIN s \ DOMAIN ctx.frames : s[i].cause = Top.pos
        /\ Len(ctx.frames) \in DOMAIN ctx.frames /\ ctx.frames[Len(ctx.frames)] = Top
    BY KeptIndex DEF Kept
  <1>5. Top.pos # ctx.root
    <2>1. Top.pos \in (Low(ctx) + 1)..(ctx.next - 1)
      BY <1>1, <1>4 DEF Counted, FramesCount
    <2>2. Low(ctx) \in Nat /\ ctx.root \in 0..Low(ctx) /\ ctx.next \in Nat
      BY <1>1, LowIs DEF Counted
    <2> QED BY <2>1, <2>2
  <1> HIDE DEF s
  <1>6. ASSUME NEW prop, Runs(ctx, prop) PROVE Runs(d, prop)
    <2>1. /\ ctx.frames[1].cause = ctx.root /\ ctx.frames[1].x = prop.x
          /\ prop.target # None => ctx.frames[1].id = prop.target
          /\ \A e \in ctx.events : e.cause # ctx.root
          /\ \A i \in DOMAIN ctx.frames : ctx.frames[i].cause = ctx.root => i = 1
      BY <1>6 DEF Runs
    <2>2. \A i \in DOMAIN s : s[i].cause = ctx.root => i = 1
      BY <1>4, <1>5, <2>1
    <2> QED BY <1>2, <1>4, <2>1, <2>2 DEF Runs, s
  <1> QED BY <1>1, <1>2, <1>3, <1>6 DEF InFlight

LEMMA OutcomeFiles ==
  ASSUME RowsInv, LogInv, FilingInv, Outcome
  PROVE  FilingInv'
  <1>1. /\ ctx.phase = "take" /\ ctx.frames # <<>> /\ Top.begun /\ UNCHANGED <<objects, log, now>>
        /\ Kept(ctx') \/ \E clause : Refuse(clause)
    BY OutcomeKept
  <1>2. CASE Kept(ctx')
    <2> DEFINE d == ctx'
    <2>1. Kept(d)
      BY <1>2
    <2> HIDE DEF d
    <2>2. InFlight(d)
      BY <1>1, <2>1, KeptFiles
    <2> QED BY <1>1, <2>2, FilingStay DEF d
  <1>3. CASE \E clause : Refuse(clause)
    BY <1>1, <1>3, FilingStay DEF Refuse
  <1> QED BY <1>1, <1>2, <1>3

LEMMA BegunFiles ==
  ASSUME RowsInv, ctx.phase = "take", ctx.frames # <<>>, NEW e, NEW id, NEW F, Filings(ctx.work, ctx.events, F),
         BegunEvents(e, id), BegunRows(e.work, id), Top.type # PROPOSAL
  PROVE  Filings(e.work, e.events, F)
  <1>1. PICK c, d :
    /\ DOMAIN c = CtxFields /\ Rows(c.work)
    /\ c.next = ctx.next + 1 /\ c.events = ctx.events /\ c.root = ctx.root
    /\ DOMAIN c.work = DOMAIN ctx.work \cup {id} /\ \A k \in DOMAIN ctx.work : c.work[k] = ctx.work[k]
    /\ c.work[id].type = Top.type /\ (id \notin DOMAIN ctx.work => c.work[id].version = 0)
    /\ d = c \/ d = Erased(c, c.work[id], ctx.next)
    /\ e.next = d.next /\ e.events = d.events /\ e.root = d.root /\ e.first = ctx.first /\ e.phase = "take"
    /\ DOMAIN e.work = DOMAIN c.work /\ \A k \in DOMAIN c.work \ {id} : e.work[k] = d.work[k]
    /\ e.work[id].version = c.work[id].version
    BY Zenon DEF BegunEvents
  <1>2. e.work[id].type = Top.type /\ (id \in DOMAIN ctx.work => ctx.work[id].type = Top.type)
    BY DEF BegunRows
  <1>3. Filings(c.work, c.events, F)
    <2> DEFINE w == ctx.work
               u == c.work
               E == ctx.events
    <2>1. /\ Filings(w, E, F) /\ DOMAIN u = DOMAIN w \cup {id} /\ \A k \in DOMAIN w \ {id} : u[k] = w[k]
          /\ u[id].type # PROPOSAL /\ id \in DOMAIN u /\ (id \in DOMAIN w => w[id].type # PROPOSAL)
      BY <1>1, <1>2
    <2> HIDE DEF w, u, E
    <2>2. Filings(u, E \cup {}, F)
      BY <2>1, OtherFiles
    <2>3. E \cup {} = E
      OBVIOUS
    <2> QED BY <1>1, <2>2, <2>3 DEF u, E
  <1>4. Filings(d.work, d.events, F) /\ DOMAIN d.work = DOMAIN c.work /\ d.work[id].type # PROPOSAL
    <2>1. CASE d = c
      BY <1>1, <1>3, <2>1
    <2>2. CASE d = Erased(c, c.work[id], ctx.next)
      <3> DEFINE p == ctx.next
      <3>1. id \in DOMAIN c.work /\ c.work[id].type # PROPOSAL /\ d = Erased(c, c.work[id], p) /\ DOMAIN c = CtxFields
            /\ Rows(c.work)
        BY <1>1, <2>2
      <3> HIDE DEF p
      <3>2. Filings(Erased(c, c.work[id], p).work, Erased(c, c.work[id], p).events, F)
        BY <1>3, <3>1, ErasedFiles
      <3>3. DOMAIN d.work = DOMAIN c.work /\ Alike(c.work[id], d.work[id])
        BY <3>1, ErasedAlike
      <3> QED BY <3>1, <3>2, <3>3 DEF Alike
    <2> QED BY <1>1, <2>1, <2>2
  <1> DEFINE w == d.work
             u == e.work
             E == d.events
  <1>5. /\ Filings(w, E, F) /\ DOMAIN u = DOMAIN w \cup {id} /\ \A k \in DOMAIN w \ {id} : u[k] = w[k]
        /\ u[id].type # PROPOSAL /\ id \in DOMAIN u /\ w[id].type # PROPOSAL
    BY <1>1, <1>2, <1>4
  <1> HIDE DEF w, u, E
  <1>6. Filings(u, E \cup {}, F)
    BY <1>5, OtherFiles
  <1>7. E \cup {} = E
    OBVIOUS
  <1> QED BY <1>1, <1>6, <1>7 DEF u, E

LEMMA BeginFiles ==
  ASSUME RowsInv, LogInv, FilingInv, Begin
  PROVE  FilingInv'
  <1>1. /\ ctx.phase = "take" /\ ctx.frames # <<>> /\ ~ Top.begun /\ objects' = objects /\ log' = log
    BY Zenon DEF Begin
  <1>2. /\ Counted(ctx) /\ InFlight(ctx) /\ DOMAIN ctx = CtxFields /\ IsSeq(ctx.frames) /\ ctx.next \in Nat
        /\ FrameFits(ctx.work, Top)
    BY <1>1, TopFits, FlightIs DEF Counted
  <1>3. CASE \E clause : Refuse(clause)
    BY <1>1, <1>3, FilingStay DEF Refuse
  <1>4. ASSUME NEW d, NEW g, ctx' = d, d.frames = Append(Front(ctx.frames), g), Checked(Top) = "ok",
               BegunFrame(g), BegunRows(d.work, g.id), BegunEvents(d, g.id)
        PROVE  FilingInv'
    <2>1. Top.type # PROPOSAL
      BY <1>2, DeclAssumption, Zenon DEF FrameFits, Has
    <2>2. Filings(d.work, d.events, ctx.first)
      <3> DEFINE F == ctx.first
                 id == g.id
      <3>1. Filings(ctx.work, ctx.events, F) /\ BegunEvents(d, id) /\ BegunRows(d.work, id)
        BY <1>2, <1>4 DEF InFlight
      <3> HIDE DEF F, id
      <3>2. Filings(d.work, d.events, F)
        BY <1>1, <2>1, <3>1, BegunFiles
      <3> QED BY <3>2 DEF F
    <2>3. PICK N : d.events = ctx.events \cup N /\ Numbers(N, ctx.next + 1, d.next, ctx.next)
      BY <1>2, <1>4, EventsBegun
    <2>4. d.phase = "take" /\ d.first = ctx.first /\ d.root = ctx.root
      BY <1>2, <1>4, EventsBegun
    <2>5. ctx.next # ctx.root
      BY <1>2, LowIs DEF Counted
    <2> DEFINE n == Len(ctx.frames)
               b == Front(ctx.frames)
               s == Append(b, g)
    <2>6. n \in Nat \ {0} /\ DOMAIN ctx.frames = 1..n /\ IsSeq(b) /\ Len(b) = n - 1
          /\ \A i \in 1..(n - 1) : b[i] = ctx.frames[i]
      BY <1>1, <1>2, SeqRest
    <2>7. ctx.frames[n] = Top
      BY DEF Top, Last
    <2> HIDE DEF n, b
    <2>8. s # <<>> /\ DOMAIN s = 1..n /\ s[n] = g /\ \A i \in 1..(n - 1) : s[i] = ctx.frames[i]
      <3>1. IsSeq(s) /\ Len(s) = n /\ s # <<>> /\ Last(s) = g /\ \A i \in 1..(n - 1) : s[i] = b[i]
        BY <2>6, SeqAppend
      <3> QED BY <2>6, <3>1 DEF Last, IsSeq
    <2>9. d.frames = s
      BY <1>4 DEF b
    <2> HIDE DEF s
    <2>10. \A i \in 1..n : i = n \/ i \in 1..(n - 1)
      BY <2>6
    <2>11. g.cause = Top.cause /\ g.x = Top.x /\ (Top.id # None => g.id = Top.id)
      <3>1. (X(Top).kind = "initial") = (Top.id = None)
        BY <1>4 DEF Checked
      <3>2. g.id \in DOMAIN ctx.work \/ X(Top).kind = "initial"
        BY <1>4 DEF BegunRows
      <3>3. g.id \in DOMAIN ctx.work => g.id = Top.id
        BY <1>4 DEF BegunRows
      <3> QED BY <1>4, <3>1, <3>2, <3>3 DEF BegunFrame
    <2>12. \A i \in 1..n : /\ s[i].cause = ctx.frames[i].cause /\ s[i].x = ctx.frames[i].x
                           /\ ctx.frames[i].id # None => s[i].id = ctx.frames[i].id
      BY <2>7, <2>8, <2>10, <2>11
    <2>13. ASSUME NEW prop, Runs(ctx, prop) PROVE Runs(d, prop)
      <3>1. /\ ctx.frames[1].cause = ctx.root /\ ctx.frames[1].x = prop.x
            /\ prop.target # None => ctx.frames[1].id = prop.target
            /\ \A e \in ctx.events : e.cause # ctx.root
            /\ \A i \in DOMAIN ctx.frames : ctx.frames[i].cause = ctx.root => i = 1
        BY <1>1, <2>13 DEF Runs
      <3>2. \A e \in N : e.cause = ctx.next
        BY <2>3 DEF Numbers
      <3>3. 1 \in 1..n
        BY <2>6
      <3>4. /\ s[1].cause = ctx.root /\ s[1].x = prop.x /\ (prop.target # None => s[1].id = prop.target)
            /\ \A i \in DOMAIN s : s[i].cause = ctx.root => i = 1
        BY <2>6, <2>8, <2>12, <3>1, <3>3
      <3> QED BY <2>3, <2>4, <2>5, <2>8, <2>9, <3>1, <3>2, <3>4 DEF Runs
    <2>14. InFlight(d)
      BY <1>2, <2>2, <2>4, <2>13 DEF InFlight
    <2> QED BY <1>1, <1>4, <2>14, FilingStay
  <1> QED BY <1>3, <1>4, BeginLeaves

LEMMA LeaveFiles ==
  ASSUME RowsInv, LogInv, FilingInv, Leave
  PROVE  FilingInv'
  <1>1. ctx.phase = "take" /\ ctx.frames # <<>> /\ Top.begun /\ objects' = objects /\ log' = log
    BY Zenon DEF Leave
  <1>2. Counted(ctx) /\ InFlight(ctx) /\ DOMAIN ctx = CtxFields /\ IsSeq(ctx.frames)
    BY <1>1, TopFits, FlightIs
  <1>3. CASE Refuse("occurred_within")
    BY <1>1, <1>3, FilingStay DEF Refuse
  <1>4. ASSUME NEW done, NEW e, NEW last, NEW wrote,
               DOMAIN done = RowFields, done.id = Top.id, done.type = ctx.work[Top.id].type,
               done.next = ctx.work[Top.id].next, done.state = ctx.work[Top.id].state,
               done.attrs = ctx.work[Top.id].attrs,
               DOMAIN e = EventFields, e.pos = Top.pos, e.cause = Top.cause, e.x = Top.x, e.object = Top.id,
               ctx' = [ctx EXCEPT !.work = [@ EXCEPT ![Top.id] = done], !.events = ctx.events \cup {e},
                                  !.last = last, !.wrote = wrote, !.frames = Front(@)]
        PROVE  FilingInv'
    <2> DEFINE d == ctx'
               s == Front(ctx.frames)
               n == Len(ctx.frames)
               id == Top.id
               w == ctx.work
               u == [ctx.work EXCEPT ![id] = done]
               E == ctx.events
               F == ctx.first
               N == {e}
    <2>1. /\ d.events = E \cup N /\ d.first = F /\ d.root = ctx.root /\ d.frames = s /\ d.work = u
      BY <1>2, <1>4 DEF CtxFields
    <2>2. /\ n \in Nat \ {0} /\ DOMAIN ctx.frames = 1..n /\ DOMAIN s = 1..(n - 1) /\ (s = <<>> <=> n = 1)
          /\ \A i \in 1..(n - 1) : s[i] = ctx.frames[i]
      <3>1. /\ n \in Nat \ {0} /\ DOMAIN ctx.frames = 1..n /\ IsSeq(s) /\ Len(s) = n - 1
            /\ \A i \in 1..(n - 1) : s[i] = ctx.frames[i]
        BY <1>1, <1>2, SeqRest
      <3> HIDE DEF n, s
      <3>2. DOMAIN s = 1..(n - 1)
        BY <3>1 DEF IsSeq
      <3>3. s = <<>> <=> n = 1
        BY <3>1 DEF IsSeq
      <3> QED BY <3>1, <3>2, <3>3
    <2>3. ctx.frames[n] = Top /\ id \in DOMAIN w /\ w[id].type # PROPOSAL
      BY <1>1, TopOther DEF Top, Last
    <2>4. DOMAIN u = DOMAIN w \cup {id} /\ u[id] = done /\ \A k \in DOMAIN w \ {id} : u[k] = w[k]
      BY <2>3
    <2>5. Filings(w, E, F) /\ (\A f \in N : f.object = id) /\ u[id].type # PROPOSAL /\ id \in DOMAIN u
      BY <1>2, <1>4, <2>3, <2>4 DEF InFlight
    <2> HIDE DEF w, u, E, F, N, id, d, s, n
    <2>6. Filings(u, E \cup N, F)
      BY <2>3, <2>4, <2>5, OtherFiles
    <2>7. ASSUME NEW prop, Runs(ctx, prop) PROVE Runs(d, prop)
      <3>1. /\ ctx.frames[1].cause = ctx.root /\ ctx.frames[1].x = prop.x
            /\ prop.target # None => ctx.frames[1].id = prop.target
            /\ \A f \in ctx.events : f.cause # ctx.root
            /\ \A i \in DOMAIN ctx.frames : ctx.frames[i].cause = ctx.root => i = 1
        BY <1>1, <2>7 DEF Runs
      <3>2. CASE n = 1
        <4>1. e.cause = ctx.root /\ RanAs(e, prop)
          BY <1>4, <2>3, <3>1, <3>2 DEF RanAs
        <4>2. {f \in d.events : f.cause = d.root} = {e} /\ e \in d.events
          BY <2>1, <3>1, <4>1 DEF E, N
        <4> QED BY <2>1, <2>2, <3>2, <4>1, <4>2 DEF Runs
      <3>3. CASE n # 1
        <4>1. Top.cause # ctx.root /\ 1 \in 1..(n - 1) /\ s # <<>>
          BY <2>2, <2>3, <3>1, <3>3
        <4>2. \A f \in d.events : f.cause # d.root
          BY <1>4, <2>1, <3>1, <4>1 DEF E, N
        <4>3. s[1] = ctx.frames[1] /\ \A i \in DOMAIN s : s[i] = ctx.frames[i] /\ i \in DOMAIN ctx.frames
          BY <2>2, <4>1
        <4> QED BY <2>1, <3>1, <4>1, <4>2, <4>3 DEF Runs
      <3> QED BY <3>2, <3>3
    <2>8. InFlight(d)
      BY <1>2, <2>1, <2>6, <2>7 DEF InFlight, E, F, N
    <2> QED BY <1>1, <2>8, FilingStay DEF d
  <1> QED BY <1>3, <1>4, LeaveLeaves, Zenon

LEMMA ConcludeFiles ==
  ASSUME RowsInv, LogInv, FilingInv, Conclude
  PROVE  FilingInv'
  <1> DEFINE u == [id \in DOMAIN ctx.work |->
                     IF id \in Affected THEN [ctx.work[id] EXCEPT !.admitted = Admitted(id)] ELSE ctx.work[id]]
             d == [ctx EXCEPT !.phase = "write", !.work = u]
             w == ctx.work
             E == ctx.events
             F == ctx.first
  <1>1. ctx.phase = "take" /\ ctx.frames = <<>> /\ objects' = objects /\ log' = log
    BY DEF Conclude
  <1>2. InFlight(ctx) /\ DOMAIN ctx = CtxFields /\ Rows(w)
    BY <1>1, FlightIs DEF RowsInv, Deciding, Idle
  <1>3. CASE Refuse("invariant_violated")
    BY <1>1, <1>3, FilingStay DEF Refuse
  <1>4. CASE ctx' = d
    <2>1. DOMAIN u = DOMAIN w
      OBVIOUS
    <2>2. ASSUME NEW k \in DOMAIN w
          PROVE  u[k].type = w[k].type /\ u[k].state = w[k].state /\ u[k].version = w[k].version /\ u[k].prop = w[k].prop
      <3>1. DOMAIN w[k] = RowFields
        BY <1>2, RowDomain DEF Rows
      <3>2. u[k] = w[k] \/ u[k] = [w[k] EXCEPT !.admitted = Admitted(k)]
        OBVIOUS
      <3> HIDE DEF u, w
      <3> QED BY <3>1, <3>2 DEF RowFields
    <2>3. d.events = E /\ d.first = F /\ d.root = ctx.root /\ d.frames = ctx.frames /\ d.work = u
      BY <1>2 DEF CtxFields
    <2>4. Filings(w, E, F)
      BY <1>2 DEF InFlight
    <2> HIDE DEF u, w, E, F
    <2>5. Moves(w, E, u, E)
      <3>1. E = E \cup {}
        OBVIOUS
      <3>2. \A k \in DOMAIN w : w[k].type = PROPOSAL => Touches(w[k], u[k], {e \in {} : e.object = k})
        BY <2>2 DEF Touches
      <3> QED BY <2>1, <2>2, <3>1, <3>2 DEF Moves
    <2>6. Filings(u, E, F)
      BY <2>4, <2>5, MovesFile
    <2> HIDE DEF d
    <2>7. InFlight(d)
      BY <1>2, <2>3, <2>6 DEF InFlight, Runs, E, F
    <2> QED BY <1>1, <1>4, <2>7, FilingStay
  <1> QED BY <1>3, <1>4 DEF Conclude

\* What a written log says, each event redacted or as it was.
LEMMA RedactedFiles ==
  ASSUME NEW w, NEW E, NEW L, NEW R \in [E -> L], DecidedOnce(w, E), RanOnce(w, E),
         \A e \in E : /\ R[e].object = e.object /\ R[e].x = e.x /\ R[e].to = e.to
                      /\ R[e].pos = e.pos /\ R[e].cause = e.cause,
         \A d \in L : \E e \in E : d = R[e]
  PROVE  DecidedOnce(w, L) /\ RanOnce(w, L)
  <1>1. \A d \in L : d.object \in DOMAIN w
    BY DEF DecidedOnce
  <1>2. \A k, e : e \in Decisions(E, k) => R[e] \in Decisions(L, k)
    BY DEF Decisions
  <1>3. \A k, d : d \in Decisions(L, k) => \E e \in Decisions(E, k) : d = R[e]
    BY DEF Decisions
  <1>4. ASSUME NEW k \in DOMAIN w, w[k].type = PROPOSAL
        PROVE  IF w[k].state = "PENDING" THEN Decisions(L, k) = {}
               ELSE \E d \in L : Decisions(L, k) = {d} /\ d.to = w[k].state
    <2>1. CASE w[k].state = "PENDING"
      <3>1. Decisions(E, k) = {}
        BY <1>4, <2>1 DEF DecidedOnce
      <3> QED BY <1>3, <2>1, <3>1
    <2>2. CASE w[k].state # "PENDING"
      <3>1. PICK e \in E : Decisions(E, k) = {e} /\ e.to = w[k].state
        BY <1>4, <2>2 DEF DecidedOnce
      <3>2. Decisions(L, k) = {R[e]}
        BY <1>2, <1>3, <3>1
      <3> QED BY <2>2, <3>1, <3>2
    <2> QED BY <2>1, <2>2
  <1>5. ASSUME NEW k \in DOMAIN w, w[k].type = PROPOSAL, NEW a \in Decisions(L, k), a.to = "EXECUTED"
        PROVE  \E q \in L : {d \in L : d.cause = a.pos} = {q} /\ RanAs(q, w[k].prop)
    <2>1. PICK b \in Decisions(E, k) : a = R[b]
      BY <1>3
    <2>2. b \in E /\ b.pos = a.pos /\ b.to = "EXECUTED"
      BY <1>5, <2>1 DEF Decisions
    <2>3. PICK q \in E : {e \in E : e.cause = b.pos} = {q} /\ RanAs(q, w[k].prop)
      BY <1>5, <2>1, <2>2 DEF RanOnce
    <2>4. {d \in L : d.cause = a.pos} = {R[q]}
      <3>1. ASSUME NEW d \in L, d.cause = a.pos PROVE d = R[q]
        <4>1. PICK e \in E : d = R[e]
          OBVIOUS
        <4>2. e \in {f \in E : f.cause = b.pos}
          BY <2>2, <3>1, <4>1
        <4> QED BY <2>3, <4>1, <4>2
      <3>2. R[q] \in L /\ R[q].cause = a.pos
        BY <2>2, <2>3
      <3> QED BY <3>1, <3>2
    <2>5. RanAs(R[q], w[k].prop)
      BY <2>3 DEF RanAs
    <2> QED BY <2>3, <2>4, <2>5
  <1> QED BY <1>1, <1>4, <1>5 DEF DecidedOnce, RanOnce

\* The rows and the events of a request the log accepts.
LEMMA AllFiles ==
  ASSUME RowsInv, LogInv, FilingInv, ctx.phase = "write", \A e \in All : ~ Taken(e, All), NEW u,
         DOMAIN u = DOMAIN ctx.work,
         \A k \in DOMAIN u : u[k] = IF \E d \in ctx.first : d.row.id = k THEN (CHOOSE d \in ctx.first : TRUE).row
                                    ELSE ctx.work[k]
  PROVE  DecidedOnce(u, All) /\ RanOnce(u, All) /\ PropFits(u)
  <1> DEFINE w == ctx.work
             S == Range(log)
             A == S \cup ctx.events
             F == {d.event : d \in ctx.first}
  <1>1. /\ Counted(ctx) /\ ctx.frames = <<>> /\ InFlight(ctx) /\ Deciding(ctx) /\ ctx # Idle
    BY FlightIs DEF Counted, RowsInv, Idle
  <1>2. /\ All = A \cup F /\ PropFits(w) /\ DecidedOnce(w, A) /\ DecidedOnce(objects, S) /\ RanOnce(objects, S)
        /\ PropFits(objects) /\ Grown(objects, w)
    BY <1>1 DEF All, Known, Range, InFlight, Filings, FilingInv, Deciding
  <1>3. /\ Len(log) \in Nat /\ Low(ctx) \in Nat /\ Len(log) <= Low(ctx)
        /\ ctx.first = {} => ctx.root = 0
        /\ ctx.first # {} => Low(ctx) = Len(log) + 1 /\ ctx.root = Low(ctx)
    BY <1>1, LowIs DEF Counted, FirstCounts, None
  <1>4. \A e \in S : e.pos \in 1..Len(log) /\ e.cause \in 0..(e.pos - 1)
    BY DEF LogInv, LogCounts, IsSeq, Range
  <1>5. \A e \in ctx.events : e.pos \in (Low(ctx) + 1)..(ctx.next - 1) /\ (e.cause = ctx.root \/ e.cause \in (Low(ctx) + 1)..(e.pos - 1))
    BY <1>1 DEF Counted, EventsCount, From
  <1>6. \A e \in ctx.events : w[e.object].type = PROPOSAL => e.x = "redact" \/ e.to = "INVALIDATED"
    BY <1>1 DEF InFlight, Filings
  <1>7. \A e \in F : e.pos = ctx.root /\ e.cause = 0 /\ F = {e} /\ ctx.first # {}
    BY <1>1 DEF Counted, FirstCounts, None
  <1> HIDE DEF S, A, w
  <1>8. ASSUME NEW k \in DOMAIN w, w[k].type = PROPOSAL, NEW a \in Decisions(A, k), a.to = "EXECUTED"
        PROVE  \E q \in All : {e \in All : e.cause = a.pos} = {q} /\ RanAs(q, w[k].prop)
    <2>1. a \in A /\ a.object = k /\ a.x # "redact"
      BY DEF Decisions
    <2>2. a \notin ctx.events
      BY <1>6, <1>8, <2>1
    <2>3. a \in S
      BY <2>1, <2>2 DEF A
    <2>4. k \in DOMAIN objects
      BY <1>2, <2>1, <2>3 DEF DecidedOnce
    <2>5. objects[k].type = PROPOSAL
      BY <1>2, <1>8, <2>4 DEF Grown
    <2>6. a \in Decisions(S, k)
      BY <2>3 DEF Decisions
    <2>7. PICK q \in S : {e \in S : e.cause = a.pos} = {q} /\ RanAs(q, objects[k].prop)
      BY <1>2, <1>8, <2>4, <2>5, <2>6 DEF RanOnce
    <2>8. w[k].prop.x = objects[k].prop.x /\ w[k].prop.target = objects[k].prop.target
      BY <1>1, <2>4, <2>5 DEF InFlight, Filings, w
    <2>9. RanAs(q, w[k].prop)
      BY <2>7, <2>8 DEF RanAs
    <2>10. \A e \in ctx.events \cup F : e.cause # a.pos
      <3>1. a.pos \in 1..Len(log)
        BY <1>4, <2>3
      <3>2. \A e \in ctx.events : e.cause # a.pos
        BY <1>3, <1>5, <3>1
      <3>3. \A e \in F : e.cause # a.pos
        BY <1>7, <3>1
      <3> QED BY <3>2, <3>3
    <2>11. {e \in All : e.cause = a.pos} = {q} /\ q \in All
      BY <1>2, <2>7, <2>10 DEF A
    <2> QED BY <2>9, <2>11
  <1>9. CASE ctx.first = {}
    <2>1. All = A /\ \A k \in DOMAIN u : u[k] = w[k]
      BY <1>2, <1>9 DEF w
    <2>2. DOMAIN u = DOMAIN w
      BY DEF w
    <2>3. DecidedOnce(u, A) /\ PropFits(u)
      BY <1>2, <2>1, <2>2 DEF DecidedOnce, PropFits
    <2>4. RanOnce(u, All)
      BY <1>8, <2>1, <2>2 DEF RanOnce
    <2> QED BY <2>1, <2>3, <2>4
  <1>10. CASE ctx.first # {}
    <2>1. PICK d \in ctx.first : ctx.first = {d} /\ FirstFits(d)
      BY <1>1, <1>10 DEF Deciding
    <2> DEFINE id == d.row.id
               f == d.event
    <2>2. Approved(d) /\ Runs(ctx, d.row.prop) /\ id \in DOMAIN w /\ w[id].type = PROPOSAL /\ Untouched(w, ctx.events, id)
      BY <1>1, <2>1 DEF InFlight, Filings, w
    <2>3. F = {f} /\ f.pos = ctx.root /\ f.cause = 0
      BY <1>7, <2>1
    <2>4. /\ u[id] = d.row /\ DOMAIN u = DOMAIN w /\ \A k \in DOMAIN w : k # id => u[k] = w[k]
      <3>1. (CHOOSE e \in ctx.first : TRUE) = d
        BY <2>1
      <3> QED BY <2>1, <2>2, <3>1 DEF w
    <2>5. /\ f.object = id /\ f.x = "EXECUTED" /\ f.to = "EXECUTED" /\ d.row.state = "EXECUTED"
          /\ id \in DOMAIN objects /\ objects[id].type = PROPOSAL /\ f.seq = objects[id].version + 1
          /\ d.row.prop = objects[id].prop /\ d.row.type = PROPOSAL
      BY <2>1, <2>2 DEF Approved, FirstFits, ProposalRow
    <2> HIDE DEF id, f, F
    <2>6. w[id].state = "PENDING" /\ \A e \in ctx.events : e.object # id
      <3>1. ASSUME NEW e \in ctx.events, e.object = id, e.seq = objects[id].version + 1 PROVE FALSE
        <4>1. e \in All /\ f \in All
          BY <1>2, <2>3 DEF A
        <4>2. e # f
          BY <1>3, <1>5, <1>10, <2>3
        <4> QED BY <2>5, <3>1, <4>1, <4>2 DEF Taken
      <3> QED BY <2>2, <3>1 DEF Untouched
    <2>7. Decisions(A, id) = {}
      BY <1>2, <2>2, <2>6 DEF DecidedOnce
    <2>8. Decisions(All, id) = {f}
      BY <1>2, <2>3, <2>5, <2>7 DEF Decisions
    <2>9. \A k : k # id => Decisions(All, k) = Decisions(A, k)
      BY <1>2, <2>3, <2>5 DEF Decisions
    <2>10. DecidedOnce(u, All)
      <3>1. \A e \in All : e.object \in DOMAIN u
        BY <1>2, <2>2, <2>3, <2>4, <2>5 DEF DecidedOnce
      <3>2. ASSUME NEW k \in DOMAIN u, u[k].type = PROPOSAL
            PROVE  IF u[k].state = "PENDING" THEN Decisions(All, k) = {}
                   ELSE \E e \in All : Decisions(All, k) = {e} /\ e.to = u[k].state
        <4>1. CASE k = id
          <5>1. f \in All
            BY <1>2, <2>3
          <5> QED BY <2>4, <2>5, <2>8, <4>1, <5>1
        <4>2. CASE k # id
          <5>1. u[k] = w[k] /\ k \in DOMAIN w /\ Decisions(All, k) = Decisions(A, k)
            BY <2>4, <2>9, <4>2
          <5>2. A \subseteq All
            BY <1>2
          <5>3. IF w[k].state = "PENDING" THEN Decisions(A, k) = {}
                ELSE \E e \in A : Decisions(A, k) = {e} /\ e.to = w[k].state
            BY <1>2, <3>2, <5>1 DEF DecidedOnce
          <5> QED BY <5>1, <5>2, <5>3
        <4> QED BY <4>1, <4>2
      <3> QED BY <3>1, <3>2 DEF DecidedOnce
    <2>11. RanOnce(u, All)
      <3>1. ASSUME NEW k \in DOMAIN u, u[k].type = PROPOSAL, NEW a \in Decisions(All, k), a.to = "EXECUTED"
            PROVE  \E q \in All : {e \in All : e.cause = a.pos} = {q} /\ RanAs(q, u[k].prop)
        <4>1. CASE k = id
          <5>1. a = f
            BY <2>8, <3>1, <4>1
          <5>2. PICK q \in ctx.events : {e \in ctx.events : e.cause = ctx.root} = {q} /\ RanAs(q, d.row.prop)
            BY <1>1, <2>2 DEF Runs
          <5>3. \A e \in S \cup F : e.cause # ctx.root
            <6>1. \A e \in S : e.cause # ctx.root
              BY <1>3, <1>4, <1>10
            <6> QED BY <1>3, <1>10, <2>3, <6>1
          <5>4. {e \in All : e.cause = a.pos} = {q} /\ q \in All
            BY <1>2, <2>3, <5>1, <5>2, <5>3 DEF A
          <5> QED BY <2>4, <4>1, <5>2, <5>4
        <4>2. CASE k # id
          <5>1. u[k] = w[k] /\ k \in DOMAIN w /\ a \in Decisions(A, k)
            BY <2>4, <2>9, <3>1, <4>2
          <5> QED BY <1>8, <3>1, <5>1
        <4> QED BY <4>1, <4>2
      <3> QED BY <3>1 DEF RanOnce
    <2>12. PropFits(u)
      BY <1>2, <2>4, <2>5 DEF PropFits
    <2> QED BY <2>10, <2>11, <2>12
  <1> QED BY <1>9, <1>10

\* The log a request leaves: its events, each redacted.
LEMMA WrittenLog ==
  ASSUME LogInv, ctx.phase = "write",
         log' = [p \in 1..Cardinality(All) |-> Redacted(CHOOSE e \in All : e.pos = p)]
  PROVE  LET R == [e \in All |-> Redacted(e)] IN
         R \in [All -> Range(log')] /\ \A d \in Range(log') : \E e \in All : d = R[e]
  <1> DEFINE N == ctx.next - 1
             E == All
             l == [p \in 1..N |-> Redacted(CHOOSE e \in E : e.pos = p)]
             R == [e \in E |-> Redacted(e)]
             L == Range(l)
  <1>1. /\ Cardinality(All) = N
        /\ \A e \in E : e.pos \in 1..N
        /\ \A e, f \in E : e.pos = f.pos => e = f
        /\ \A p \in 1..N : \E e \in E : e.pos = p
    BY AllNumbered
  <1>2. log' = l
    BY <1>1
  <1> HIDE DEF N, E
  <1>3. \A e \in E : R[e] = Redacted(e)
    OBVIOUS
  <1>4. ASSUME NEW e \in E PROVE Redacted(e) \in L
    <2>1. e.pos \in 1..N
      BY <1>1
    <2>2. (CHOOSE f \in E : f.pos = e.pos) = e
      BY <1>1
    <2>3. l[e.pos] = Redacted(e)
      BY <2>1, <2>2
    <2>4. DOMAIN l = 1..N
      OBVIOUS
    <2> HIDE DEF l
    <2> QED BY <2>1, <2>3, <2>4 DEF Range
  <1>5. ASSUME NEW d \in L PROVE \E e \in E : d = Redacted(e)
    <2>1. PICK p \in 1..N : d = l[p]
      BY DEF Range
    <2>2. (CHOOSE f \in E : f.pos = p) \in E
      BY <1>1
    <2> QED BY <2>1, <2>2
  <1>6. R \in [E -> L]
    <2> HIDE DEF L
    <2> QED BY <1>4
  <1> HIDE DEF l, L
  <1>7. \A d \in L : \E e \in E : d = R[e]
    BY <1>3, <1>5
  <1> QED BY <1>2, <1>6, <1>7 DEF E, L

LEMMA WriteFiles ==
  ASSUME RowsInv, LogInv, FilingInv, Write
  PROVE  FilingInv'
  <1>1. ctx.phase = "write" /\ ctx' = Idle
    BY DEF Write
  <1> DEFINE u == Merged
             v == Stored
  <1>2. CASE objects' = objects /\ log' = log
    BY <1>1, <1>2, FilingStay
  <1>3. CASE /\ ~ \E e \in All : Taken(e, All)
             /\ objects' = v
             /\ log' = [p \in 1..Cardinality(All) |-> Redacted(CHOOSE e \in All : e.pos = p)]
    <2> DEFINE R == [e \in All |-> Redacted(e)]
               L == Range(log')
    <2>1. R \in [All -> L] /\ \A d \in L : \E e \in All : d = R[e]
      BY <1>1, <1>3, WrittenLog
    <2>2. DecidedOnce(u, All) /\ RanOnce(u, All) /\ PropFits(u)
      <3>1. DOMAIN u = DOMAIN ctx.work /\ \A k \in DOMAIN u :
              u[k] = IF \E d \in ctx.first : d.row.id = k THEN (CHOOSE d \in ctx.first : TRUE).row ELSE ctx.work[k]
        BY Zenon DEF Merged
      <3> HIDE DEF u
      <3> QED BY <1>1, <1>3, <3>1, AllFiles
    <2>3. \A e \in All : /\ R[e].object = e.object /\ R[e].x = e.x /\ R[e].to = e.to
                         /\ R[e].pos = e.pos /\ R[e].cause = e.cause
      <3>1. \A e \in All : DOMAIN e = EventFields
        BY <1>1, AllNumbered
      <3>2. \A e \in All : R[e] = Redacted(e)
        OBVIOUS
      <3> HIDE DEF R
      <3> QED BY <3>1, <3>2, RedactedIs
    <2> HIDE DEF u, v, R, L
    <2>4. DecidedOnce(u, L) /\ RanOnce(u, L)
      BY <2>1, <2>2, <2>3, RedactedFiles
    <2>7. DecidedOnce(v, L) /\ RanOnce(v, L) /\ PropFits(v)
      <3>1. DOMAIN v = DOMAIN u /\ \A k \in DOMAIN u : /\ v[k].type = u[k].type /\ v[k].state = u[k].state
                                                     /\ v[k].prop = u[k].prop
        BY <1>1, StoredSame DEF u, v
      <3> QED BY <2>2, <2>4, <3>1 DEF DecidedOnce, RanOnce, PropFits
    <2>5. DecidedOnce(objects', Range(log')) /\ RanOnce(objects', Range(log')) /\ PropFits(objects')
      BY <1>3, <2>7 DEF L
    <2>6. (DecidedOnce(objects, Range(log)) /\ RanOnce(objects, Range(log)) /\ PropFits(objects))'
      BY <2>5 DEF DecidedOnce, RanOnce, PropFits, Decisions, RanAs
    <2> QED BY <1>1, <2>6 DEF FilingInv, Idle
  <1> QED BY <1>2, <1>3, WriteStores DEF All

\* A request taken up, an approval's or a caller's.
LEMMA StartFiles ==
  ASSUME NEW r, NEW xf, NEW cause, NEW filed, NEW occurred, NEW first,
         FilingInv, objects' = objects, log' = log,
         \A d \in first : /\ Approved(d) /\ d.row.id \in DOMAIN objects /\ objects[d.row.id].type = PROPOSAL
                          /\ xf.cause = cause /\ xf.x = d.row.prop.x
                          /\ d.row.prop.target # None => xf.id = d.row.prop.target,
         ctx' = Started(r, xf, cause, filed, occurred, first)
  PROVE  FilingInv'
  <1> DEFINE c == Started(r, xf, cause, filed, occurred, first)
  <1>1. c.work = objects /\ c.events = {} /\ c.first = first /\ c.root = cause /\ c.frames = <<xf>>
    BY DEF Started
  <1> HIDE DEF c
  <1>2. DecidedOnce(objects, Range(log) \cup {}) /\ PropFits(objects)
    <2>1. Range(log) \cup {} = Range(log)
      OBVIOUS
    <2> QED BY <2>1 DEF FilingInv
  <1>3. \A d \in first : Untouched(objects, {}, d.row.id)
    BY DEF Untouched, Approved
  <1>4. Filings(objects, {}, first)
    BY <1>2, <1>3 DEF Filings
  <1>5. c.frames # <<>> /\ DOMAIN c.frames = {1} /\ c.frames[1] = xf
    BY <1>1
  <1>6. \A d \in first : Runs(c, d.row.prop)
    BY <1>1, <1>5 DEF Runs
  <1>7. InFlight(c)
    BY <1>1, <1>4, <1>6 DEF InFlight
  <1> QED BY <1>7, FilingStay DEF c

LEMMA AnswerFiles ==
  ASSUME FilingInv, NEW clause, Answer(clause)
  PROVE  FilingInv'
  BY FilingStay DEF Answer

LEMMA AskFiles ==
  ASSUME FilingInv, NEW r, Ask(r)
  PROVE  FilingInv'
  <1> DEFINE xf == Frame(r.type, r.x, r.id, r.inputs, None)
             first == {}
             none == None
  <1>1. CASE Answer(Asked(r))
    BY <1>1, AnswerFiles
  <1>2. CASE ctx' = Started(r, xf, None, None, r.occurred, {}) /\ log' = log /\ objects' = objects
    <2>1. ctx' = Started(r, xf, none, none, r.occurred, first) /\ \A d \in first : FALSE
      BY <1>2
    <2> HIDE DEF xf, first, none
    <2> QED BY <1>2, <2>1, StartFiles
  <1> QED BY <1>1, <1>2, Zenon DEF Ask

\* A proposal filed, or one decided at once.
LEMMA MoreFiles ==
  ASSUME LogInv, FilingInv, NEW u, NEW e, NEW id,
         DOMAIN u = DOMAIN objects \cup {id}, \A k \in DOMAIN objects \ {id} : u[k] = objects[k],
         u[id].type = PROPOSAL, DOMAIN u[id].prop = PropFields,
         e.object = id, e.cause = None, e.to = u[id].state, e.to # "EXECUTED",
         Decisions(Range(log), id) = {},
         IF u[id].state = "PENDING" THEN e.x = "propose" ELSE ~ (e.x \in {"propose", "redact"}),
         objects' = u, log' = Append(log, e), ctx' = Idle
  PROVE  FilingInv'
  <1> DEFINE S == Range(log)
             l == Append(log, e)
             L == Range(l)
  <1>1. /\ DecidedOnce(objects, S) /\ RanOnce(objects, S) /\ PropFits(objects)
        /\ \A d \in S : d.pos # 0
    BY DEF FilingInv, LogInv, LogCounts, IsSeq, Range
  <1>2. L = S \cup {e}
    <2> DEFINE n == Len(log)
    <2>1. IsSeq(log) /\ n \in Nat /\ DOMAIN log = 1..n
      BY DEF LogInv, LogCounts, IsSeq
    <2>2. IsSeq(l) /\ Len(l) = n + 1 /\ Last(l) = e /\ \A p \in 1..n : l[p] = log[p]
      BY <2>1, SeqAppend
    <2>3. DOMAIN l = 1..(n + 1) /\ l[n + 1] = e
      BY <2>2 DEF IsSeq, Last
    <2> HIDE DEF l, n
    <2>4. \A p \in 1..(n + 1) : p = n + 1 \/ p \in 1..n
      BY <2>1
    <2>5. n + 1 \in 1..(n + 1) /\ \A p \in 1..n : p \in 1..(n + 1)
      BY <2>1
    <2> QED BY <2>1, <2>2, <2>3, <2>4, <2>5 DEF Range
  <1>3. objects' = u /\ log' = l
    OBVIOUS
  <1> HIDE DEF S, l, L
  <1>4. Decisions(L, id) = (IF u[id].state = "PENDING" THEN {} ELSE {e}) /\ Decisions(S, id) = {}
    BY <1>2 DEF Decisions, S
  <1>5. \A k : k # id => Decisions(L, k) = Decisions(S, k)
    BY <1>2 DEF Decisions
  <1>6. \A k \in DOMAIN u : k # id => k \in DOMAIN objects /\ u[k] = objects[k]
    OBVIOUS
  <1>7. DecidedOnce(u, L)
    <2>1. \A d \in L : d.object \in DOMAIN u
      BY <1>1, <1>2 DEF DecidedOnce
    <2>2. ASSUME NEW k \in DOMAIN u, u[k].type = PROPOSAL
          PROVE  IF u[k].state = "PENDING" THEN Decisions(L, k) = {}
                 ELSE \E d \in L : Decisions(L, k) = {d} /\ d.to = u[k].state
      <3>1. CASE k = id
        BY <1>2, <1>4, <3>1
      <3>2. CASE k # id
        <4>1. IF objects[k].state = "PENDING" THEN Decisions(S, k) = {}
              ELSE \E d \in S : Decisions(S, k) = {d} /\ d.to = objects[k].state
          BY <1>1, <1>6, <2>2, <3>2 DEF DecidedOnce
        <4> QED BY <1>2, <1>5, <1>6, <3>2, <4>1
      <3> QED BY <3>1, <3>2
    <2> QED BY <2>1, <2>2 DEF DecidedOnce
  <1>8. RanOnce(u, L)
    <2>1. ASSUME NEW k \in DOMAIN u, u[k].type = PROPOSAL, NEW a \in Decisions(L, k), a.to = "EXECUTED"
          PROVE  \E q \in L : {d \in L : d.cause = a.pos} = {q} /\ RanAs(q, u[k].prop)
      <3>1. k # id
        BY <1>4, <2>1
      <3>2. k \in DOMAIN objects /\ u[k] = objects[k] /\ a \in Decisions(S, k) /\ a \in S
        BY <1>5, <1>6, <2>1, <3>1 DEF Decisions
      <3>3. PICK q \in S : {d \in S : d.cause = a.pos} = {q} /\ RanAs(q, objects[k].prop)
        BY <1>1, <2>1, <3>2 DEF RanOnce
      <3>4. e.cause # a.pos
        BY <1>1, <3>2 DEF None
      <3> QED BY <1>2, <3>2, <3>3, <3>4
    <2> QED BY <2>1 DEF RanOnce
  <1>9. PropFits(u)
    BY <1>1, <1>6 DEF PropFits
  <1>10. DecidedOnce(objects', Range(log')) /\ RanOnce(objects', Range(log')) /\ PropFits(objects')
    BY <1>3, <1>7, <1>8, <1>9 DEF L
  <1>11. (DecidedOnce(objects, Range(log)) /\ RanOnce(objects, Range(log)) /\ PropFits(objects))'
    BY <1>10 DEF DecidedOnce, RanOnce, PropFits, Decisions, RanAs
  <1> QED BY <1>11 DEF FilingInv, Idle

LEMMA FileFiles ==
  ASSUME RowsInv, LogInv, FilingInv, NEW r, File(r)
  PROVE  FilingInv'
  <1>1. CASE Answer(Filed(r))
    BY <1>1, AnswerFiles
  <1>2. CASE Filed(r) = "ok"
    <2> DEFINE n == Cardinality(DOMAIN objects) + 1
               prop == [target |-> r.id, type |-> r.type, x |-> r.x, inputs |-> r.inputs,
                        by |-> r.actor, filed |-> now, occurred |-> r.occurred, expires |-> r.expires]
               row == [id |-> n, type |-> PROPOSAL, state |-> "PENDING",
                       version |-> 1, attrs |-> EmptyFn, spans |-> [d \in {"state"} |-> <<>>],
                       erased |-> FALSE, next |-> None, admitted |-> {}, writes |-> EmptyFn, prop |-> prop]
               o == RecordSpans(row, EmptyFn, Len(log) + 1, now)
               e == Event(Len(log) + 1, o, "propose", "", "observed", None, r.inputs, EmptyFn, Held(r.inputs))
               u == Put(objects, o)
    <2>1. ctx' = Idle /\ objects' = u /\ log' = Append(log, e)
      BY <1>2, Zenon DEF File, Sent
    <2>2. DOMAIN prop = PropFields
      BY DEF PropFields
    <2> HIDE DEF prop
    <2>3. /\ DOMAIN row = RowFields /\ row.id = n /\ row.type = PROPOSAL /\ row.state = "PENDING" /\ row.prop = prop
      BY DEF RowFields
    <2> HIDE DEF row
    <2>4. o.id = n /\ o.type = PROPOSAL /\ o.state = "PENDING" /\ o.prop = prop
      BY <2>3, RecordedAlike
    <2> HIDE DEF o
    <2>5. e.object = o.id /\ e.cause = None /\ e.to = o.state /\ e.x = "propose"
      BY DEF Event
    <2>6. DOMAIN u = DOMAIN objects \cup {n} /\ u[n] = o /\ \A k \in DOMAIN objects \ {n} : u[k] = objects[k]
      BY <2>4 DEF Put
    <2>7. n \notin DOMAIN objects
      <3>1. Cardinality(DOMAIN objects) \in Nat
        BY FS_CardinalityType DEF RowsInv, Rows
      <3> QED BY <3>1 DEF RowsInv, Rows
    <2>8. Decisions(Range(log), n) = {}
      BY <2>7 DEF Decisions, FilingInv, DecidedOnce
    <2> HIDE DEF e, u, n
    <2>9. /\ u[n].type = PROPOSAL /\ DOMAIN u[n].prop = PropFields /\ e.object = n /\ e.cause = None
          /\ e.to = u[n].state /\ e.to # "EXECUTED" /\ u[n].state = "PENDING" /\ e.x = "propose"
      BY <2>2, <2>4, <2>5, <2>6
    <2> QED BY <2>1, <2>6, <2>8, <2>9, MoreFiles
  <1> QED BY <1>1, <1>2, Zenon DEF File

\* The row of a proposal decided, as the decision leaves it.
LEMMA DecidedRow ==
  ASSUME RowsInv, NEW id \in DOMAIN objects, objects[id].type = PROPOSAL, NEW to
  PROVE  /\ Decided(id, to).row.id = id /\ Decided(id, to).row.type = PROPOSAL /\ Decided(id, to).row.state = to
         /\ Decided(id, to).row.version = objects[id].version + 1 /\ Decided(id, to).row.prop = objects[id].prop
  <1> DEFINE o == objects[id]
             p == [o EXCEPT !.state = to, !.version = @ + 1]
             q == RecordSpans(p, [d \in {"state"} |-> o.state], Len(log) + 1, now)
  <1>1. DOMAIN o = RowFields /\ o.id = id
    BY RowDomain DEF RowsInv, Rows
  <1>2. /\ DOMAIN p = RowFields /\ p.id = o.id /\ p.type = o.type /\ p.state = to
        /\ p.version = o.version + 1 /\ p.prop = o.prop
    BY <1>1 DEF RowFields
  <1> HIDE DEF p
  <1>3. q.id = p.id /\ q.type = p.type /\ q.state = p.state /\ q.version = p.version /\ q.prop = p.prop
    BY <1>2, RecordedAlike
  <1>4. Decided(id, to).row = q
    BY DEF Decided, p
  <1> HIDE DEF q
  <1> QED BY <1>1, <1>2, <1>3, <1>4

LEMMA DecideProposalFiles ==
  ASSUME RowsInv, LogInv, FilingInv, NEW r \in Requests, DecideProposal(r)
  PROVE  FilingInv'
  <1> DEFINE id == r.id
             prop == objects[r.id].prop
             to == CASE r.act = "approve" -> "EXECUTED" [] r.act = "reject" -> "REJECTED" [] OTHER -> "WITHDRAWN"
             held == [r EXCEPT !.id = prop.target, !.type = prop.type, !.x = prop.x, !.inputs = prop.inputs,
                               !.expected = None, !.occurred = prop.occurred]
             d == Decided(r.id, to)
             n == Len(log) + 1
             xf == Frame(held.type, held.x, held.id, held.inputs, n)
  <1>1. id \in DOMAIN objects /\ objects[id].type = PROPOSAL /\ ctx = Idle
    BY Zenon DEF DecideProposal, Sent
  <1>2. CASE \E clause : Answer(clause)
    BY <1>2, AnswerFiles
  <1>3. /\ d.row.id = id /\ d.row.type = PROPOSAL /\ d.row.state = to /\ d.row.prop = prop
        /\ d.row.version = objects[id].version + 1
    BY <1>1, DecidedRow
  <1>4. d.event.cause = None /\ d.event.x = to /\ d.event.object = id /\ d.event.seq = d.row.version /\ d.event.to = to
    BY <1>3, DecidedEvent
  <1>5. Decidable(r) = "ok" => objects[id].state = "PENDING"
    BY DEF Decidable
  <1>6. to \in {"EXECUTED", "REJECTED", "WITHDRAWN"}
    OBVIOUS
  <1>7. CASE /\ objects' = Put(objects, d.row) /\ log' = Append(log, d.event) /\ ctx' = ctx
             /\ Decidable(r) = "ok" /\ to # "EXECUTED"
    <2> DEFINE u == Put(objects, d.row)
               e == d.event
    <2>1. DOMAIN u = DOMAIN objects \cup {id} /\ u[id] = d.row /\ \A k \in DOMAIN objects \ {id} : u[k] = objects[k]
      <3> HIDE DEF d, id
      <3> QED BY <1>3 DEF Put
    <2>2. Decisions(Range(log), id) = {}
      BY <1>1, <1>5, <1>7 DEF FilingInv, DecidedOnce
    <2>3. DOMAIN prop = PropFields
      BY <1>1 DEF FilingInv, PropFits
    <2>4. objects' = u /\ log' = Append(log, e) /\ ctx' = Idle
      BY <1>1, <1>7
    <2> HIDE DEF u, prop, d, to, id
    <2>5. /\ u[id].type = PROPOSAL /\ DOMAIN u[id].prop = PropFields /\ e.object = id /\ e.cause = None
          /\ e.to = u[id].state /\ e.to # "EXECUTED" /\ u[id].state # "PENDING" /\ ~ (e.x \in {"propose", "redact"})
      BY <1>3, <1>4, <1>6, <1>7, <2>1, <2>3
    <2> HIDE DEF e
    <2> QED BY <2>1, <2>2, <2>4, <2>5, MoreFiles
  <1>8. CASE /\ ctx' = Started(held, xf, n, prop.filed, prop.occurred, {d}) /\ log' = log /\ objects' = objects
             /\ Decidable(r) = "ok" /\ to = "EXECUTED"
    <2> DEFINE first == {d}
               filed == prop.filed
               occurred == prop.occurred
    <2>1. {"id", "type", "x", "inputs", "expected", "occurred"} \subseteq DOMAIN r
      BY RequestsAssumption
    <2>2. held.x = prop.x /\ held.id = prop.target
      BY <2>1
    <2>3. xf.cause = n /\ xf.x = prop.x /\ xf.id = prop.target
      BY <2>2 DEF Frame
    <2> HIDE DEF held, xf, n, prop, id, d, to
    <2>4. Approved(d)
      BY <1>1, <1>3, <1>4, <1>5, <1>8 DEF Approved, prop, id
    <2>5. \A c \in first : /\ Approved(c) /\ c.row.id \in DOMAIN objects /\ objects[c.row.id].type = PROPOSAL
                           /\ xf.cause = n /\ xf.x = c.row.prop.x
                           /\ c.row.prop.target # None => xf.id = c.row.prop.target
      BY <1>1, <1>3, <2>3, <2>4
    <2>6. ctx' = Started(held, xf, n, filed, occurred, first)
      BY <1>8
    <2> HIDE DEF first, filed, occurred
    <2> QED BY <1>8, <2>5, <2>6, StartFiles
  <1> QED BY <1>2, <1>6, <1>7, <1>8, Zenon DEF DecideProposal

\* The stock holds no proposal.
LEMMA InitFiles ==
  ASSUME Init
  PROVE  FilingInv
  <1> DEFINE w == [id \in DOMAIN Stock |-> Founded(id)]
             e(id) == Event(id, w[id], Stock[id].x, "", "observed", None, Stock[id].inputs,
                            WroteBetween(Blank(Stock[id].type), w[id].attrs), NotHeld)
  <1>1. objects = w /\ ctx = Idle /\ log = [id \in DOMAIN Stock |-> e(id)]
    BY Zenon DEF Init
  <1>2. /\ \A id \in DOMAIN objects : objects[id].type # PROPOSAL
        /\ \A id \in DOMAIN objects : objects[id].id = id
    BY InitRows DEF RowsInv, Rows
  <1>3. DOMAIN w = DOMAIN Stock
    OBVIOUS
  <1> HIDE DEF w
  <1>4. \A d \in Range(log) : d.object \in DOMAIN objects
    <2>1. \A id \in DOMAIN Stock : e(id).object = w[id].id
      BY DEF Event
    <2> HIDE DEF e
    <2> QED BY <1>1, <1>2, <1>3, <2>1 DEF Range
  <1> QED BY <1>1, <1>2, <1>4, Zenon DEF FilingInv, DecidedOnce, RanOnce, PropFits

LEMMA FilingStep ==
  ASSUME RowsInv, LogInv, FilingInv, [Next]_vars
  PROVE  FilingInv'
  <1>1. ASSUME NEW r \in Requests, Ask(r) \/ File(r) \/ DecideProposal(r) PROVE FilingInv'
    BY <1>1, AskFiles, FileFiles, DecideProposalFiles
  <1>2. CASE Begin \/ Leave \/ Conclude \/ Write
    BY <1>2, BeginFiles, LeaveFiles, ConcludeFiles, WriteFiles
  <1>3. CASE Outcome
    BY <1>3, OutcomeFiles
  <1>4. CASE objects' = objects /\ log' = log /\ ctx' = ctx
    <2>1. ctx' = Idle \/ InFlight(ctx')
      BY <1>4 DEF FilingInv
    <2> QED BY <1>4, <2>1, FilingStay
  <1>5. CASE Tick \/ Quiet \/ UNCHANGED vars
    BY <1>4, <1>5 DEF Tick, Quiet, vars
  <1> QED BY <1>1, <1>2, <1>3, <1>5 DEF Next, Outcome

\* A proposal is decided at most once, by a caller or by an erasure of what it
\* is on, and its state says how; one executed ran once, the transition it was
\* filed for on the object it was filed for; no other ran at all.
THEOREM ProposalsHold == Spec => []ExecutedAsFiled
  <1>1. RowsInv /\ LogInv /\ FilingInv => ExecutedAsFiled
    <2> SUFFICES ASSUME LogInv, FilingInv, NEW id \in DOMAIN objects, objects[id].type = PROPOSAL
                 PROVE  LET decisions == {e \in Own(id) : ~ (e.x \in {"propose", "redact"})}
                            approvals == {e \in decisions : e.to = "EXECUTED"}
                            ran == {p \in DOMAIN log : \E e \in approvals : log[p].cause = e.pos} IN
                        /\ Cardinality(decisions) = (IF objects[id].state = "PENDING" THEN 0 ELSE 1)
                        /\ Cardinality(approvals) = (IF objects[id].state = "EXECUTED" THEN 1 ELSE 0)
                        /\ Cardinality(ran) = Cardinality(approvals)
                        /\ \A p \in ran : /\ log[p].x = objects[id].prop.x
                                          /\ objects[id].prop.target # None => log[p].object = objects[id].prop.target
      BY DEF ExecutedAsFiled
    <2> DEFINE decisions == {e \in Own(id) : ~ (e.x \in {"propose", "redact"})}
               approvals == {e \in decisions : e.to = "EXECUTED"}
               ran == {p \in DOMAIN log : \E e \in approvals : log[p].cause = e.pos}
               S == Range(log)
    <2>1. decisions = Decisions(S, id)
      BY DEF Own, Decisions, Range
    <2>2. IF objects[id].state = "PENDING" THEN decisions = {}
          ELSE \E d \in S : decisions = {d} /\ d.to = objects[id].state
      BY <2>1 DEF FilingInv, DecidedOnce
    <2>3. \A p \in DOMAIN log : log[p].pos = p /\ log[p] \in S
      BY DEF LogInv, LogCounts, IsSeq, Range
    <2>4. \A q \in S : q.pos \in DOMAIN log /\ log[q.pos] = q
      <3>1. \A p \in DOMAIN log : log[p].pos = p
        BY <2>3
      <3> QED BY <3>1 DEF Range
    <2>5. Cardinality({}) = 0 /\ \A x : Cardinality({x}) = 1
      BY FS_EmptySet, FS_Singleton
    <2>6. CASE objects[id].state = "EXECUTED"
      <3>1. PICK d \in S : decisions = {d} /\ d.to = "EXECUTED"
        BY <2>2, <2>6
      <3>2. approvals = {d} /\ d \in Decisions(S, id)
        BY <2>1, <3>1
      <3>3. PICK q \in S : {e \in S : e.cause = d.pos} = {q} /\ RanAs(q, objects[id].prop)
        BY <3>1, <3>2 DEF FilingInv, RanOnce
      <3> HIDE DEF decisions, approvals, S
      <3>4. ran = {q.pos}
        BY <2>3, <2>4, <3>2, <3>3
      <3> HIDE DEF ran
      <3>5. \A p \in ran : log[p] = q
        BY <2>4, <3>3, <3>4
      <3>6. Cardinality(decisions) = 1 /\ Cardinality(approvals) = 1 /\ Cardinality(ran) = 1
        BY <2>5, <3>1, <3>2, <3>4
      <3> QED BY <2>6, <3>3, <3>5, <3>6 DEF RanAs, decisions, approvals, ran
    <2>7. CASE objects[id].state # "EXECUTED"
      <3>1. approvals = {}
        BY <2>2, <2>7
      <3>2. ran = {}
        BY <3>1
      <3>3. decisions = {} \/ \E d : decisions = {d}
        BY <2>2
      <3> HIDE DEF decisions, approvals, ran
      <3>4. Cardinality(decisions) = (IF objects[id].state = "PENDING" THEN 0 ELSE 1)
        BY <2>2, <2>5
      <3>5. Cardinality(approvals) = 0 /\ Cardinality(ran) = 0
        BY <2>5, <3>1, <3>2
      <3> QED BY <2>7, <3>2, <3>4, <3>5 DEF decisions, approvals, ran
    <2> QED BY <2>6, <2>7
  <1>2. Init => RowsInv /\ LogInv /\ FilingInv
    BY InitRows, InitCounts, InitFiles
  <1>3. RowsInv /\ LogInv /\ FilingInv /\ [Next]_vars => RowsInv' /\ LogInv' /\ FilingInv'
    BY RowsStep, LogStep, FilingStep
  <1> QED BY <1>1, <1>2, <1>3, PTL DEF Spec

----------------------------------------------------------------------------
(* Versions.  While a request runs, an object a transition stands begun on *)
(* may be in a state no event says yet: the rest are as the newest event   *)
(* of theirs left them, and every version is counted by its event.         *)

OfObject(E, k) == {e \in E : e.object = k}

Counts(v, S) ==
  /\ v \in Nat /\ {e.seq : e \in S} = 1..v
  /\ \A e, f \in S : e.seq = f.seq => e = f
Newest(o, S) == o.version > 0 /\ \A e \in S : e.seq = o.version => e.to = o.state

Logged(w, E, B) ==
  /\ \A e \in E : e.object \in DOMAIN w
  /\ \A k \in DOMAIN w : /\ Counts(w[k].version, OfObject(E, k))
                         /\ k \notin B => Newest(w[k], OfObject(E, k))

Begun(s) == {s[i].id : i \in {j \in DOMAIN s : s[j].begun}}

VersionsInv ==
  /\ Logged(objects, Range(log), {})
  /\ ctx # Idle => Logged(ctx.work, Range(log) \cup ctx.events, Begun(ctx.frames))

Follows(w, B, u, C, N) ==
  /\ DOMAIN w \subseteq DOMAIN u /\ \A e \in N : e.object \in DOMAIN u
  /\ \A k \in DOMAIN u :
       \/ \E e : /\ OfObject(N, k) = {e} /\ e.to = u[k].state /\ e.seq = u[k].version
                 /\ u[k].version = (IF k \in DOMAIN w THEN w[k].version ELSE 0) + 1
       \/ /\ OfObject(N, k) = {}
          /\ u[k].version = IF k \in DOMAIN w THEN w[k].version ELSE 0
          /\ k \notin C => k \in DOMAIN w /\ k \notin B /\ u[k].state = w[k].state

LEMMA CountsMore ==
  ASSUME NEW v, NEW S, NEW e, Counts(v, S), e.seq = v + 1
  PROVE  Counts(v + 1, S \cup {e}) /\ \A f \in S : f.seq # v + 1
  <1>1. v \in Nat /\ (\A f \in S : f.seq \in 1..v) /\ (\A i \in 1..v : \E f \in S : f.seq = i)
        /\ \A f, g \in S : f.seq = g.seq => f = g
    BY Zenon DEF Counts
  <1> DEFINE T == S \cup {e}
  <1>2. \A f \in S : f.seq # v + 1
    BY <1>1
  <1>3. \A f, g \in T : f.seq = g.seq => f = g
    BY <1>1, <1>2
  <1>4. \A f \in T : f.seq \in 1..(v + 1)
    BY <1>1
  <1>5. \A i \in 1..(v + 1) : \E f \in T : f.seq = i
    <2>1. \A i \in 1..(v + 1) : i \in 1..v \/ i = v + 1
      BY <1>1
    <2> QED BY <1>1, <2>1
  <1> HIDE DEF T
  <1>6. {f.seq : f \in T} = 1..(v + 1)
    BY <1>4, <1>5
  <1> QED BY <1>1, <1>2, <1>3, <1>6 DEF Counts, T

LEMMA FollowsLogged ==
  ASSUME NEW w, NEW E, NEW B, NEW u, NEW C, NEW N, Logged(w, E, B), Follows(w, B, u, C, N)
  PROVE  Logged(u, E \cup N, C)
  <1> DEFINE D == E \cup N
  <1>1. \A e \in D : e.object \in DOMAIN u
    BY DEF Logged, Follows
  <1>2. \A k : OfObject(D, k) = OfObject(E, k) \cup OfObject(N, k)
    BY DEF OfObject
  <1>3. \A k : k \notin DOMAIN w => OfObject(E, k) = {}
    BY DEF OfObject, Logged
  <1> HIDE DEF D
  <1>4. ASSUME NEW k \in DOMAIN u
        PROVE  Counts(u[k].version, OfObject(D, k)) /\ (k \notin C => Newest(u[k], OfObject(D, k)))
    <2> DEFINE v == IF k \in DOMAIN w THEN w[k].version ELSE 0
               S == OfObject(E, k)
    <2>1. Counts(v, S)
      <3>1. CASE k \in DOMAIN w
        BY <3>1 DEF Logged
      <3>2. CASE k \notin DOMAIN w
        BY <1>3, <3>2 DEF Counts
      <3> QED BY <3>1, <3>2
    <2>2. v \in Nat
      BY <2>1 DEF Counts
    <2>3. CASE \E e : /\ OfObject(N, k) = {e} /\ e.to = u[k].state /\ e.seq = u[k].version
                      /\ u[k].version = v + 1
      <3>1. PICK e : /\ OfObject(N, k) = {e} /\ e.to = u[k].state /\ e.seq = u[k].version
                     /\ u[k].version = v + 1
        BY <2>3
      <3>2. OfObject(D, k) = S \cup {e} /\ e.seq = v + 1
        BY <1>2, <3>1
      <3> HIDE DEF S, v
      <3>3. Counts(v + 1, S \cup {e}) /\ \A f \in S : f.seq # v + 1
        BY <2>1, <3>2, CountsMore
      <3>4. v + 1 > 0
        BY <2>2
      <3> QED BY <3>1, <3>2, <3>3, <3>4 DEF Newest
    <2>4. CASE /\ OfObject(N, k) = {} /\ u[k].version = v
               /\ k \notin C => k \in DOMAIN w /\ k \notin B /\ u[k].state = w[k].state
      <3>1. OfObject(D, k) = S
        BY <1>2, <2>4
      <3>2. k \notin C => Newest(w[k], S)
        BY <2>4 DEF Logged
      <3> HIDE DEF S
      <3> QED BY <2>1, <2>4, <3>1, <3>2 DEF Newest
    <2>5. \/ \E e : /\ OfObject(N, k) = {e} /\ e.to = u[k].state /\ e.seq = u[k].version
                    /\ u[k].version = v + 1
          \/ /\ OfObject(N, k) = {} /\ u[k].version = v
             /\ k \notin C => k \in DOMAIN w /\ k \notin B /\ u[k].state = w[k].state
      BY DEF Follows
    <2> QED BY <2>3, <2>4, <2>5
  <1> QED BY <1>1, <1>4 DEF Logged, D

\* Nothing written: the versions stay, and the states of all but C.
LEMMA SameLogged ==
  ASSUME NEW w, NEW E, NEW B, NEW u, NEW C, Logged(w, E, B), B \subseteq C, DOMAIN w \subseteq DOMAIN u,
         \A k \in DOMAIN u : \/ /\ k \in DOMAIN w /\ u[k].version = w[k].version
                                /\ k \notin C => u[k].state = w[k].state
                             \/ k \in C /\ k \notin DOMAIN w /\ u[k].version = 0
  PROVE  Logged(u, E, C)
  <1>1. \A k : OfObject({}, k) = {}
    BY DEF OfObject
  <1>2. ASSUME NEW k \in DOMAIN u
        PROVE  /\ u[k].version = IF k \in DOMAIN w THEN w[k].version ELSE 0
               /\ k \notin C => k \in DOMAIN w /\ k \notin B /\ u[k].state = w[k].state
    OBVIOUS
  <1>3. Follows(w, B, u, C, {})
    BY <1>1, <1>2 DEF Follows
  <1>4. Logged(u, E \cup {}, C)
    BY <1>3, FollowsLogged
  <1>5. E \cup {} = E
    OBVIOUS
  <1> QED BY <1>4, <1>5

LEMMA RewritesLogged ==
  ASSUME NEW c, NEW d, NEW S, NEW ev, NEW A, NEW B, Rewrites(c, d, S, ev), Logged(c.work, A \cup c.events, B)
  PROVE  Logged(d.work, A \cup d.events, B)
  <1> DEFINE w == c.work
             u == d.work
             E == A \cup c.events
             N == {ev[k] : k \in S}
  <1>1. S \subseteq DOMAIN w /\ d.events = c.events \cup N /\ DOMAIN u = DOMAIN w
    BY Zenon DEF Rewrites
  <1>2. \A k \in S : /\ ev[k].object = k /\ ev[k].seq = w[k].version + 1 /\ ev[k].to = u[k].state
                    /\ u[k].version = w[k].version + 1
    BY Zenon DEF Rewrites
  <1>3. \A k \in DOMAIN w \ S : u[k] = w[k]
    BY Zenon DEF Rewrites
  <1>5. \A k : OfObject(N, k) = IF k \in S THEN {ev[k]} ELSE {}
    BY <1>2 DEF OfObject
  <1>6. A \cup d.events = E \cup N
    BY <1>1
  <1>7. \A e \in N : e.object \in DOMAIN u
    BY <1>1, <1>2
  <1> HIDE DEF w, u, E, N
  <1>8. ASSUME NEW k \in DOMAIN u, k \in S
        PROVE  \E e : /\ OfObject(N, k) = {e} /\ e.to = u[k].state /\ e.seq = u[k].version
                      /\ u[k].version = (IF k \in DOMAIN w THEN w[k].version ELSE 0) + 1
    <2>1. OfObject(N, k) = {ev[k]} /\ k \in DOMAIN w
      BY <1>1, <1>5, <1>8
    <2> QED BY <1>2, <1>8, <2>1
  <1>9. ASSUME NEW k \in DOMAIN u, k \notin S
        PROVE  /\ OfObject(N, k) = {}
               /\ u[k].version = IF k \in DOMAIN w THEN w[k].version ELSE 0
               /\ k \notin B => k \in DOMAIN w /\ k \notin B /\ u[k].state = w[k].state
    <2>1. OfObject(N, k) = {} /\ k \in DOMAIN w
      BY <1>1, <1>5, <1>9
    <2> QED BY <1>3, <1>9, <2>1
  <1>10. Follows(w, B, u, B, N)
    BY <1>1, <1>7, <1>8, <1>9 DEF Follows
  <1>11. Logged(u, E \cup N, B)
    BY <1>10, FollowsLogged DEF w, E
  <1> QED BY <1>6, <1>11 DEF u

LEMMA ErasedLogged ==
  ASSUME NEW c, DOMAIN c = CtxFields, Rows(c.work), PropFits(c.work), NEW id \in DOMAIN c.work, NEW p,
         c.work[id].type # PROPOSAL, NEW A, NEW B, id \in B, Logged(c.work, A \cup c.events, B)
  PROVE  Logged(Erased(c, c.work[id], p).work, A \cup Erased(c, c.work[id], p).events, B)
  <1> DEFINE d == Erased(c, c.work[id], p)
  <1>1. PICK m, i, S, T, ev, fv :
          /\ Rewrites(c, m, S, ev) /\ Rewrites(m, i, T, fv)
          /\ d.events = i.events /\ DOMAIN d.work = DOMAIN i.work /\ \A k \in DOMAIN i.work \ {id} : d.work[k] = i.work[k]
          /\ i.work[id].version = c.work[id].version /\ i.work[id].type = c.work[id].type
          /\ d.work[id].type = c.work[id].type
    BY ErasedWrites
  <1>2. d.work[id].version = c.work[id].version
    BY ErasedAlike
  <1> HIDE DEF d
  <1>3. Logged(i.work, A \cup i.events, B)
    <2>1. Logged(m.work, A \cup m.events, B)
      BY <1>1, RewritesLogged
    <2> QED BY <1>1, <2>1, RewritesLogged
  <1> DEFINE w == i.work
             u == d.work
             E == A \cup i.events
  <1>4. /\ Logged(w, E, B) /\ DOMAIN w \subseteq DOMAIN u
        /\ \A k \in DOMAIN u : k \in DOMAIN w /\ u[k].version = w[k].version /\ (k \notin B => u[k].state = w[k].state)
    BY <1>1, <1>2, <1>3
  <1> HIDE DEF u, w, E
  <1>5. Logged(u, E, B)
    BY <1>4, SameLogged
  <1> QED BY <1>1, <1>5 DEF u, E, d

InLog(c) == Logged(c.work, Range(log) \cup c.events, Begun(c.frames))

LEMMA VersionsStay ==
  ASSUME VersionsInv, objects' = objects, log' = log, ctx' = Idle \/ InLog(ctx')
  PROVE  VersionsInv'
  <1>1. Logged(objects, Range(log), {})'
    BY DEF VersionsInv, Logged
  <1>2. CASE ctx' = Idle
    BY <1>1, <1>2 DEF VersionsInv, Idle
  <1>3. CASE InLog(ctx')
    <2>1. InLog(ctx)'
      BY <1>3, Zenon DEF InLog, Logged, Begun
    <2> QED BY <1>1, <2>1 DEF VersionsInv, InLog
  <1> QED BY <1>2, <1>3

LEMMA InLogIs ==
  ASSUME VersionsInv, ctx.phase \in {"take", "write"}
  PROVE  InLog(ctx)
  BY DEF VersionsInv, InLog, Idle

\* The objects of the transitions begun: the innermost's and those below it.
LEMMA BegunLast ==
  ASSUME NEW s, IsSeq(s), s # <<>>
  PROVE  Begun(s) = Begun(Front(s)) \cup (IF Last(s).begun THEN {Last(s).id} ELSE {})
  <1> DEFINE n == Len(s)
             b == Front(s)
  <1>1. /\ n \in Nat \ {0} /\ DOMAIN s = 1..n /\ Len(b) = n - 1 /\ IsSeq(b)
        /\ \A i \in 1..(n - 1) : b[i] = s[i]
    BY SeqRest
  <1>2. s[n] = Last(s)
    BY DEF Last
  <1> HIDE DEF n, b
  <1>3. DOMAIN b = 1..(n - 1)
    BY <1>1 DEF IsSeq
  <1>4. \A i \in 1..n : i = n \/ i \in 1..(n - 1)
    BY <1>1
  <1>5. n \in 1..n /\ \A i \in 1..(n - 1) : i \in 1..n
    BY <1>1
  <1>6. Begun(s) \subseteq Begun(b) \cup (IF Last(s).begun THEN {Last(s).id} ELSE {})
    BY <1>1, <1>2, <1>3, <1>4 DEF Begun
  <1>7. Begun(b) \subseteq Begun(s)
    BY <1>1, <1>3, <1>5 DEF Begun
  <1>8. Last(s).begun => Last(s).id \in Begun(s)
    BY <1>1, <1>2, <1>5 DEF Begun
  <1> QED BY <1>6, <1>7, <1>8 DEF b

LEMMA BegunKept ==
  ASSUME RowsInv, ctx.phase = "take", ctx.frames # <<>>, Top.begun, NEW s, KeptFrames(s)
  PROVE  Begun(ctx.frames) \subseteq Begun(s) /\ Begun(s) \subseteq Begun(ctx.frames) /\ Top.id \in Begun(s)
  <1>1. /\ DOMAIN ctx.frames \subseteq DOMAIN s
        /\ \A i \in DOMAIN ctx.frames : s[i].begun = ctx.frames[i].begun /\ s[i].id = ctx.frames[i].id
        /\ \A i \in DOMAIN s \ DOMAIN ctx.frames : ~ s[i].begun
        /\ Len(ctx.frames) \in DOMAIN ctx.frames /\ ctx.frames[Len(ctx.frames)] = Top
    BY KeptIndex
  <1>2. Begun(ctx.frames) \subseteq Begun(s)
    BY <1>1, Zenon DEF Begun
  <1>3. Begun(s) \subseteq Begun(ctx.frames)
    BY <1>1, Zenon DEF Begun
  <1>4. Top.id \in Begun(ctx.frames)
    BY <1>1, Zenon DEF Begun
  <1> QED BY <1>2, <1>3, <1>4

\* A step of an outcome writes its own object, that is begun, and logs nothing.
LEMMA KeptLogged ==
  ASSUME RowsInv, VersionsInv, ctx.phase = "take", ctx.frames # <<>>, Top.begun, NEW d, Kept(d)
  PROVE  InLog(d)
  <1> DEFINE w == ctx.work
             u == d.work
             E == Range(log) \cup ctx.events
             B == Begun(ctx.frames)
             C == Begun(d.frames)
             id == Top.id
  <1>1. InLog(ctx)
    BY InLogIs
  <1>2. B \subseteq C /\ id \in C
    BY BegunKept DEF Kept
  <1>3. /\ d.events = ctx.events /\ DOMAIN u = DOMAIN w /\ u[id].version = w[id].version
        /\ \A k \in DOMAIN w : k # id => u[k] = w[k]
    BY DEF Kept, KeptRest
  <1>4. Logged(w, E, B)
    BY <1>1 DEF InLog
  <1> HIDE DEF w, u, E, B, C, id
  <1>5. \A k \in DOMAIN u : k \in DOMAIN w /\ u[k].version = w[k].version /\ (k \notin C => u[k].state = w[k].state)
    BY <1>2, <1>3
  <1>6. Logged(u, E, C)
    BY <1>2, <1>3, <1>4, <1>5, SameLogged
  <1> QED BY <1>3, <1>6 DEF InLog, u, E, C

LEMMA OutcomeLogged ==
  ASSUME RowsInv, VersionsInv, Outcome
  PROVE  VersionsInv'
  <1>1. /\ ctx.phase = "take" /\ ctx.frames # <<>> /\ Top.begun /\ UNCHANGED <<objects, log, now>>
        /\ Kept(ctx') \/ \E clause : Refuse(clause)
    BY OutcomeKept
  <1>2. CASE Kept(ctx')
    <2> DEFINE d == ctx'
    <2>1. Kept(d)
      BY <1>2
    <2> HIDE DEF d
    <2>2. InLog(d)
      BY <1>1, <2>1, KeptLogged
    <2> QED BY <1>1, <2>2, VersionsStay DEF d
  <1>3. CASE \E clause : Refuse(clause)
    BY <1>1, <1>3, VersionsStay DEF Refuse
  <1> QED BY <1>1, <1>2, <1>3

\* A transition begun writes no event of its own yet; an erasure writes those
\* of the others'.
LEMMA BegunLogged ==
  ASSUME NEW e, NEW id, NEW A, NEW B, Logged(ctx.work, A \cup ctx.events, B), PropFits(ctx.work),
         BegunEvents(e, id), BegunRows(e.work, id), Top.type # PROPOSAL
  PROVE  Logged(e.work, A \cup e.events, B \cup {id})
  <1>1. PICK c, d :
    /\ DOMAIN c = CtxFields /\ Rows(c.work)
    /\ c.next = ctx.next + 1 /\ c.events = ctx.events /\ c.root = ctx.root
    /\ DOMAIN c.work = DOMAIN ctx.work \cup {id} /\ \A k \in DOMAIN ctx.work : c.work[k] = ctx.work[k]
    /\ c.work[id].type = Top.type /\ (id \notin DOMAIN ctx.work => c.work[id].version = 0)
    /\ d = c \/ d = Erased(c, c.work[id], ctx.next)
    /\ e.next = d.next /\ e.events = d.events /\ e.root = d.root /\ e.first = ctx.first /\ e.phase = "take"
    /\ DOMAIN e.work = DOMAIN c.work /\ \A k \in DOMAIN c.work \ {id} : e.work[k] = d.work[k]
    /\ e.work[id].version = c.work[id].version
    BY Zenon DEF BegunEvents
  <1> DEFINE C == B \cup {id}
  <1>2. Logged(c.work, A \cup c.events, C)
    <2> DEFINE w == ctx.work
               u == c.work
               E == A \cup ctx.events
    <2>1. /\ Logged(w, E, B) /\ B \subseteq C /\ DOMAIN w \subseteq DOMAIN u
          /\ \A k \in DOMAIN u : \/ /\ k \in DOMAIN w /\ u[k].version = w[k].version
                                    /\ k \notin C => u[k].state = w[k].state
                                 \/ k \in C /\ k \notin DOMAIN w /\ u[k].version = 0
      BY <1>1
    <2> HIDE DEF w, u, E, C
    <2>2. Logged(u, E, C)
      BY <2>1, SameLogged
    <2> QED BY <1>1, <2>2 DEF u, E
  <1>3. id \in C /\ id \in DOMAIN c.work /\ c.work[id].type # PROPOSAL
    BY <1>1
  <1>4. PropFits(c.work)
    BY <1>1, <1>3 DEF PropFits
  <1> HIDE DEF C
  <1>5. Logged(d.work, A \cup d.events, C) /\ DOMAIN d.work = DOMAIN c.work /\ d.work[id].version = c.work[id].version
    <2>1. CASE d = c
      BY <1>2, <2>1
    <2>2. CASE d = Erased(c, c.work[id], ctx.next)
      <3> DEFINE p == ctx.next
      <3>1. d = Erased(c, c.work[id], p) /\ DOMAIN c = CtxFields /\ Rows(c.work)
        BY <1>1, <2>2
      <3> HIDE DEF p
      <3>2. Logged(Erased(c, c.work[id], p).work, A \cup Erased(c, c.work[id], p).events, C)
        BY <1>2, <1>3, <1>4, <3>1, ErasedLogged
      <3>3. DOMAIN d.work = DOMAIN c.work /\ d.work[id].version = c.work[id].version
        BY <1>3, <3>1, ErasedAlike
      <3> QED BY <3>1, <3>2, <3>3
    <2> QED BY <1>1, <2>1, <2>2
  <1> DEFINE w == d.work
             u == e.work
             E == A \cup d.events
  <1>6. /\ Logged(w, E, C) /\ DOMAIN w \subseteq DOMAIN u
        /\ \A k \in DOMAIN u : k \in DOMAIN w /\ u[k].version = w[k].version /\ (k \notin C => u[k].state = w[k].state)
    BY <1>1, <1>3, <1>5
  <1> HIDE DEF w, u, E
  <1>7. Logged(u, E, C)
    BY <1>6, SameLogged
  <1> QED BY <1>1, <1>7 DEF u, E, C

LEMMA BeginLogged ==
  ASSUME RowsInv, LogInv, FilingInv, VersionsInv, Begin
  PROVE  VersionsInv'
  <1>1. /\ ctx.phase = "take" /\ ctx.frames # <<>> /\ ~ Top.begun /\ objects' = objects /\ log' = log
    BY Zenon DEF Begin
  <1>2. InLog(ctx) /\ PropFits(ctx.work) /\ IsSeq(ctx.frames) /\ FrameFits(ctx.work, Top)
    BY <1>1, TopFits, FlightIs, InLogIs DEF InFlight, Filings
  <1>3. CASE \E clause : Refuse(clause)
    BY <1>1, <1>3, VersionsStay DEF Refuse
  <1>4. ASSUME NEW d, NEW g, ctx' = d, d.frames = Append(Front(ctx.frames), g), Checked(Top) = "ok",
               BegunFrame(g), BegunRows(d.work, g.id), BegunEvents(d, g.id)
        PROVE  VersionsInv'
    <2> DEFINE A == Range(log)
               b == Front(ctx.frames)
               B == Begun(b)
               s == Append(b, g)
               id == g.id
    <2>1. Top.type # PROPOSAL
      BY <1>2, DeclAssumption, Zenon DEF FrameFits, Has
    <2>2. IsSeq(b) /\ B = Begun(ctx.frames)
      <3>1. Last(ctx.frames) = Top
        BY DEF Top
      <3> QED BY <1>1, <1>2, <3>1, SeqRest, BegunLast
    <2>3. Logged(ctx.work, A \cup ctx.events, B)
      BY <1>2, <2>2 DEF InLog
    <2>4. BegunEvents(d, id) /\ BegunRows(d.work, id) /\ d.frames = s
      BY <1>4
    <2>5. g.begun
      BY <1>4 DEF BegunFrame
    <2>6. Begun(s) = B \cup {id}
      <3> HIDE DEF b
      <3>1. IsSeq(s) /\ s # <<>> /\ Last(s) = g /\ Len(b) \in Nat /\ Len(s) = Len(b) + 1
            /\ \A i \in 1..Len(b) : s[i] = b[i]
        BY <2>2, SeqAppend
      <3> DEFINE q == Front(s)
      <3>2. Begun(s) = Begun(q) \cup {id}
        <4> HIDE DEF s
        <4> QED BY <2>5, <3>1, BegunLast
      <3>3. DOMAIN s = 1..(Len(b) + 1) /\ DOMAIN b = 1..Len(b) /\ s[Len(b) + 1] = g
        <4> HIDE DEF s
        <4> QED BY <2>2, <3>1 DEF IsSeq, Last
      <3> HIDE DEF s, q
      <3>4. DOMAIN q = DOMAIN b /\ \A i \in DOMAIN b : q[i] = b[i]
        <4>1. IsSeq(q) /\ Len(q) = Len(s) - 1 /\ \A i \in 1..(Len(s) - 1) : q[i] = s[i]
          BY <3>1, SeqRest DEF q
        <4> QED BY <3>1, <3>3, <4>1 DEF IsSeq
      <3>5. Begun(q) = B
        BY <3>4, Zenon DEF Begun
      <3> QED BY <3>2, <3>5
    <2> HIDE DEF A, b, B, s, id
    <2>7. Logged(d.work, A \cup d.events, B \cup {id})
      BY <1>2, <2>1, <2>3, <2>4, BegunLogged
    <2>8. InLog(d)
      BY <2>4, <2>6, <2>7 DEF InLog, A
    <2> QED BY <1>1, <1>4, <2>8, VersionsStay
  <1> QED BY <1>3, <1>4, BeginLeaves

LEMMA LeaveLogged ==
  ASSUME RowsInv, LogInv, VersionsInv, Leave
  PROVE  VersionsInv'
  <1>1. ctx.phase = "take" /\ ctx.frames # <<>> /\ Top.begun /\ objects' = objects /\ log' = log
    BY Zenon DEF Leave
  <1>2. InLog(ctx) /\ DOMAIN ctx = CtxFields /\ IsSeq(ctx.frames) /\ Top.id \in DOMAIN ctx.work
    BY <1>1, TopFits, InLogIs
  <1>3. CASE Refuse("occurred_within")
    BY <1>1, <1>3, VersionsStay DEF Refuse
  <1>4. ASSUME NEW done, NEW e, NEW last, NEW wrote,
               DOMAIN done = RowFields, done.id = Top.id, done.type = ctx.work[Top.id].type,
               done.next = ctx.work[Top.id].next, done.state = ctx.work[Top.id].state,
               done.attrs = ctx.work[Top.id].attrs, done.version = ctx.work[Top.id].version + 1,
               DOMAIN e = EventFields, e.pos = Top.pos, e.cause = Top.cause,
               e.x = Top.x, e.object = Top.id, e.seq = done.version, e.to = done.state,
               ctx' = [ctx EXCEPT !.work = [@ EXCEPT ![Top.id] = done], !.events = ctx.events \cup {e},
                                  !.last = last, !.wrote = wrote, !.frames = Front(@)]
        PROVE  VersionsInv'
    <2> DEFINE d == ctx'
               s == Front(ctx.frames)
               id == Top.id
               w == ctx.work
               u == [ctx.work EXCEPT ![id] = done]
               A == Range(log)
               E == A \cup ctx.events
               B == Begun(ctx.frames)
               C == Begun(s)
               N == {e}
    <2>1. d.events = ctx.events \cup N /\ d.frames = s /\ d.work = u
      BY <1>2, <1>4 DEF CtxFields
    <2>2. B = C \cup {id}
      <3>1. Last(ctx.frames) = Top
        BY DEF Top
      <3> QED BY <1>1, <1>2, <3>1, BegunLast
    <2>3. /\ DOMAIN u = DOMAIN w /\ u[id] = done /\ (\A k \in DOMAIN w : k # id => u[k] = w[k]) /\ id \in DOMAIN w
          /\ Logged(w, E, B)
      BY <1>2 DEF InLog
    <2>4. OfObject(N, id) = {e} /\ \A k : k # id => OfObject(N, k) = {}
      BY <1>4 DEF OfObject
    <2>5. \A f \in N : f.object = id
      BY <1>4
    <2>6. done.version = w[id].version + 1
      BY <1>4
    <2> HIDE DEF w, u, A, E, B, C, N, id, d, s
    <2>7. ASSUME NEW k \in DOMAIN u, k = id
          PROVE  \E f : /\ OfObject(N, k) = {f} /\ f.to = u[k].state /\ f.seq = u[k].version
                        /\ u[k].version = (IF k \in DOMAIN w THEN w[k].version ELSE 0) + 1
      BY <1>4, <2>3, <2>4, <2>6, <2>7
    <2>8. ASSUME NEW k \in DOMAIN u, k # id
          PROVE  /\ OfObject(N, k) = {}
                 /\ u[k].version = IF k \in DOMAIN w THEN w[k].version ELSE 0
                 /\ k \notin C => k \in DOMAIN w /\ k \notin B /\ u[k].state = w[k].state
      BY <2>2, <2>3, <2>4, <2>8
    <2>9. Follows(w, B, u, C, N)
      BY <2>3, <2>5, <2>7, <2>8 DEF Follows
    <2>10. Logged(u, E \cup N, C)
      BY <2>3, <2>9, FollowsLogged
    <2>11. A \cup d.events = E \cup N
      BY <2>1 DEF E
    <2>12. InLog(d)
      BY <2>1, <2>10, <2>11 DEF InLog, A, C
    <2> QED BY <1>1, <2>12, VersionsStay DEF d
  <1> QED BY <1>3, <1>4, LeaveLeaves, Zenon

LEMMA ConcludeLogged ==
  ASSUME RowsInv, VersionsInv, Conclude
  PROVE  VersionsInv'
  <1> DEFINE u == [id \in DOMAIN ctx.work |->
                     IF id \in Affected THEN [ctx.work[id] EXCEPT !.admitted = Admitted(id)] ELSE ctx.work[id]]
             d == [ctx EXCEPT !.phase = "write", !.work = u]
             w == ctx.work
             E == Range(log) \cup ctx.events
             B == Begun(ctx.frames)
  <1>1. ctx.phase = "take" /\ ctx.frames = <<>> /\ objects' = objects /\ log' = log
    BY DEF Conclude
  <1>2. InLog(ctx) /\ DOMAIN ctx = CtxFields /\ Rows(w)
    BY <1>1, InLogIs DEF RowsInv, Deciding, Idle
  <1>3. CASE Refuse("invariant_violated")
    BY <1>1, <1>3, VersionsStay DEF Refuse
  <1>4. CASE ctx' = d
    <2>1. DOMAIN u = DOMAIN w
      OBVIOUS
    <2>2. ASSUME NEW k \in DOMAIN w
          PROVE  u[k].state = w[k].state /\ u[k].version = w[k].version
      <3>1. DOMAIN w[k] = RowFields
        BY <1>2, RowDomain DEF Rows
      <3>2. u[k] = w[k] \/ u[k] = [w[k] EXCEPT !.admitted = Admitted(k)]
        OBVIOUS
      <3> HIDE DEF u, w
      <3> QED BY <3>1, <3>2 DEF RowFields
    <2>3. d.events = ctx.events /\ d.frames = ctx.frames /\ d.work = u
      BY <1>2 DEF CtxFields
    <2>4. Logged(w, E, B)
      BY <1>2 DEF InLog
    <2> HIDE DEF w, u, E, B, d
    <2>5. Logged(u, E, B)
      BY <2>1, <2>2, <2>4, SameLogged
    <2>6. InLog(d)
      BY <2>3, <2>5 DEF InLog, E, B
    <2> QED BY <1>1, <1>4, <2>6, VersionsStay
  <1> QED BY <1>3, <1>4 DEF Conclude

\* What a written log says, each event redacted or as it was.
LEMMA RedactedLogged ==
  ASSUME NEW w, NEW E, NEW L, NEW R \in [E -> L], Logged(w, E, {}),
         \A e \in E : R[e].object = e.object /\ R[e].seq = e.seq /\ R[e].to = e.to,
         \A d \in L : \E e \in E : d = R[e]
  PROVE  Logged(w, L, {})
  <1>1. \A d \in L : d.object \in DOMAIN w
    BY DEF Logged
  <1>2. ASSUME NEW k \in DOMAIN w
        PROVE  Counts(w[k].version, OfObject(L, k)) /\ Newest(w[k], OfObject(L, k))
    <2> DEFINE S == OfObject(E, k)
               T == OfObject(L, k)
    <2>1. Counts(w[k].version, S) /\ Newest(w[k], S)
      BY DEF Logged
    <2>2. \A e \in S : e \in E /\ R[e] \in T
      BY DEF OfObject
    <2>3. \A d \in T : \E e \in S : d = R[e]
      BY DEF OfObject
    <2>4. \A e \in S : R[e].seq = e.seq /\ R[e].to = e.to
      BY <2>2
    <2> HIDE DEF S, T
    <2>5. {d.seq : d \in T} = {e.seq : e \in S}
      BY <2>2, <2>3, <2>4
    <2>6. \A d, f \in T : d.seq = f.seq => d = f
      <3> SUFFICES ASSUME NEW d \in T, NEW f \in T, d.seq = f.seq PROVE d = f
        OBVIOUS
      <3>1. PICK e \in S : d = R[e]
        BY <2>3
      <3>2. PICK g \in S : f = R[g]
        BY <2>3
      <3>3. e = g
        BY <2>1, <2>4, <3>1, <3>2 DEF Counts
      <3> QED BY <3>1, <3>2, <3>3
    <2>7. \A d \in T : d.seq = w[k].version => d.to = w[k].state
      BY <2>1, <2>3, <2>4 DEF Newest
    <2>8. Counts(w[k].version, T) /\ Newest(w[k], T)
      BY <2>1, <2>5, <2>6, <2>7 DEF Counts, Newest
    <2> QED BY <2>8 DEF T
  <1> QED BY <1>1, <1>2 DEF Logged

\* The rows and the events of a request the log accepts.
LEMMA AllLogged ==
  ASSUME RowsInv, LogInv, FilingInv, VersionsInv, ctx.phase = "write", \A e \in All : ~ Taken(e, All), NEW u,
         DOMAIN u = DOMAIN ctx.work,
         \A k \in DOMAIN u : u[k] = IF \E d \in ctx.first : d.row.id = k THEN (CHOOSE d \in ctx.first : TRUE).row
                                    ELSE ctx.work[k]
  PROVE  Logged(u, All, {})
  <1> DEFINE w == ctx.work
             A == Range(log) \cup ctx.events
             F == {d.event : d \in ctx.first}
  <1>1. Counted(ctx) /\ ctx.frames = <<>> /\ InFlight(ctx) /\ Deciding(ctx) /\ InLog(ctx)
    BY FlightIs, InLogIs DEF Counted, RowsInv, Idle
  <1>2. All = A \cup F
    BY DEF All, Known, Range
  <1>3. Logged(w, A, {})
    <2>1. Begun(ctx.frames) = {}
      BY <1>1 DEF Begun
    <2> QED BY <1>1, <2>1 DEF InLog
  <1>4. CASE ctx.first = {}
    <2>1. All = A /\ \A k \in DOMAIN u : u[k] = w[k]
      BY <1>2, <1>4
    <2>2. DOMAIN u = DOMAIN w
      OBVIOUS
    <2> HIDE DEF w, A
    <2>3. Logged(u, A, {})
      BY <1>3, <2>1, <2>2 DEF Logged
    <2> QED BY <2>1, <2>3
  <1>5. CASE ctx.first # {}
    <2>1. PICK d \in ctx.first : ctx.first = {d} /\ FirstFits(d)
      BY <1>1, <1>5 DEF Deciding
    <2> DEFINE id == d.row.id
               f == d.event
               N == {f}
    <2>2. Approved(d) /\ id \in DOMAIN w /\ Untouched(w, ctx.events, id)
      BY <1>1, <2>1 DEF InFlight, Filings
    <2>3. F = {f} /\ f.pos = ctx.root
      BY <1>1, <1>5, <2>1 DEF Counted, FirstCounts
    <2>4. u[id] = d.row /\ DOMAIN u = DOMAIN w /\ \A k \in DOMAIN w : k # id => u[k] = w[k]
      <3>1. (CHOOSE e \in ctx.first : TRUE) = d
        BY <2>1
      <3> QED BY <2>1, <2>2, <3>1
    <2>5. /\ f.object = id /\ f.to = d.row.state /\ f.seq = objects[id].version + 1
          /\ d.row.version = objects[id].version + 1
      BY <2>2 DEF Approved
    <2>6. f \notin ctx.events
      <3>1. /\ Len(log) \in Nat /\ Low(ctx) \in Nat /\ ctx.root = Low(ctx)
        BY <1>1, <1>5, LowIs DEF Counted
      <3>2. \A e \in ctx.events : e.pos \in (Low(ctx) + 1)..(ctx.next - 1)
        BY <1>1 DEF Counted, EventsCount
      <3> QED BY <2>3, <3>1, <3>2
    <2> HIDE DEF id, f, F, w
    <2>7. w[id].version = objects[id].version
      <3>1. ASSUME NEW e \in ctx.events, e.object = id, e.seq = objects[id].version + 1 PROVE FALSE
        <4>1. e \in All /\ f \in All
          BY <1>2, <2>3
        <4> QED BY <2>5, <2>6, <3>1, <4>1 DEF Taken
      <3> QED BY <2>2, <3>1 DEF Untouched
    <2>8. All = A \cup N
      BY <1>2, <2>3
    <2>9. OfObject(N, id) = {f} /\ (\A k : k # id => OfObject(N, k) = {}) /\ \A e \in N : e.object \in DOMAIN u
      BY <2>2, <2>4, <2>5 DEF OfObject
    <2> HIDE DEF A, N
    <2>10. ASSUME NEW k \in DOMAIN u, k = id
           PROVE  \E e : /\ OfObject(N, k) = {e} /\ e.to = u[k].state /\ e.seq = u[k].version
                         /\ u[k].version = (IF k \in DOMAIN w THEN w[k].version ELSE 0) + 1
      BY <2>2, <2>4, <2>5, <2>7, <2>9, <2>10
    <2>11. ASSUME NEW k \in DOMAIN u, k # id
           PROVE  /\ OfObject(N, k) = {}
                  /\ u[k].version = IF k \in DOMAIN w THEN w[k].version ELSE 0
                  /\ k \notin {} => k \in DOMAIN w /\ k \notin {} /\ u[k].state = w[k].state
      BY <2>4, <2>9, <2>11
    <2>12. Follows(w, {}, u, {}, N)
      BY <2>4, <2>9, <2>10, <2>11 DEF Follows
    <2> QED BY <1>3, <2>8, <2>12, FollowsLogged
  <1> QED BY <1>4, <1>5

LEMMA WriteLogged ==
  ASSUME RowsInv, LogInv, FilingInv, VersionsInv, Write
  PROVE  VersionsInv'
  <1>1. ctx.phase = "write" /\ ctx' = Idle
    BY DEF Write
  <1> DEFINE u == Merged
             v == Stored
  <1>2. CASE objects' = objects /\ log' = log
    BY <1>1, <1>2, VersionsStay
  <1>3. CASE /\ ~ \E e \in All : Taken(e, All)
             /\ objects' = v
             /\ log' = [p \in 1..Cardinality(All) |-> Redacted(CHOOSE e \in All : e.pos = p)]
    <2> DEFINE R == [e \in All |-> Redacted(e)]
               L == Range(log')
    <2>1. R \in [All -> L] /\ \A d \in L : \E e \in All : d = R[e]
      BY <1>1, <1>3, WrittenLog
    <2>2. Logged(u, All, {})
      <3>1. DOMAIN u = DOMAIN ctx.work /\ \A k \in DOMAIN u :
              u[k] = IF \E d \in ctx.first : d.row.id = k THEN (CHOOSE d \in ctx.first : TRUE).row ELSE ctx.work[k]
        BY Zenon DEF Merged
      <3> HIDE DEF u
      <3> QED BY <1>1, <1>3, <3>1, AllLogged
    <2>3. \A e \in All : R[e].object = e.object /\ R[e].seq = e.seq /\ R[e].to = e.to
      <3>1. \A e \in All : DOMAIN e = EventFields
        BY <1>1, AllNumbered
      <3>2. \A e \in All : R[e] = Redacted(e)
        OBVIOUS
      <3> HIDE DEF R
      <3> QED BY <3>1, <3>2, RedactedIs
    <2> HIDE DEF u, v, R, L
    <2>4. Logged(u, L, {})
      BY <2>1, <2>2, <2>3, RedactedLogged
    <2>7. Logged(v, L, {})
      <3>1. DOMAIN v = DOMAIN u /\ \A k \in DOMAIN u : v[k].version = u[k].version /\ v[k].state = u[k].state
        BY <1>1, StoredSame DEF u, v
      <3> QED BY <2>4, <3>1 DEF Logged, Newest
    <2>5. Logged(objects', Range(log'), {})
      BY <1>3, <2>7 DEF L
    <2>6. Logged(objects, Range(log), {})'
      BY <2>5 DEF Logged, OfObject, Counts, Newest
    <2> QED BY <1>1, <2>6 DEF VersionsInv, Idle
  <1> QED BY <1>2, <1>3, WriteStores DEF All

LEMMA StartLogged ==
  ASSUME NEW r, NEW xf, NEW cause, NEW filed, NEW occurred, NEW first,
         VersionsInv, objects' = objects, log' = log, ~ xf.begun,
         ctx' = Started(r, xf, cause, filed, occurred, first)
  PROVE  VersionsInv'
  <1> DEFINE c == Started(r, xf, cause, filed, occurred, first)
  <1>1. c.work = objects /\ c.events = {} /\ c.frames = <<xf>>
    BY DEF Started
  <1> HIDE DEF c
  <1>2. Begun(c.frames) = {}
    <2>1. DOMAIN c.frames = {1} /\ c.frames[1] = xf
      BY <1>1
    <2> QED BY <2>1 DEF Begun
  <1>3. Range(log) \cup c.events = Range(log)
    BY <1>1
  <1>4. InLog(c)
    BY <1>1, <1>2, <1>3 DEF InLog, VersionsInv
  <1> QED BY <1>4, VersionsStay DEF c

LEMMA AnswerLogged ==
  ASSUME VersionsInv, NEW clause, Answer(clause)
  PROVE  VersionsInv'
  BY VersionsStay DEF Answer

LEMMA AskLogged ==
  ASSUME VersionsInv, NEW r, Ask(r)
  PROVE  VersionsInv'
  <1> DEFINE xf == Frame(r.type, r.x, r.id, r.inputs, None)
             first == {}
             none == None
  <1>1. CASE Answer(Asked(r))
    BY <1>1, AnswerLogged
  <1>2. CASE ctx' = Started(r, xf, None, None, r.occurred, {}) /\ log' = log /\ objects' = objects
    <2>1. ctx' = Started(r, xf, none, none, r.occurred, first)
      BY <1>2
    <2>2. ~ xf.begun
      BY DEF Frame
    <2> HIDE DEF xf, first, none
    <2> QED BY <1>2, <2>1, <2>2, StartLogged
  <1> QED BY <1>1, <1>2, Zenon DEF Ask

\* A proposal filed, or one decided at once.
LEMMA MoreLogged ==
  ASSUME LogInv, VersionsInv, NEW u, NEW e, NEW id,
         DOMAIN u = DOMAIN objects \cup {id}, \A k \in DOMAIN objects \ {id} : u[k] = objects[k],
         e.object = id, e.to = u[id].state, e.seq = u[id].version,
         u[id].version = (IF id \in DOMAIN objects THEN objects[id].version ELSE 0) + 1,
         objects' = u, log' = Append(log, e), ctx' = Idle
  PROVE  VersionsInv'
  <1> DEFINE N == {e}
             S == Range(log)
             l == Append(log, e)
  <1>1. Range(l) = S \cup N
    BY SeqAppend DEF LogInv, LogCounts
  <1>2. OfObject(N, id) = {e} /\ (\A k : k # id => OfObject(N, k) = {}) /\ \A f \in N : f.object \in DOMAIN u
    BY DEF OfObject
  <1>3. Logged(objects, S, {})
    BY DEF VersionsInv
  <1> HIDE DEF N, S
  <1>4. ASSUME NEW k \in DOMAIN u, k = id
        PROVE  \E f : /\ OfObject(N, k) = {f} /\ f.to = u[k].state /\ f.seq = u[k].version
                      /\ u[k].version = (IF k \in DOMAIN objects THEN objects[k].version ELSE 0) + 1
    BY <1>2, <1>4
  <1>5. ASSUME NEW k \in DOMAIN u, k # id
        PROVE  /\ OfObject(N, k) = {}
               /\ u[k].version = IF k \in DOMAIN objects THEN objects[k].version ELSE 0
               /\ k \notin {} => k \in DOMAIN objects /\ k \notin {} /\ u[k].state = objects[k].state
    BY <1>2, <1>5
  <1>6. Follows(objects, {}, u, {}, N)
    BY <1>2, <1>4, <1>5 DEF Follows
  <1>7. Logged(u, S \cup N, {})
    BY <1>3, <1>6, FollowsLogged
  <1>8. objects' = u /\ Range(log') = S \cup N
    BY <1>1
  <1>9. Logged(objects', Range(log'), {})
    BY <1>7, <1>8
  <1>10. Logged(objects, Range(log), {})'
    BY <1>9 DEF Logged, OfObject, Counts, Newest
  <1> QED BY <1>10 DEF VersionsInv, Idle

LEMMA FileLogged ==
  ASSUME RowsInv, LogInv, VersionsInv, NEW r, File(r)
  PROVE  VersionsInv'
  <1>1. CASE Answer(Filed(r))
    BY <1>1, AnswerLogged
  <1>2. CASE Filed(r) = "ok"
    <2> DEFINE n == Cardinality(DOMAIN objects) + 1
               prop == [target |-> r.id, type |-> r.type, x |-> r.x, inputs |-> r.inputs,
                        by |-> r.actor, filed |-> now, occurred |-> r.occurred, expires |-> r.expires]
               row == [id |-> n, type |-> PROPOSAL, state |-> "PENDING",
                       version |-> 1, attrs |-> EmptyFn, spans |-> [d \in {"state"} |-> <<>>],
                       erased |-> FALSE, next |-> None, admitted |-> {}, writes |-> EmptyFn, prop |-> prop]
               o == RecordSpans(row, EmptyFn, Len(log) + 1, now)
               e == Event(Len(log) + 1, o, "propose", "", "observed", None, r.inputs, EmptyFn, Held(r.inputs))
               u == Put(objects, o)
    <2>1. ctx' = Idle /\ objects' = u /\ log' = Append(log, e)
      BY <1>2, Zenon DEF File, Sent
    <2> HIDE DEF prop
    <2>2. DOMAIN row = RowFields /\ row.id = n /\ row.version = 1
      BY DEF RowFields
    <2> HIDE DEF row
    <2>3. o.id = n /\ o.version = 1
      BY <2>2, RecordedAlike
    <2> HIDE DEF o
    <2>4. e.object = o.id /\ e.to = o.state /\ e.seq = o.version
      BY DEF Event
    <2>5. DOMAIN u = DOMAIN objects \cup {n} /\ u[n] = o /\ \A k \in DOMAIN objects \ {n} : u[k] = objects[k]
      BY <2>3 DEF Put
    <2>6. n \notin DOMAIN objects
      <3>1. Cardinality(DOMAIN objects) \in Nat
        BY FS_CardinalityType DEF RowsInv, Rows
      <3> QED BY <3>1 DEF RowsInv, Rows
    <2> HIDE DEF e, u, n
    <2>7. /\ e.object = n /\ e.to = u[n].state /\ e.seq = u[n].version
          /\ u[n].version = (IF n \in DOMAIN objects THEN objects[n].version ELSE 0) + 1
      BY <2>3, <2>4, <2>5, <2>6
    <2> QED BY <2>1, <2>5, <2>7, MoreLogged
  <1> QED BY <1>1, <1>2, Zenon DEF File

LEMMA DecideProposalLogged ==
  ASSUME RowsInv, LogInv, VersionsInv, NEW r, DecideProposal(r)
  PROVE  VersionsInv'
  <1> DEFINE id == r.id
             prop == objects[r.id].prop
             to == CASE r.act = "approve" -> "EXECUTED" [] r.act = "reject" -> "REJECTED" [] OTHER -> "WITHDRAWN"
             held == [r EXCEPT !.id = prop.target, !.type = prop.type, !.x = prop.x, !.inputs = prop.inputs,
                               !.expected = None, !.occurred = prop.occurred]
             d == Decided(r.id, to)
             n == Len(log) + 1
             xf == Frame(held.type, held.x, held.id, held.inputs, n)
  <1>1. id \in DOMAIN objects /\ objects[id].type = PROPOSAL /\ ctx = Idle
    BY Zenon DEF DecideProposal, Sent
  <1>2. CASE \E clause : Answer(clause)
    BY <1>2, AnswerLogged
  <1>3. d.row.id = id /\ d.row.version = objects[id].version + 1
    BY <1>1, DecidedRow
  <1>4. d.event.object = id /\ d.event.seq = d.row.version /\ d.event.to = d.row.state
    BY <1>3, DecidedEvent
  <1>5. CASE objects' = Put(objects, d.row) /\ log' = Append(log, d.event) /\ ctx' = ctx
    <2> DEFINE u == Put(objects, d.row)
               e == d.event
    <2>1. DOMAIN u = DOMAIN objects \cup {id} /\ u[id] = d.row /\ \A k \in DOMAIN objects \ {id} : u[k] = objects[k]
      <3> HIDE DEF d, id
      <3> QED BY <1>3 DEF Put
    <2>2. objects' = u /\ log' = Append(log, e) /\ ctx' = Idle
      BY <1>1, <1>5
    <2> HIDE DEF u, d, id
    <2>3. /\ e.object = id /\ e.to = u[id].state /\ e.seq = u[id].version
          /\ u[id].version = (IF id \in DOMAIN objects THEN objects[id].version ELSE 0) + 1
      BY <1>1, <1>3, <1>4, <2>1
    <2> HIDE DEF e
    <2> QED BY <2>1, <2>2, <2>3, MoreLogged
  <1>6. CASE ctx' = Started(held, xf, n, prop.filed, prop.occurred, {d}) /\ log' = log /\ objects' = objects
    <2> DEFINE first == {d}
               filed == prop.filed
               occurred == prop.occurred
    <2>1. ~ xf.begun
      BY DEF Frame
    <2>2. ctx' = Started(held, xf, n, filed, occurred, first)
      BY <1>6
    <2> HIDE DEF first, filed, occurred, held, xf, n, d
    <2> QED BY <1>6, <2>1, <2>2, StartLogged
  <1> QED BY <1>2, <1>5, <1>6, Zenon DEF DecideProposal

\* Each object of the stock is as its creation, its one event, left it.
LEMMA InitLogged ==
  ASSUME Init
  PROVE  VersionsInv
  <1> DEFINE w == [id \in DOMAIN Stock |-> Founded(id)]
             e(id) == Event(id, w[id], Stock[id].x, "", "observed", None, Stock[id].inputs,
                            WroteBetween(Blank(Stock[id].type), w[id].attrs), NotHeld)
             S == Range(log)
  <1>1. objects = w /\ ctx = Idle /\ log = [id \in DOMAIN Stock |-> e(id)]
    BY Zenon DEF Init
  <1>2. \A id \in DOMAIN objects : objects[id].id = id
    BY InitRows DEF RowsInv, Rows
  <1>3. ASSUME NEW id \in DOMAIN Stock PROVE w[id].version = 1
    <2> DEFINE s == Stock[id]
               x == Decl[s.type].trans[s.x]
               o == New(id, s.type, x.to)
               made == [o EXCEPT !.version = 1, !.attrs = Over(@, s.inputs),
                                 !.writes = [a \in DOMAIN @ |-> IF a \in DOMAIN s.inputs THEN id ELSE None]]
               q == RecordSpans(made, EmptyFn, id, 1)
    <2>1. w[id] = q
      BY DEF Founded
    <2>2. DOMAIN o = RowFields
      BY DEF New, RowFields
    <2> HIDE DEF o
    <2>3. DOMAIN made = RowFields /\ made.version = 1
      BY <2>2 DEF RowFields
    <2> HIDE DEF made
    <2>4. q.version = 1
      BY <2>3, RecordedAlike
    <2> HIDE DEF q, w
    <2> QED BY <2>1, <2>4
  <1>4. DOMAIN w = DOMAIN Stock
    OBVIOUS
  <1> HIDE DEF w
  <1>5. ASSUME NEW id \in DOMAIN w PROVE e(id).object = id /\ e(id).seq = 1 /\ e(id).to = w[id].state
    BY <1>1, <1>2, <1>3, <1>4, <1>5 DEF Event
  <1> HIDE DEF e
  <1>6. S = {e(id) : id \in DOMAIN w}
    BY <1>1, <1>4 DEF Range
  <1> HIDE DEF S
  <1>7. \A k \in DOMAIN w : OfObject(S, k) = {e(k)}
    BY <1>5, <1>6 DEF OfObject
  <1>8. ASSUME NEW k \in DOMAIN w
        PROVE  Counts(w[k].version, OfObject(S, k)) /\ Newest(w[k], OfObject(S, k))
    <2>1. w[k].version = 1 /\ OfObject(S, k) = {e(k)} /\ e(k).seq = 1 /\ e(k).to = w[k].state
      BY <1>3, <1>4, <1>5, <1>7
    <2>2. 1..1 = {1}
      OBVIOUS
    <2> QED BY <2>1, <2>2 DEF Counts, Newest
  <1>9. \A f \in S : f.object \in DOMAIN w
    BY <1>5, <1>6
  <1> QED BY <1>1, <1>8, <1>9 DEF VersionsInv, Logged, S

LEMMA VersionsStep ==
  ASSUME RowsInv, LogInv, FilingInv, VersionsInv, [Next]_vars
  PROVE  VersionsInv'
  <1>1. ASSUME NEW r \in Requests, Ask(r) \/ File(r) \/ DecideProposal(r) PROVE VersionsInv'
    BY <1>1, AskLogged, FileLogged, DecideProposalLogged
  <1>2. CASE Begin \/ Leave \/ Conclude \/ Write
    BY <1>2, BeginLogged, LeaveLogged, ConcludeLogged, WriteLogged
  <1>3. CASE Outcome
    BY <1>3, OutcomeLogged
  <1>4. CASE objects' = objects /\ log' = log /\ ctx' = ctx
    <2>1. ctx' = Idle \/ InLog(ctx')
      BY <1>4 DEF VersionsInv, InLog
    <2> QED BY <1>4, <2>1, VersionsStay
  <1>5. CASE Tick \/ Quiet \/ UNCHANGED vars
    BY <1>4, <1>5 DEF Tick, Quiet, vars
  <1> QED BY <1>1, <1>2, <1>3, <1>5 DEF Next, Outcome

\* An object's events are numbered from one to its version, each number once,
\* and the newest left it in the state it is in: a cascade that writes it
\* twice, an erasure that redacts it on another's account and a decision on a
\* proposal each count once, and an approval of a proposal its own request
\* came to touch is refused by the log.
THEOREM VersionsHold == Spec => []VersionsLogged
  <1>1. VersionsInv => VersionsLogged
    <2> SUFFICES ASSUME VersionsInv, NEW id \in DOMAIN objects
                 PROVE  LET o == objects[id] IN
                        /\ o.version > 0
                        /\ {e.seq : e \in Own(id)} = 1..o.version
                        /\ \A e, f \in Own(id) : e.seq = f.seq => e = f
                        /\ \A e \in Own(id) : e.seq = o.version => e.to = o.state
      BY DEF VersionsLogged
    <2>1. Own(id) = OfObject(Range(log), id)
      BY DEF Own, OfObject, Range
    <2>2. Counts(objects[id].version, Own(id)) /\ Newest(objects[id], Own(id))
      BY <2>1 DEF VersionsInv, Logged
    <2> QED BY <2>2 DEF Counts, Newest
  <1>2. Init => RowsInv /\ LogInv /\ FilingInv /\ VersionsInv
    BY InitRows, InitCounts, InitFiles, InitLogged
  <1>3. RowsInv /\ LogInv /\ FilingInv /\ VersionsInv /\ [Next]_vars => RowsInv' /\ LogInv' /\ FilingInv' /\ VersionsInv'
    BY RowsStep, LogStep, FilingStep, VersionsStep
  <1> QED BY <1>1, <1>2, <1>3, PTL DEF Spec

=============================================================================
