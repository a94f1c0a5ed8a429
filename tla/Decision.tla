------------------------------ MODULE Decision ------------------------------
(***************************************************************************)
(* A request decided against the installed declarations (request.rs): its  *)
(* actor and target, the transition it takes and every one that causes,    *)
(* depth first, their checks, guards and writes on a working copy, the     *)
(* invariants the writes could break, and the change the store records.    *)
(* The writer holds one request at a time, so a decision interleaves with  *)
(* nothing; what can go wrong is the order of its steps and what one       *)
(* request leaves for the next.  The call stack of `take` is the sequence  *)
(* ctx.frames, the innermost transition last, and an action is a step of   *)
(* the innermost one.                                                      *)
(*                                                                         *)
(* Values are numbers: 0 is the absent value, an object's id is its place  *)
(* in creation order, anything greater a text.                             *)
(***************************************************************************)
EXTENDS Integers, Sequences, FiniteSets, Functions

CONSTANTS
  Decl,       \* the installed declarations: each type's record
  Stock,      \* the objects the store holds at the start, by id
  Ids,        \* the ids objects may have, an interval from 1
  Requests,   \* the requests callers send
  MaxEvents,  \* requests are sent while the log is shorter than this
  MaxNow      \* the clock stops here

Absent == 0
None == 0
PROPOSAL == "Proposal"

\* The most transitions one request takes, each caused by the one before.
CALL_DEPTH == 64

VARIABLES
  objects,  \* the rows of the store, by id
  log,      \* of_event, an event's position its index
  now,      \* the store's clock
  ctx,      \* the request being decided: its working copy and its frames
  verdict   \* what the last request was answered

vars == <<objects, log, now, ctx, verdict>>

----------------------------------------------------------------------------
(* The declarations, as the model of a library holds them.                 *)

TypeOf(o) == Decl[o.type]
StateOf(o) == TypeOf(o).states[o.state]
Attrs(t) == DOMAIN Decl[t].attrs
Personal(t) == {a \in Attrs(t) : Decl[t].attrs[a].personal}
Tracked(t) == {a \in Attrs(t) : Decl[t].attrs[a].tracked}
Dims(t) == {"state"} \cup Tracked(t)
Takes(x) == x.required \cup x.optional \cup x.other

\* input_type: the type an input names an object of, "" where it names none:
\* its own declaration's, or the attribute's it writes.
InputRef(t, x, n) == IF n \in DOMAIN x.refs THEN x.refs[n]
                     ELSE IF n \in Attrs(t) THEN Decl[t].attrs[n].ref ELSE ""

Blank(t) == [a \in Attrs(t) |-> Absent]
NoSpans(t) == [d \in Dims(t) |-> <<>>]
EmptyFn == [k \in {} |-> Absent]

ToSeq(S) == CHOOSE s \in [1..Cardinality(S) -> S] :
              \A i, j \in 1..Cardinality(S) : i < j => s[i] < s[j]
Last(s) == s[Len(s)]
Front(s) == SubSeq(s, 1, Len(s) - 1)
Over(f, g) == [k \in DOMAIN f \cup DOMAIN g |-> IF k \in DOMAIN g THEN g[k] ELSE f[k]]

----------------------------------------------------------------------------
(* Three-valued rules.  A rule is a set of clauses, all of which must be   *)
(* true, each a set of atoms, one of which must be.  What reads an absent  *)
(* value is unknown: a guard then refuses, and an invariant holds.         *)

\* binary's `and` and `or`: the value that decides wins over unknown.
And(S) == IF "false" \in S THEN "false" ELSE IF "unknown" \in S THEN "unknown" ELSE "true"
Or(S) == IF "true" \in S THEN "true" ELSE IF "unknown" \in S THEN "unknown" ELSE "false"

Said(b) == IF b THEN "true" ELSE "false"

Parts(w, t, by, id) == {p \in DOMAIN w : w[p].type = t /\ w[p].attrs[by] = id}

Atom(w, id, inputs, a) ==
  LET o == w[id] IN
  CASE a.op = "state" -> Said(o.state \in a.in)
    [] a.op = "given" -> Said(a.name \in DOMAIN inputs)
    [] a.op = "present" -> Said(o.attrs[a.name] # Absent)
    [] a.op = "parts" -> Said(Cardinality(Parts(w, a.type, a.by, id)) >= a.least)
    [] a.op = "through" -> IF o.attrs[a.by] = Absent THEN "unknown"
                           ELSE Said(w[o.attrs[a.by]].state \in a.in)

Truth(w, id, inputs, rule) ==
  And({Or({Atom(w, id, inputs, a) : a \in clause}) : clause \in rule})

----------------------------------------------------------------------------
(* The actor, and what is decided before a transition is taken.            *)

\* resolve_actor and active: the object of the name, where its type marks
\* an actor's identity that it holds, and its state is one it acts in.
Who(actor) ==
  IF ~ (actor \in DOMAIN objects) THEN "actor_known"
  ELSE LET o == objects[actor]
           a == TypeOf(o).identity IN
       IF a = "" \/ (a # "" /\ o.attrs[a] = Absent) THEN "actor_known"
       ELSE IF ~ StateOf(o).acts THEN "actor_active"
       ELSE "ok"

\* takes_from, an assertion's any state but a final one, an erasure's any.
TakesFrom(t, x, state) ==
  CASE x.kind = "erasure" -> TRUE
    [] x.kind = "assertion" -> ~ Decl[t].states[state].final
    [] x.any -> /\ ~ Decl[t].states[state].final
                /\ ~ (x.kind = "external" /\ x.to = state)
    [] OTHER -> state \in x.from

Stale(r) == r.expected # None /\ r.id # None /\ objects[r.id].version # r.expected

\* decide_or_stop up to `take`, in its order.
Asked(r) ==
  LET known == r.type \in DOMAIN Decl /\ r.x \in DOMAIN Decl[r.type].trans
      x == Decl[r.type].trans[r.x] IN
  CASE Who(r.actor) # "ok" -> Who(r.actor)
    [] r.id # None /\ ~ (r.id \in DOMAIN objects) -> "not_found"
    [] r.id # None /\ objects[r.id].type # r.type -> "not_found"
    [] ~ known -> "unknown_transition"
    [] (x.kind = "initial") # (r.id = None) -> "unknown_transition"
    [] Stale(r) -> "stale"
    [] x.via # {} -> "not_requestable"
    [] r.id # None /\ ~ TakesFrom(r.type, x, objects[r.id].state) -> "unavailable"
    [] ~ (DOMAIN r.inputs \subseteq Takes(x)) -> "invalid_input"
    [] OTHER -> "ok"

----------------------------------------------------------------------------
(* A frame: one transition being taken, the requested one or one it        *)
(* causes.  Its checks are those flow-format.md orders before the outcome. *)

Frame(t, xn, id, inputs, cause) ==
  [type |-> t, x |-> xn, id |-> id, inputs |-> inputs, cause |-> cause, begun |-> FALSE,
   pos |-> None, from |-> "", was |-> EmptyFn, attrs |-> EmptyFn, todo |-> <<>>]

Top == Last(ctx.frames)
Depth == Len(ctx.frames) - 1
X(f) == Decl[f.type].trans[f.x]
Given(f) == DOMAIN f.inputs

\* take: only_via holds through a call, a creation and a cascade.
OnlyVia(f) ==
  \/ Depth = 0
  \/ X(f).via = {}
  \/ LET caller == ctx.frames[Depth] IN <<caller.type, caller.x>> \in X(f).via

\* A caused transition is one its object's state allows, of inputs it takes.
Caused(f) ==
  \/ Depth = 0
  \/ /\ f.id # None => TakesFrom(f.type, X(f), ctx.work[f.id].state)
     /\ Given(f) \subseteq Takes(X(f))

\* What is missing where it is left out; a required attribute that may be
\* absent is asked for later, by `Provided`.
Needed(t, x) == x.other \cup {k \in x.required : ~ Decl[t].attrs[k].optional}

\* A reference names an object of its type, and nothing needed is left out.
\* The slip: any object's id is taken for a reference.
InputsFitById(f) ==
  /\ \A k \in Given(f) : InputRef(f.type, X(f), k) # "" => f.inputs[k] \in DOMAIN ctx.work
  /\ Needed(f.type, X(f)) \subseteq Given(f)

RefersIn(w, t, x, inputs) ==
  \A k \in DOMAIN inputs : InputRef(t, x, k) # "" =>
    inputs[k] \in DOMAIN w /\ w[inputs[k]].type = InputRef(t, x, k)

InputsFit(f) ==
  /\ RefersIn(ctx.work, f.type, X(f), f.inputs)
  /\ Needed(f.type, X(f)) \subseteq Given(f)

\* An assertion's state is one it lists and not the one the object is in,
\* and it admits only what it may.
AssertionFits(f) ==
  X(f).kind = "assertion" =>
    /\ ctx.to \in X(f).asserts
    /\ ctx.to # ctx.work[f.id].state
    /\ ctx.admits \subseteq X(f).mayAdmit

\* The occurred time is within the requested transition's bound, measured
\* from the filing where a proposal is approved, and precedes no current
\* interval of what the transition changes.
OccurredWithin(f) ==
  LET base == IF ctx.filed # None THEN ctx.filed ELSE now
      changing == {m \in Tracked(f.type) \cap Given(f) :
                     f.inputs[m] # ctx.work[f.id].attrs[m]}
                  \cup (IF X(f).kind \in {"external", "assertion"} THEN {"state"} ELSE {}) IN
  /\ Depth = 0 /\ ctx.occurred # None =>
       /\ X(f).limit # None
       /\ base - X(f).limit <= ctx.occurred
       /\ ctx.occurred <= base
  /\ f.id # None =>
       \A m \in changing :
         LET spans == ctx.work[f.id].spans[m] IN
         spans # <<>> => ctx.at >= Last(spans).at

Finished(w, id) == id \in DOMAIN w /\ StateOf(w[id]).final

\* whole_open: a part is not moved into a whole that is finished.
WholeOpen(f) ==
  f.id # None =>
    \A k \in Given(f) \cap (X(f).required \cup X(f).optional) :
      /\ Decl[f.type].attrs[k].whole
      /\ ctx.work[f.id].attrs[k] # f.inputs[k]
      => ~ Finished(ctx.work, f.inputs[k])

Assigns(x) == {x.effect[i].at : i \in {j \in DOMAIN x.effect : x.effect[j].op = "assign"}}

\* not_erased: an erased object's personal attributes are not written again.
NotErased(f) ==
  (X(f).kind # "erasure" /\ f.id # None) =>
    (ctx.work[f.id].erased =>
       Personal(f.type) \cap ((Given(f) \cap (X(f).required \cup X(f).optional)) \cup Assigns(X(f))) = {})

\* successor_not_superseded: no supersession chain closes on itself.
\* The slip: a successor that is itself superseded is accepted.
SuccessorOther(f) ==
  \A i \in DOMAIN X(f).effect :
    LET st == X(f).effect[i] IN
    st.op = "supersede" /\ st.input \in Given(f) => f.inputs[st.input] # f.id

SuccessorOpen(f) ==
  \A i \in DOMAIN X(f).effect :
    LET st == X(f).effect[i] IN
    st.op = "supersede" /\ st.input \in Given(f) =>
      /\ f.inputs[st.input] # f.id
      /\ ~ (f.inputs[st.input] \in DOMAIN ctx.work
            /\ StateOf(ctx.work[f.inputs[st.input]]).superseding)

Provided(f) == X(f).required \subseteq Given(f)

\* The guards it denies by, each true on the working copy; one that only
\* warns or audits refuses nothing.
GuardsHold(f) ==
  \A g \in X(f).guards :
    g.mode = "deny" => Truth(ctx.work, f.id, f.inputs, g.rule) = "true"

Checked(f) ==
  CASE ~ OnlyVia(f) -> "not_requestable"
    [] Depth > CALL_DEPTH -> "not_run"
    [] (X(f).kind = "initial") # (f.id = None) -> "unknown_transition"
    [] X(f).kind = "assertion" /\ Depth > 0 -> "not_run"
    [] ~ Caused(f) -> "unavailable"
    [] ~ InputsFit(f) -> "invalid_input"
    [] ~ AssertionFits(f) -> "invalid_input"
    [] ~ OccurredWithin(f) -> "occurred_within"
    [] ~ WholeOpen(f) -> "whole_open"
    [] ~ NotErased(f) -> "not_erased"
    [] ~ SuccessorOpen(f) -> "successor_not_superseded"
    [] ~ Provided(f) -> "provided"
    [] ~ GuardsHold(f) -> "unsatisfied"
    [] OTHER -> "ok"

----------------------------------------------------------------------------
(* The request being decided, and the events known to it: those of the log *)
(* and its own, which a position names before they are recorded.           *)

Idle == [phase |-> "idle"]

\* decide_or_stop's Ctx: `work` is the working copy and the store's rows are
\* its `before`; `first` is the approval's event and the proposal it decides,
\* which the working copy does not show.
Started(r, frame, cause, filed, occurred, first) ==
  [phase |-> "take", work |-> objects, events |-> {}, next |-> Len(log) + 1 + Cardinality(first),
   frames |-> <<frame>>, root |-> cause, occurred |-> occurred, filed |-> filed,
   at |-> IF occurred = None THEN now ELSE occurred,
   to |-> r.to, admits |-> r.admits, asserted |-> None, last |-> EmptyFn, wrote |-> EmptyFn, group |-> FALSE,
   erased |-> EmptyFn, redIn |-> {}, redWr |-> {}, first |-> first]

Known == {log[p] : p \in DOMAIN log} \cup ctx.events

\* Written objects since the request began, and an object's attributes as
\* its last event in the request left them.
Base(c, id) == IF id \in DOMAIN c.last THEN c.last[id]
               ELSE IF id \in DOMAIN objects THEN objects[id].attrs
               ELSE Blank(c.work[id].type)

\* wrote_between: each attribute whose value differs, with its value after.
\* The slip: one that is cleared is left out.
WroteValues(was, is) == [a \in {b \in DOMAIN is : was[b] # is[b] /\ is[b] # Absent} |-> is[a]]

WroteBetween(was, is) == [a \in {b \in DOMAIN is : was[b] # is[b]} |-> is[a]]

Event(p, o, x, from, source, cause, inputs, wrote, held) ==
  [pos |-> p, object |-> o.id, seq |-> o.version, x |-> x, type |-> o.type,
   from |-> from, to |-> o.state, source |-> source, cause |-> cause,
   inputs |-> inputs, wrote |-> wrote, held |-> held]

NotHeld == [set |-> FALSE, val |-> EmptyFn]
Held(val) == [set |-> TRUE, val |-> val]

Put(w, o) == [k \in DOMAIN w \cup {o.id} |-> IF k = o.id THEN o ELSE w[k]]
Marked(f, id, names) ==
  [k \in DOMAIN f \cup {id} |->
     (IF k \in DOMAIN f THEN f[k] ELSE {}) \cup (IF k = id THEN names ELSE {})]

----------------------------------------------------------------------------
(* The interval index.                                                     *)

Value(o, d) == IF d = "state" THEN o.state ELSE o.attrs[d]

Changed(o, was) == {d \in DOMAIN o.spans : o.spans[d] = <<>> \/ was[d] # Value(o, d)}

\* record_spans' refusal: a change would precede the interval it ends.
Precedes(o, was, at) ==
  \E d \in Changed(o, was) : o.spans[d] # <<>> /\ at < Last(o.spans[d]).at

Ended(spans, p, at) ==
  IF spans = <<>> THEN spans
  ELSE [spans EXCEPT ![Len(spans)].left = p, ![Len(spans)].leftAt = at]

\* record_spans: one span for each value changed, ending the current one.
RecordSpans(o, was, p, at) ==
  [o EXCEPT !.spans = [d \in DOMAIN o.spans |->
     IF ~ (d \in Changed(o, was)) THEN o.spans[d]
     ELSE Append(Ended(o.spans[d], p, at),
                 [value |-> Value(o, d), pos |-> p, at |-> at, left |-> None, leftAt |-> None])]]

\* Where the change is refused and nobody asks: the spans stay as they are.
Spanned(o, was, p, at) == IF Precedes(o, was, at) THEN o ELSE RecordSpans(o, was, p, at)

\* correct_span: the current interval relabelled, opening none, and merged
\* with the one before it where their values are then equal.
\* The slip: the interval before is kept as it ended.
CorrectSpanUnmerged(spans, v) == [spans EXCEPT ![Len(spans)].value = v]

CorrectSpan(spans, v) ==
  LET n == Len(spans) IN
  IF n > 1 /\ spans[n - 1].value = v
  THEN [Front(spans) EXCEPT ![n - 1].left = None, ![n - 1].leftAt = None]
  ELSE [spans EXCEPT ![n].value = v]

----------------------------------------------------------------------------
(* What an expression of the flow reads: an input, an attribute, the       *)
(* object itself.                                                          *)

Val(f, e) ==
  CASE e.k = "input" -> IF e.n \in Given(f) THEN f.inputs[e.n] ELSE Absent
    [] e.k = "attr" -> ctx.work[f.id].attrs[e.n]
    [] e.k = "this" -> f.id

\* arguments: an absent value is not passed.
Arguments(f, args) == [k \in {a \in DOMAIN args : Val(f, args[a]) # Absent} |-> Val(f, args[k])]

----------------------------------------------------------------------------
(* What an erasure reaches: the values its object holds, what its events   *)
(* recorded, what flowed from them into other objects and from whom it     *)
(* came.  A step that takes a transition is read by the inputs it maps.    *)

Taking(st) == st.op \in {"call", "each", "create"}

\* steps_taking, for the transition an event records.
StepsTaking(x, e) ==
  UNION {{<<n, x.effect[i].args[n]>> : n \in DOMAIN x.effect[i].args} :
         i \in {j \in DOMAIN x.effect :
                  /\ Taking(x.effect[j])
                  /\ x.effect[j].x = e.x
                  /\ x.effect[j].op = "create" => x.effect[j].type = e.type}}

Reads(expr, n) == expr.k = "input" /\ expr.n = n
Carries(expr, in, held) == \/ expr.k = "input" /\ expr.n \in in
                           \/ expr.k = "attr" /\ expr.n \in held

AttributesWritten(x, n) ==
  ({n} \cap (x.required \cup x.optional))
  \cup {x.effect[i].at : i \in {j \in DOMAIN x.effect :
                                  x.effect[j].op = "assign" /\ Reads(x.effect[j].expr, n)}}

\* personal_by_own: marked, or assigned to a personal attribute.
PersonalByOwn(t, x, n) ==
  \/ n \in x.marked
  \/ \E i \in DOMAIN x.effect : /\ x.effect[i].op = "assign"
                                /\ Reads(x.effect[i].expr, n)
                                /\ x.effect[i].at \in Personal(t)

\* input_personal: or passed on into what the transition taken holds personal.
InputPersonal(t, x, n) ==
  \/ PersonalByOwn(t, x, n)
  \/ \E i \in {j \in DOMAIN x.effect : Taking(x.effect[j])}, u \in DOMAIN Decl :
       LET st == x.effect[i] IN
       /\ st.x \in DOMAIN Decl[u].trans
       /\ st.op = "create" => st.type = u
       /\ \E k \in DOMAIN st.args :
            /\ Reads(st.args[k], n)
            /\ k \in Personal(u) \/ PersonalByOwn(u, Decl[u].trans[st.x], k)

Positions == {e.pos : e \in Known}
EventAt(p) == CHOOSE e \in Known : e.pos = p
Declared(e) == e.type \in DOMAIN Decl /\ e.x \in DOMAIN Decl[e.type].trans
Rule(e) == Decl[e.type].trans[e.x]

\* The inputs of an erased object's event that hold what is personal to it.
Tainted(e) == {n \in DOMAIN e.inputs : PersonalByOwn(e.type, Rule(e), n) \/ n \in Personal(e.type)}

\* The slip: what it caused on other objects is not followed.
FlowedNowhere(e) ==
  [p \in Positions |-> IF p = e.pos THEN [in |-> Tainted(e), held |-> Personal(e.type)]
                       ELSE [in |-> {}, held |-> {}]]

\* walk_down: from event e, at each event it caused on another object, the
\* inputs that carry the value and the personal attributes they write.
Flowed(e) ==
  LET none == [in |-> {}, held |-> {}]
      flow[p \in Positions] ==
        IF p = e.pos THEN [in |-> Tainted(e), held |-> Personal(e.type)]
        ELSE LET f == EventAt(p) IN
          IF ~ (f.cause \in Positions /\ Declared(f)) THEN none
          ELSE LET g == EventAt(f.cause)
                   above == flow[f.cause] IN
            IF f.object = g.object \/ ~ Declared(g) THEN none
            ELSE LET passed == {s[1] : s \in {t \in StepsTaking(Rule(g), f) :
                                                Carries(t[2], above.in, above.held)}} IN
                 [in |-> passed,
                  held |-> Personal(f.type) \cap (UNION {AttributesWritten(Rule(f), n) : n \in passed})]
  IN flow

\* caller_taint: up the causes, each caller's inputs passed into what is tainted.
Callers(e) ==
  LET up[k \in 0..Cardinality(Known)] ==
        IF k = 0 THEN [event |-> e, names |-> Tainted(e)]
        ELSE LET c == up[k - 1] IN
          IF c.names = {} \/ ~ (c.event.cause \in Positions) THEN [c EXCEPT !.names = {}]
          ELSE LET caller == EventAt(c.event.cause) IN
            IF ~ Declared(caller) THEN [c EXCEPT !.names = {}]
            ELSE [event |-> caller,
                  names |-> {m \in DOMAIN caller.inputs :
                               \E s \in StepsTaking(Rule(caller), c.event) :
                                 s[1] \in c.names /\ Reads(s[2], m)}]
  IN {up[k] : k \in 1..Cardinality(Known)}

\* The erasure of object id as its own events tell it: inputs and writes to
\* null in the log, and values to clear on the objects they flowed into.
Reached(id, gone) ==
  LET own == {e \in Known : e.object = id}
      declared == {e \in own : Declared(e)}
      below(e) == {p \in Positions \ {e.pos} : Flowed(e)[p].in # {}} IN
  [in |-> UNION {{<<e.pos, n>> : n \in {m \in DOMAIN e.inputs :
                    m \in Tainted(e) \/ InputPersonal(e.type, Rule(e), m)}}
                 \cup (UNION {{<<p, n>> : n \in Flowed(e)[p].in \cap DOMAIN EventAt(p).inputs} : p \in below(e)})
                 \cup (UNION {{<<c.event.pos, n>> : n \in c.names} : c \in Callers(e)}) : e \in declared},
   wr |-> (UNION {{<<e.pos, a>> : a \in {b \in DOMAIN e.wrote :
                    e.wrote[b] # Absent /\ ~ (b \in gone) /\ b \in Personal(e.type)}} : e \in own})
          \cup (UNION {UNION {{<<p, a>> : a \in {b \in Flowed(e)[p].held :
                    b \in DOMAIN EventAt(p).wrote /\ EventAt(p).wrote[b] # Absent}} : p \in below(e)} : e \in declared}),
   clear |-> UNION {UNION {{<<EventAt(p).object, a, p>> : a \in {b \in Flowed(e)[p].held :
                    ctx.work[EventAt(p).object].writes[b] = p}} : p \in below(e)} : e \in declared}]

\* redact_others: a `redact` event on every other object whose value it
\* redacted; one this request erases has its erasure's own.
RedactOthers(c, id, p, reached) ==
  LET named == {EventAt(r[1]).object : r \in reached.in} \cup {r[1] : r \in reached.clear}
      ids == {k \in DOMAIN c.work \ {id} : k \in named /\ ~ (c.work[k].erased /\ k \in DOMAIN c.erased)}
      place == ToSeq(ids)
      gone(k) == IF c.work[k].erased THEN {} ELSE {r \in reached.clear : r[1] = k}
      left(k) == LET o == c.work[k] IN
        [o EXCEPT !.version = @ + 1,
           !.attrs = [a \in DOMAIN @ |-> IF \E r \in gone(k) : r[2] = a THEN Absent ELSE @[a]],
           !.spans = [d \in DOMAIN @ |-> [i \in DOMAIN @[d] |->
                        IF <<k, d, @[d][i].pos>> \in gone(k)
                        THEN [@[d][i] EXCEPT !.value = Absent] ELSE @[d][i]]]]
      event(i) == LET o == left(place[i]) IN
        Event(c.next + i - 1, o, "redact", o.state, "erased", p, EmptyFn,
              WroteBetween(Base(c, o.id), o.attrs), NotHeld) IN
  [c EXCEPT !.work = [k \in DOMAIN @ |-> IF k \in ids THEN left(k) ELSE @[k]],
            !.events = @ \cup {event(i) : i \in DOMAIN place},
            !.next = @ + Len(place),
            !.last = Over(@, [k \in ids |-> left(k).attrs]),
            !.redIn = @ \cup reached.in,
            !.redWr = @ \cup reached.wr \cup (UNION {{<<r[3], r[2]>> : r \in gone(k)} : k \in ids})]

\* invalidate_proposals: the pending ones on it, their inputs emptied, and
\* what is personal to its transition in the inputs of the decided ones.
InvalidateProposals(c, id, p) ==
  LET on == {k \in DOMAIN c.work : c.work[k].type = PROPOSAL /\ c.work[k].prop.target = id}
      pending == {k \in on : c.work[k].state = "PENDING"}
      personal(k) == LET q == c.work[k].prop IN
        {n \in DOMAIN q.inputs : PersonalByOwn(q.type, Decl[q.type].trans[q.x], n)}
      decided == {k \in on \ pending : personal(k) # {}}
      place == ToSeq(pending) \o ToSeq(decided)
      at(k) == c.next + (CHOOSE i \in DOMAIN place : place[i] = k) - 1
      kept(k) == IF k \in pending THEN EmptyFn
                 ELSE [n \in DOMAIN c.work[k].prop.inputs \ personal(k) |-> c.work[k].prop.inputs[n]]
      state(k) == IF k \in pending THEN "INVALIDATED" ELSE c.work[k].state
      left(k) == LET o == c.work[k] IN
        Spanned([o EXCEPT !.version = @ + 1, !.state = state(k), !.prop.inputs = kept(k)],
                [d \in {"state"} |-> o.state], at(k), c.at)
      names(k) == {"inputs"} \cup (IF k \in pending THEN DOMAIN c.work[k].prop.inputs ELSE personal(k)) IN
  [c EXCEPT !.work = [k \in DOMAIN @ |-> IF k \in pending \cup decided THEN left(k) ELSE @[k]],
            !.events = @ \cup {Event(at(k), left(k), IF k \in pending THEN "invalidate" ELSE "redact",
                                     c.work[k].state, "erased", p, EmptyFn, EmptyFn, Held(kept(k))) :
                               k \in pending \cup decided},
            !.next = @ + Len(place),
            !.erased = [k \in DOMAIN @ \cup pending \cup decided |->
                          (IF k \in DOMAIN @ THEN @[k] ELSE {})
                          \cup (IF k \in pending \cup decided THEN names(k) ELSE {})]]

----------------------------------------------------------------------------
(* Taking a transition: its checks, then the object as its inputs leave    *)
(* it, then its effect a step at a time, its cascades and, for an erasure, *)
(* its group, and last its event.                                          *)

NoProp == [target |-> None]

New(id, t, state) ==
  [id |-> id, type |-> t, state |-> state, version |-> 0, attrs |-> Blank(t),
   spans |-> NoSpans(t), erased |-> FALSE, next |-> None, admitted |-> {},
   writes |-> Blank(t), prop |-> NoProp]

Tracks(o) == [d \in DOMAIN o.spans |-> Value(o, d)]

Refuse(clause) == ctx' = Idle /\ verdict' = clause

\* An erasure's own part of the outcome: its personal values absent, here and
\* in the interval index, and what its walks reach.
Erased(c, o, p) ==
  LET gone == {a \in Personal(o.type) : o.attrs[a] # Absent}
      reached == Reached(o.id, gone)
      bare == [o EXCEPT !.erased = TRUE,
                 !.attrs = [a \in DOMAIN @ |-> IF a \in gone THEN Absent ELSE @[a]],
                 !.spans = [d \in DOMAIN @ |-> IF ~ (d \in Personal(o.type)) THEN @[d]
                              ELSE [i \in DOMAIN @[d] |-> [@[d][i] EXCEPT !.value = Absent]]]]
      others == RedactOthers(c, o.id, p, reached)
      marked == [others EXCEPT !.erased = Marked(@, o.id, gone)] IN
  [InvalidateProposals(marked, o.id, p) EXCEPT !.work = Put(@, bare)]

\* What a begun transition has still to do.
Remaining(t, xn) ==
  LET x == Decl[t].trans[xn]
      clauses == Decl[t].cascade IN
  x.effect \o [i \in DOMAIN clauses |-> [op |-> "cascade", clause |-> clauses[i]]]
  \o <<[op |-> "settle"]>>
  \o (IF x.kind = "erasure" THEN <<[op |-> "chain"]>> ELSE <<>>)

\* take_unwound up to its effect.
Begin ==
  /\ ctx.phase = "take" /\ ctx.frames # <<>> /\ ~ Top.begun
  /\ UNCHANGED <<objects, log, now>>
  /\ LET f == Top
         x == X(f)
         p == ctx.next
         found == IF f.id # None THEN ctx.work[f.id]
                  ELSE New(Cardinality(DOMAIN ctx.work) + 1, f.type, x.to)
         c == [ctx EXCEPT !.next = @ + 1, !.work = Put(@, found),
                          !.asserted = IF x.kind = "assertion" THEN f.id ELSE @]
         d == IF x.kind = "erasure" THEN Erased(c, found, p) ELSE c
         takes == Given(f) \cap (x.required \cup x.optional)
         o == [d.work[found.id] EXCEPT
                 !.state = CASE x.kind = "external" -> x.to
                             [] x.kind = "assertion" -> ctx.to
                             [] OTHER -> @,
                 !.attrs = [a \in DOMAIN @ |-> IF a \in takes THEN f.inputs[a] ELSE @[a]]]
         g == [f EXCEPT !.begun = TRUE, !.id = o.id, !.pos = p,
                        !.from = IF f.id = None THEN "" ELSE found.state,
                        !.was = Tracks(found), !.attrs = found.attrs,
                        !.todo = Remaining(f.type, f.x)] IN
     IF Checked(f) # "ok" THEN Refuse(Checked(f))
     ELSE /\ ctx' = [d EXCEPT !.work = Put(@, o),
                              !.wrote = Over(@, [k \in {o.id} |-> takes]),
                              !.frames = Append(Front(@), g)]
          /\ UNCHANGED verdict

\* A step of the innermost transition's outcome.
Doing(op) == /\ ctx.phase = "take" /\ ctx.frames # <<>>
             /\ Top.begun /\ Top.todo # <<>> /\ Head(Top.todo).op = op
             /\ UNCHANGED <<objects, log, now>>

Rest(frames) == Append(Front(frames), [Last(frames) EXCEPT !.todo = Tail(@)])

Go(c) == ctx' = [c EXCEPT !.frames = Rest(@)] /\ UNCHANGED verdict

Location(c, id, a, v) ==
  [c EXCEPT !.work[id].attrs[a] = v, !.wrote = Marked(@, id, {a})]

\* An unsupplied input assigns nothing; an absent value clears an optional
\* attribute and refuses the request on another.
Assign ==
  /\ Doing("assign")
  /\ LET st == Head(Top.todo)
         v == Val(Top, st.expr) IN
     IF st.expr.k = "input" /\ ~ (st.expr.n \in Given(Top)) THEN Go(ctx)
     ELSE IF v = Absent /\ ~ Decl[Top.type].attrs[st.at].optional THEN Refuse("value_in_range")
     ELSE Go(Location(ctx, Top.id, st.at, v))

Clear == Doing("clear") /\ Go(Location(ctx, Top.id, Head(Top.todo).at, Absent))

\* The slip: a successor bound counts as a write of its own.
SupersedeCounts ==
  /\ Doing("supersede")
  /\ Go([ctx EXCEPT !.work[Top.id].next = Top.inputs[Head(Top.todo).input],
                    !.work[Top.id].version = @ + 1])

Supersede ==
  /\ Doing("supersede")
  /\ Go([ctx EXCEPT !.work[Top.id].next = Top.inputs[Head(Top.todo).input]])

\* A transition caused: the frame of what is taken above the rest of this one.
Cause(frame) ==
  /\ ctx' = [ctx EXCEPT !.frames = Append(Rest(@), frame)]
  /\ UNCHANGED verdict

\* A call through an absent end reaches nothing.
Call ==
  /\ Doing("call")
  /\ LET st == Head(Top.todo)
         id == IF st.target.k = "id" THEN st.target.n ELSE Val(Top, st.target) IN
     IF id = Absent THEN Go(ctx)
     ELSE Cause(Frame(ctx.work[id].type, st.x, id, Arguments(Top, st.args), Top.pos))

Create ==
  /\ Doing("create")
  /\ LET st == Head(Top.todo) IN
     Cause(Frame(st.type, st.x, None, Arguments(Top, st.args), Top.pos))

\* The parts a loop runs over, and those a cascade drives, as they are when it
\* is reached, in ascending id order: each a call.
Calls(ids, xn, args) ==
  [i \in 1..Cardinality(ids) |->
     [op |-> "call", target |-> [k |-> "id", n |-> ToSeq(ids)[i]], x |-> xn, args |-> args]]

Each ==
  /\ Doing("each")
  /\ LET st == Head(Top.todo)
         calls == Calls(Parts(ctx.work, st.type, st.by, Top.id), st.x, st.args) IN
     /\ ctx' = [ctx EXCEPT !.frames = Append(Front(@), [Top EXCEPT !.todo = calls \o Tail(@)])]
     /\ UNCHANGED verdict

\* A clause drives the open parts where it is on this transition.
Cascade ==
  /\ Doing("cascade")
  /\ LET cl == Head(Top.todo).clause
         open == {p \in Parts(ctx.work, cl.type, cl.by, Top.id) :
                    Top.x \in cl.on /\ ~ Finished(ctx.work, p)} IN
     /\ ctx' = [ctx EXCEPT !.frames = Append(Front(@), [Top EXCEPT !.todo = Calls(open, cl.x, cl.args) \o Tail(@)])]
     /\ UNCHANGED verdict

\* whole_open and identity_unchanged, as the effect left the object.
Settle ==
  /\ Doing("settle")
  /\ LET o == ctx.work[Top.id]
         old == IF Top.id \in DOMAIN objects THEN objects[Top.id].attrs ELSE Blank(Top.type)
         wholes == {a \in Attrs(Top.type) : /\ Decl[Top.type].attrs[a].whole
                                            /\ o.attrs[a] # Absent
                                            /\ o.attrs[a] # old[a]}
         named == TypeOf(o).identity IN
     IF \E a \in wholes : Finished(objects, o.attrs[a]) THEN Refuse("whole_open")
     ELSE IF /\ X(Top).kind # "erasure" /\ named # "" /\ Top.id \in DOMAIN objects
             /\ o.attrs[named] # old[named]
          THEN Refuse("identity_unchanged")
     ELSE Go(ctx)

\* A set a chain does not lead out of, and one no chain leads into.
Ahead(w, S) == \A k \in S : w[k].next \in S \cup {None}
Behind(w, S) == \A k \in DOMAIN w : w[k].next \in S => k \in S

\* erase_chain: every object whose supersession chain joins this one's, the
\* least set that holds it and no chain crosses.
\* The slip: those its own chain leads to alone.
GroupAhead(w, id) ==
  {k \in DOMAIN w : \A S \in SUBSET DOMAIN w : id \in S /\ Ahead(w, S) => k \in S}

Group(w, id) ==
  {k \in DOMAIN w : \A S \in SUBSET DOMAIN w : id \in S /\ Ahead(w, S) /\ Behind(w, S) => k \in S}

Chain ==
  /\ Doing("chain")
  /\ LET ids == ToSeq(Group(ctx.work, Top.id) \ {Top.id})
         members == [i \in DOMAIN ids |-> [op |-> "member", id |-> ids[i]]] IN
     IF ctx.group THEN Go(ctx)
     ELSE /\ ctx' = [ctx EXCEPT !.group = TRUE,
                       !.frames = Append(Front(@), [Top EXCEPT !.todo = members \o <<[op |-> "ungroup"]>>])]
          /\ UNCHANGED verdict

Erasures(t) == {xn \in DOMAIN Decl[t].trans : Decl[t].trans[xn].kind = "erasure"}

\* A member is erased once in a request, and passed over where its type
\* declares no erasure; it takes the inputs its erasure names.
Member ==
  /\ Doing("member")
  /\ LET id == Head(Top.todo).id
         t == ctx.work[id].type
         xn == CHOOSE x \in Erasures(t) : TRUE
         given == Given(Top) \cap Decl[t].trans[xn].other IN
     IF (ctx.work[id].erased /\ id \in DOMAIN ctx.erased) \/ Erasures(t) = {} THEN Go(ctx)
     ELSE Cause(Frame(t, xn, id, [k \in given |-> Top.inputs[k]], Top.pos))

Ungroup == Doing("ungroup") /\ Go([ctx EXCEPT !.group = FALSE])

\* The end of take_unwound: the corrections, the spans, the version, what was
\* written, and the event.
Leave ==
  /\ ctx.phase = "take" /\ ctx.frames # <<>> /\ Top.begun /\ Top.todo = <<>>
  /\ UNCHANGED <<objects, log, now>>
  /\ LET f == Top
         x == X(f)
         held == ctx.work[f.id]
         fixes == {m \in x.corrects : /\ m \in Tracked(f.type) /\ held.attrs[m] # f.attrs[m]
                                      /\ held.spans[m] # <<>>}
         o == [held EXCEPT !.spans = [d \in DOMAIN @ |->
                  IF d \in fixes THEN CorrectSpan(@[d], held.attrs[d]) ELSE @[d]]]
         was == [d \in DOMAIN f.was |-> IF d \in fixes THEN held.attrs[d] ELSE f.was[d]]
         touched == (IF f.id \in DOMAIN ctx.wrote THEN ctx.wrote[f.id] ELSE {}) \cup {a \in DOMAIN o.attrs : o.attrs[a] # f.attrs[a]}
         done == [RecordSpans(o, was, f.pos, ctx.at) EXCEPT
                    !.version = @ + 1,
                    !.writes = [a \in DOMAIN @ |-> IF a \in touched THEN f.pos ELSE @[a]]]
         source == CASE x.kind = "assertion" -> "asserted"
                     [] x.kind = "erasure" -> "erased"
                     [] x.corrects # {} -> "corrected"
                     [] OTHER -> "observed"
         e == Event(f.pos, done, f.x, f.from, source, f.cause,
                    IF x.kind = "erasure" THEN EmptyFn ELSE f.inputs,
                    WroteBetween(Base(ctx, f.id), done.attrs), NotHeld) IN
     IF f.from # "" /\ Precedes(o, was, ctx.at) THEN Refuse("occurred_within")
     ELSE /\ ctx' = [ctx EXCEPT !.work[f.id] = done, !.events = @ \cup {e},
                                !.last = Over(@, [k \in {f.id} |-> done.attrs]),
                                !.wrote = [k \in DOMAIN @ \ {f.id} |-> @[k]],
                                !.frames = Front(@)]
          /\ UNCHANGED verdict

----------------------------------------------------------------------------
(* The invariants the writes could break, and the change written.          *)

Declares(o) == o.type \in DOMAIN Decl
Invariants(o) == IF Declares(o) THEN TypeOf(o).invs ELSE {}
Uniques(t) == {a \in Attrs(t) : Decl[t].attrs[a].key # {}}

\* unique_key: the values a uniqueness compares, where the object holds each
\* and is among those its filter keeps.
KeyOf(o, names) == [a \in names |-> o.attrs[a]]
Keyed(w, id, a) ==
  LET spec == Decl[w[id].type].attrs[a] IN
  /\ \A b \in spec.key : w[id].attrs[b] # Absent
  /\ Truth(w, id, EmptyFn, spec.among) = "true"

\* identity_holders: an actor's identity, across every type of actors.
Identity(o) == IF Declares(o) /\ TypeOf(o).identity # "" THEN o.attrs[TypeOf(o).identity] ELSE Absent

\* The others of its type that hold the key it holds.
Rivals(w, id, a) ==
  LET key == Decl[w[id].type].attrs[a].key IN
  {k \in DOMAIN w \ {id} : /\ w[k].type = w[id].type /\ Keyed(w, k, a)
                           /\ KeyOf(w[k], key) = KeyOf(w[id], key)}

\* failing_invariants_reading: the declared ones, what a state requires, and
\* the generated uniquenesses.
Failing(w, id) ==
  LET o == w[id] IN
  IF ~ Declares(o) THEN {}
  ELSE {<<"rule", i.name>> : i \in {j \in Invariants(o) : Truth(w, id, EmptyFn, j.rule) = "false"}}
       \cup (IF \E a \in StateOf(o).requires : o.attrs[a] = Absent THEN {<<"state", o.state>>} ELSE {})
       \cup {<<"unique", a>> : a \in {b \in Uniques(o.type) : Keyed(w, id, b) /\ Rivals(w, id, b) # {}}}
       \cup (IF Identity(o) # Absent /\ (\E k \in DOMAIN w \ {id} : Identity(w[k]) = Identity(o))
             THEN {<<"identity", TypeOf(o).identity>>} ELSE {})

Touched == {id \in DOMAIN ctx.work : ~ (id \in DOMAIN objects) \/ ctx.work[id] # objects[id]}

\* back_from: the objects an invariant's hop reaches a written object from,
\* by the end the written one holds, or by the end that names it.
BackFrom(hop, t, v) ==
  IF hop.op = "parts" /\ v.type = hop.type THEN {v.attrs[hop.by]} \cap DOMAIN ctx.work
  ELSE IF hop.op = "through" THEN {k \in DOMAIN ctx.work : /\ ctx.work[k].type = t
                                                           /\ ctx.work[k].attrs[hop.by] = v.id}
  ELSE {}

Hops(t) == UNION {i.hops : i \in Decl[t].invs}

\* The objects of a type that hold the key of a written one, or an actor's
\* identity it holds.
Sharing(t, v) ==
  (UNION {{k \in DOMAIN ctx.work :
            LET key == Decl[t].attrs[a].key IN
            /\ v.type = t /\ ctx.work[k].type = t
            /\ \A b \in key : v.attrs[b] # Absent
            /\ KeyOf(ctx.work[k], key) = KeyOf(v, key)} : a \in Uniques(t)})
  \cup {k \in DOMAIN ctx.work : ctx.work[k].type = t /\ Identity(v) # Absent /\ Identity(ctx.work[k]) = Identity(v)}

Related(versions) ==
  UNION {(UNION {BackFrom(h, t, v) : h \in Hops(t)}) \cup Sharing(t, v) : t \in DOMAIN Decl, v \in versions}

\* affected_by_writes: each object written, and those an invariant reads it
\* from or compares it with, as it is and as the store held it.
\* The slip: as it is alone.
AffectedNow == Touched \cup Related({ctx.work[k] : k \in Touched})

Affected ==
  Touched \cup Related({ctx.work[k] : k \in Touched} \cup {objects[k] : k \in Touched \cap DOMAIN objects})

\* invariant_reads: the generated ones' attributes included.
InvariantReads(o, n) ==
  CASE n[1] = "rule" -> UNION {i.reads : i \in {j \in Invariants(o) : j.name = n[2]}}
    [] n[1] = "state" -> TypeOf(o).states[n[2]].requires
    [] OTHER -> {n[2]}

\* erasure_broke: what the invariant reads is erased, or an object it names is.
ErasureBroke(id, n) ==
  LET o == ctx.work[id]
      reads == InvariantReads(o, n) IN
  \/ id \in DOMAIN ctx.erased /\ ctx.erased[id] \cap reads # {}
  \/ \E r \in reads : Decl[o.type].attrs[r].ref # "" /\ o.attrs[r] \in DOMAIN ctx.erased

\* An assertion admits what it names on its own object, and what it names
\* with a type on any object of that type.
Named(id, n) == \/ ctx.asserted = id /\ [of |-> "", inv |-> n] \in ctx.admits
                \/ [of |-> ctx.work[id].type, inv |-> n] \in ctx.admits
                \/ ErasureBroke(id, n)

\* An admission stands while its invariant fails, and no longer.
Admitted(id) == Failing(ctx.work, id)

\* The end of decide_or_stop.
Conclude ==
  /\ ctx.phase = "take" /\ ctx.frames = <<>>
  /\ UNCHANGED <<objects, log, now>>
  /\ IF \E id \in Affected : \E n \in Failing(ctx.work, id) \ ctx.work[id].admitted : ~ Named(id, n)
     THEN Refuse("invariant_violated")
     ELSE /\ ctx' = [ctx EXCEPT !.phase = "write",
                       !.work = [id \in DOMAIN @ |-> IF id \in Affected
                                   THEN [@[id] EXCEPT !.admitted = Admitted(id)] ELSE @[id]]]
          /\ UNCHANGED verdict

\* write's redaction of an event: what single events hold, then what each
\* erased object's events hold, their writes only where they precede the change.
Nulled(fn, names) == [k \in DOMAIN fn |-> IF k \in names THEN Absent ELSE fn[k]]
Redacted(e) ==
  LET single(S) == {r[2] : r \in {q \in S : q[1] = e.pos}}
      erased == IF e.object \in DOMAIN ctx.erased THEN ctx.erased[e.object] ELSE {}
      before == IF e.pos <= Len(log) THEN erased ELSE {} IN
  [e EXCEPT !.inputs = Nulled(@, single(ctx.redIn) \cup erased),
            !.wrote = Nulled(@, single(ctx.redWr) \cup before),
            !.held = IF @.set /\ "inputs" \in before THEN Held(EmptyFn) ELSE @]

\* write's redaction of the interval index: every interval of what an object
\* had erased.
Emptied(o) ==
  IF ~ (o.id \in DOMAIN ctx.erased) THEN o
  ELSE [o EXCEPT !.spans = [d \in DOMAIN @ |->
          IF ~ (d \in ctx.erased[o.id]) THEN @[d]
          ELSE [i \in DOMAIN @[d] |-> [@[d][i] EXCEPT !.value = Absent]]]]

\* of_event's UNIQUE (object_id, object_seq).
Taken(e, others) == \E d \in others : d # e /\ d.object = e.object /\ d.seq = e.seq

\* The rows of the working copy and, over them, the approved proposal's; and
\* as the store is left with them.
Merged == [k \in DOMAIN ctx.work |->
             IF \E d \in ctx.first : d.row.id = k THEN (CHOOSE d \in ctx.first : TRUE).row
             ELSE ctx.work[k]]
Stored == [k \in DOMAIN ctx.work |-> Emptied(Merged[k])]

\* The change in one transaction, rolled back where the log refuses an event.
Write ==
  /\ ctx.phase = "write"
  /\ ctx' = Idle
  /\ UNCHANGED now
  /\ LET all == Known \cup {d.event : d \in ctx.first} IN
     IF \E e \in all : Taken(e, all)
     THEN verdict' = "fault" /\ UNCHANGED <<objects, log>>
     ELSE /\ verdict' = "satisfied"
          /\ objects' = Stored
          /\ log' = [p \in 1..Cardinality(all) |-> Redacted(CHOOSE e \in all : e.pos = p)]

----------------------------------------------------------------------------
(* Requests.                                                               *)

Makes(r) == \/ r.id = None
            \/ r.act = "propose"
            \/ /\ r.type \in DOMAIN Decl /\ r.x \in DOMAIN Decl[r.type].trans
               /\ \E i \in DOMAIN Decl[r.type].trans[r.x].effect :
                    Decl[r.type].trans[r.x].effect[i].op = "create"

\* A request is sent while the bounds leave it room.
Sent(r) == /\ ctx = Idle /\ Len(log) < MaxEvents
           /\ Makes(r) => Cardinality(DOMAIN objects) < Cardinality(Ids)

Answer(clause) == verdict' = clause /\ ctx' = Idle /\ UNCHANGED <<objects, log, now>>

Ask(r) ==
  /\ r.act = "take" /\ Sent(r)
  /\ IF Asked(r) # "ok" THEN Answer(Asked(r))
     ELSE /\ ctx' = Started(r, Frame(r.type, r.x, r.id, r.inputs, None), None, None, r.occurred, {})
          /\ verdict' = ""
          /\ UNCHANGED <<objects, log, now>>

\* file: what a request checks, short of the object's state and the guards.
Filed(r) ==
  LET known == r.x \in DOMAIN Decl[r.type].trans
      x == Decl[r.type].trans[r.x]
      same(k) == LET o == objects[k] IN
        /\ o.type = PROPOSAL /\ o.state = "PENDING"
        /\ o.prop.target = r.id /\ o.prop.x = r.x /\ o.prop.by = r.actor
        /\ ~ (o.prop.expires # None /\ o.prop.expires <= now) IN
  CASE Who(r.actor) # "ok" -> Who(r.actor)
    [] r.id # None /\ ~ (r.id \in DOMAIN objects /\ objects[r.id].type = r.type) -> "not_found"
    [] ~ known -> "unknown_transition"
    [] (x.kind = "initial") # (r.id = None) -> "unknown_transition"
    [] Stale(r) -> "stale"
    [] ~ x.proposable -> "not_proposable"
    [] ~ (DOMAIN r.inputs \subseteq Takes(x)) -> "invalid_input"
    [] ~ RefersIn(objects, r.type, x, r.inputs) -> "invalid_input"
    [] ~ (Needed(r.type, x) \subseteq DOMAIN r.inputs) -> "invalid_input"
    [] r.occurred # None /\ ~ (x.limit # None /\ now - x.limit <= r.occurred /\ r.occurred <= now) -> "occurred_within"
    [] r.id # None /\ (\E k \in DOMAIN objects : same(k)) -> "proposal_pending"
    [] OTHER -> "ok"

File(r) ==
  /\ r.act = "propose" /\ Sent(r)
  /\ IF Filed(r) # "ok" THEN Answer(Filed(r))
     ELSE LET p == Len(log) + 1
              row == [id |-> Cardinality(DOMAIN objects) + 1, type |-> PROPOSAL, state |-> "PENDING",
                      version |-> 1, attrs |-> EmptyFn, spans |-> [d \in {"state"} |-> <<>>],
                      erased |-> FALSE, next |-> None, admitted |-> {}, writes |-> EmptyFn,
                      prop |-> [target |-> r.id, type |-> r.type, x |-> r.x, inputs |-> r.inputs,
                                by |-> r.actor, filed |-> now, occurred |-> r.occurred, expires |-> r.expires]]
              o == RecordSpans(row, EmptyFn, p, now) IN
          /\ objects' = Put(objects, o)
          /\ log' = Append(log, Event(p, o, "propose", "", "observed", None, r.inputs, EmptyFn, Held(r.inputs)))
          /\ verdict' = "satisfied"
          /\ UNCHANGED <<now, ctx>>

\* decide_proposal's refusals, in its order.
\* The slip: a proposal already decided is decided again.
DecidableAgain(r) ==
  CASE Who(r.actor) # "ok" -> Who(r.actor)
    [] ~ (r.id \in DOMAIN objects) -> "not_found"
    [] Stale(r) -> "stale"
    [] OTHER -> "ok"

\* A rejection, and a withdrawal by another than its proposer, is by a kind of
\* actor that may take the transition proposed.
MayDecide(r) ==
  LET prop == objects[r.id].prop
      kinds == Decl[prop.type].trans[prop.x].takenBy IN
  \/ r.act = "approve"
  \/ r.act = "withdraw" /\ prop.by = r.actor
  \/ kinds = {} \/ TypeOf(objects[r.actor]).kind \in kinds

Decidable(r) ==
  LET o == objects[r.id] IN
  CASE Who(r.actor) # "ok" -> Who(r.actor)
    [] ~ (r.id \in DOMAIN objects) -> "not_found"
    [] Stale(r) -> "stale"
    [] o.state # "PENDING" -> "unavailable"
    [] ~ MayDecide(r) -> "invariant_violated"
    [] r.act = "approve" /\ o.prop.expires # None /\ now >= o.prop.expires -> "unavailable"
    [] r.act = "approve" /\ r.targetVersion # None /\ o.prop.target # None
       /\ objects[o.prop.target].version # r.targetVersion -> "stale"
    [] OTHER -> "ok"

Decided(id, to) ==
  LET o == objects[id]
      left == RecordSpans([o EXCEPT !.state = to, !.version = @ + 1],
                          [d \in {"state"} |-> o.state], Len(log) + 1, now) IN
  [row |-> left,
   event |-> Event(Len(log) + 1, left, to, "PENDING", "observed", None, EmptyFn, EmptyFn, NotHeld)]

\* A proposal rejected or withdrawn is decided at once; one approved executes
\* its request, checked again as it was filed, as its approver.
DecideProposal(r) ==
  /\ r.act \in {"approve", "reject", "withdraw"} /\ Sent(r)
  /\ r.id \in DOMAIN objects /\ objects[r.id].type = PROPOSAL
  /\ LET prop == objects[r.id].prop
         to == CASE r.act = "approve" -> "EXECUTED" [] r.act = "reject" -> "REJECTED" [] OTHER -> "WITHDRAWN"
         held == [r EXCEPT !.id = prop.target, !.type = prop.type, !.x = prop.x, !.inputs = prop.inputs,
                           !.expected = None, !.occurred = prop.occurred]
         d == Decided(r.id, to) IN
     IF Decidable(r) # "ok" THEN Answer(Decidable(r))
     ELSE IF to # "EXECUTED"
     THEN /\ objects' = Put(objects, d.row)
          /\ log' = Append(log, d.event)
          /\ verdict' = "satisfied"
          /\ UNCHANGED <<now, ctx>>
     ELSE IF Asked(held) # "ok" THEN Answer(Asked(held))
     ELSE /\ ctx' = Started(held, Frame(held.type, held.x, held.id, held.inputs, Len(log) + 1),
                            Len(log) + 1, prop.filed, prop.occurred, {d})
          /\ verdict' = ""
          /\ UNCHANGED <<objects, log, now>>

Tick == ctx = Idle /\ now < MaxNow /\ now' = now + 1 /\ UNCHANGED <<objects, log, ctx, verdict>>

\* The bounds reached, nothing more is sent.
Quiet == ctx = Idle /\ (\A r \in Requests : ~ Sent(r)) /\ now = MaxNow /\ UNCHANGED vars

\* The stock as the creations that made it left it, one event each.
Founded(id) ==
  LET s == Stock[id]
      x == Decl[s.type].trans[s.x]
      made == [New(id, s.type, x.to) EXCEPT
                 !.version = 1, !.attrs = Over(@, s.inputs),
                 !.writes = [a \in DOMAIN @ |-> IF a \in DOMAIN s.inputs THEN id ELSE None]] IN
  RecordSpans(made, EmptyFn, id, 1)

Init ==
  /\ objects = [id \in DOMAIN Stock |-> Founded(id)]
  /\ log = [id \in DOMAIN Stock |->
              Event(id, Founded(id), Stock[id].x, "", "observed", None, Stock[id].inputs,
                    WroteBetween(Blank(Stock[id].type), Founded(id).attrs), NotHeld)]
  /\ now = 1
  /\ ctx = Idle
  /\ verdict = ""

Next ==
  \/ \E r \in Requests : Ask(r) \/ File(r) \/ DecideProposal(r)
  \/ Begin \/ Assign \/ Clear \/ Supersede \/ Call \/ Create \/ Each \/ Cascade
  \/ Settle \/ Chain \/ Member \/ Ungroup \/ Leave
  \/ Conclude \/ Write
  \/ Tick \/ Quiet

Spec == Init /\ [][Next]_vars

----------------------------------------------------------------------------
(* What the checks of a publish let through (check/names.rs, model.rs), the *)
(* requests the wire decodes and a stock that broke no invariant.          *)

IsSeq(s) == s \in Seq(Range(s))

\* The type what an expression reads is an object of, "" where it is none.
ExprRef(t, x, e) ==
  CASE e.k = "input" -> InputRef(t, x, e.n)
    [] e.k = "attr" -> Decl[t].attrs[e.n].ref
    [] e.k = "this" -> t

Has(t, xn) == t \in DOMAIN Decl /\ xn \in DOMAIN Decl[t].trans

\* A step writes an attribute of its type, with a value that fits; takes a
\* transition the type it reaches has; and names its successor by an input
\* that is never left out, in a transition to a superseding state.
StepFits(t, x, st) ==
  /\ st.op \in {"assign", "clear", "supersede", "call", "create", "each"}
  /\ st.op \in {"assign", "clear"} => st.at \in Attrs(t)
  /\ st.op = "assign" =>
       /\ st.expr.k \in {"input", "attr", "this"}
       /\ st.expr.k = "attr" => st.expr.n \in Attrs(t)
       /\ Decl[t].attrs[st.at].ref # "" => ExprRef(t, x, st.expr) = Decl[t].attrs[st.at].ref
  /\ st.op = "supersede" =>
       /\ st.input \in x.other \cap DOMAIN x.refs
       /\ x.refs[st.input] \in DOMAIN Decl
       /\ x.kind \in {"initial", "external"} /\ Decl[t].states[x.to].superseding
  /\ st.op = "call" =>
       /\ st.target.k \in {"input", "attr", "this"}
       /\ st.target.k = "attr" => st.target.n \in Attrs(t)
       /\ Has(ExprRef(t, x, st.target), st.x)
  /\ st.op \in {"create", "each"} => Has(st.type, st.x)

TransFits(t, x) ==
  LET states == Decl[t].states IN
  /\ x.kind \in {"initial", "external", "internal", "assertion", "erasure"}
  /\ x.kind \in {"initial", "external"} => x.to \in DOMAIN states
  /\ \A s \in x.asserts : s \in DOMAIN states /\ ~ states[s].superseding
  /\ \A s \in x.from : x.kind = "external" => ~ states[s].final
  /\ x.required \cup x.optional \subseteq Attrs(t) \ DOMAIN x.refs
  /\ IsSeq(x.effect) /\ \A st \in Range(x.effect) : StepFits(t, x, st)

\* What an invariant reads of another object, a hop of it leads to; and what
\* a uniqueness keeps, its own object tells.
AtomFits(t, hops, a) ==
  /\ a.op \in {"state", "present", "parts", "through"}
  /\ a.op = "parts" =>
       a.type \in DOMAIN Decl /\ \E h \in hops : h.op = "parts" /\ h.type = a.type /\ h.by = a.by
  /\ a.op = "through" =>
       /\ a.by \in Attrs(t) /\ Decl[t].attrs[a.by].ref # ""
       /\ \E h \in hops : h.op = "through" /\ h.by = a.by

TypeFits(t) ==
  LET d == Decl[t] IN
  /\ \A a \in DOMAIN d.attrs :
       /\ d.attrs[a].ref \in DOMAIN Decl \cup {""}
       /\ \A clause \in d.attrs[a].among : \A atom \in clause : atom.op \in {"state", "present"}
  /\ \A s \in DOMAIN d.states : d.states[s].superseding => d.states[s].final
  /\ \A xn \in DOMAIN d.trans : TransFits(t, d.trans[xn])
  /\ \A i \in d.invs : \A clause \in i.rule : \A atom \in clause : AtomFits(t, i.hops, atom)
  /\ IsSeq(d.cascade) /\ \A clause \in Range(d.cascade) : Has(clause.type, clause.x)

ASSUME DeclAssumption ==
  DOMAIN Decl \cap {PROPOSAL, ""} = {} /\ \A t \in DOMAIN Decl : TypeFits(t)

\* A request says what it asks, of what, and as it was expected to be.
ASSUME RequestsAssumption ==
  \A r \in Requests :
    {"act", "actor", "id", "type", "x", "inputs", "expected", "occurred", "to", "admits"} \subseteq DOMAIN r

\* Each creation of the stock is one its type declares, of objects before or
\* after it, and all of them together fail no invariant.
ASSUME StockAssumption ==
  /\ IsSeq(Stock)
  /\ \A id \in DOMAIN Stock :
       LET s == Stock[id] IN
       /\ Has(s.type, s.x) /\ Decl[s.type].trans[s.x].kind = "initial"
       /\ ~ Decl[s.type].states[Decl[s.type].trans[s.x].to].superseding
       /\ DOMAIN s.inputs \subseteq Attrs(s.type)
       /\ \A a \in DOMAIN s.inputs : Decl[s.type].attrs[a].ref # "" =>
            s.inputs[a] \in DOMAIN Stock /\ Stock[s.inputs[a]].type = Decl[s.type].attrs[a].ref
       /\ Failing([k \in DOMAIN Stock |-> Founded(k)], id) = {}

ASSUME ClockAssumption == MaxNow \in Nat \ {0}

----------------------------------------------------------------------------
(* Properties.                                                             *)

Own(id) == {log[p] : p \in {q \in DOMAIN log : log[q].object = id}}

\* The rows are those of the declared types and states, one per id, every
\* reference names a row of its type, an event follows the one that caused
\* it, and a request is being taken, written or none.
TypeOK ==
  /\ DOMAIN objects = 1..Cardinality(DOMAIN objects)
  /\ \A id \in DOMAIN objects :
       /\ objects[id].id = id
       /\ objects[id].type = PROPOSAL \/ objects[id].state \in DOMAIN TypeOf(objects[id]).states
       /\ objects[id].next \in DOMAIN objects \cup {None}
       /\ \A a \in DOMAIN objects[id].attrs :
            LET v == objects[id].attrs[a]
                t == Decl[objects[id].type].attrs[a].ref IN
            t # "" /\ v # Absent => v \in DOMAIN objects /\ objects[v].type = t
  /\ \A p \in DOMAIN log : log[p].pos = p /\ log[p].cause < p
  /\ now \in 1..MaxNow
  /\ ctx.phase \in {"idle", "take", "write"}

\* Invariants across objects: what an invariant finds false in the store is
\* what stands admitted on that object, no more and no less, whoever wrote
\* the objects it reads - a part that moved away, a whole that closed.
AdmissionsStand == \A id \in DOMAIN objects : objects[id].admitted = Failing(objects, id)

\* An object's events are numbered from one to its version without a gap or a
\* repeat, and the newest left it in the state it is in: every way a request
\* has of writing an object, its own transitions, another's erasure or a
\* decision on it, counts once and leaves an event (of_event's object_seq).
VersionsLogged ==
  \A id \in DOMAIN objects :
    LET o == objects[id] IN
    /\ o.version > 0
    /\ {e.seq : e \in Own(id)} = 1..o.version
    /\ \A e, f \in Own(id) : e.seq = f.seq => e = f
    /\ \A e \in Own(id) : e.seq = o.version => e.to = o.state

\* The log folds to the rows (ADR-0209 decision 1) and to the interval index
\* (storage-schema.md, of_interval): the last write of each attribute among an
\* object's events is the row's value, each interval holds what the events
\* before its end tell, and a proposal's inputs are those last held - through
\* cascades, corrections, and erasures, which redact the log, the rows and the
\* intervals apart.
LogFolds ==
  \A id \in DOMAIN objects :
    LET o == objects[id]
        newest(S) == CHOOSE e \in S : \A f \in S : f.seq <= e.seq
        told(d, S) == LET wrote == {e \in S : d \in DOMAIN e.wrote} IN
                      IF wrote = {} THEN Absent ELSE newest(wrote).wrote[d] IN
    /\ \A a \in DOMAIN o.attrs : o.attrs[a] = told(a, Own(id))
    /\ \A d \in DOMAIN o.spans : \A i \in DOMAIN o.spans[d] :
         LET s == o.spans[d][i]
             before == {e \in Own(id) : s.left # None => e.pos < s.left} IN
         s.value = IF d = "state" THEN newest(before).to ELSE told(d, before)
    /\ o.type = PROPOSAL =>
         o.prop.inputs = newest({e \in Own(id) : e.held.set}).held.val

\* The intervals of each tracked value tile its life: each ends where the
\* next begins, in order of time and of position, the last is open, and no two
\* neighbours hold the same value, but where one was emptied: by an erasure,
\* the object's own or one the value flowed from, no earlier than the interval
\* that follows it.
SpansTile ==
  \A id \in DOMAIN objects : \A d \in DOMAIN objects[id].spans :
    LET s == objects[id].spans[d]
        emptied(i) == /\ d \in Personal(objects[id].type) /\ s[i].value = Absent
                      /\ \E e \in Own(id) : e.source = "erased" /\ e.pos >= s[i + 1].pos IN
    /\ s # <<>> /\ Last(s).left = None
    /\ \A i \in 1..(Len(s) - 1) :
         /\ s[i].left = s[i + 1].pos /\ s[i].leftAt = s[i + 1].at
         /\ s[i].at <= s[i + 1].at /\ s[i].pos < s[i + 1].pos
         /\ s[i].value = s[i + 1].value => emptied(i)

\* An object's supersession chain never returns to it, so every group has
\* the survivor its erasure and its reads look for.
ChainsEnd ==
  \A id \in DOMAIN objects :
    objects[id].next # None => ~ (id \in GroupAhead(objects, objects[id].next))

\* A proposal is decided at most once, by a caller or by an erasure, and one
\* executed ran once, as it was filed; one rejected, withdrawn or invalidated
\* never did.
ExecutedAsFiled ==
  \A id \in {k \in DOMAIN objects : objects[k].type = PROPOSAL} :
    LET decisions == {e \in Own(id) : ~ (e.x \in {"propose", "redact"})}
        approvals == {e \in decisions : e.to = "EXECUTED"}
        ran == {p \in DOMAIN log : \E e \in approvals : log[p].cause = e.pos} IN
    /\ Cardinality(decisions) = (IF objects[id].state = "PENDING" THEN 0 ELSE 1)
    /\ Cardinality(approvals) = (IF objects[id].state = "EXECUTED" THEN 1 ELSE 0)
    /\ Cardinality(ran) = Cardinality(approvals)
    /\ \A p \in ran : /\ log[p].x = objects[id].prop.x
                      /\ objects[id].prop.target # None => log[p].object = objects[id].prop.target

\* The objects whose erasure a step commits.
ErasedNow ==
  {log'[p].object : p \in {q \in DOMAIN log' \ DOMAIN log :
     log'[q].source = "erased" /\ ~ (log'[q].x \in {"redact", "invalidate"})}}

PersonalOf(id) ==
  ({objects[id].attrs[a] : a \in Personal(objects[id].type)}
   \cup (UNION {{e.wrote[a] : a \in DOMAIN e.wrote \cap Personal(e.type)}
               \cup {e.inputs[n] : n \in IF Declared(e) THEN Tainted(e) ELSE {}} : e \in Own(id)}))
  \ {Absent}

\* The events an object's own caused, themselves among them, and those that
\* caused its own.
Below(id) ==
  LET under[p \in DOMAIN log] == log[p].object = id \/ (log[p].cause # None /\ under[log[p].cause]) IN
  {p \in DOMAIN log : under[p]}
Above(id) ==
  LET over[p \in DOMAIN log] == IF log[p].cause = None THEN {} ELSE {log[p].cause} \cup over[log[p].cause] IN
  UNION {over[p] : p \in {q \in DOMAIN log : log[q].object = id}}

\* The values the store keeps where an erasure of the object must look.
Copies(id) ==
  LET sent(p) == {log[p].inputs[n] : n \in DOMAIN log[p].inputs}
      wrote(p) == {log[p].wrote[a] : a \in DOMAIN log[p].wrote}
      row(k) == {objects[k].attrs[a] : a \in {b \in DOMAIN objects[k].attrs : k = id \/ objects[k].writes[b] \in Below(id)}}
      spans(d) == {objects[id].spans[d][i].value : i \in DOMAIN objects[id].spans[d]}
      filed(k) == IF objects[k].type = PROPOSAL /\ objects[k].prop.target = id
                  THEN {objects[k].prop.inputs[n] : n \in DOMAIN objects[k].prop.inputs}
                       \cup (UNION {{e.inputs[n] : n \in DOMAIN e.inputs}
                                   \cup {e.held.val[n] : n \in DOMAIN e.held.val} : e \in Own(k)})
                  ELSE {} IN
  (UNION {sent(p) : p \in Below(id) \cup Above(id)}) \cup (UNION {wrote(p) : p \in Below(id)})
  \cup (UNION {spans(d) : d \in DOMAIN objects[id].spans \ {"state"}})
  \cup (UNION {row(k) \cup filed(k) : k \in DOMAIN objects})

\* What an erased object held or was sent that is personal is gone once its
\* erasure commits: from its row, its intervals and its events, from the
\* events it caused and the objects it flowed into, from what its callers
\* were sent, and from every proposal on it.
ErasureReaches ==
  [][\A id \in ErasedNow : PersonalOf(id) \cap Copies(id)' = {}]_vars

\* Where an object's supersession chain ends.
Survivor(id) ==
  LET end[n \in 0..Cardinality(DOMAIN objects)] ==
        IF n = 0 THEN id
        ELSE IF objects[end[n - 1]].next = None THEN end[n - 1] ELSE objects[end[n - 1]].next IN
  end[Cardinality(DOMAIN objects)]

\* An erasure reaches every object that was merged, at whatever remove, into
\* the one its own object was merged into, where the object's type has one.
ErasesTheGroup ==
  [][\A id \in ErasedNow : \A k \in DOMAIN objects' :
       Survivor(k)' = Survivor(id)' /\ Erasures(objects'[k].type) # {} => objects'[k].erased]_vars

\* Approving a proposal executes the recorded request, or answers what that
\* request would be answered (DESIGN.md): the log never refuses the change a
\* decision made.
LogAccepts == verdict # "fault"

=============================================================================
