----------------------------- MODULE DecisionMC -----------------------------
(***************************************************************************)
(* Decision for TLC: people who order, orders of items, merged, closed and *)
(* forgotten.                                                              *)
(***************************************************************************)
EXTENDS Decision, TLC

Attr == [personal |-> FALSE, tracked |-> FALSE, ref |-> "", whole |-> FALSE, optional |-> TRUE,
         key |-> {}, among |-> {}]
State == [final |-> FALSE, superseding |-> FALSE, acts |-> FALSE, requires |-> {}]
Trans == [kind |-> "internal", any |-> TRUE, from |-> {}, to |-> "", via |-> {}, proposable |-> FALSE,
          required |-> {}, optional |-> {}, other |-> {}, refs |-> EmptyFn, marked |-> {}, guards |-> {}, effect |-> <<>>,
          takenBy |-> {}, limit |-> None, asserts |-> {}, mayAdmit |-> {}, corrects |-> {}]

In(n) == [k |-> "input", n |-> n]
AnAttr(n) == [k |-> "attr", n |-> n]
This == [k |-> "this", n |-> ""]
Deny(n, rule) == [name |-> n, mode |-> "deny", rule |-> rule]
IsIn(S) == [op |-> "state", in |-> S]
Holds(n) == [op |-> "present", name |-> n]

Bare(n) == [of |-> "", inv |-> <<"rule", n>>]
Doubled == [of |-> "Order", inv |-> <<"unique", "due">>]

Person ==
  [attrs |-> "email" :> Attr, identity |-> "email", kind |-> "human",
   states |-> "ACTIVE" :> [State EXCEPT !.acts = TRUE] @@ "GONE" :> [State EXCEPT !.final = TRUE],
   trans |-> "join" :> [Trans EXCEPT !.kind = "initial", !.to = "ACTIVE", !.required = {"email"}]
          @@ "leave" :> [Trans EXCEPT !.kind = "external", !.any = FALSE, !.from = {"ACTIVE"}, !.to = "GONE"],
   invs |-> {}, cascade |-> <<>>]

\* An enum and a reference are tracked, a personal one too.  A label is
\* assigned to the note, and passed to each item of the order.
Enum == [Attr EXCEPT !.tracked = TRUE]
RefTo(t) == [Attr EXCEPT !.tracked = TRUE, !.ref = t]

Order ==
  [attrs |-> "note" :> [Enum EXCEPT !.personal = TRUE]
          @@ "due" :> [Enum EXCEPT !.key = {"due"}, !.among = {{IsIn({"OPEN", "CONFIRMED"})}}]
          @@ "for" :> RefTo("Person"),
   identity |-> "",
   states |-> "OPEN" :> State @@ "CONFIRMED" :> State
           @@ "CLOSED" :> [State EXCEPT !.final = TRUE, !.requires = {"due"}]
           @@ "MERGED" :> [State EXCEPT !.final = TRUE, !.superseding = TRUE],
   trans |->
        "open" :> [Trans EXCEPT !.kind = "initial", !.to = "OPEN", !.optional = {"due"}]
     @@ "annotate" :> [Trans EXCEPT !.other = {"text"}, !.proposable = TRUE, !.takenBy = {"human"},
          !.effect = <<[op |-> "assign", at |-> "note", expr |-> In("text")],
                       [op |-> "each", type |-> "Item", by |-> "order", x |-> "label",
                        args |-> "tag" :> In("text")]>>]
     @@ "assign" :> [Trans EXCEPT !.required = {"for"}]
     @@ "wipe" :> [Trans EXCEPT !.effect = <<[op |-> "clear", at |-> "note"]>>]
     @@ "add" :> [Trans EXCEPT !.other = {"name"},
          !.effect = <<[op |-> "create", type |-> "Item", x |-> "open",
                        args |-> "order" :> This @@ "tag" :> In("name")]>>]
     @@ "confirm" :> [Trans EXCEPT !.kind = "external", !.any = FALSE, !.from = {"OPEN"}, !.to = "CONFIRMED",
          !.guards = {Deny("dated", {{Holds("due")}})}]
     @@ "reschedule" :> [Trans EXCEPT !.required = {"due"}, !.limit = 1]
     @@ "redate" :> [Trans EXCEPT !.required = {"due"}, !.corrects = {"due"}]
     @@ "close" :> [Trans EXCEPT !.kind = "external", !.any = FALSE, !.from = {"OPEN", "CONFIRMED"}, !.to = "CLOSED"]
     @@ "merge" :> [Trans EXCEPT !.kind = "external", !.any = FALSE, !.from = {"OPEN", "CONFIRMED"}, !.to = "MERGED",
          !.other = {"into"}, !.refs = "into" :> "Order", !.effect = <<[op |-> "supersede", input |-> "into"]>>]
     @@ "fix" :> [Trans EXCEPT !.kind = "assertion", !.asserts = {"CONFIRMED"}, !.optional = {"due"},
          !.mayAdmit = {Bare("nonempty"), Bare("noted"), Doubled}]
     @@ "forget" :> [Trans EXCEPT !.kind = "erasure"],
   invs |-> {[name |-> "nonempty", reads |-> {}, hops |-> {[op |-> "parts", type |-> "Item", by |-> "order"]},
              rule |-> {{IsIn({"OPEN", "CLOSED", "MERGED"}), [op |-> "parts", type |-> "Item", by |-> "order", least |-> 1]}}],
             [name |-> "noted", reads |-> {"note"}, hops |-> {},
              rule |-> {{IsIn({"OPEN", "CLOSED", "MERGED"}), Holds("note")}}]},
   cascade |-> <<[on |-> {"close"}, type |-> "Item", by |-> "order", x |-> "ship", args |-> EmptyFn]>>]

Item ==
  [attrs |-> "order" :> [RefTo("Order") EXCEPT !.whole = TRUE, !.optional = FALSE]
          @@ "tag" :> [Enum EXCEPT !.personal = TRUE],
   identity |-> "",
   states |-> "LOOSE" :> State @@ "SHIPPED" :> [State EXCEPT !.final = TRUE],
   trans |->
        "open" :> [Trans EXCEPT !.kind = "initial", !.to = "LOOSE", !.via = {<<"Order", "add">>},
                                !.required = {"order"}, !.optional = {"tag"}]
     @@ "label" :> [Trans EXCEPT !.via = {<<"Order", "annotate">>}, !.optional = {"tag"}]
     @@ "move" :> [Trans EXCEPT !.required = {"order"}]
     @@ "ship" :> [Trans EXCEPT !.kind = "external", !.any = FALSE, !.from = {"LOOSE"}, !.to = "SHIPPED",
                                !.via = {<<"Order", "close">>}]
     @@ "forget" :> [Trans EXCEPT !.kind = "erasure"],
   invs |-> {[name |-> "aboard", reads |-> {"order"}, hops |-> {[op |-> "through", by |-> "order"]},
              rule |-> {{IsIn({"SHIPPED"}), [op |-> "through", by |-> "order", in |-> {"OPEN", "CONFIRMED", "MERGED"}]}}]},
   cascade |-> <<>>]

Flow == LET types == "Person" :> Person @@ "Order" :> Order @@ "Item" :> Item IN types

\* One who orders, two orders, and an item of the first.
Found(t, xn, inputs) == [type |-> t, x |-> xn, inputs |-> inputs]
Shelf == <<Found("Person", "join", "email" :> 11),
           Found("Order", "open", "due" :> 31),
           Found("Order", "open", EmptyFn),
           Found("Item", "open", "order" :> 2)>>

R(act, id, t, x, inputs) ==
  [act |-> act, actor |-> 1, id |-> id, type |-> t, x |-> x, inputs |-> inputs, expected |-> None,
   targetVersion |-> None, occurred |-> None, expires |-> None, to |-> "", admits |-> {}]
To(id, x, inputs) == R("take", id, "Order", x, inputs)

Asks ==
  {To(2, "annotate", "text" :> 21), To(2, "wipe", EmptyFn), To(2, "add", "name" :> 23),
   To(2, "confirm", EmptyFn), To(2, "reschedule", "due" :> 32),
   [To(2, "reschedule", "due" :> 33) EXCEPT !.occurred = 1],
   To(2, "redate", "due" :> 31), To(2, "close", EmptyFn),
   To(2, "merge", "into" :> 3), To(3, "merge", "into" :> 2),
   [To(2, "fix", EmptyFn) EXCEPT !.to = "CONFIRMED", !.admits = {Bare("nonempty")}],
   [To(3, "fix", "due" :> 31) EXCEPT !.to = "CONFIRMED", !.admits = {Bare("nonempty"), Bare("noted"), Doubled}],
   To(3, "annotate", "text" :> 22), [To(3, "confirm", EmptyFn) EXCEPT !.expected = 1],
   To(3, "close", EmptyFn), To(3, "reschedule", "due" :> 31),
   R("take", None, "Person", "join", "email" :> 11),
   To(3, "assign", "for" :> 2),
   To(2, "forget", EmptyFn), To(3, "forget", EmptyFn),
   R("take", 4, "Item", "move", "order" :> 3),
   R("take", 4, "Item", "forget", EmptyFn),
   R("propose", 2, "Order", "annotate", "text" :> 24),
   [R("propose", 3, "Order", "annotate", "text" :> 24) EXCEPT !.expires = 2],
   R("approve", 5, PROPOSAL, "approve", EmptyFn),
   R("reject", 5, PROPOSAL, "reject", EmptyFn),
   R("withdraw", 5, PROPOSAL, "withdraw", EmptyFn),
   R("take", 1, "Person", "leave", EmptyFn)}

\* An order's erasure may be proposed.
AskedToForget == LET types == [Flow EXCEPT !["Order"].trans["forget"].proposable = TRUE] IN types

Approvals ==
  {R("propose", 2, "Order", "forget", EmptyFn), R("propose", 2, "Order", "annotate", "text" :> 24),
   R("approve", 5, PROPOSAL, "approve", EmptyFn), R("reject", 5, PROPOSAL, "reject", EmptyFn)}

\* Orders that label an item as it was labelled before: the same order again,
\* or the other, once the item has moved to it.
Relabels ==
  {To(2, "annotate", "text" :> 21), R("take", 4, "Item", "move", "order" :> 3),
   To(3, "annotate", "text" :> 21), To(2, "forget", EmptyFn)}

=============================================================================
