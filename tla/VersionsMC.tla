----------------------------- MODULE VersionsMC -----------------------------
(***************************************************************************)
(* Versions for TLC: two processes on one store.                           *)
(***************************************************************************)
EXTENDS Versions, TLC

Src(allows, maps, admits, sound, approvers) ==
  [allows |-> allows, maps |-> maps, admits |-> admits, sound |-> sound, approvers |-> approvers]
Loose == Src({1, 2, 3}, <<>>, FALSE, TRUE, {"ca", "cb"})
Tight == Src({1, 3}, <<>>, TRUE, TRUE, {"ca"})
Moved == Src({2, 3, 4}, 1 :> 3, FALSE, TRUE, {"ca", "cb"})
Broken == Src({}, <<>>, FALSE, FALSE, {})

At == "ca" :> "a" @@ "cb" :> "b"

Wr(o, v) == [kind |-> "write", o |-> o, v |-> v, consults |-> FALSE, draws |-> FALSE]
Batch(k, ws) == [kind |-> "batch", key |-> k, writes |-> ws]
Ch(kind, k, s) == [kind |-> kind, change |-> k, source |-> s, expects |-> kind \in {"publish", "refresh", "reject"}]

\* One client writes and changes the declaration, the other writes, asks an
\* evaluator and revises; each sends the same batch.  The number a request
\* draws alone is for a value every declaration installed allows, so that no
\* refusal of it is written back beside the other process.
Both == {Batch("k", <<Wr("o", 1), Wr("p", 2)>>), Ch("publish", "x", Loose)}
Mixed ==
  "ca" :> Both \cup {Ch("draft", "x", Tight), Ch("submit", "x", Loose), Ch("refresh", "x", Loose),
                     Ch("draft", "y", Moved), Wr("o", 2),
                     Batch("j", <<Wr("p", 4)>>), Batch("m", <<Wr("p", 3)>>)}
  @@ "cb" :> Both \cup {[Wr("o", 1) EXCEPT !.consults = TRUE],
                        [Wr("o", 3) EXCEPT !.draws = TRUE], Ch("revise", "x", Moved),
                        Ch("revise", "x", Broken), Ch("reopen", "x", Loose), Ch("reject", "x", Loose),
                        Ch("withdraw", "y", Loose)}

=============================================================================
