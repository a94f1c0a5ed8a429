--------------------------- MODULE GroupCommitMC ---------------------------
(* Three calls, the first and the last under one key, a retry of the first *)
(* that may run beside it.                                                 *)
EXTENDS GroupCommit

CONSTANTS t1, t2, t3, k1

MCTickets == {t1, t2, t3}
MCKeys == {k1}
MCKeyOf == [t \in MCTickets |-> IF t = t2 THEN NoKey ELSE k1]
MCSameBody == [t \in MCTickets |-> 1]
MCOtherBody == [t \in MCTickets |-> IF t = t3 THEN 2 ELSE 1]
=============================================================================
