----------------------------- MODULE AdmissionMC -----------------------------
(* Two reads, each of either of two pools with one slot each: turns for a  *)
(* slot, a dry run beside a worklist, and two dry runs.                    *)
EXTENDS Admission

CONSTANTS r1, r2

MCReads == {r1, r2}
MCPools == <<"worklists", "dry_runs">>
MCMost == [p \in {"worklists", "dry_runs"} |-> 1]
=============================================================================
