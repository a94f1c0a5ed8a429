----------------------------- MODULE ListenerMC -----------------------------
(***************************************************************************)
(* Listener for TLC: three clients at a cap of two.                         *)
(***************************************************************************)
EXTENDS Listener

=============================================================================
