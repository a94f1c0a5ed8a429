------------------------------ MODULE RestoreMC ------------------------------
(* A store of two scopes, its margins scaled down: a restore advances each *)
(* counter by two at least, to an even number.                             *)
EXTENDS Restore

MCScopes == {"claims", "lines"}
=============================================================================
