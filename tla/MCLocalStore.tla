---------------------------- MODULE MCLocalStore ----------------------------
(* TLC instances of LocalStore; the configurations give the bounds. *)
EXTENDS LocalStore
=============================================================================
