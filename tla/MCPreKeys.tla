------------------------------ MODULE MCPreKeys ------------------------------
(***************************************************************************)
(* TLC instances of PreKeys; the configurations name the threads and the   *)
(* calls that fail.                                                        *)
(***************************************************************************)
EXTENDS PreKeys
=============================================================================
