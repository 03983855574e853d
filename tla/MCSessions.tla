----------------------------- MODULE MCSessions -----------------------------
(* TLC instances of Sessions; the configurations name the devices. *)
EXTENDS Sessions
=============================================================================
