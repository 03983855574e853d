--------------------------- MODULE MCRegistration ---------------------------
(* TLC instances of Registration; the configurations name the devices. *)
EXTENDS Registration
=============================================================================
