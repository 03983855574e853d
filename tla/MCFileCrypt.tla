---------------------------- MODULE MCFileCrypt -----------------------------
(* TLC instances of FileCrypt. *)
EXTENDS FileCrypt

ShortFiles == 0..24
=============================================================================
