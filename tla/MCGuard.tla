------------------------------- MODULE MCGuard -------------------------------
(* Instances of Guard for TLC; the constants are in the .cfg files.           *)
EXTENDS Guard
=============================================================================
