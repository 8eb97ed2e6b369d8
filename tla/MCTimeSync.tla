----------------------------- MODULE MCTimeSync -----------------------------
(* The instances of TimeSync that TLC checks.                              *)
EXTENDS TimeSync
=============================================================================
