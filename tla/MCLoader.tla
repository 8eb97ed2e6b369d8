------------------------------ MODULE MCLoader ------------------------------
(* The instance of Loader that TLC checks: two published releases and one  *)
(* binary nobody signed.                                                   *)
EXTENDS Loader

CONSTANTS v1, v2, rogue

MCBinary == {v1, v2, rogue}
MCSigned == {v1, v2}
=============================================================================
