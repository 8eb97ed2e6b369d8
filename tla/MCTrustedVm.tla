----------------------------- MODULE MCTrustedVm ----------------------------
(* The instance of TrustedVm that TLC checks.                              *)
EXTENDS TrustedVm

CONSTANTS v1, rogue

MCBinary == {v1, rogue}
MCSigned == {v1}
=============================================================================
