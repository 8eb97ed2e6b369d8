--------------------------- MODULE MCAttestation ---------------------------
(* The instances of AttestationServer that TLC checks.  Connections are    *)
(* alike, and so are prefixes: permuting them permutes behaviours.         *)
EXTENDS AttestationServer, TLC

Symmetry == Permutations(Conn) \cup Permutations(Prefix)
=============================================================================
