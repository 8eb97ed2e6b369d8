----------------------------- MODULE MCDnscrypt -----------------------------
(* The instances of Dnscrypt that TLC checks.                              *)
EXTENDS Dnscrypt

\* A certificate that has ended at the floor and whose key is known to others, one in its
\* last second there, and its successor.
Old     == [key |-> "k1", serial |-> 3, start |-> 0, end |-> 1]
Current == [key |-> "k2", serial |-> 1, start |-> 1, end |-> 2]
New     == [key |-> "k3", serial |-> 2, start |-> 2, end |-> 5]
MCCerts == {Old, Current, New}
MCLeaked == {Old}
MCForged == [key |-> "k4", serial |-> 9, start |-> 0, end |-> 5]
MCDomain == [l \in Lookups |-> IF l = "l2" THEN "api" ELSE "www"]
=============================================================================
