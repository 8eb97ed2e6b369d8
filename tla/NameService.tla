---------------------------- MODULE NameService -----------------------------
(***************************************************************************)
(* What the callers of the resolver rely on: a lookup is answered once,    *)
(* with the address of the name it asked for, or it fails; a lookup whose  *)
(* caller has set a timeout does not stay pending for ever.  Only where    *)
(* others have a resolver's key and the clock does not rule it out can     *)
(* they answer in its place.                                               *)
(***************************************************************************)
CONSTANTS Lookups, Domain

VARIABLES
  result,  \* of each lookup
  exposed  \* lookups that use a key which others have

Init == result = [l \in Lookups |-> "none"]

Asked(l) == result[l] \in {"pending", "unbounded"}

Ask(l) ==
  /\ result[l] = "none"
  /\ \E kind \in {"pending", "unbounded"} : result' = [result EXCEPT ![l] = kind]

\* The address of a name is written as the name.
Answer(l) ==
  /\ Asked(l)
  /\ result' = [result EXCEPT ![l] = Domain[l]]

Mislead(l) ==
  /\ Asked(l) /\ l \in exposed
  /\ result' = [result EXCEPT ![l] = "bogus"]

Fail(l) ==
  /\ Asked(l)
  /\ result' = [result EXCEPT ![l] = "error"]

Next == \E l \in Lookups : Ask(l) \/ Answer(l) \/ Mislead(l) \/ Fail(l)

Safety == Init /\ [][Next]_result

Spec ==
  Safety /\ \A l \in Lookups : WF_result(result[l] = "pending" /\ (Answer(l) \/ Fail(l)))
=============================================================================
