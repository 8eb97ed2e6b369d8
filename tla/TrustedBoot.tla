---------------------------- MODULE TrustedBoot ----------------------------
(***************************************************************************)
(* What the loader promises to whoever talks to the VM: it boots at most   *)
(* one payload, a trusted one; what it attests is the digest of what runs; *)
(* neither ever changes; and once one of its parts has failed the VM stops.*)
(***************************************************************************)
CONSTANTS Trusted,   \* payloads that may be run
          None,      \* no payload
          Digest,    \* [payload -> its digest]
          NoDigest

VARIABLES phase,     \* "booting", "serving", "failing" or "halted"
          running,   \* the payload that was started
          attested   \* the digest the VM vouches for

vars == <<phase, running, attested>>

Init ==
  /\ phase = "booting"
  /\ running = None
  /\ attested = NoDigest

\* A trusted payload is started.
Admit ==
  /\ phase = "booting"
  /\ phase' = "serving"
  /\ running' \in Trusted
  /\ UNCHANGED attested

\* The VM starts to vouch for what it runs, also when that has failed meanwhile.
Attest ==
  /\ phase \in {"serving", "failing"}
  /\ attested = NoDigest
  /\ attested' = Digest[running]
  /\ UNCHANGED <<phase, running>>

\* The payload or the attestation service dies.
Fail ==
  /\ phase = "serving"
  /\ phase' = "failing"
  /\ UNCHANGED <<running, attested>>

Halt ==
  /\ phase # "halted"
  /\ phase' = "halted"
  /\ UNCHANGED <<running, attested>>

Next == Admit \/ Attest \/ Fail \/ Halt

\* A VM that is failing halts; a healthy one may.
Fairness == WF_vars(phase = "failing" /\ Halt)

Safety == Init /\ [][Next]_vars

Spec == Safety /\ Fairness
=============================================================================
