------------------------------ MODULE TrustedVm -----------------------------
(***************************************************************************)
(* The VM as its clients meet it: PID 1 and its children (Loader) together *)
(* with the inside of the attestation server (AttestationServer), which    *)
(* runs from the moment it has bound its port and whose end PID 1 sees     *)
(* only as an exited child.                                                *)
(***************************************************************************)
EXTENDS Loader

CONSTANTS
  Conn, Prefix, Host, MaxRequests, Window, MaxConcurrent, MaxHardware, MaxBuffer,
  MaxChunk, MaxErrors, GcThreshold, MaxFds,
  MaxInstant   \* bound: the clock of the attestation server runs from 0 to MaxInstant

VARIABLES
  srv, errs, now, subnets, free, st, from, got, reply, permit, hw, granted,
  report       \* history: user_data of the report each connection was sent

Att == INSTANCE AttestationServer WITH MaxTime <- MaxInstant

inside == <<srv, errs, now, subnets, free, st, from, got, reply, permit, hw, granted>>
all == <<vars, inside, report>>

NoReport == <<"no report">>

\* base16ct::mixed::decode_vec, of a hash that HexLower has written.
HexDecode(text) == text[2]

\* user_data, which the firmware signs into its report: SHA-512 of digest and nonce.  The
\* connection stands for the nonce in its request.
ReportData(text, nonce) == <<"sha512", HexDecode(text), nonce>>

\* MUTANT: a report that was made for another request is sent again.
ReportFor_Cached(c) ==
  IF \E d \in Conn : report[d] # NoReport
    THEN report[CHOOSE d \in Conn : report[d] # NoReport]
    ELSE ReportData(attest_hash, c)

\* The handler has the hash of the process's command line and the nonce of its request.
ReportFor(c) == ReportData(attest_hash, c)

\* panic_shutdown at the end of the accept loop exits the process.
ProcessEnds == srv # "exited" /\ srv' = "exited"

\* A step inside the attestation server.  A task that sends a 200 has got its report.
Serve ==
  /\ vm = "up" /\ attest = "serving"
  /\ Att!Next
  /\ report' = [c \in Conn |-> IF reply'[c] = 200 /\ reply[c] # 200 THEN ReportFor(c)
                               ELSE report[c]]
  /\ IF ProcessEnds THEN AttestExits ELSE UNCHANGED vars

\* The process is killed or aborts.
AttestAborts == AttestExits /\ UNCHANGED <<inside, report>>

\* PID 1, the server and the world, while nothing moves inside the attestation server.
Outside ==
  /\ \/ Pid1
     \/ ServerBinds \/ ServerLeavesPort \/ ServerExits \/ OrphanExits
     \/ AttestBinds \/ PublishRelease \/ Stopped
  /\ UNCHANGED <<inside, report>>

VmInit == Init /\ Att!Init /\ report = [c \in Conn |-> NoReport]

VmNext == Outside \/ Serve \/ AttestAborts

\* The fairness of the parts, for a part that runs.
VmFairness ==
  /\ WF_all(Pid1 /\ UNCHANGED <<inside, report>>)
  /\ WF_all(AttestBinds /\ UNCHANGED <<inside, report>>)
  /\ WF_all(Serve /\ Att!Resume)
  /\ \A c \in Conn : WF_all(Serve /\ Att!Handle(c))

VmSpec == VmInit /\ [][VmNext]_all /\ VmFairness

-----------------------------------------------------------------------------
(* Properties.                                                             *)

\* What remote attestation is for: a report binds the hash of the image the server was
\* started from, which the owner signed, to the nonce of the request it answers.
ReportsVouchForImage ==
  \A c \in Conn : reply[c] = 200 =>
    /\ server # "none" /\ image \in Signed
    /\ report[c] = <<"sha512", Sha384(image), c>>

\* A listener that gives up inside a process that may not power the VM off still powers it
\* off, by way of the child that PID 1 reaps; and one that keeps failing gives up.
BrokenListenerStopsVm ==
  /\ srv = "exited" ~> vm # "up"
  /\ []<>(srv = "backoff") => <>(vm # "up")

\* Every accepted connection is closed again, however slowly its client sends, or the
\* attestation process is gone and the VM with it.
ConnectionsEnd ==
  \A c \in Conn : st[c] = "accepted" ~> (st[c] = "closed" \/ vm # "up")

=============================================================================
