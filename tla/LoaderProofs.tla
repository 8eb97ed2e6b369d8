---------------------------- MODULE LoaderProofs ----------------------------
(***************************************************************************)
(* Proofs about Loader for every set of binaries, releases and bounds:     *)
(* type correctness, the safety invariants of the boot pipeline, and the   *)
(* safety part of the refinement of TrustedBoot; and, on top of them,      *)
(* about the whole VM (TrustedVm), for any number of connections.          *)
(***************************************************************************)
EXTENDS TrustedVm, TLAPS

-----------------------------------------------------------------------------
(* Facts about the two mount tables.                                       *)

\* prepare_system_env makes seven mounts, the payload tmpfs last, and never
\* mounts /tmp or /run without MS_NOEXEC.
LEMMA MountPlanFacts ==
  /\ Len(MountPlan) = 7
  /\ \A i \in 1..7 : /\ MountPlan[i].at \in MountPoint
                     /\ MountPlan[i].flags \in SUBSET MountFlag
                     /\ MountPlan[i].at \in {"/tmp", "/run"} => "noexec" \in MountPlan[i].flags
  /\ MountPlan[7].at = PayloadDir
  /\ MountPlan[7].fatal
<1>1. Len(MountPlan) = 7
  BY DEF MountPlan
<1>2. ASSUME NEW i \in 1..7
      PROVE  /\ MountPlan[i].at \in MountPoint
             /\ MountPlan[i].flags \in SUBSET MountFlag
             /\ MountPlan[i].at \in {"/tmp", "/run"} => "noexec" \in MountPlan[i].flags
  <2>1. i \in {1, 2, 3, 4, 5, 6, 7}
    OBVIOUS
  <2>2. QED
    BY <2>1 DEF MountPlan, MountPoint, MountFlag, PayloadDir
<1>3. MountPlan[7].at = PayloadDir /\ MountPlan[7].fatal
  BY DEF MountPlan
<1>4. QED
  BY <1>1, <1>2, <1>3

\* lockdown_filesystem makes three remounts: the payload tmpfs read-only first,
\* then /tmp and /run with MS_NOEXEC.
LEMMA RemountPlanFacts ==
  /\ Len(RemountPlan) = 3
  /\ \A i \in 1..3 : /\ RemountPlan[i].at \in MountPoint
                     /\ RemountPlan[i].flags \in SUBSET MountFlag
                     /\ RemountPlan[i].at \in {"/tmp", "/run"} => "noexec" \in RemountPlan[i].flags
                     /\ RemountPlan[i].at = PayloadDir => "rdonly" \in RemountPlan[i].flags
  /\ RemountPlan[1].at = PayloadDir
<1>1. Len(RemountPlan) = 3
  BY DEF RemountPlan
<1>2. ASSUME NEW i \in 1..3
      PROVE  /\ RemountPlan[i].at \in MountPoint
             /\ RemountPlan[i].flags \in SUBSET MountFlag
             /\ RemountPlan[i].at \in {"/tmp", "/run"} => "noexec" \in RemountPlan[i].flags
             /\ RemountPlan[i].at = PayloadDir => "rdonly" \in RemountPlan[i].flags
  <2>1. i \in {1, 2, 3}
    OBVIOUS
  <2>2. QED
    BY <2>1 DEF RemountPlan, MountPoint, MountFlag, PayloadDir
<1>3. RemountPlan[1].at = PayloadDir
  BY DEF RemountPlan
<1>4. QED
  BY <1>1, <1>2, <1>3

\* What a successful download stores has the type of the local it goes to.
LEMMA ResponseTypes ==
  ASSUME latest \in Release
  PROVE  /\ \A r \in Response("binary", Binary) :
              r[1] \in Release \cup {NoBinary} /\ r[2] \in Binary
         /\ \A r \in Response("hash", HashFile) :
              r[1] \in Release \cup {NoBinary} /\ Trim(r[2]) \in HashText
         /\ \A r \in Response("signature", Signature) :
              r[1] \in Release \cup {NoBinary} /\ r[2] \in Signature
  BY LoaderAssumption DEF Response, AssetOf, HashFile, HashText, Signature, Trim

-----------------------------------------------------------------------------
(* Type correctness.                                                       *)

LEMMA TypeInit == Init => TypeOK
  BY LoaderAssumption, MountPlanFacts
  DEF Init, TypeOK, BootPc, HashText, Signature, HaltReason

\* panic_shutdown changes nothing but the state of the VM and the recorded reason.
LEMMA TypePanic ==
  ASSUME TypeOK, NEW reason \in HaltReason, panic_shutdown(reason)
  PROVE  TypeOK'
  BY DEF TypeOK, panic_shutdown, control, fs, memory, procs

LEMMA TypePid1 ==
  ASSUME TypeOK, Pid1
  PROVE  TypeOK'
<1> USE LoaderAssumption, MountPlanFacts, RemountPlanFacts
<1> USE DEF power, control, fs, memory, procs, At, Goto
<1>1. CASE MountNext
  BY <1>1 DEF MountNext, TypeOK, BootPc
<1>2. CASE MountFails
  BY <1>2, TypePanic DEF MountFails, HaltReason
<1>3. CASE ConfigureKernel \/ SettleNetwork \/ ResolverStalls
  BY <1>3 DEF ConfigureKernel, SettleNetwork, ResolverStalls, TypeOK, BootPc
<1>4. CASE enforce_time_floor
  BY <1>4 DEF enforce_time_floor, TypeOK, BootPc
<1>5. CASE SetClock
  BY <1>5 DEF SetClock, TypeOK, BootPc, Downloading
<1>6. CASE TimeFails
  BY <1>6, TypePanic DEF TimeFails, HaltReason
<1>7. CASE StalledForever
  BY <1>7 DEF StalledForever, TypeOK, vars
<1>8. CASE DownloadRetries
  BY <1>8 DEF DownloadRetries, TypeOK
<1>9. CASE DownloadGivesUp
  BY <1>9, TypePanic DEF DownloadGivesUp, HaltReason
<1>10. CASE DownloadBinary
  BY <1>10, ResponseTypes DEF DownloadBinary, Received, TypeOK, BootPc, Downloading, Asset
<1>11. CASE DownloadHash
  BY <1>11, ResponseTypes DEF DownloadHash, Received, TypeOK, BootPc, Downloading, Asset
<1>12. CASE HashMatches
  BY <1>12 DEF HashMatches, TypeOK, BootPc, Downloading
<1>13. CASE HashMismatch
  BY <1>13, TypePanic DEF HashMismatch, HaltReason
<1>14. CASE DownloadSignature
  BY <1>14, ResponseTypes DEF DownloadSignature, Received, TypeOK, BootPc, Asset
<1>15. CASE SignatureAccepted
  BY <1>15 DEF SignatureAccepted, TypeOK, BootPc
<1>16. CASE SignatureRejected
  BY <1>16, TypePanic DEF SignatureRejected, HaltReason
<1>17. CASE WritePayload
  BY <1>17 DEF WritePayload, TypeOK, BootPc
<1>18. CASE ChmodPayload
  BY <1>18 DEF ChmodPayload, TypeOK, BootPc
<1>19. CASE lockdown_filesystem
  BY <1>19 DEF lockdown_filesystem, TypeOK, BootPc
<1>20. CASE SpawnServer
  BY <1>20 DEF SpawnServer, TypeOK, BootPc
<1>21. CASE SpawnAttest
  BY <1>21 DEF SpawnAttest, TypeOK, WatchPc
<1>22. CASE DeployFails
  BY <1>22, TypePanic DEF DeployFails, HaltReason
<1>23. CASE ChildReaped
  BY <1>23, TypePanic DEF ChildReaped, HaltReason
<1>24. CASE OrphanReaped
  BY <1>24 DEF OrphanReaped, TypeOK
<1>25. CASE NothingToReap \/ WakeUp
  BY <1>25 DEF NothingToReap, WakeUp, TypeOK, WatchPc
<1>26. QED
  BY <1>1, <1>2, <1>3, <1>4, <1>5, <1>6, <1>7, <1>8, <1>9, <1>10, <1>11, <1>12,
     <1>13, <1>14, <1>15, <1>16, <1>17, <1>18, <1>19, <1>20, <1>21, <1>22, <1>23,
     <1>24, <1>25
  DEF Pid1

LEMMA TypeEnvironment ==
  ASSUME TypeOK, Environment
  PROVE  TypeOK'
<1> USE DEF power, control, fs, memory, procs, OutsidePid1, TypeOK
<1>1. CASE ServerBinds \/ ServerLeavesPort \/ ServerExits
  BY <1>1 DEF ServerBinds, ServerLeavesPort, ServerExits
<1>2. CASE OrphanExits
  BY <1>2 DEF OrphanExits
<1>3. CASE AttestBinds \/ AttestExits
  BY <1>3 DEF AttestBinds, AttestExits
<1>4. CASE PublishRelease
  BY <1>4 DEF PublishRelease
<1>5. CASE Stopped
  BY <1>5 DEF Stopped, vars
<1>6. QED
  BY <1>1, <1>2, <1>3, <1>4, <1>5 DEF Environment

LEMMA TypeStutter ==
  ASSUME TypeOK, UNCHANGED vars
  PROVE  TypeOK'
  BY DEF TypeOK, vars, power, control, fs, memory, procs

\* Every variable keeps its type in every behaviour; in particular no download
\* makes more than MAX_DOWNLOAD_RETRIES attempts.
THEOREM TypeCorrect == Spec => []TypeOK
<1>1. Init => TypeOK
  BY TypeInit
<1>2. TypeOK /\ [Next]_vars => TypeOK'
  BY TypePid1, TypeEnvironment, TypeStutter DEF Next
<1>3. QED
  BY <1>1, <1>2, PTL DEF Spec

-----------------------------------------------------------------------------
(* The inductive invariant: what main() has established at each of its     *)
(* steps.  None of the safety properties is inductive without it, because  *)
(* they speak of processes that are started several steps after the facts. *)

HashOf(b) == HexLower(Sha384(b))
Spawned == {"spawn_attest"} \cup WatchPc
Locked == {"spawn_server"} \cup Spawned
Deployed == {"chmod", "lockdown"} \cup Locked
BeforeTime == {"mount", "environment", "floor", "settle", "time", "stalled"}

MountInv ==
  /\ pc # "mount" => PayloadDir \in mounted
  /\ \A m \in {"/tmp", "/run"} : m \in mounted => "noexec" \in flags[m]

LockInv ==
  /\ pc \in Deployed \ {"chmod"} => mode = "0555"
  /\ pc \in Locked \/ (pc = "lockdown" /\ step > 1) => "rdonly" \in flags[PayloadDir]

TrustInv ==
  /\ pc \in {"get_signature", "verify", "write"} => hash_hex = HashOf(app_bytes)
  /\ pc = "write" => app_bytes \in Signed
  /\ pc \in Deployed => file \in Signed /\ hash_hex = HashOf(file)

ChildInv ==
  /\ server # "none" <=> pc \in Spawned
  /\ image = IF server = "none" THEN NoBinary ELSE file
  /\ attest # "none" <=> pc \in WatchPc
  /\ attest_hash = IF attest = "none" THEN NoText ELSE hash_hex

ClockInv == pc \notin BeforeTime => clock >= Floor

\* An asset that came from release r is the one r was published with.
OriginInv ==
  /\ pc \in {"get_hash", "compare", "get_signature", "verify"} =>
       origin["binary"] \in {NoBinary, app_bytes}
  /\ pc = "compare" =>
       origin["hash"] = NoBinary \/ expected_hash = HashOf(origin["hash"])
  /\ pc = "verify" =>
       origin["signature"] = NoBinary \/ sig_bytes = Sign(origin["signature"])

HaltInv ==
  /\ vm = "up" => halt = "none"
  /\ RefusalHasCause

BootInv ==
  /\ TypeOK
  /\ MountInv /\ LockInv /\ TrustInv /\ ChildInv /\ ClockInv /\ OriginInv /\ HaltInv

LEMMA BootInit == Init => BootInv
<1> SUFFICES ASSUME Init PROVE BootInv
  OBVIOUS
<1>1. TypeOK
  BY TypeInit
<1>2. MountInv /\ LockInv /\ TrustInv /\ ChildInv /\ ClockInv /\ OriginInv /\ HaltInv
  BY DEF Init, MountInv, LockInv, TrustInv, ChildInv, ClockInv, OriginInv, HaltInv,
         RefusalHasCause, Deployed, Locked, Spawned, BeforeTime, WatchPc
<1>3. QED
  BY <1>1, <1>2 DEF BootInv

\* panic_shutdown keeps everything but HaltInv, which depends on the reason.
LEMMA BootPanic ==
  ASSUME BootInv, NEW reason \in HaltReason, panic_shutdown(reason),
         RefusalHasCause'
  PROVE  BootInv'
<1>1. TypeOK'
  BY TypePanic DEF BootInv
<1>2. QED
  BY <1>1 DEF panic_shutdown, BootInv, MountInv, LockInv, TrustInv, ChildInv, ClockInv,
     OriginInv, HaltInv, RefusalHasCause, control, fs, memory, procs, WritableExecutable

LEMMA BootPid1 ==
  ASSUME BootInv, Pid1
  PROVE  BootInv'
<1>t. TypeOK /\ TypeOK'
  BY TypePid1 DEF BootInv
<1> USE LoaderAssumption, MountPlanFacts, RemountPlanFacts
<1> USE DEF power, control, fs, memory, procs, At, Goto
<1> USE DEF BootInv, MountInv, LockInv, TrustInv, ChildInv, ClockInv, OriginInv, HaltInv,
            RefusalHasCause, Deployed, Locked, Spawned, BeforeTime, WatchPc
<1>1. CASE MountNext
  BY <1>1, <1>t DEF MountNext, TypeOK
<1>2. CASE MountFails \/ TimeFails \/ DownloadGivesUp \/ DeployFails \/ ChildReaped
  <2>1. PICK reason \in HaltReason \ {"hash_mismatch", "bad_signature"} :
              panic_shutdown(reason)
    BY <1>2 DEF MountFails, TimeFails, DownloadGivesUp, DeployFails, ChildReaped,
                HaltReason, TimeFailure, DeployPc
  <2>2. RefusalHasCause'
    BY <2>1 DEF panic_shutdown
  <2>3. QED
    BY <2>1, <2>2, BootPanic
<1>3. CASE ConfigureKernel \/ SettleNetwork \/ ResolverStalls
  BY <1>3, <1>t DEF ConfigureKernel, SettleNetwork, ResolverStalls
<1>4. CASE enforce_time_floor
  BY <1>4, <1>t DEF enforce_time_floor
<1>5. CASE SetClock
  BY <1>5, <1>t DEF SetClock
<1>6. CASE StalledForever
  BY <1>6, <1>t DEF StalledForever, vars
<1>7. CASE DownloadRetries
  BY <1>7, <1>t DEF DownloadRetries, Downloading
<1>8. CASE DownloadBinary
  BY <1>8, <1>t DEF DownloadBinary, Received, Response, AssetOf, TypeOK, Asset
<1>9. CASE DownloadHash
  BY <1>9, <1>t DEF DownloadHash, Received, Response, AssetOf, Trim, HashOf, TypeOK, Asset
<1>10. CASE HashMatches
  BY <1>10, <1>t DEF HashMatches, HashOf
<1>11. CASE HashMismatch
  <2>1. panic_shutdown("hash_mismatch") /\ "hash_mismatch" \in HaltReason
    BY <1>11 DEF HashMismatch, HaltReason
  <2>2. RefusalHasCause'
    BY <1>11, <2>1, <1>t DEF HashMismatch, HashOf, panic_shutdown
  <2>3. QED
    BY <2>1, <2>2, BootPanic
<1>12. CASE DownloadSignature
  BY <1>12, <1>t DEF DownloadSignature, Received, Response, AssetOf, TypeOK, Asset
<1>13. CASE SignatureAccepted
  <2>1. PICK g \in Glitches : \A i \in 1..3 : Checks(g)[i]
    BY <1>13 DEF SignatureAccepted
  <2>2. PICK i \in 1..3 : i \notin g
    BY DEF Glitches
  <2>3. app_bytes \in Signed
    BY <2>1, <2>2 DEF Checks, Verify
  <2>4. QED
    BY <1>13, <1>t, <2>3 DEF SignatureAccepted
<1>14. CASE SignatureRejected
  <2>1. panic_shutdown("bad_signature") /\ "bad_signature" \in HaltReason
    BY <1>14 DEF SignatureRejected, HaltReason
  <2>2. ~Verify(app_bytes, sig_bytes) /\ pc = "verify"
    BY <1>14 DEF SignatureRejected, Checks
  <2>3. RefusalHasCause'
    BY <2>1, <2>2, <1>t DEF Verify, panic_shutdown, TypeOK, Asset
  <2>4. QED
    BY <2>1, <2>3, BootPanic
<1>15. CASE WritePayload
  BY <1>15, <1>t DEF WritePayload
<1>16. CASE ChmodPayload
  BY <1>16, <1>t DEF ChmodPayload, TypeOK
<1>17. CASE lockdown_filesystem
  BY <1>17, <1>t DEF lockdown_filesystem, TypeOK
<1>18. CASE SpawnServer
  BY <1>18, <1>t DEF SpawnServer
<1>19. CASE SpawnAttest
  BY <1>19, <1>t DEF SpawnAttest
<1>20. CASE OrphanReaped
  BY <1>20, <1>t DEF OrphanReaped
<1>21. CASE NothingToReap \/ WakeUp
  BY <1>21, <1>t DEF NothingToReap, WakeUp
<1>22. QED
  BY <1>1, <1>2, <1>3, <1>4, <1>5, <1>6, <1>7, <1>8, <1>9, <1>10, <1>11, <1>12,
     <1>13, <1>14, <1>15, <1>16, <1>17, <1>18, <1>19, <1>20, <1>21
  DEF Pid1

LEMMA BootEnvironment ==
  ASSUME BootInv, Environment
  PROVE  BootInv'
<1>t. TypeOK /\ TypeOK'
  BY TypeEnvironment DEF BootInv
<1> USE DEF power, control, fs, memory, procs, OutsidePid1
<1> USE DEF BootInv, MountInv, LockInv, TrustInv, ChildInv, ClockInv, OriginInv, HaltInv,
            RefusalHasCause
<1>1. CASE ServerBinds \/ ServerLeavesPort \/ ServerExits \/ OrphanExits
  BY <1>1, <1>t DEF ServerBinds, ServerLeavesPort, ServerExits, OrphanExits
<1>2. CASE AttestBinds \/ AttestExits
  BY <1>2, <1>t DEF AttestBinds, AttestExits
<1>3. CASE PublishRelease
  BY <1>3, <1>t DEF PublishRelease
<1>4. CASE Stopped
  BY <1>4, <1>t DEF Stopped, vars
<1>5. QED
  BY <1>1, <1>2, <1>3, <1>4 DEF Environment

LEMMA BootStutter ==
  ASSUME BootInv, UNCHANGED vars
  PROVE  BootInv'
<1>1. TypeOK'
  BY TypeStutter DEF BootInv
<1>2. QED
  BY <1>1 DEF BootInv, MountInv, LockInv, TrustInv, ChildInv, ClockInv, OriginInv, HaltInv,
     RefusalHasCause, vars, power, control, fs, memory, procs

\* The invariant holds throughout every behaviour.
THEOREM BootInvariant == Spec => []BootInv
<1>1. BootInv /\ [Next]_vars => BootInv'
  BY BootPid1, BootEnvironment, BootStutter DEF Next
<1>2. QED
  BY <1>1, BootInit, PTL DEF Spec

-----------------------------------------------------------------------------
(* The safety properties.                                                  *)

\* For every set of binaries: whatever the network answers, and whichever proper
\* subset of the three checks is glitched, a server runs only from signed bytes
\* that lie read-only at TARGET_PATH.
THEOREM OnlyVerifiedRunsAlways == Spec => []OnlyVerifiedRuns
<1>1. BootInv => OnlyVerifiedRuns
  BY DEF BootInv, MountInv, LockInv, TrustInv, ChildInv, OnlyVerifiedRuns,
         Deployed, Locked, Spawned, WatchPc
<1>2. QED
  BY <1>1, BootInvariant, PTL

\* The hash that attestation vouches for is the hash of the image that runs.
THEOREM AttestedHashIsPayloadAlways == Spec => []AttestedHashIsPayload
<1>1. BootInv => AttestedHashIsPayload
  BY DEF BootInv, TrustInv, ChildInv, AttestedHashIsPayload, HashOf,
         Deployed, Locked, Spawned, WatchPc
<1>2. QED
  BY <1>1, BootInvariant, PTL

\* None of the loader's own tmpfs mounts is writable and executable beside a server.
THEOREM LockedBeforeServerAlways == Spec => []LockedBeforeServer
<1>1. BootInv => LockedBeforeServer
  BY DEF BootInv, MountInv, LockInv, ChildInv, LockedBeforeServer, WritableExecutable,
         PayloadDir, Locked, Spawned, WatchPc
<1>2. QED
  BY <1>1, BootInvariant, PTL

\* Assets that were published together are never refused.
THEOREM RefusalHasCauseAlways == Spec => []RefusalHasCause
<1>1. BootInv => RefusalHasCause
  BY DEF BootInv, HaltInv
<1>2. QED
  BY <1>1, BootInvariant, PTL

\* No download and no child without a clock at or after the floor.
THEOREM ClockTrustedAlways == Spec => []ClockTrustedFromDownload
<1>1. BootInv => ClockTrustedFromDownload
  BY DEF BootInv, ClockInv, ClockTrustedFromDownload, BeforeTime, Downloading,
         WatchPc, DeployPc
<1>2. QED
  BY <1>1, BootInvariant, PTL

-----------------------------------------------------------------------------
(* Refinement: every step of the loader is a step of TrustedBoot or leaves *)
(* phase, running and attested alone.                                      *)

\* A step that keeps the VM and the two children as they are is a stutter.
LEMMA QuietStep ==
  ASSUME UNCHANGED <<vm, server, image, attest, attest_hash>>
  PROVE  UNCHANGED Abstract!vars
  BY DEF Abstract!vars, phase

LEMMA PanicHalts ==
  ASSUME vm = "up", NEW reason \in HaltReason, panic_shutdown(reason)
  PROVE  Abstract!Halt
  BY DEF panic_shutdown, Abstract!Halt, phase, procs

LEMMA StepRefines ==
  ASSUME BootInv, [Next]_vars
  PROVE  [Abstract!Next]_(Abstract!vars)
<1> USE DEF power, control, fs, memory, procs, At, Goto
<1>1. CASE UNCHANGED vars
  BY <1>1, QuietStep DEF vars
<1>2. CASE MountFails \/ TimeFails \/ DownloadGivesUp \/ DeployFails \/ ChildReaped
           \/ HashMismatch \/ SignatureRejected
  <2>1. vm = "up" /\ \E reason \in HaltReason : panic_shutdown(reason)
    BY <1>2 DEF MountFails, TimeFails, DownloadGivesUp, DeployFails, ChildReaped,
                HashMismatch, SignatureRejected, HaltReason, TimeFailure, DeployPc
  <2>2. QED
    BY <2>1, PanicHalts DEF Abstract!Next
<1>3. CASE MountNext \/ ConfigureKernel \/ enforce_time_floor \/ SettleNetwork
           \/ SetClock \/ ResolverStalls \/ StalledForever
  BY <1>3, QuietStep DEF MountNext, ConfigureKernel, enforce_time_floor, SettleNetwork,
     SetClock, ResolverStalls, StalledForever, vars
<1>4. CASE DownloadRetries \/ DownloadBinary \/ DownloadHash \/ HashMatches
           \/ DownloadSignature \/ SignatureAccepted
  BY <1>4, QuietStep DEF DownloadRetries, DownloadBinary, DownloadHash, HashMatches,
     DownloadSignature, SignatureAccepted, Received
<1>5. CASE WritePayload \/ ChmodPayload \/ lockdown_filesystem
           \/ OrphanReaped \/ NothingToReap \/ WakeUp
  BY <1>5, QuietStep DEF WritePayload, ChmodPayload, lockdown_filesystem,
     OrphanReaped, NothingToReap, WakeUp
<1>6. CASE SpawnServer
  <2>1. server = "none" /\ attest = "none" /\ file \in Signed
    BY <1>6 DEF SpawnServer, BootInv, TrustInv, ChildInv, Deployed, Locked, Spawned, WatchPc
  <2>2. Abstract!Admit
    BY <1>6, <2>1 DEF SpawnServer, Abstract!Admit, phase
  <2>3. QED
    BY <2>2 DEF Abstract!Next
<1>7. CASE SpawnAttest
  <2>1. /\ server # "none" /\ attest = "none" /\ attest_hash = NoText
        /\ image = file /\ file \in Signed /\ hash_hex = HashOf(file)
    BY <1>7 DEF SpawnAttest, BootInv, TrustInv, ChildInv, Deployed, Locked, Spawned, WatchPc
  <2>2. image \in Binary
    BY <2>1, LoaderAssumption
  <2>3. phase \in {"serving", "failing"} /\ UNCHANGED phase
    BY <1>7, <2>1 DEF SpawnAttest, phase
  <2>4. Abstract!Attest
    BY <1>7, <2>1, <2>2, <2>3 DEF SpawnAttest, Abstract!Attest, HashOf
  <2>5. QED
    BY <2>4 DEF Abstract!Next
<1>8. CASE ServerBinds \/ ServerLeavesPort \/ OrphanExits \/ PublishRelease \/ Stopped
  BY <1>8, QuietStep DEF ServerBinds, ServerLeavesPort, OrphanExits, PublishRelease,
     Stopped, OutsidePid1, vars
<1>9. CASE ServerExits \/ AttestBinds \/ AttestExits
  <2>1. vm = "up" /\ server # "none" /\ UNCHANGED <<vm, image, attest_hash>>
    BY <1>9 DEF ServerExits, AttestBinds, AttestExits, OutsidePid1, BootInv, ChildInv,
       Spawned, WatchPc
  <2>2. server' # "none"
    BY <1>9, <2>1 DEF ServerExits, AttestBinds, AttestExits
  <2>3. /\ server = "zombie" => server' = "zombie"
        /\ attest = "zombie" => attest' = "zombie"
    BY <1>9 DEF ServerExits, AttestBinds, AttestExits
  <2>4. Abstract!Fail \/ UNCHANGED Abstract!vars
    BY <2>1, <2>2, <2>3 DEF phase, Abstract!Fail, Abstract!vars
  <2>5. QED
    BY <2>4 DEF Abstract!Next
<1>10. QED
  BY <1>1, <1>2, <1>3, <1>4, <1>5, <1>6, <1>7, <1>8, <1>9 DEF Next, Pid1, Environment

\* The loader implements the safety part of TrustedBoot: at most one payload is
\* ever started, a signed one, and only its digest is ever attested.
THEOREM Refinement == Spec => Abstract!Safety
<1>1. Init => Abstract!Init
  BY DEF Init, Abstract!Init, phase
<1>2. QED
  BY <1>1, StepRefines, BootInvariant, PTL DEF Spec, Abstract!Safety

-----------------------------------------------------------------------------
(* The whole VM: the loader keeps its invariant beside an attestation      *)
(* server that serves, and the reports the server sends are bound to the   *)
(* image the loader verified.                                              *)

\* A report that is being sent names the digest of the image the server was started from
\* and the nonce of its own request.
ReportInv ==
  \A c \in Conn : reply[c] = 200 =>
    attest # "none" /\ report[c] = <<"sha512", Sha384(image), c>>

VmInv == BootInv /\ ReportInv

\* Whatever moves inside the attestation server, PID 1 sees a step of Loader or none.
LEMMA VmStepIsLoaderStep == VmNext => [Next]_vars
BY DEF VmNext, Outside, Serve, AttestAborts, Next, Environment

\* Once the attestation server has been started, it and the image stay.
LEMMA ChildrenStay ==
  ASSUME BootInv, [Next]_vars, attest # "none"
  PROVE  attest' # "none" /\ image' = image
<1> USE DEF power, control, fs, memory, procs, At, Goto
<1>1. pc \in WatchPc
  BY DEF BootInv, ChildInv
<1>2. CASE UNCHANGED vars \/ Stopped
  BY <1>2 DEF vars, Stopped
<1>3. CASE Environment /\ ~Stopped
  BY <1>3 DEF Environment, ServerBinds, ServerLeavesPort, ServerExits, OrphanExits,
     AttestBinds, AttestExits, PublishRelease, OutsidePid1
<1>4. CASE Pid1
  <2>1. ChildReaped \/ OrphanReaped \/ NothingToReap \/ WakeUp
    BY <1>1, <1>4 DEF WatchPc, Pid1, MountNext, MountFails, ConfigureKernel,
       enforce_time_floor, SettleNetwork, SetClock, TimeFails, ResolverStalls,
       StalledForever, DownloadRetries, DownloadGivesUp, DownloadBinary, DownloadHash,
       HashMatches, HashMismatch, DownloadSignature, SignatureAccepted, SignatureRejected,
       WritePayload, ChmodPayload, lockdown_filesystem, SpawnServer, SpawnAttest,
       DeployFails, DeployPc, Downloading
  <2> QED
    BY <2>1 DEF ChildReaped, OrphanReaped, NothingToReap, WakeUp, panic_shutdown
<1> QED
  BY <1>2, <1>3, <1>4 DEF Next

\* The hash on the command line of the attestation server, decoded again.
LEMMA HashDecoded ==
  ASSUME BootInv, attest # "none"
  PROVE  HexDecode(attest_hash) = Sha384(image) /\ server # "none" /\ image \in Signed
BY DEF BootInv, ChildInv, TrustInv, HashOf, HexLower, HexDecode, Deployed, Locked, Spawned,
   WatchPc

LEMMA VmInitInvariant == VmInit => VmInv
<1>1. VmInit => BootInv
  BY BootInit DEF VmInit
<1>2. VmInit => ReportInv
  BY DEF VmInit, Att!Init, ReportInv
<1> QED
  BY <1>1, <1>2 DEF VmInv

LEMMA VmNextInvariant == VmInv /\ [VmNext]_all => VmInv'
<1> SUFFICES ASSUME VmInv, [VmNext]_all PROVE VmInv'
  OBVIOUS
<1>1. [Next]_vars
  BY VmStepIsLoaderStep DEF all
<1>2. BootInv /\ BootInv'
  BY <1>1, BootPid1, BootEnvironment, BootStutter DEF VmInv, Next
<1>3. CASE UNCHANGED <<inside, report>>
  BY <1>1, <1>2, <1>3, ChildrenStay DEF inside, VmInv, ReportInv
<1>4. CASE Serve
  <2>1. attest = "serving" /\ attest' # "none" /\ image' = image
    BY <1>1, <1>2, <1>4, ChildrenStay DEF Serve
  <2>2. HexDecode(attest_hash) = Sha384(image)
    BY <1>2, <2>1, HashDecoded
  <2>3. ASSUME NEW c \in Conn, reply'[c] = 200
        PROVE  report'[c] = <<"sha512", Sha384(image), c>>
    <3>1. report'[c] = IF reply[c] # 200 THEN ReportFor(c) ELSE report[c]
      BY <1>4, <2>3 DEF Serve
    <3>2. ReportFor(c) = <<"sha512", Sha384(image), c>>
      BY <2>2 DEF ReportFor, ReportData
    <3> QED
      BY <3>1, <3>2 DEF VmInv, ReportInv
  <2> QED
    BY <1>2, <2>1, <2>3 DEF VmInv, ReportInv, Sha384
<1> QED
  BY <1>3, <1>4 DEF VmNext, Outside, AttestAborts, all

\* Loader and attestation server keep the invariant together.
THEOREM VmInvariant == VmSpec => []VmInv
BY VmInitInvariant, VmNextInvariant, PTL DEF VmSpec

\* Every report the attestation server sends binds the hash of an image the owner signed,
\* the one the server runs, to the nonce of the request it answers.
THEOREM ReportsVouchForImageAlways == VmSpec => []ReportsVouchForImage
<1>1. VmInv => ReportsVouchForImage
  BY HashDecoded DEF VmInv, ReportInv, ReportsVouchForImage
<1> QED
  BY <1>1, VmInvariant, PTL

\* What the loader guarantees alone it guarantees beside a serving attestation server.
THEOREM VmRunsOnlyVerified == VmSpec => [](OnlyVerifiedRuns /\ AttestedHashIsPayload)
<1>1. BootInv => OnlyVerifiedRuns /\ AttestedHashIsPayload
  BY DEF BootInv, MountInv, LockInv, TrustInv, ChildInv, OnlyVerifiedRuns,
     AttestedHashIsPayload, HashOf, Deployed, Locked, Spawned, WatchPc
<1> QED
  BY <1>1, VmInvariant, PTL DEF VmInv

=============================================================================
