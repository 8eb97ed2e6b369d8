------------------------------- MODULE Loader -------------------------------
(***************************************************************************)
(* The micro-loader as PID 1 of the confidential VM: the boot pipeline of  *)
(* main() with prepare_system_env, the download loop, verification,        *)
(* deployment and lockdown, then the watchdog that reaps children.  It     *)
(* runs beside the server it spawned, the attestation server it spawned,   *)
(* orphans reparented to it, and a release page that may change under it.  *)
(*                                                                         *)
(* Cryptography is symbolic: a digest, a hex text and a signature are      *)
(* terms over the bytes they were computed from.                           *)
(***************************************************************************)
EXTENDS Naturals, Sequences, FiniteSets

CONSTANTS
  Binary,       \* byte strings that can be served as the_server
  Signed,       \* the ones the owner's P-384 key has signed
  Release,      \* the ones published as releases, each with its own assets
  NoBinary,     \* "no bytes": nothing downloaded, written or executed
  MaxAttempts,  \* MAX_DOWNLOAD_RETRIES
  Floor,        \* LAST_KNOWN_GOOD_TIME, in the model's time unit
  MaxTime,      \* bound: clock readings are 0..MaxTime
  MaxOrphans    \* bound: orphans that get reparented to PID 1

ASSUME LoaderAssumption ==
  /\ Release \subseteq Signed
  /\ Signed \subseteq Binary
  /\ NoBinary \notin Binary
  /\ MaxAttempts \in Nat \ {0}
  /\ Floor \in Nat
  /\ MaxTime \in Nat
  /\ MaxOrphans \in Nat

VARIABLES
  vm,          \* "up", "off" (reboot syscall) or "kpanic" (PID 1 exited)
  halt,        \* history: why PID 1 stopped the VM, "none" while it has not
  pc,          \* where main() is
  step,        \* index into the mount or remount table
  attempt,     \* attempt of the current download_with_retry
  clock,       \* CLOCK_REALTIME
  mounted,     \* mount points in place
  flags,       \* their MS_ flags
  file,        \* bytes at TARGET_PATH
  mode,        \* its permissions
  app_bytes, expected_hash, sig_bytes, hash_hex,  \* locals of main()
  origin,      \* history: the release each asset was taken from
  latest,      \* the release the "latest" URLs resolve to
  server,      \* the server process
  image,       \* history: the bytes the server process was started from
  attest,      \* the attestation server process
  attest_hash, \* the payload hash on its command line
  port,        \* owner of TCP port 8080
  zombies,     \* exited orphans waiting for PID 1
  orphans      \* orphans that may still exit

power   == <<vm, halt>>
control == <<pc, step, attempt>>
fs      == <<mounted, flags, file, mode>>
memory  == <<app_bytes, expected_hash, sig_bytes, hash_hex, origin>>
procs   == <<server, image, attest, attest_hash, port, zombies, orphans>>
vars    == <<power, control, clock, fs, memory, latest, procs>>

-----------------------------------------------------------------------------
(* Symbolic cryptography and the assets of a release.                      *)

Sha384(b) == <<"sha384", b>>
HexLower(d) == <<"hex", d>>
Sign(b) == <<"ecdsa", b>>
NoText == <<"no text">>
NoSig == <<"no signature">>

\* UnparsedPublicKey::verify under PUBLIC_KEY_BYTES: the owner signed exactly these bytes.
Verify(b, s) == b \in Signed /\ s = Sign(b)

\* A hash file is its text and whether white space surrounds it.
HashText == {HexLower(Sha384(b)) : b \in Binary} \cup {NoText}
HashFile == [text : HashText, padded : BOOLEAN]
Trim(f) == f.text
Signature == {Sign(b) : b \in Signed} \cup {NoSig}

Asset == {"binary", "hash", "signature"}

\* The files of release r as its pipeline publishes them.
AssetOf(r) ==
  [binary    |-> r,
   hash      |-> [text |-> HexLower(Sha384(r)), padded |-> TRUE],
   signature |-> Sign(r)]

-----------------------------------------------------------------------------
(* The mounts of prepare_system_env and lockdown_filesystem, in order.     *)

MountPoint == {"/proc", "/sys", "/dev", "/dev/pts", "/tmp", "/run", "/run/payload"}
MountFlag == {"nosuid", "nodev", "noexec", "rdonly"}
PayloadDir == "/run/payload"

\* [at, flags, fatal]: fatal mounts end in panic_shutdown when they fail.
MountPlan ==
  << [at |-> "/proc",    flags |-> {"nosuid", "nodev", "noexec"}, fatal |-> TRUE],
     [at |-> "/sys",     flags |-> {"nosuid", "nodev", "noexec"}, fatal |-> TRUE],
     [at |-> "/dev",     flags |-> {"nosuid"},                    fatal |-> TRUE],
     [at |-> "/dev/pts", flags |-> {},                            fatal |-> FALSE],
     [at |-> "/tmp",     flags |-> {"nosuid", "nodev", "noexec"}, fatal |-> TRUE],
     [at |-> "/run",     flags |-> {"nosuid", "nodev", "noexec"}, fatal |-> TRUE],
     [at |-> PayloadDir, flags |-> {"nosuid", "nodev"},           fatal |-> TRUE] >>

\* MUTANT: the payload tmpfs is remounted without MS_RDONLY.
RemountPlan_NotReadOnly ==
  << [at |-> PayloadDir, flags |-> {"nosuid", "nodev"}],
     [at |-> "/tmp",     flags |-> {"nosuid", "nodev", "noexec"}],
     [at |-> "/run",     flags |-> {"nosuid", "nodev", "noexec"}] >>

RemountPlan ==
  << [at |-> PayloadDir, flags |-> {"rdonly", "nosuid", "nodev"}],
     [at |-> "/tmp",     flags |-> {"nosuid", "nodev", "noexec"}],
     [at |-> "/run",     flags |-> {"nosuid", "nodev", "noexec"}] >>

WritableExecutable(m) ==
  m \in mounted /\ flags[m] \cap {"rdonly", "noexec"} = {}

-----------------------------------------------------------------------------
(* Steps of PID 1.                                                         *)

Downloading == {"get_binary", "get_hash", "get_signature"}
BootPc == {"mount", "environment", "floor", "settle", "time", "stalled",
           "compare", "verify", "write", "chmod", "lockdown",
           "spawn_server", "spawn_attest"} \cup Downloading
WatchPc == {"watch", "sleep"}

\* The panic_shutdown calls PID 1 can reach, by the step that makes them.
DeployPc == {"write", "chmod", "lockdown", "spawn_server", "spawn_attest"}
TimeFailure == {"no_time", "time_before_floor", "clock_settime"}
HaltReason == {"mount", "download", "hash_mismatch", "bad_signature",
               "server_exited", "attest_exited"} \cup TimeFailure \cup DeployPc

At(l) == vm = "up" /\ pc = l

\* panic_shutdown in PID 1, which is root: the reboot syscall powers the VM off;
\* should it return, exit(1) of PID 1 makes the kernel panic.  Either way it stops.
panic_shutdown(reason) ==
  /\ vm' \in {"off", "kpanic"}
  /\ halt' = reason
  /\ UNCHANGED <<control, clock, fs, memory, latest, procs>>

Goto(l) ==
  /\ pc' = l
  /\ UNCHANGED <<power, step, attempt>>

\* One mount of prepare_system_env.
MountNext ==
  /\ At("mount")
  /\ \/ /\ mounted' = mounted \cup {MountPlan[step].at}
        /\ flags' = [flags EXCEPT ![MountPlan[step].at] = MountPlan[step].flags]
     \/ /\ ~MountPlan[step].fatal
        /\ UNCHANGED <<mounted, flags>>
  /\ IF step < Len(MountPlan)
       THEN step' = step + 1 /\ UNCHANGED pc
       ELSE step' = 1 /\ pc' = "environment"
  /\ UNCHANGED <<power, attempt, clock, file, mode, memory, latest, procs>>

MountFails ==
  /\ At("mount")
  /\ MountPlan[step].fatal
  /\ panic_shutdown("mount")

\* init_networking and apply_kernel_hardening: every failure is only a warning.
ConfigureKernel ==
  /\ At("environment")
  /\ Goto("floor")
  /\ UNCHANGED <<clock, fs, memory, latest, procs>>

\* A clock before the floor is raised to it; a failing clock_settime is a warning.
enforce_time_floor ==
  /\ At("floor")
  /\ clock' \in IF clock < Floor THEN {clock, Floor} ELSE {clock}
  /\ Goto("settle")
  /\ UNCHANGED <<fs, memory, latest, procs>>

\* wait_for_entropy, the settling delay and check_network_ready, which only warns.
SettleNetwork ==
  /\ At("settle")
  /\ Goto("time")
  /\ UNCHANGED <<clock, fs, memory, latest, procs>>

\* Secure time was obtained, is not before the floor, and clock_settime took it.
SetClock ==
  /\ At("time")
  /\ \E midpoint \in 0..MaxTime : midpoint >= Floor /\ clock' = midpoint
  /\ Goto("get_binary")
  /\ UNCHANGED <<fs, memory, latest, procs>>

\* No source answered, the time is before the floor, or clock_settime failed.
TimeFails ==
  /\ At("time")
  /\ \E reason \in TimeFailure : panic_shutdown(reason)

\* A DNSCrypt resolver accepted a TCP connection and never answers: the
\* reads of send_dns_query_tcp have no timeout and main() sets none around them.
ResolverStalls ==
  /\ At("time")
  /\ Goto("stalled")
  /\ UNCHANGED <<clock, fs, memory, latest, procs>>

\* main() waits in that read for ever.
StalledForever ==
  /\ At("stalled")
  /\ UNCHANGED vars

-----------------------------------------------------------------------------
(* download_with_retry and the verification of what it returned.           *)

\* MUTANT: no bound on the number of attempts.
DownloadRetries_Unbounded ==
  /\ vm = "up" /\ pc \in Downloading
  /\ attempt <= MaxAttempts
  /\ attempt' = attempt + 1
  /\ UNCHANGED <<power, pc, step, clock, fs, memory, latest, procs>>

\* The attempt failed: no connection, bad status, body error, too big or empty.
DownloadRetries ==
  /\ vm = "up" /\ pc \in Downloading
  /\ attempt < MaxAttempts
  /\ attempt' = attempt + 1
  /\ UNCHANGED <<power, pc, step, clock, fs, memory, latest, procs>>

DownloadGivesUp ==
  /\ vm = "up" /\ pc \in Downloading
  /\ attempt = MaxAttempts
  /\ panic_shutdown("download")

\* What a successful request for asset a may return, with where it came from:
\* the asset of the release that is latest now, or anything else.
Response(a, Any) ==
  {<<latest, AssetOf(latest)[a]>>} \cup ({NoBinary} \X Any)

Received(a, from, next) ==
  /\ origin' = [origin EXCEPT ![a] = from]
  /\ attempt' = 1
  /\ pc' = next
  /\ UNCHANGED <<power, step, clock, fs, latest, procs>>

DownloadBinary ==
  /\ At("get_binary")
  /\ \E r \in Response("binary", Binary) :
       /\ app_bytes' = r[2]
       /\ Received("binary", r[1], "get_hash")
  /\ UNCHANGED <<expected_hash, sig_bytes, hash_hex>>

\* MUTANT: white space around the published hash is kept.
DownloadHash_NoTrim ==
  /\ At("get_hash")
  /\ \E r \in Response("hash", HashFile) :
       /\ expected_hash' = IF r[2].padded THEN NoText ELSE r[2].text
       /\ Received("hash", r[1], "compare")
  /\ UNCHANGED <<app_bytes, sig_bytes, hash_hex>>

DownloadHash ==
  /\ At("get_hash")
  /\ \E r \in Response("hash", HashFile) :
       /\ expected_hash' = Trim(r[2])
       /\ Received("hash", r[1], "compare")
  /\ UNCHANGED <<app_bytes, sig_bytes, hash_hex>>

\* MUTANT: the published hash is taken over without comparing it.
HashMatches_Trusting ==
  /\ At("compare")
  /\ hash_hex' = expected_hash
  /\ Goto("get_signature")
  /\ UNCHANGED <<clock, fs, app_bytes, expected_hash, sig_bytes, origin, latest, procs>>

\* STEP 3: hash the binary and compare with the published text.
HashMatches ==
  /\ At("compare")
  /\ hash_hex' = HexLower(Sha384(app_bytes))
  /\ hash_hex' = expected_hash
  /\ Goto("get_signature")
  /\ UNCHANGED <<clock, fs, app_bytes, expected_hash, sig_bytes, origin, latest, procs>>

\* MUTANT: a mismatch makes the loader fetch the hash again.
HashMismatch_Refetch ==
  /\ At("compare")
  /\ HexLower(Sha384(app_bytes)) # expected_hash
  /\ Goto("get_hash")
  /\ UNCHANGED <<clock, fs, memory, latest, procs>>

HashMismatch ==
  /\ At("compare")
  /\ HexLower(Sha384(app_bytes)) # expected_hash
  /\ panic_shutdown("hash_mismatch")

DownloadSignature ==
  /\ At("get_signature")
  /\ \E r \in Response("signature", Signature) :
       /\ sig_bytes' = r[2]
       /\ Received("signature", r[1], "verify")
  /\ UNCHANGED <<app_bytes, expected_hash, hash_hex>>

\* The three redundant checks of STEP 4: a transient hardware fault may turn the
\* result of a check in g into success, but never of all three.
Checks(g) == [i \in 1..3 |-> i \in g \/ Verify(app_bytes, sig_bytes)]
Glitches == (SUBSET (1..3)) \ {1..3}

\* MUTANT: one successful check is enough.
SignatureAccepted_AnyCheck ==
  /\ At("verify")
  /\ \E g \in Glitches : \E i \in 1..3 : Checks(g)[i]
  /\ Goto("write")
  /\ UNCHANGED <<clock, fs, memory, latest, procs>>

SignatureAccepted ==
  /\ At("verify")
  /\ \E g \in Glitches : \A i \in 1..3 : Checks(g)[i]
  /\ Goto("write")
  /\ UNCHANGED <<clock, fs, memory, latest, procs>>

SignatureRejected ==
  /\ At("verify")
  /\ \E g \in Glitches : \E i \in 1..3 : ~Checks(g)[i]
  /\ panic_shutdown("bad_signature")

-----------------------------------------------------------------------------
(* Deployment, lockdown and the two children.                              *)

\* std::fs::write, then app_bytes is dropped.
WritePayload ==
  /\ At("write")
  /\ file' = app_bytes
  /\ app_bytes' = NoBinary
  /\ Goto("chmod")
  /\ UNCHANGED <<clock, mounted, flags, mode, expected_hash, sig_bytes,
                 hash_hex, origin, latest, procs>>

ChmodPayload ==
  /\ At("chmod")
  /\ mode' = "0555"
  /\ Goto("lockdown")
  /\ UNCHANGED <<clock, mounted, flags, file, memory, latest, procs>>

\* One remount of lockdown_filesystem.
lockdown_filesystem ==
  /\ At("lockdown")
  /\ flags' = [flags EXCEPT ![RemountPlan[step].at] = RemountPlan[step].flags]
  /\ IF step < Len(RemountPlan)
       THEN step' = step + 1 /\ UNCHANGED pc
       ELSE step' = 1 /\ pc' = "spawn_server"
  /\ UNCHANGED <<power, attempt, clock, mounted, file, mode, memory, latest, procs>>

\* The server runs as uid 65534 from the file at TARGET_PATH.
SpawnServer ==
  /\ At("spawn_server")
  /\ server' = "running"
  /\ image' = file
  /\ Goto("spawn_attest")
  /\ UNCHANGED <<clock, fs, memory, latest, attest, attest_hash, port, zombies, orphans>>

\* The loader executes itself again with the payload hash as argument.
SpawnAttest ==
  /\ At("spawn_attest")
  /\ attest' = "starting"
  /\ attest_hash' = hash_hex
  /\ Goto("watch")
  /\ UNCHANGED <<clock, fs, memory, latest, server, image, port, zombies, orphans>>

\* Any of these steps may fail, and each failure is fatal.
DeployFails ==
  /\ vm = "up"
  /\ pc \in DeployPc
  /\ panic_shutdown(pc)

-----------------------------------------------------------------------------
(* The watchdog loop: waitpid(-1, WNOHANG) until nothing is left, sleep.   *)

\* MUTANT: the exit of the attestation server is reaped like an orphan's.
ChildReaped_ServerOnly ==
  /\ At("watch")
  /\ \/ server = "zombie" /\ panic_shutdown("server_exited")
     \/ /\ attest = "zombie"
        /\ attest' = "none"
        /\ UNCHANGED <<power, control, clock, fs, memory, latest,
                       server, image, attest_hash, port, zombies, orphans>>

\* waitpid returned one of the two children.
ChildReaped ==
  /\ At("watch")
  /\ \/ server = "zombie" /\ panic_shutdown("server_exited")
     \/ attest = "zombie" /\ panic_shutdown("attest_exited")

\* MUTANT: only the two children are waited for.
OrphanReaped_Ignored ==
  /\ At("watch")
  /\ zombies > 0
  /\ Goto("sleep")
  /\ UNCHANGED <<clock, fs, memory, latest, procs>>

OrphanReaped ==
  /\ At("watch")
  /\ zombies > 0
  /\ zombies' = zombies - 1
  /\ UNCHANGED <<power, control, clock, fs, memory, latest,
                 server, image, attest, attest_hash, port, orphans>>

NothingToReap ==
  /\ At("watch")
  /\ server # "zombie" /\ attest # "zombie" /\ zombies = 0
  /\ Goto("sleep")
  /\ UNCHANGED <<clock, fs, memory, latest, procs>>

WakeUp ==
  /\ At("sleep")
  /\ Goto("watch")
  /\ UNCHANGED <<clock, fs, memory, latest, procs>>

Pid1 ==
  \/ MountNext \/ MountFails \/ ConfigureKernel \/ enforce_time_floor
  \/ SettleNetwork \/ SetClock \/ TimeFails \/ ResolverStalls \/ StalledForever
  \/ DownloadRetries \/ DownloadGivesUp \/ DownloadBinary \/ DownloadHash
  \/ HashMatches \/ HashMismatch \/ DownloadSignature
  \/ SignatureAccepted \/ SignatureRejected
  \/ WritePayload \/ ChmodPayload \/ lockdown_filesystem
  \/ SpawnServer \/ SpawnAttest \/ DeployFails
  \/ ChildReaped \/ OrphanReaped \/ NothingToReap \/ WakeUp

-----------------------------------------------------------------------------
(* The other processes and the world.                                      *)

\* What the children do leaves PID 1, its memory and the file system alone.
OutsidePid1 == UNCHANGED <<power, control, clock, fs, memory, latest, image, attest_hash>>

\* The server is not part of this repository: it may bind or leave port 8080,
\* exit at any time, and leave descendants that become orphans of PID 1.
ServerBinds ==
  /\ vm = "up" /\ server = "running" /\ port = "free"
  /\ port' = "server"
  /\ UNCHANGED <<server, attest, zombies, orphans>>
  /\ OutsidePid1

ServerLeavesPort ==
  /\ vm = "up" /\ port = "server"
  /\ port' = "free"
  /\ UNCHANGED <<server, attest, zombies, orphans>>
  /\ OutsidePid1

ServerExits ==
  /\ vm = "up" /\ server = "running"
  /\ server' = "zombie"
  /\ port' = IF port = "server" THEN "free" ELSE port
  /\ UNCHANGED <<attest, zombies, orphans>>
  /\ OutsidePid1

OrphanExits ==
  /\ vm = "up" /\ server # "none" /\ orphans > 0
  /\ orphans' = orphans - 1
  /\ zombies' = zombies + 1
  /\ UNCHANGED <<server, attest, port>>
  /\ OutsidePid1

\* MUTANT: the attestation server waits until the port is free.
AttestBinds_Waits ==
  /\ vm = "up" /\ attest = "starting"
  /\ port = "free" /\ attest' = "serving" /\ port' = "attest"
  /\ UNCHANGED <<server, zombies, orphans>>
  /\ OutsidePid1

\* run_attestation_server binds the port; when it is taken the process calls
\* panic_shutdown, whose reboot is refused to uid 65534, so that it exits.
AttestBinds ==
  /\ vm = "up" /\ attest = "starting"
  /\ \/ port = "free" /\ attest' = "serving" /\ port' = "attest"
     \/ port # "free" /\ attest' = "zombie" /\ UNCHANGED port
  /\ UNCHANGED <<server, zombies, orphans>>
  /\ OutsidePid1

\* Too many accept errors end in panic_shutdown, and the process may abort.
AttestExits ==
  /\ vm = "up" /\ attest \in {"starting", "serving"}
  /\ attest' = "zombie"
  /\ port' = IF port = "attest" THEN "free" ELSE port
  /\ UNCHANGED <<server, zombies, orphans>>
  /\ OutsidePid1

\* The owner publishes another release: "latest" moves, also during a boot.
PublishRelease ==
  /\ vm = "up" /\ pc \in Downloading
  /\ latest' \in Release \ {latest}
  /\ UNCHANGED <<power, control, clock, fs, memory, procs>>

\* Nothing runs in a VM that has stopped.
Stopped ==
  /\ vm # "up"
  /\ UNCHANGED vars

Environment ==
  \/ ServerBinds \/ ServerLeavesPort \/ ServerExits \/ OrphanExits
  \/ AttestBinds \/ AttestExits \/ PublishRelease \/ Stopped

-----------------------------------------------------------------------------
Init ==
  /\ vm = "up" /\ halt = "none"
  /\ pc = "mount" /\ step = 1 /\ attempt = 1
  /\ clock \in 0..MaxTime
  /\ mounted = {} /\ flags = [m \in MountPoint |-> {}]
  /\ file = NoBinary /\ mode = "default"
  /\ app_bytes = NoBinary /\ expected_hash = NoText
  /\ sig_bytes = NoSig /\ hash_hex = NoText
  /\ origin = [a \in Asset |-> NoBinary]
  /\ latest \in Release
  /\ server = "none" /\ image = NoBinary
  /\ attest = "none" /\ attest_hash = NoText
  /\ port = "free" /\ zombies = 0 /\ orphans = MaxOrphans

Next == Pid1 \/ Environment

\* PID 1 and the attestation process are scheduled; every await of PID 1 but the
\* stalled resolver read ends by itself or by a timeout, as a step that fails.
Fairness == WF_vars(Pid1) /\ WF_vars(AttestBinds)

Spec == Init /\ [][Next]_vars /\ Fairness

-----------------------------------------------------------------------------
(* Properties.                                                             *)

\* Every variable keeps its type; in particular an attempt counter of
\* download_with_retry never exceeds MAX_DOWNLOAD_RETRIES.
TypeOK ==
  /\ vm \in {"up", "off", "kpanic"}
  /\ halt \in HaltReason \cup {"none"}
  /\ pc \in BootPc \cup WatchPc
  /\ step \in 1..(CASE pc = "mount"    -> Len(MountPlan)
                    [] pc = "lockdown" -> Len(RemountPlan)
                    [] OTHER           -> 1)
  /\ attempt \in 1..MaxAttempts
  /\ clock \in Nat
  /\ mounted \subseteq MountPoint
  /\ flags \in [MountPoint -> SUBSET MountFlag]
  /\ file \in Binary \cup {NoBinary}
  /\ mode \in {"default", "0555"}
  /\ app_bytes \in Binary \cup {NoBinary}
  /\ expected_hash \in HashText /\ hash_hex \in HashText
  /\ sig_bytes \in Signature
  /\ origin \in [Asset -> Release \cup {NoBinary}]
  /\ latest \in Release
  /\ server \in {"none", "running", "zombie"}
  /\ image \in Binary \cup {NoBinary}
  /\ attest \in {"none", "starting", "serving", "zombie"}
  /\ attest_hash \in HashText
  /\ port \in {"free", "server", "attest"}
  /\ zombies \in Nat /\ orphans \in Nat

\* Whatever happened on the network, and however many but all of the redundant
\* checks were glitched: a server process only ever exists started from bytes the
\* owner signed, and those bytes still lie, unwritable, on a read-only mount.
OnlyVerifiedRuns ==
  server # "none" =>
    /\ image \in Signed
    /\ file = image /\ mode = "0555"
    /\ PayloadDir \in mounted /\ "rdonly" \in flags[PayloadDir]

\* The hash handed to the attestation server, which every report it serves is
\* bound to, is the hash of the image the server process was started from, although
\* binary, hash and signature come from three downloads that a release can separate.
AttestedHashIsPayload ==
  attest # "none" => attest_hash = HexLower(Sha384(image))

\* No tmpfs the loader created is both writable and executable while a server exists.
LockedBeforeServer ==
  server # "none" =>
    \A m \in {PayloadDir, "/tmp", "/run"} : ~WritableExecutable(m)

\* A boot that is refused for its hash or its signature did not get a consistent
\* set of assets of one release: what the owner published together is accepted.
RefusalHasCause ==
  /\ halt = "hash_mismatch" =>
       origin["binary"] = NoBinary \/ origin["binary"] # origin["hash"]
  /\ halt = "bad_signature" =>
       origin["binary"] = NoBinary \/ origin["binary"] # origin["signature"]

\* Certificates of the download hosts are only ever judged, and children only
\* started, by a clock that is not before LAST_KNOWN_GOOD_TIME, even when the early
\* enforce_time_floor could not set it.
ClockTrustedFromDownload ==
  pc \in Downloading \cup WatchPc \cup DeployPc => clock >= Floor

\* Boot does not loop: it reaches the watchdog, powers off, or hangs in the
\* resolver read that has no timeout.
BootSettles == <>(pc \in WatchPc \/ vm # "up" \/ pc = "stalled")

\* A server is never left running without attestation: the attestation server
\* gets its port or the VM stops.
NoServiceWithoutAttestation ==
  server = "running" ~> (attest = "serving" \/ vm # "up")

\* PID 1 reaps the orphans reparented to it.
OrphansReaped == zombies > 0 ~> (zombies = 0 \/ vm # "up")

-----------------------------------------------------------------------------
(* What the documentation says and the code does not do.                   *)

\* docs/architecture.md: "After lockdown, no writable+executable filesystem exists
\* anywhere in the VM".  /dev and /dev/pts are mounted without MS_NOEXEC.
NoWritableExecutablePaths ==
  server # "none" => \A m \in MountPoint : ~WritableExecutable(m)

\* docs/loader_security.md: the server cannot bind port 8080, "already bound by PID 1".
PortNeverServers == port # "server"

\* docs/threat_model.md: "Persistent network failure triggers immediate shutdown":
\* boot ends in the watchdog or with the VM stopped.
NetworkFailureShutsDown == <>(pc \in WatchPc \/ vm # "up")

-----------------------------------------------------------------------------
(* The abstract specification, and the state of it this module implements. *)

phase ==
  IF vm # "up" THEN "halted"
  ELSE IF server = "zombie" \/ attest = "zombie" THEN "failing"
  ELSE IF server = "none" THEN "booting"
  ELSE "serving"

Abstract == INSTANCE TrustedBoot
              WITH Trusted <- Signed, None <- NoBinary,
                   running <- image, attested <- attest_hash,
                   NoDigest <- NoText, Digest <- [b \in Binary |-> HexLower(Sha384(b))]

\* The loader implements TrustedBoot: it admits only signed bytes, attests what it
\* admitted, never replaces either, and stops the VM after a child has exited.
ImplementsTrustedBoot == Abstract!Spec
=============================================================================
