------------------------- MODULE AttestationServer -------------------------
(***************************************************************************)
(* The attestation server of attestation.rs: the accept loop, one task per *)
(* accepted connection (handle_attestation_connection), the per-subnet     *)
(* limiter they share under a mutex, and the semaphore that bounds the     *)
(* requests to the SEV firmware.  A connection is used once.               *)
(***************************************************************************)
EXTENDS Naturals, Sequences, FiniteSets

CONSTANTS
  Conn,           \* the connections clients make
  Prefix, Host,   \* an address is a network prefix and a host part
  MaxRequests,    \* max_requests (10)
  Window,         \* window (3 s), in ticks
  MaxConcurrent,  \* max_concurrent (2)
  MaxHardware,    \* permits of global_hardware_limiter (8)
  MaxBuffer,      \* bytes of request that are kept (8192)
  MaxChunk,       \* bytes one read may return (1024)
  MaxErrors,      \* MAX_CONSECUTIVE_ERRORS
  GcThreshold,    \* subnets in the map before idle ones are collected (10000)
  MaxFds,         \* bound: sockets the process may have open
  MaxTime         \* bound: the clock runs from 0 to MaxTime

ASSUME AttestationAssumption ==
  /\ IsFiniteSet(Conn)
  /\ MaxRequests \in Nat /\ Window \in Nat /\ MaxConcurrent \in Nat
  /\ MaxHardware \in Nat /\ MaxBuffer \in Nat /\ MaxChunk \in Nat \ {0}
  /\ MaxErrors \in Nat \ {0} /\ GcThreshold \in Nat
  /\ MaxFds \in Nat /\ MaxTime \in Nat

VARIABLES
  srv,       \* the accept loop: "accepting", sleeping in "throttle" or "backoff", "exited"
  errs,      \* consecutive_errors
  now,       \* Instant::now()
  subnets,   \* the limiter's HashMap: prefix |-> [requests, active]
  free,      \* permits left in global_hardware_limiter
  st,        \* where each connection's task is
  from,      \* its peer address, given with the connection
  got,       \* bytes in its buf, while it reads
  reply,     \* status of the response it is sending, 0 if none
  permit,    \* it holds _subnet_permit
  hw,        \* it holds _hardware_permit
  granted    \* history: when the limiter let it in, NotGranted if it did not

loop    == <<srv, errs>>
limiter == <<subnets, permit, granted>>
device  == <<free, hw>>
request == <<from, got>>
vars    == <<loop, now, limiter, device, request, st, reply>>

NotGranted == MaxTime + 1
Ip == Prefix \X Host

\* Subnet::from: the first three octets of an IPv4, the first eight of an IPv6 address.
Subnet(ip) == ip[1]

-----------------------------------------------------------------------------
(* PerSubnetLimiter.  Every operation runs under the mutex of the map.     *)

\* MUTANT: a request exactly one window old is forgotten.
Outdated_AtWindow(t) == now - t >= Window

Outdated(t) == now - t > Window

\* Pop outdated instants off the front of a VecDeque until one is recent.
Prune(q) ==
  LET popped == {i \in 1..Len(q) : \A j \in 1..i : Outdated(q[j])}
  IN  SubSeq(q, Cardinality(popped) + 1, Len(q))

\* MUTANT: entries without a recent request are collected although in use.
Collect_InUse(m) ==
  LET kept == {s \in DOMAIN m : Prune(m[s].requests) # << >>}
  IN  [s \in kept |-> [m[s] EXCEPT !.requests = Prune(@)]]

\* MUTANT: entries are kept as long as they have any request at all.
Collect_Unpruned(m) ==
  LET kept == {s \in DOMAIN m : m[s].active > 0 \/ m[s].requests # << >>}
  IN  [s \in kept |-> m[s]]

\* map.retain: prune every entry, keep those with a connection or a recent request.
Collect(m) ==
  LET kept == {s \in DOMAIN m : m[s].active > 0 \/ Prune(m[s].requests) # << >>}
  IN  [s \in kept |-> [m[s] EXCEPT !.requests = Prune(@)]]

Fresh == [requests |-> << >>, active |-> 0]

\* The map after the garbage collection at the start of acquire.
Collected ==
  IF Cardinality(DOMAIN subnets) > GcThreshold THEN Collect(subnets) ELSE subnets

\* The entry of s that acquire finds there or makes, pruned.
EntryOf(s) ==
  LET e == IF s \in DOMAIN Collected THEN Collected[s] ELSE Fresh
  IN  [e EXCEPT !.requests = Prune(@)]

\* The map with e as the entry of s.
Put(s, e) == [t \in DOMAIN Collected \cup {s} |-> IF t = s THEN e ELSE Collected[t]]

RateExceeded(s) == Len(EntryOf(s).requests) >= MaxRequests

\* MUTANT: one connection too many.
ConcurrencyExceeded_OffByOne(s) == EntryOf(s).active > MaxConcurrent

ConcurrencyExceeded(s) == EntryOf(s).active >= MaxConcurrent

-----------------------------------------------------------------------------
(* The accept loop of run_attestation_server.                              *)

Open == {c \in Conn : st[c] \notin {"new", "closed"}}

\* accept returned a connection: the error count is reset and a task spawned.
Accept(c) ==
  /\ srv = "accepting" /\ st[c] = "new"
  /\ Cardinality(Open) < MaxFds
  /\ errs' = 0
  /\ st' = [st EXCEPT ![c] = "accepted"]
  /\ UNCHANGED <<srv, now, limiter, device, request, reply>>

\* ConnectionAborted, ConnectionReset, BrokenPipe, Interrupted: try again.
AcceptTransient ==
  /\ srv = "accepting"
  /\ UNCHANGED vars

\* EMFILE or ENFILE: sleep and try again, whoever used the descriptors up.
AcceptNoFd ==
  /\ srv = "accepting"
  /\ srv' = "throttle"
  /\ UNCHANGED <<errs, now, limiter, device, request, st, reply>>

\* Any other error is counted, and the loop sleeps before it looks at the count.
AcceptError ==
  /\ srv = "accepting"
  /\ srv' = "backoff"
  /\ errs' = errs + 1
  /\ UNCHANGED <<now, limiter, device, request, st, reply>>

\* MUTANT: one more error is tolerated.
Resume_OffByOne ==
  /\ srv \in {"throttle", "backoff"}
  /\ srv' = IF srv = "backoff" /\ errs > MaxErrors THEN "exited" ELSE "accepting"
  /\ UNCHANGED <<errs, now, limiter, device, request, st, reply>>

\* The sleep ends; too many errors in a row end the process in panic_shutdown.
Resume ==
  /\ srv \in {"throttle", "backoff"}
  /\ srv' = IF srv = "backoff" /\ errs >= MaxErrors THEN "exited" ELSE "accepting"
  /\ UNCHANGED <<errs, now, limiter, device, request, st, reply>>

-----------------------------------------------------------------------------
(* handle_attestation_connection.                                          *)

At(c, l) == srv # "exited" /\ st[c] = l

Goto(c, l) == st' = [st EXCEPT ![c] = l]

Answer(c, status) ==
  /\ reply' = [reply EXCEPT ![c] = status]
  /\ Goto(c, "sending")

\* The handler leaves its read loop for l; the bytes in buf no longer matter.
EndRead(c, l) ==
  /\ got' = [got EXCEPT ![c] = 0]
  /\ Goto(c, l)

\* acquire lets the connection in.
AcquireGranted(c) ==
  LET s == Subnet(from[c]) IN
  /\ At(c, "accepted")
  /\ ~RateExceeded(s) /\ ~ConcurrencyExceeded(s)
  /\ subnets' = Put(s, [requests |-> Append(EntryOf(s).requests, now),
                        active   |-> EntryOf(s).active + 1])
  /\ permit' = [permit EXCEPT ![c] = TRUE]
  /\ granted' = [granted EXCEPT ![c] = now]
  /\ Goto(c, "reading")
  /\ UNCHANGED <<loop, now, device, request, reply>>

\* acquire refuses it; what it collected, inserted and pruned stays so.
AcquireRefused(c) ==
  LET s == Subnet(from[c]) IN
  /\ At(c, "accepted")
  /\ RateExceeded(s) \/ ConcurrencyExceeded(s)
  /\ subnets' = Put(s, EntryOf(s))
  /\ Answer(c, 429)
  /\ UNCHANGED <<loop, now, permit, granted, device, request>>

\* MUTANT: a full buffer is emptied instead of closing the connection.
ReadChunk_Empties(c) ==
  /\ At(c, "reading")
  /\ \E n \in 1..MaxChunk :
       \/ got[c] + n > MaxBuffer /\ got' = [got EXCEPT ![c] = 0] /\ UNCHANGED st
       \/ got[c] + n <= MaxBuffer /\ EndRead(c, "request")
       \/ got[c] + n <= MaxBuffer /\ got' = [got EXCEPT ![c] = @ + n] /\ UNCHANGED st
  /\ UNCHANGED <<loop, now, limiter, device, from, reply>>

\* A read returned n bytes: too many in all, the end of the header among them, or
\* the handler goes on reading.
ReadChunk(c) ==
  /\ At(c, "reading")
  /\ \E n \in 1..MaxChunk :
       \/ got[c] + n > MaxBuffer /\ EndRead(c, "closing")
       \/ got[c] + n <= MaxBuffer /\ EndRead(c, "request")
       \/ got[c] + n <= MaxBuffer /\ got' = [got EXCEPT ![c] = @ + n] /\ UNCHANGED st
  /\ UNCHANGED <<loop, now, limiter, device, from, reply>>

\* End of stream: what has arrived is parsed, unless nothing has.
ReadEof(c) ==
  /\ At(c, "reading")
  /\ EndRead(c, IF got[c] = 0 THEN "closing" ELSE "request")
  /\ UNCHANGED <<loop, now, limiter, device, from, reply>>

\* The read failed, or nothing came for three seconds.
ReadFails(c) ==
  /\ At(c, "reading")
  /\ EndRead(c, "closing")
  /\ UNCHANGED <<loop, now, limiter, device, from, reply>>

\* Not a GET of /v1/attestation: close without a word.  An unusable nonce: 400.
BadRequest(c) ==
  /\ At(c, "request")
  /\ \/ Goto(c, "closing") /\ UNCHANGED reply
     \/ Answer(c, 400)
  /\ UNCHANGED <<loop, now, limiter, device, request>>

\* MUTANT: the permit is taken without being counted.
TakeHardware_Uncounted(c) ==
  /\ At(c, "request")
  /\ free > 0
  /\ hw' = [hw EXCEPT ![c] = TRUE]
  /\ Goto(c, "ioctl")
  /\ UNCHANGED <<loop, now, limiter, free, request, reply>>

\* A well-formed request gets a permit from try_acquire of the semaphore.
TakeHardware(c) ==
  /\ At(c, "request")
  /\ free > 0
  /\ free' = free - 1
  /\ hw' = [hw EXCEPT ![c] = TRUE]
  /\ Goto(c, "ioctl")
  /\ UNCHANGED <<loop, now, limiter, request, reply>>

HardwareBusy(c) ==
  /\ At(c, "request")
  /\ free = 0
  /\ Answer(c, 503)
  /\ UNCHANGED <<loop, now, limiter, device, request>>

\* get_snp_attestation_report: the device is missing, the ioctl fails, or a report.
GetReport(c) ==
  /\ At(c, "ioctl")
  /\ \E status \in {200, 503} : Answer(c, status)
  /\ UNCHANGED <<loop, now, limiter, device, request>>

\* send_http_response succeeds or fails; the handler returns either way.
Send(c) ==
  /\ At(c, "sending")
  /\ reply' = [reply EXCEPT ![c] = 0]
  /\ Goto(c, "closing")
  /\ UNCHANGED <<loop, now, limiter, device, request>>

\* The locals are dropped in reverse order: first _hardware_permit, ...
DropHardware(c) ==
  /\ At(c, "closing")
  /\ hw[c]
  /\ hw' = [hw EXCEPT ![c] = FALSE]
  /\ free' = free + 1
  /\ UNCHANGED <<loop, now, limiter, request, st, reply>>

\* MUTANT: _subnet_permit is declared last and so dropped first.
DropPermit_First(c) ==
  LET s == Subnet(from[c]) IN
  /\ At(c, "closing")
  /\ permit[c]
  /\ permit' = [permit EXCEPT ![c] = FALSE]
  /\ subnets' = [subnets EXCEPT ![s].active = @ - 1]
  /\ UNCHANGED <<loop, now, granted, device, request, st, reply>>

\* MUTANT: the permit is gone but its entry still counts it.
DropPermit_Leaks(c) ==
  /\ At(c, "closing")
  /\ permit[c] /\ ~hw[c]
  /\ permit' = [permit EXCEPT ![c] = FALSE]
  /\ UNCHANGED <<loop, now, subnets, granted, device, request, st, reply>>

\* ... then _subnet_permit, which looks its entry up again (saturating_sub), ...
DropPermit(c) ==
  LET s == Subnet(from[c]) IN
  /\ At(c, "closing")
  /\ permit[c] /\ ~hw[c]
  /\ permit' = [permit EXCEPT ![c] = FALSE]
  /\ subnets' = IF s \in DOMAIN subnets
                  THEN [subnets EXCEPT ![s].active = IF @ > 0 THEN @ - 1 ELSE 0]
                  ELSE subnets
  /\ UNCHANGED <<loop, now, granted, device, request, st, reply>>

\* ... and the parameters last, with the socket among them.
Close(c) ==
  /\ At(c, "closing")
  /\ ~permit[c] /\ ~hw[c]
  /\ Goto(c, "closed")
  /\ UNCHANGED <<loop, now, limiter, device, request, reply>>

Handle(c) ==
  \/ AcquireGranted(c) \/ AcquireRefused(c)
  \/ ReadChunk(c) \/ ReadEof(c) \/ ReadFails(c) \/ BadRequest(c)
  \/ TakeHardware(c) \/ HardwareBusy(c) \/ GetReport(c) \/ Send(c)
  \/ DropHardware(c) \/ DropPermit(c) \/ Close(c)

-----------------------------------------------------------------------------
Tick ==
  /\ srv # "exited" /\ now < MaxTime
  /\ now' = now + 1
  /\ UNCHANGED <<loop, limiter, device, request, st, reply>>

\* The process has exited; PID 1 will power the VM off.
Exited ==
  /\ srv = "exited"
  /\ UNCHANGED vars

Init ==
  /\ srv = "accepting" /\ errs = 0 /\ now = 0
  /\ subnets = << >>
  /\ free = MaxHardware
  /\ st = [c \in Conn |-> "new"]
  /\ from \in [Conn -> Ip]
  /\ got = [c \in Conn |-> 0]
  /\ reply = [c \in Conn |-> 0]
  /\ permit = [c \in Conn |-> FALSE]
  /\ hw = [c \in Conn |-> FALSE]
  /\ granted = [c \in Conn |-> NotGranted]

Next ==
  \/ \E c \in Conn : Accept(c) \/ Handle(c)
  \/ AcceptTransient \/ AcceptNoFd \/ AcceptError \/ Resume
  \/ Tick \/ Exited

\* The runtime polls every task whose I/O or timer is ready.  A client cannot keep a
\* task waiting: reads time out and a response fits the socket's send buffer.
Fairness == WF_vars(Resume) /\ \A c \in Conn : WF_vars(Handle(c))

Spec == Init /\ [][Next]_vars /\ Fairness

-----------------------------------------------------------------------------
(* Properties.                                                             *)

Location == {"new", "accepted", "reading", "request", "ioctl",
             "sending", "closing", "closed"}
SubnetState == [requests : Seq(0..MaxTime), active : Nat]

\* Every variable keeps its type; in particular no buffer grows past its limit and
\* no error count past MAX_CONSECUTIVE_ERRORS.
TypeOK ==
  /\ srv \in {"accepting", "throttle", "backoff", "exited"}
  /\ errs \in 0..MaxErrors
  /\ now \in 0..MaxTime
  /\ DOMAIN subnets \subseteq Prefix
  /\ \A s \in DOMAIN subnets : subnets[s] \in SubnetState
  /\ free \in 0..MaxHardware
  /\ st \in [Conn -> Location]
  /\ from \in [Conn -> Ip]
  /\ got \in [Conn -> 0..MaxBuffer]
  /\ reply \in [Conn -> {0, 200, 400, 429, 503}]
  /\ permit \in [Conn -> BOOLEAN]
  /\ hw \in [Conn -> BOOLEAN]
  /\ granted \in [Conn -> 0..NotGranted]

\* The connections of subnet s that are being served.
Holders(s) == {c \in Conn : permit[c] /\ from[c][1] = s}

HardwareHolders == {c \in Conn : hw[c]}

\* The requests of subnet s that were let in from time a to time b.
GrantedIn(s, a, b) ==
  {c \in Conn : granted[c] \in a..b /\ granted[c] # NotGranted /\ from[c][1] = s}

ActiveOf(s) == IF s \in DOMAIN subnets THEN subnets[s].active ELSE 0

\* The counter the limiter keeps for a subnet is the number of permits that are
\* out, however collection, rejection and drops interleave: none leaks, none is lost.
LimiterCountsPermits == \A s \in Prefix : ActiveOf(s) = Cardinality(Holders(s))

\* No subnet, whatever hosts its connections come from, is served more than
\* max_concurrent connections at a time.
ConcurrencyBounded == \A s \in Prefix : Cardinality(Holders(s)) <= MaxConcurrent

\* In no closed interval of one window does a subnet get more than max_requests
\* requests in, also when its entry was collected and made anew in between.
RateBounded ==
  \A s \in Prefix, t \in 0..MaxTime :
    Cardinality(GrantedIn(s, t, t + Window)) <= MaxRequests

\* Semaphore permits are neither lost nor made up on any of the handler's exits.
HardwareConserved == free + Cardinality(HardwareHolders) = MaxHardware

\* One subnet never occupies more of the firmware queue than its share of
\* connections: this rests on the order in which the two permits are dropped.
SubnetHardwareShare ==
  \A s \in Prefix :
    Cardinality({c \in HardwareHolders : from[c][1] = s}) <= MaxConcurrent

\* A connection is turned away with 429 only if its subnet really is at a limit, and
\* with 503 before the ioctl only if all hardware permits are out.
RefusalsAreJustified ==
  [][\A c \in Conn :
       /\ st[c] = "accepted" /\ reply'[c] = 429 =>
            LET s == from[c][1] IN
            \/ Cardinality(Holders(s)) >= MaxConcurrent
            \/ Cardinality({d \in Conn : /\ d \in GrantedIn(s, 0, now)
                                         /\ now - granted[d] <= Window}) >= MaxRequests
       /\ st[c] = "request" /\ reply'[c] = 503 =>
            Cardinality(HardwareHolders) = MaxHardware]_vars

\* Subnets that hold a permit or got a request in within the last window.
Busy == {s \in Prefix : \/ Holders(s) # {}
                        \/ \E d \in GrantedIn(s, 0, now) : now - granted[d] <= Window}

\* The map does not grow with the subnets ever seen: after an acquire it has at
\* most one entry more than the threshold, or than the subnets that are busy.
MapBounded ==
  [][\A c \in Conn :
       st[c] = "accepted" /\ st'[c] # "accepted" =>
         \/ Cardinality(DOMAIN subnets') <= GcThreshold + 1
         \/ Cardinality(DOMAIN subnets') <= Cardinality(Busy) + 1]_vars

=============================================================================
