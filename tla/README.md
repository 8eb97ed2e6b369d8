# A TLA+ model of sev-micro-loader

sev-micro-loader is PID 1 of an AMD SEV-SNP confidential VM. It prepares a minimal
system, obtains trusted time, downloads a server binary with its hash and signature,
verifies them, locks the file system down, starts the server and an attestation server as
unprivileged children, and powers the VM off when anything goes wrong. This directory
models that program, checks the models with TLC and proves their main properties with
TLAPS.

## 1. The system

| component | source | state | operations | what makes it correct |
|---|---|---|---|---|
| boot pipeline | `main.rs` | position in `main()`, the locals `app_bytes`, `expected_hash`, `sig_bytes`, `hash_hex` | time, downloads, hash, signature, write, chmod, spawn | only signed bytes run; what is attested is what runs; boot ends |
| file system | `system.rs` | mounts and their flags | seven mounts, three remounts | nothing the loader mounts for data is writable and executable beside a server |
| network, kernel hardening | `system.rs` | interfaces, sysctls | best effort, failures are warnings | (not modelled) |
| download | `crypto.rs` | attempt, bytes so far | request, chunk loop, retry | bounded attempts; a body is complete or not returned |
| watchdog | `main.rs` | the two child pids | `waitpid(-1, WNOHANG)`, sleep | a child's death stops the VM; orphans are reaped |
| accept loop | `attestation.rs` | `consecutive_errors` | accept, throttle, back off, exit | a broken listener ends the process, a flood does not |
| per-subnet limiter | `attestation.rs` | map subnet -> (instants, active connections) | `acquire`, collection, `Drop` | rate and concurrency limits; no permit leaks; bounded memory |
| connection handler | `attestation.rs` | buffer, two permits, stream | acquire, read, parse, hardware permit, ioctl, reply, drops | every exit gives both permits back; every connection ends |
| secure time | `time.rs` | clock, midpoints | floor, Roughtime queries, median, HTTP date | the clock is never set before the floor, nor far from the truth |
| DNSCrypt | `dns.rs` | session cache | certificate, session, query over UDP and TCP, failover | answers are authentic; lookups end |
| wire formats | `dns.rs`, `time.rs` | none | parsers, padding, Merkle path, calendar | total (a panic aborts PID 1) and correct |
| the VM as a whole | `main.rs`, `attestation.rs` | all of it | the processes side by side | a report vouches for the image that runs; losing attestation stops the VM |

Interactions. `main()` calls everything else in sequence. Concurrency comes from outside
this sequence: the server and the attestation server run as processes beside the rest of
`main()` from the moment they are spawned, orphans are reparented to PID 1, the "latest"
release may move between two downloads, and inside the attestation server many tasks share
the limiter (under a mutex) and the hardware semaphore. The children and PID 1 communicate
by exit status only; the children and each other by the ownership of TCP port 8080.

Hard behaviours: a release published during a boot; certificates judged by a clock that is
not yet set; packets of any bytes; children that exit before PID 1
watches; a privileged-only `panic_shutdown` called without privileges; garbage collection
racing permits; order of drops; instants on the edge of the window; slow clients; reads
without a timeout. `PROJECT.json` lists each at its line under "hazards".

## 2. Modules

| module | content |
|---|---|
| `Loader` | boot pipeline, mounts, downloads, verification, deployment, watchdog, and the environment of PID 1 |
| `TrustedBoot` | abstract specification of the loader: what it promises to whoever talks to the VM |
| `LoaderProofs` | proofs about `Loader`, including refinement of `TrustedBoot`, and about `TrustedVm` |
| `AttestationServer` | accept loop, handler tasks, limiter, semaphore |
| `AttestationProofs` | proofs about `AttestationServer`: accounting of permits, the rate limit, refusals, the size of the map |
| `TrustedVm` | composition of `Loader` and `AttestationServer`, with the reports clients get |
| `TimeSync` | resolution of the Roughtime servers, concurrent queries, verification, median, fallback, floor |
| `TimeProofs` | proofs about `TimeSync` |
| `Dnscrypt` | certificates, session cache and mutex, failover, UDP and TCP, answers, dropped lookups |
| `NameService` | abstract specification of `Dnscrypt`: what callers of the resolver rely on |
| `DnscryptProofs` | proofs about `Dnscrypt`, including refinement of the safety part of `NameService` |
| `Download` | the attempts and the chunk loop of `download_with_retry` |
| `DownloadProofs` | proofs about `Download` |
| `DnsMessage` | queries, padding and the two parsers of DNS responses, byte by byte |
| `DnsProofs` | proofs that those parsers stay inside the packet and decode it |
| `RtMessage` | the tag-value format of Roughtime, word by word |
| `MerklePath` | the Merkle proof of a Roughtime response against the server's tree |
| `HttpDate` | the conversion of the Date header against a wall calendar |
| `TimeFormats` | those three computations side by side, one in each behaviour |
| `TimeFormatProofs` | proofs about `TimeFormats` |
| `SequenceLemmas` | induction over the numbers, and where a flattened sequence has its parts, for the two proofs about wire formats |
| `MC...` | the instances TLC checks; `MCLoader` has four configurations, `MCDnsMessage` two, `MCTimeFormats` one for the three computations of `time.rs` |

Definitions marked `MUTANT` are wrong versions of the definition that follows them. They
take no part in the specification; replacing a definition by its mutant must make TLC
find the property named in `PROJECT.json` violated.

### Loader

`pc` is the place in `main()`; each action is one step of it with its failures as actions
of their own (`MountFails`, `TimeFails`, `DownloadGivesUp`, `HashMismatch`,
`SignatureRejected`, `DeployFails`) that end in `panic_shutdown`. As PID 1 is root, that
powers the VM off, and if `reboot` returned, the exit of PID 1 would panic the kernel:
`vm` becomes `"off"` or `"kpanic"`. `MountPlan` and `RemountPlan` are the mount calls of
`system.rs` in order. Cryptography is symbolic: a digest or signature is a term over the
bytes. A download returns the asset of the release that is latest at that moment or
anything else of its type; `PublishRelease` moves "latest" between downloads. The published
hash file carries white space, which `Trim` removes. The three signature checks may be
glitched, but not all of them (the comment at `main.rs:256` names this fault).

The server is not part of the repository: it may bind or leave port 8080, exit, and leave
orphans. `AttestBinds` is the start of `run_attestation_server`: when the port is taken
its `panic_shutdown` cannot reboot (uid 65534) and the process exits. `halt`, `origin` and
`image` are history variables.

Time synchronisation is abstracted here to its outcomes: a time at or after the floor that
`clock_settime` takes, one of three fatal failures, or the DNSCrypt read without timeout
(`ResolverStalls`). `TimeSync` details them and is shown to have no others.

### TrustedBoot

Phases booting, serving, failing, halted; at most one payload is admitted, a trusted one;
what is attested is its digest; neither changes; a failing VM halts. `Loader` maps `phase`
to a function of `vm`, `server` and `attest`, `running` to `image`, `attested` to
`attest_hash`.

### AttestationServer

One task per connection. `st[c]` is the place in `handle_attestation_connection`. Steps
that touch only the task's own data are merged with their neighbours; every access to the
shared map or semaphore is a step of its own: `acquire` (collection, insertion, pruning,
both limits, in one step under the mutex), `try_acquire`, and the two drops in Rust's
reverse order of declaration, before the socket closes. An address is a prefix and a host
part, and `Subnet` keeps the prefix. The limiter's `HashMap` is a function whose domain
are its keys. `granted` is a history variable. Reads may deliver a chunk, end, fail or
time out at any time; the timer itself is not modelled.

### TimeSync

`pc` is the place in the part of `main()` between the TLS set-up and the downloads; one
task per server runs `query_single_roughtime`. A server that cannot be resolved is asked at
its hard-coded address or left out. `now` is the true time, which passes between any two
steps; `answers[s]` are the instants at which server `s` signed an answer to the query's
nonce, any of which may arrive any number of times while the task listens (`Arriving`),
beside recorded answers to other nonces, what leaked online keys and lying servers sign,
and foreign datagrams. The first datagram ends the query, as in the code, which ignores its
source. Signatures, delegation and Merkle proof are symbolic. `Sorted` are the results
`sort_unstable` may leave, and `Median` adds two `u64` modulo `Word`, as the release build
does. `dnscrypt_fallback_time` is always `None` in this code (`dns.rs:673`), so that the
only fallback is the Date header, in whole seconds. `begun` and `source` are history
variables. `Boot` is `Loader` with `pc`, `halt` and `clock` mapped to where this module's
outcome leaves it; what comes before and after the time step is constant there.
`ImplementsTimeStep` says that every step here is one of `Loader`'s three time actions or
none at all, so that `Loader` leaves out no way in which synchronisation can go.

### Dnscrypt and NameService

`st[l]` is where lookup `l` is: waiting for the mutex, establishing a session (`"cert"`),
or asking its query; `via[l]` is the transport of the exchange it is in. `main()` resolves
directly (`direct`): one lookup after the other, no cache and no mutex. These come before
the clock is synchronised: `now` starts at any value, also one at or before `SaneClock`
(1700000000), since `enforce_time_floor` only warns when it cannot set the clock. Then
`main()` sets the clock to a time at or after the floor (`Synchronise`, forwards or
backwards) and makes the HTTP client, whose lookups share `session` under `lock`, which is
held over every await of `establish_dnscrypt_session` and released when the client's
timeout drops the future (`Drop`). Packets are symbolic. An answer to the certificate query
may hold any certificates the provider signed and forged ones, of any resolver and any age.
An answer to a query may be a resolver's answer to any lookup, a query sent back under the
magic of an answer, or a packet sealed with the key of a certificate whose secret others
have. The first datagram is the answer, whoever sent it. A sealed packet whose third byte
has the truncation bit is not truncated: the magic is looked at first. `taken` and `tried`
are history variables.

A lookup is `Exposed` when others have the key of its session's certificate and the clock
did not rule that certificate out: it was at or before its end, or, for a direct lookup, not
set at all, in which case `verify_cert` skips the dates (`dns.rs:107`). An exposed lookup
may be given somebody else's answer, and `SessionCurrent` makes an exception for direct
lookups with an unset clock, and for nothing else. Lookups of the HTTP client never meet
that exception, as the clock has been set by then.

`NameService` says that a lookup is answered once, with the address of its own name, or
fails, and that one made by the HTTP client does not stay pending; only a lookup in `exposed`
may be misled. `Dnscrypt` maps a lookup's `st`, `direct` and `answer` to the result. `Loader`
and `TimeSync` use only these outcomes: a name resolves, fails or, for direct lookups,
stalls. `TimeSync` does not rest on the addresses being right: they only choose the servers
that are asked. Roughtime answers are authenticated whatever their source, and `TimeSync`
lets anybody's datagrams arrive. The Date header is authenticated by TLS, which is taken on
trust there (section 5).

### Download

One file, the attempts of `MAX_DOWNLOAD_RETRIES`, and in each the status, the chunk loop
with its limit, a break at any byte and the check for an empty body. What is returned is one
whole body and within the limit (`ReturnedWhole`). Bytes are named by
attempt and position, so that bytes of two attempts cannot be confused. `Loader` uses the
outcome: whole files or a shutdown.

### DnsMessage

A response (question, records with an owner name in any encoding) is written out in bytes,
padded if it travels encrypted, cut anywhere, and parsed with the code's offsets. As the
certificate answer is any datagram that reaches the socket, packets that are no response
(`Strays`, any bytes) are parsed as well. `panicked` is a history variable: whether an index
lay past the end of the slice it is used on, which is the packet, or the record's data
(`rdata`) for the strings of a text record.
A name is labels and an end, the root label or a pointer. `DecodesResponse` and
`OnlyRealData` compare with a reference reading of the records, whole and cut anywhere. Both
are stated for `PlainNames`, owner names that are pointers or written out: after labels
that end in a pointer (the subject of `dns_names`) the parser is one byte off, and the
rest of the packet can be bytes that look like a record without being one. What a damaged
packet says has no reference either: both are stated for responses, `NeverPastEnd` for every
packet. A resolver's data may hold any bytes up to the lengths its fields
can tell; the strings of a text record are at most 255 bytes and labels at most 63.

### RtMessage, MerklePath, HttpDate

`RtMessage` damages an encoded message (any word replaced, cut, or bytes added) and follows
every index of the parser. `MerklePath` lets INDX and PATH be anything and compares with
the tree the server signed; a hash is a term. `HttpDate` steps a calendar by seconds and
days through carries, and compares the code's counting of years and months at every step.
`TimeFormats` chooses one of the three (`task`) and keeps the variables of the others idle,
so that one run and one specification speak of all of them. `Pow2`, the trees and the
counting of days are recursive functions, which the prover can unfold, not `RECURSIVE`
operators.

### TrustedVm

The attestation server's inside (`Att`, an instance of `AttestationServer`) moves only while
the process that `Loader` spawned is serving. When its accept loop gives up, the process
exits, which is all PID 1 sees (`AttestExits`). `report[c]` is what connection `c` was sent:
the digest in the process's command line with the nonce of its request.
`BrokenListenerStopsVm` has two parts: once the accept loop has given up, the VM goes down,
and an accept loop that keeps backing off gives up.

## 3. Model checking

| run | bounds | result |
|---|---|---|
| `boot` | two releases, one unsigned binary, 2 attempts, clock 0..2 with floor 1, 1 orphan; 13,460 states | invariants, liveness and refinement of `TrustedBoot` hold |
| `writable_executable_dev` | same | **violated**: `/dev` is writable and executable after lockdown |
| `port_race` | same | **violated**: the server can own port 8080 |
| `resolver_stall` | same | **violated**: boot can hang without a shutdown |
| `attest_limits` | 3 connections, 3 prefixes, window 1, clock 0..2, 2 requests, 1 concurrent, 2 hardware permits, collection at every acquire; 126,948 states up to symmetry | limits hold, permits are accounted for, refusals are justified, the map stays small |
| `time_sync` | 3 servers, one lying, one without fallback address, 2 attempts, true time 1..2, floor 1, 2 units per second, `u64` of 5 values; 130,622 states | votes authentic, clock current, shutdown has a cause, synchronisation ends, and it implements `Loader`'s time step |
| `dns_lookups` | 2 lookups of different names, 3 certificates (one leaked that ends before the floor, one in its last second at the floor, its successor) and a forged one, up to 2 certificates per answer, 2 requests, clock 0..3, not set at 0, floor 2; 130,488 states | session, mutex and failover properties and refinement of `NameService` hold |
| `dns_messages` | up to 2 records, 4 encodings of owner names, addresses and texts that end like padding, blocks of 8, cut at every byte; those of one record, or of two named by pointers, whose first is no alias, with any byte replaced by one of 8, whole or short of the last byte; 370,975 states | no index past the packet or a record's data; of responses nothing made up, and whole ones decoded |
| `dns_names` | A records of the same encodings | **violated**: an address is lost after a name of labels and a pointer |
| `download` | 3 attempts, bodies of 0 to 5 bytes, limit 3; 2,495 states | whole bodies only; shutdown after all attempts |
| `time_formats` | messages of 1 to 3 tags, 8 damaged words; batches of 1, 2 and 4 nonces, paths up to 3, indices up to 9; every day from 1970 to 2101 with days of 8 seconds; 845,291 states | parser total and correct, path proves the nonce, date is elapsed time |
| `trusted_vm` | 1 release, 1 unsigned binary, 2 connections of one host, 1 descriptor, exit at 2 errors; 200,216 states | reports vouch for the image, connections end, a broken listener stops the VM |

Why the bounds suffice. Two releases and a rogue binary are what it takes to mix assets of
different origin with unsigned bytes. Two attempts show a retry and the last attempt. Three
connections of one subnet exceed a rate of two; three prefixes make one subnet's acquire
collect another's entry; a clock of three instants has instants inside, on and beyond the
edge of a window of one. Three servers give one, two and three votes, so a median of each
parity, with and without a majority of true ones, and two liars' worth of wrong votes when
a leaked key joins the lying server. Two lookups show waiting for the mutex, a shared
session, a direct lookup before a cached one, and answers to the wrong lookup. The clock is
unset at 0; at 1 the leaked certificate is valid, at 2, the floor, it has ended; one tick
more ends the next one while its successor is valid. A direct lookup thus meets a clock that
is unset, too early or current. The bytes put into damaged responses are the ones a parser
tells apart: an end of a name, the two record types, lengths that are small or past the
record, the first byte of a pointer and the mark of the padding. A body of up to two bytes over
the limit crosses it in one chunk and in two. Blocks of 8 have messages at each distance
from a block's end. The calendar contains 2000 and 2100, a century that is a leap year and
one that is not; a shorter day has the same carries. The limits themselves are lower than
in the code (10 requests, 2 connections, 8 permits, 10,000 entries, 100 MB, blocks of 64);
where a property is proved (section 4), it holds for every value of them.

`trusted_vm` has one descriptor, so that its connections are served one after the other:
what two connections do at the same time is the subject of `attest_limits`, and is left to
it. The attestation clock does not advance there.

Symmetry: connections are interchangeable, and so are prefixes. They are permuted only in
`attest_limits`, which has no liveness.

Fairness. PID 1 is scheduled, and each of its waits ends by itself or by a timeout that is
a failing step: `WF(Pid1)`. The one wait for which this is false, the stalled resolver
read, has no step out of it. The read of `/dev/random` is taken to end, as the kernel
initialises its pool. The attestation process is scheduled (`WF(AttestBinds)`). Nothing is
assumed of the server, of clients or of the release page. In the attestation server the
runtime polls every ready task (`WF(Handle(c))`): reads time out, responses fit the send
buffer, and the ioctl is taken to return; the sleeps of the accept loop end (`WF(Resume)`);
nothing is assumed about accepting. `VmFairness` assumes the same of the parts of
`TrustedVm`, each while it runs. During time synchronisation the runtime polls `main()` and
every query task, whose sleeps and timeouts end (`WF(Main)`, `WF(OwnStep(s))`). In
`Dnscrypt` a lookup's own steps and timeouts happen (`WF(OwnStep(l))`): sends, retries,
giving up UDP or a TCP connect, taking a free mutex. The read from a TCP connection has no
timeout of its own: it ends because the HTTP client drops the lookup after 30 s of
connecting or 120 s of the request (`WF(Waits(l) /\ Drop(l))`), which direct lookups, made
without the client, do not have. Nothing is assumed of servers, resolvers or the network,
not even that a datagram arrives.

### Disagreements with the documentation

1. `docs/architecture.md:120` and the log line at `system.rs:359` say that no writable and
   executable file system remains. `/dev` is mounted with `MS_NOSUID` only, `/dev/pts` with
   no flags, and neither is remounted. `LockedBeforeServer` states what does hold.
2. `docs/loader_security.md:172` says that port 8080 is already bound by PID 1. It is bound
   by the attestation server, a child spawned after the server. What does hold is that the
   VM stops if the server wins (`NoServiceWithoutAttestation`).
3. `docs/threat_model.md:55` says that persistent network failure triggers an immediate
   shutdown. The TCP reads at `dns.rs:262-273` have no timeout. What does hold is
   `BootSettles`.
4. `dns.rs:592` (and `:357`): after a name that ends in a compression pointer the parser
   still looks for a root label, takes the high byte of TYPE for it, and loses the record.
   RFC 1035 allows such names; the test at `dns.rs:759` ("Should parse valid DNS response")
   has a bare pointer only. The failure is safe (no address) but a legal answer is refused.
5. Without a run, since no behaviour is involved: `docs/threat_model.md:42` and `:52`,
   `README.md:97` and `docs/architecture.md:64` name Quad9 and Cloudflare as resolvers, and
   the first speaks of an `/etc/resolv.conf`. `HARDCODED_RESOLVERS` (`dns.rs:35`) has three
   addresses of Quad9 under one provider key, and no resolv.conf is written. The failover
   that `FailsAfterAll` is about is therefore between addresses of one provider.

## 4. Proofs

The proof modules are checked by TLAPS for all values of the constants that satisfy the
named assumptions: `LoaderAssumption` (signed binaries are binaries, releases are signed),
`AttestationAssumption` (finitely many connections, numeric limits), `TimeAssumption` (the
true time after the floor and below half of `u64`, leaked delegations ended before the
floor), `DnscryptAssumption` (`LAST_KNOWN_GOOD_TIME` is later than the constant up to which
the clock counts as unset, a certificate shares its key with a leaked or forged one only if
it is leaked too; nothing about the clock before synchronisation or the dates of leaked
certificates), `DownloadAssumption`, `DnsAssumption` (names, records and texts of responses
within the lengths RFC 1035 gives them; other packets are any bytes), `RtAssumption`
(messages of one tag or more, each with a value; words are any numbers), `MerkleAssumption`
(a batch is as long as a power of two, the tree a Roughtime server signs) and
`DateAssumption` (whole minutes, hours and days, Gregorian leap years, seconds of the
calendar below `u64`).

`LoaderProofs`. The safety properties speak of processes that start several steps after
the facts they rest on were established, so none is inductive. `BootInv` adds, for each
place in `main()`, what has been established there: the payload directory is mounted after
the mount loop and read-only after the first remount, `hash_hex` is the hash of
`app_bytes` and later of `file`, `app_bytes` is signed at `"write"`, children exist
exactly from their spawn on, assets from a release are that release's. `BootInit`,
`BootPid1`, `BootEnvironment` show it inductive, one step per action; the theorems
`TypeCorrect`, `OnlyVerifiedRunsAlways`, `AttestedHashIsPayloadAlways`,
`LockedBeforeServerAlways`, `RefusalHasCauseAlways` and `ClockTrustedAlways` (which no run
checks: `ImplementsTimeStep` covers it where the clock is set) follow, and
with `StepRefines` the theorem `Refinement` (`Spec => Abstract!Safety`).

`AttestationProofs`. `AccountInv` adds to the counts where in the handler each permit is
held (`PlaceInv`) and that a looping server is below the error limit. The lemmas about
`Prune`, `Collected`, `EntryOf` and `Put` show that collection never forgets an entry in
use and that an acquire changes the count of one subnet only; the cardinality facts come
from `FiniteSetTheorems`. Theorems: `AttestationTypeCorrect`,
`LimiterCountsPermitsAlways`, `ConcurrencyBoundedAlways`, `HardwareConservedAlways`,
`SubnetHardwareShareAlways`.

The rate limit is about a window anywhere in the past, the queue only about
the present one, and the queue is pruned and thrown away with its entry. `CountedInv`
connects them: from every instant that is not outdated on, the queue of a subnet has at
least as many entries as requests were let in. Pruning and collection remove outdated
instants only (`Since` is unchanged by them), an acquire that lets a request in adds one
to both sides, and one that finds the queue full adds to neither, so that a closed window
never has more than `MaxRequests`. Refusals need the converse, `BackedInv`: a queue has at
most as many entries from an instant on as requests were let in. It survives because
entries leave a queue at its front (`RestOf`) and enter it in the order of time
(`OrderInv`); so a queue that is full after pruning stands for as many requests of the
last window, and one that is not empty after a collection for at least one (`CollectedBusy`).
`ReplyInv` says that a new reply is the one this step gave. Theorems:
`RateBoundedAlways`, `RefusalsAreJustifiedAlways`, `MapBoundedAlways`.

`TimeProofs`. The core is `MedianBracketed`: a majority of the voters meets every half of
the positions of a sorted order (`MajorityMeets`, by the pigeonhole theorem), so each
middle midpoint has a true one at or below and at or above it, and the average of two such
values neither wraps nor leaves the interval. `TimeInv` adds to the properties that tasks
run only while `main()` waits for them, that nothing is signed for a nonce before the
queries began, and that a fallback means there are no votes (`PlaceInv`). Theorems:
`TimeTypeCorrect`, `VotesAuthenticAlways`, `ClockCurrentAlways`, `ShutdownHasCauseAlways`,
and, with a lemma per outcome, `TimeStepImplemented`.

`DownloadProofs`. The vector is the prefix of the current attempt's body that has arrived
(`BytesArrived`), and every attempt before the current one has failed (`AttemptsFailed`).
Theorems: `TypeCorrect`, `ReturnsWhole`, `GivesUpLast`.

`DnscryptProofs`. While a lookup holds the mutex the cached session cannot be used, and the
clock only makes that truer (`LockMeansUnusable`): this is why no usable session is ever
replaced. Sessions were valid by the clock when taken, unless it was unset (`CacheBegun`,
`HasSession`), and resolvers have been tried in order (`TriedInOrder`). Direct lookups all
come before the clock is set (`DirectFirst`), so that a lookup of the client takes its session
at or after the floor, where the unset clock's exception is false. Only packets sealed with
the session's key and the lookup's nonce open, and others can make these only if they have
the key (`AnswerInv`). Theorems: `AuthenticAnswers` (right unless exposed),
`ClientAnswersAuthentic`, `CurrentSessions`, `LockDiscipline`, `AllResolversAsked`,
`StableCache`, and `Refinement` (`Spec => Service!Safety`, with `Mislead` for exposed
lookups). `ClientAnswersAuthentic` has a hypothesis of its own, that the leaked keys are those
of certificates that end before `LAST_KNOWN_GOOD_TIME`, and concludes that the HTTP client
always gets the resolver's answer, whatever the clock was before. No such theorem holds for
direct lookups, and none is stated.

`DnsProofs`. For the indices: the data of a text record is sliced only when the whole of
it lies inside the packet (`RangeInv`), and every other read follows a comparison with `End`,
or, for a string, with the length of that slice, in the same step (`ReadsInside`); lengths
are bytes and never negative (`Reading`). Nothing is assumed about the bytes. Theorem:
`ParsersStayInside`. For the contents, the lemmas before say where in the packet the parts
of a response lie (`LiesAt`: `Start`, `TypeAt` and `DataAt` of each record, `LabelPos` of
each label or string) and that the padding's mark is the last byte that is not zero. The
invariant `DecodeInv` then says for each place of the parser that it is where the layout
says: in front of record `c` with what the records before `c` say collected (`AtAnswer`), at
a label of its name (`InOwner`), at its type (`AtFixed`), its data (`InData`) or one of its
strings (`InText`), or, if the response was cut, past the end with nothing left to read
(`Lost`). A cut response needs no other case, because what has arrived is a prefix of what
was sent (`Received`). `ResponseInv` limits it to responses: a stray packet is never taken to
be whole. TLC has checked `DecodeInv` on the instance of `dns_messages`.
Theorems: `ResponsesAreDecoded`, `NothingIsMadeUp`.

`TimeFormatProofs`. The parser of Roughtime messages checks the whole header at once and
every pair of offsets before it takes a value: `ParserInv` says at which tag each loop is
and which values are known to lie inside (`CheckedInv`); it assumes nothing about the words
that arrive. `DecodedInv` adds, for an intact message, what has been read of it. For the
Merkle path, `SoundInv` says that whenever the hash computed so far is that of a node of
the tree, the node is as high as the bits of the index that have been used, and these lead
from it to a leaf with the client's nonce; `CompleteInv` says that the genuine path leads
along that leaf's ancestors. Hashes are terms, so collisions are excluded by the model. For
the date, `CalendarInv` says that the wall calendar's date is valid and the elapsed seconds
are those of the days before it, where days are counted by year and month as
`parse_http_date` does. Theorems: `ParserNeverPanics`, `ParserDecodes`, `PathsProveNonces`,
`DatesAreElapsed`.

These proofs need induction over data: the length of a message, the height of a tree, the
years of a calendar. The theorems of the library take the induction predicate as an
operator and cannot be used; `InductionSet` of `SequenceLemmas` takes it as a set, by the
least number outside of it, and the recursive functions are unfolded by their own
equations.

`TrustedVm`, in `LoaderProofs`. Every step of the composition is a step of `Loader` or
leaves it alone (`VmStepIsLoaderStep`), so `BootInv` carries over; a report keeps naming the
image because neither image nor digest changes once the children are there
(`ChildrenStay`). Theorems: `ReportsVouchForImageAlways`, `VmRunsOnlyVerified`.

Every invariant and action property of a passing run is stated by one of these theorems.
Only model-checked:
- liveness (`BootSettles`, `NoServiceWithoutAttestation`, `OrphansReaped`, `SyncEnds`,
  `ConnectionsEnd`, `BrokenListenerStopsVm`) and the fairness parts of `TrustedBoot` and
  `NameService`, which are out of the prover's reach;
- the four violations of section 3, which are counterexamples.

## 5. Not modelled

- Network interface set-up and sysctls: best effort, read by nothing else; `Loader` passes
  over them in one step.
- TLS and HTTP client configuration; the permissions of `/dev/sev-guest` (the ioctl may
  fail at any time); logging; build scripts, kernel configuration and release workflow.
- The parsing of request lines in the attestation server, which is a choice of outcomes.
- The layout of the firmware's response. `get_snp_attestation_report` returns the first
  1184 bytes of the response buffer (`attestation.rs:462`); whether the report begins there
  or behind a header is fixed by the kernel's interface, which the repository does not
  contain.
- TLS itself: the Date header is taken to be the server's (`query_mullvad_secure_date`).
  While the clock is not yet synchronised TLS judges certificates by that clock too, as
  `verify_cert` does.
- The time the loop over the years takes for an absurdly large year in a Date header
  (`time.rs:547`).
- A cached resolver session whose resolver has died stays in use until its certificate ends
  (`dns.rs:497`). The model has this behaviour; no property rules it out, because nothing
  in the code or its documents promises otherwise.

## 6. Plan

1. The composition of `Dnscrypt` with `TimeSync`: the direct lookups of `main()` as the
   `Resolved`, `ResolveFails` and `ResolverStalls` of `TimeSync`.
2. Proof that a response with names of labels and a pointer, too, is read as far as the
   first such name (what the parser has collected before it is real), which would put the
   boundary of `ResponsesAreDecoded` at the record instead of at the response.
3. Proof that the fair steps of `Loader` and `TrustedVm` decrease a measure, as far as it
   can be stated without `ENABLED`: the safety half of `BootSettles`.
