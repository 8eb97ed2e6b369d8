------------------------------ MODULE Dnscrypt ------------------------------
(***************************************************************************)
(* DNSCrypt name resolution.  The HTTP client shares one                   *)
(* CustomDnscryptResolver, whose session is cached under a tokio mutex;    *)
(* main() also resolves directly, with a session of its own per lookup.    *)
(* A session is established with the first hard-coded resolver that gives  *)
(* a valid certificate, a query goes over UDP and falls back to TCP, and   *)
(* the client's timeouts drop a lookup at any of its awaits.               *)
(*                                                                         *)
(* Cryptography is symbolic: Certs are the certificates the provider       *)
(* signed, a session's shared key is named by the ephemeral key of the     *)
(* lookup that made it and by the key of the certificate, and a packet     *)
(* names the nonce and the shared key it is sealed with.  The lookup       *)
(* itself names its random nonce.                                          *)
(***************************************************************************)
EXTENDS Integers, Sequences

CONSTANTS
  Lookups,       \* lookups, each with its own nonce
  Domain,        \* the name each lookup asks for
  Certs,         \* the certificates the provider has signed
  Forged,        \* a certificate it has not signed
  Leaked,        \* those certificates whose secret key others have
  SaneClock,     \* 1700000000: up to it the clock is taken to be unset
  Floor,         \* LAST_KNOWN_GOOD_TIME: main() sets the clock to no time before it
  MaxTime,       \* bound: the clock is at most MaxTime
  MaxCerts,      \* bound: certificates in one response
  MaxSends,      \* requests over UDP
  NoSession, NoLookup

ASSUME DnscryptAssumption ==
  /\ NoLookup \notin Lookups
  /\ Domain \in [Lookups -> STRING]
  /\ MaxSends \in Nat \ {0} /\ MaxCerts \in Nat
  /\ SaneClock \in Nat /\ Floor \in Nat /\ MaxTime \in Nat
  /\ SaneClock < Floor /\ Floor <= MaxTime
  /\ \A c \in Certs \cup {Forged} :
       c.serial \in Nat /\ c.start \in Nat /\ c.end \in Nat
  /\ Forged \notin Certs /\ Leaked \subseteq Certs
  /\ \A c \in Certs, d \in Leaked \cup {Forged} : c.key = d.key => c \in Leaked

\* The providers of the resolvers, in the order in which they are asked.
HARDCODED_RESOLVERS == <<"Quad9", "Quad9", "Quad9">>

VARIABLES
  now,      \* the clock of the VM
  synced,   \* whether main() has set it from a trusted time
  session,  \* the cached DnscryptClientState
  lock,     \* the lookup that holds the mutex of the cache
  st,       \* where each lookup is
  direct,   \* the lookups made by resolve_domain_via_dnscrypt
  res,      \* the resolver it asks for a certificate
  tried,    \* history: the resolvers that gave it no usable certificate
  via,      \* where its exchange with the resolver is
  sends,    \* requests it has sent over UDP in this exchange
  sess,     \* the session it uses
  taken,    \* history: when it got that session
  answer    \* what it returned

lookup == <<st, direct, res, tried, via, sends, sess, taken, answer>>
vars   == <<now, synced, session, lock, lookup>>

Time == 0..MaxTime
Resolver == 1..Len(HARDCODED_RESOLVERS)
Ended == {"ok", "failed", "nokey", "dropped"}
Active(l) == st[l] \in {"lock", "cert", "query"}

-----------------------------------------------------------------------------
(* Certificates and sessions.                                              *)

Sessions == [resolver : Resolver, client : Lookups, cert : Certs]

ASSUME NoSessionAssumption == NoSession \notin Sessions

SharedKey(s) == [client |-> s.client, peer |-> s.cert.key]

verify_cert(c) ==
  /\ c \in Certs
  /\ now > SaneClock => c.start <= now /\ now <= c.end

Usable(certs) == {i \in DOMAIN certs : verify_cert(certs[i])}

\* The loop keeps the first certificate of the highest serial.
BestCert(certs) ==
  {certs[i] : i \in {k \in Usable(certs) : \A j \in Usable(certs) :
                       \/ certs[j].serial < certs[k].serial
                       \/ certs[j].serial = certs[k].serial /\ k <= j}}

-----------------------------------------------------------------------------
(* What may arrive: nothing is assumed of the network but that it cannot   *)
(* sign certificates or seal packets with keys it does not have.           *)

\* Anybody's answer to the certificate query: the certificates parse_txt_response
\* finds in it, and the truncation bit.
CertPackets ==
  [magic : {FALSE}, tc : BOOLEAN,
   certs : UNION {[1..n -> Certs \cup {Forged}] : n \in 0..MaxCerts}]

Querying == {l \in Lookups : sess[l] # NoSession}
Keys == {SharedKey(sess[l]) : l \in Querying}
KnownPeers == {c.key : c \in Leaked \cup {Forged}}

\* A sealed packet starts with the resolver magic, whose third byte has the bit set
\* that is the truncation bit of a DNS header.
Sealed(nonce, key, body) ==
  [magic |-> TRUE, tc |-> TRUE, nonce |-> nonce, key |-> key, body |-> body]

Genuine ==
  {Sealed(l, SharedKey(sess[l]), Domain[l]) : l \in Querying}
    \cup {Sealed(l, SharedKey(sess[l]), "no A record") : l \in Querying}
\* The query under the magic of an answer: sealed with the same key, it authenticates.
Reflected == {Sealed(l, SharedKey(sess[l]), "query") : l \in Querying}
SealedByOthers ==
  {Sealed(l, k, "bogus") : l \in Querying, k \in {x \in Keys : x.peer \in KnownPeers}}
Unsealed ==
  {[magic |-> m, tc |-> t, nonce |-> NoLookup, key |-> NoSession, body |-> "bogus"] :
     m \in BOOLEAN, t \in BOOLEAN}

ReplyPackets == Genuine \cup Reflected \cup SealedByOthers \cup Unsealed

-----------------------------------------------------------------------------
(* get_or_establish_session.                                               *)

Exchange(l, place) ==
  /\ st' = [st EXCEPT ![l] = place]
  /\ via' = [via EXCEPT ![l] = "udp"]
  /\ sends' = [sends EXCEPT ![l] = 1]

\* The future is done or dropped, and its sockets with it.
Ends(l, how) ==
  /\ st' = [st EXCEPT ![l] = how]
  /\ via' = [via EXCEPT ![l] = "none"]
  /\ sends' = [sends EXCEPT ![l] = 0]

\* resolve: the future is polled for the first time and waits for the mutex.  The client
\* is made after the clock has been set.
Resolve(l) ==
  /\ st[l] = "idle" /\ synced
  /\ st' = [st EXCEPT ![l] = "lock"]
  /\ UNCHANGED <<now, synced, session, lock, direct, res, tried, via, sends, sess, taken, answer>>

\* resolve_domain_via_dnscrypt: no cache, no mutex.  main() makes these lookups one after
\* the other, to find the servers from which it gets the time.
ResolveDirectly(l) ==
  /\ st[l] = "idle" /\ ~synced
  /\ \A k \in Lookups : st[k] = "idle" \/ (k \in direct /\ st[k] \in Ended)
  /\ direct' = direct \cup {l}
  /\ Exchange(l, "cert")
  /\ UNCHANGED <<now, synced, session, lock, res, tried, sess, taken, answer>>

Takes(l, s) ==
  /\ sess' = [sess EXCEPT ![l] = s]
  /\ taken' = [taken EXCEPT ![l] = now]

\* MUTANT: a cached session is used for as long as the process runs.
Reusable_Always == session # NoSession

Reusable == session # NoSession /\ now < session.cert.end

\* The mutex is held for the comparison only.
ReuseSession(l) ==
  /\ st[l] = "lock" /\ lock = NoLookup
  /\ Reusable
  /\ Takes(l, session)
  /\ Exchange(l, "query")
  /\ UNCHANGED <<now, synced, session, lock, res, tried, direct, answer>>

\* MUTANT: the mutex is released before the session is established.
BeginEstablish_Unlocked(l) ==
  /\ st[l] = "lock" /\ lock = NoLookup
  /\ ~Reusable
  /\ Exchange(l, "cert")
  /\ UNCHANGED <<now, synced, session, lock, res, tried, sess, taken, direct, answer>>

\* The mutex stays held over every await of establish_dnscrypt_session.
BeginEstablish(l) ==
  /\ st[l] = "lock" /\ lock = NoLookup
  /\ ~Reusable
  /\ lock' = l
  /\ Exchange(l, "cert")
  /\ UNCHANGED <<now, synced, session, res, tried, sess, taken, direct, answer>>

Unlocked(l) == IF lock = l THEN NoLookup ELSE lock

\* A response with a usable certificate.
Established(l, certs) ==
  /\ st[l] = "cert"
  /\ \E c \in BestCert(certs) :
       LET s == [resolver |-> res[l], client |-> l, cert |-> c] IN
       /\ session' = IF l \in direct THEN session ELSE s
       /\ Takes(l, s)
  /\ lock' = Unlocked(l)
  /\ Exchange(l, "query")
  /\ UNCHANGED <<now, synced, res, tried, direct, answer>>

\* The lookup returns an error; a guard of the mutex is dropped with its scope.
Fails(l, how) ==
  /\ Ends(l, how)
  /\ lock' = Unlocked(l)
  /\ UNCHANGED <<now, synced, session, res, sess, taken, direct, answer>>

\* No entropy or no key agreement: an error at once, whatever resolvers are left.
NoKey(l) == Fails(l, "nokey") /\ UNCHANGED tried

\* MUTANT: the last resolver is never asked.
NextResolver_OneLess(l) ==
  /\ st[l] = "cert"
  /\ tried' = [tried EXCEPT ![l] = @ \cup {res[l]}]
  /\ \/ /\ res[l] + 1 < Len(HARDCODED_RESOLVERS)
        /\ res' = [res EXCEPT ![l] = @ + 1]
        /\ Exchange(l, "cert")
        /\ UNCHANGED <<now, synced, session, lock, sess, taken, direct, answer>>
     \/ /\ res[l] + 1 = Len(HARDCODED_RESOLVERS)
        /\ Fails(l, "failed")

\* No response, or none with a usable certificate: the next resolver.
NextResolver(l) ==
  /\ st[l] = "cert"
  /\ tried' = [tried EXCEPT ![l] = @ \cup {res[l]}]
  /\ \/ /\ res[l] < Len(HARDCODED_RESOLVERS)
        /\ res' = [res EXCEPT ![l] = @ + 1]
        /\ Exchange(l, "cert")
        /\ UNCHANGED <<now, synced, session, lock, sess, taken, direct, answer>>
     \/ /\ res[l] = Len(HARDCODED_RESOLVERS)
        /\ Fails(l, "failed")

-----------------------------------------------------------------------------
(* resolve_domain_via_dnscrypt_session.                                    *)

\* No entropy for the nonce of the query, which is then never sent.
NoNonce(l) == st[l] = "query" /\ via[l] = "udp" /\ sends[l] = 1 /\ NoKey(l)

\* MUTANT: the nonce of the response is not compared with that of the query.
Opens_AnyNonce(l, p) == p.magic /\ p.key = SharedKey(sess[l])

\* Magic, nonce and Poly1305 tag; the nonce that decrypts is the packet's.
Opens(l, p) == p.magic /\ p.nonce = l /\ p.key = SharedKey(sess[l])

\* A query has no answers, so that parse_dns_response finds no A record in it.
HasAddress(p) == p.body \notin {"no A record", "query"}

Accepts(l, p) ==
  /\ Opens(l, p) /\ HasAddress(p)
  /\ Ends(l, "ok")
  /\ answer' = [answer EXCEPT ![l] = p.body]
  /\ UNCHANGED <<now, synced, session, lock, res, tried, sess, direct, taken>>

Rejects(l, p) ==
  /\ ~(Opens(l, p) /\ HasAddress(p))
  /\ Fails(l, "failed")
  /\ UNCHANGED tried

-----------------------------------------------------------------------------
(* send_dns_query.                                                         *)

Truncated(p) == ~p.magic /\ p.tc

Received(l, p) ==
  \/ /\ st[l] = "cert"
     /\ \/ Established(l, p.certs)
        \/ Usable(p.certs) # {} /\ NoKey(l)
        \/ Usable(p.certs) = {} /\ NextResolver(l)
  \/ /\ st[l] = "query"
     /\ Accepts(l, p) \/ Rejects(l, p)

Arriving(l) == IF st[l] = "cert" THEN CertPackets ELSE ReplyPackets

GoesTo(l, place) ==
  /\ via' = [via EXCEPT ![l] = place]
  /\ UNCHANGED <<now, synced, session, lock, st, direct, res, tried, sends, sess, taken, answer>>

\* The first datagram on the socket is the answer, whoever sent it.
UdpAnswer(l) ==
  /\ st[l] \in {"cert", "query"} /\ via[l] = "udp"
  /\ \E p \in Arriving(l) : IF Truncated(p) THEN GoesTo(l, "connect") ELSE Received(l, p)

\* No socket on the first attempt; a failed send, a failed receive or a timeout on the
\* last.
UdpGivesUp(l) ==
  /\ st[l] \in {"cert", "query"} /\ via[l] = "udp"
  /\ sends[l] \in {1, MaxSends}
  /\ GoesTo(l, "connect")

\* The same on an earlier attempt: after a pause the request is sent again.
UdpRetry(l) ==
  /\ st[l] \in {"cert", "query"} /\ via[l] = "udp"
  /\ sends[l] < MaxSends
  /\ sends' = [sends EXCEPT ![l] = @ + 1]
  /\ UNCHANGED <<now, synced, session, lock, st, direct, res, tried, via, sess, taken, answer>>

TcpConnects(l) ==
  /\ st[l] \in {"cert", "query"} /\ via[l] = "connect"
  /\ GoesTo(l, "read")

\* Connection refused or timed out, or lost while writing or reading.
TcpFails(l) ==
  /\ via[l] \in {"connect", "read"}
  /\ \/ NextResolver(l)
     \/ st[l] = "query" /\ Fails(l, "failed") /\ UNCHANGED tried

TcpAnswer(l) ==
  /\ st[l] \in {"cert", "query"} /\ via[l] = "read"
  /\ \E p \in Arriving(l) : Received(l, p)

-----------------------------------------------------------------------------

\* MUTANT: dropping the future leaves the mutex locked.
Drop_Locked(l) ==
  /\ Active(l) /\ l \notin direct
  /\ Ends(l, "dropped")
  /\ UNCHANGED <<now, synced, session, lock, res, tried, sess, taken, direct, answer>>

\* connect_timeout or the timeout of the request: the future is dropped at the await it
\* is in, and with it the guard of the mutex.
Drop(l) ==
  /\ Active(l) /\ l \notin direct
  /\ Ends(l, "dropped")
  /\ lock' = Unlocked(l)
  /\ UNCHANGED <<now, synced, session, res, tried, sess, taken, direct, answer>>

Tick ==
  /\ now < MaxTime
  /\ now' = now + 1
  /\ UNCHANGED <<synced, session, lock, lookup>>

\* clock_settime in main(): to a time that is not before the floor, forwards or backwards.
Synchronise ==
  /\ ~synced /\ \A l \in direct : st[l] \in Ended
  /\ now' \in Floor..MaxTime /\ synced' = TRUE
  /\ UNCHANGED <<session, lock, lookup>>

\* The clock is what the host has set; enforce_time_floor may have failed, with a warning.
Init ==
  /\ now \in Time /\ synced = FALSE
  /\ session = NoSession
  /\ lock = NoLookup
  /\ st = [l \in Lookups |-> "idle"]
  /\ direct = {}
  /\ res = [l \in Lookups |-> 1]
  /\ tried = [l \in Lookups |-> {}]
  /\ via = [l \in Lookups |-> "none"]
  /\ sends = [l \in Lookups |-> 0]
  /\ sess = [l \in Lookups |-> NoSession]
  /\ taken = [l \in Lookups |-> 0]
  /\ answer = [l \in Lookups |-> "none"]

Waits(l) == via[l] = "read" /\ st[l] \in {"cert", "query"}

\* What the runtime and the timeouts of a lookup bring about by themselves.
OwnStep(l) ==
  \/ ReuseSession(l) \/ BeginEstablish(l)
  \/ UdpRetry(l) \/ UdpGivesUp(l)
  \/ via[l] = "connect" /\ TcpFails(l)

Step(l) ==
  \/ Resolve(l) \/ ResolveDirectly(l)
  \/ ReuseSession(l) \/ BeginEstablish(l)
  \/ UdpAnswer(l) \/ UdpRetry(l) \/ UdpGivesUp(l)
  \/ TcpConnects(l) \/ TcpAnswer(l) \/ TcpFails(l)
  \/ NoNonce(l) \/ Drop(l)

\* Once every lookup has ended nothing is left to do but to let time pass.
AllEnded == (\A l \in Lookups : st[l] \in Ended) /\ UNCHANGED vars

Next == Tick \/ Synchronise \/ AllEnded \/ \E l \in Lookups : Step(l)

\* Every wait has a timeout of its own but the reads from a TCP connection, which the
\* client's timeout ends unless the lookup is a direct one.
Fairness ==
  \A l \in Lookups : WF_vars(OwnStep(l)) /\ WF_vars(Waits(l) /\ Drop(l))

Spec == Init /\ [][Next]_vars /\ Fairness

-----------------------------------------------------------------------------
(* Properties.                                                             *)

TypeOK ==
  /\ now \in Time /\ synced \in BOOLEAN
  /\ session \in Sessions \cup {NoSession}
  /\ lock \in Lookups \cup {NoLookup}
  /\ st \in [Lookups -> {"idle", "lock", "cert", "query"} \cup Ended]
  /\ direct \subseteq Lookups
  /\ res \in [Lookups -> Resolver]
  /\ tried \in [Lookups -> SUBSET Resolver]
  /\ via \in [Lookups -> {"none", "udp", "connect", "read"}]
  /\ sends \in [Lookups -> 0..MaxSends]
  /\ sess \in [Lookups -> Sessions \cup {NoSession}]
  /\ taken \in [Lookups -> 0..MaxTime]
  /\ answer \in [Lookups -> {"none", "bogus"} \cup {Domain[l] : l \in Lookups}]

\* Others have the key of the session's certificate, and the clock did not rule it out:
\* it was at or before the certificate's end, or had not been set at all.
Exposed(l) ==
  /\ sess[l] # NoSession /\ sess[l].cert \in Leaked
  /\ taken[l] <= sess[l].cert.end \/ (l \in direct /\ taken[l] <= SaneClock)

\* Whatever arrives, in whatever order and however often - answers to other lookups of
\* the same session, the query sent back, packets sealed with keys that others have - the
\* address a lookup returns is the resolver's answer to its name, unless it is exposed.
AnswersAuthentic ==
  \A l \in Lookups : st[l] = "ok" => answer[l] = Domain[l] \/ Exposed(l)

\* A session, fresh or cached, comes from a certificate that is valid by the clock when
\* the lookup gets it, however long it has been in the cache; the exception for a clock
\* that has not been set is never met by a lookup of the HTTP client.
SessionCurrent ==
  \A l \in Lookups : sess[l] # NoSession =>
     \/ sess[l].cert.start <= taken[l] /\ taken[l] <= sess[l].cert.end
     \/ l \in direct /\ taken[l] <= SaneClock

\* The mutex is held exactly by a lookup that is establishing the session, on every way
\* out of it, dropped futures included.
LockHeldByEstablisher ==
  \A l \in Lookups : lock = l <=> st[l] = "cert" /\ l \notin direct

\* A lookup fails for want of a session only after every resolver let it down.
FailsAfterAll ==
  \A l \in Lookups : st[l] = "failed" /\ sess[l] = NoSession => tried[l] = Resolver

\* Lookups that find no session at the same time establish one of them: a session that
\* can still be used is never replaced.
CacheStable == [][Reusable => session' = session]_vars

Result(l) ==
  CASE st[l] = "idle" -> "none"
    [] Active(l)      -> IF l \in direct THEN "unbounded" ELSE "pending"
    [] st[l] = "ok"   -> answer[l]
    [] OTHER          -> "error"

results == [l \in Lookups |-> Result(l)]

exposed == {l \in Lookups : Exposed(l)}

Service == INSTANCE NameService WITH result <- results

\* Sessions, resolvers, transports and timeouts implement NameService: one answer, the
\* right one unless the lookup is exposed, or an error, and for the HTTP client always one
\* of the two.
ImplementsNameService == Service!Spec

=============================================================================
