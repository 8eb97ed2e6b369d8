--------------------------- MODULE DnscryptProofs ---------------------------
(***************************************************************************)
(* TLAPS proofs about Dnscrypt, for any number of lookups, any             *)
(* certificates and any clock.                                             *)
(***************************************************************************)
EXTENDS Dnscrypt, TLAPS

-----------------------------------------------------------------------------
(* The invariant.                                                          *)

\* A cached session was valid when it was established.
CacheBegun == session # NoSession => session.cert.start <= now

\* While a lookup holds the mutex, the cached session cannot be used, and the clock does
\* not bring it back.
LockMeansUnusable == lock # NoLookup => ~Reusable

\* The session of a lookup: none before its query, one from then on.
HasSession ==
  \A l \in Lookups :
    /\ st[l] \in {"idle", "lock", "cert"} => sess[l] = NoSession
    /\ st[l] \in {"query", "ok"} => sess[l] # NoSession
    /\ sess[l] # NoSession /\ l \notin direct => Floor <= taken[l]

\* Before main() sets the clock there are only direct lookups, and none of them after.
DirectFirst ==
  /\ ~synced => /\ session = NoSession /\ lock = NoLookup
                /\ \A l \in Lookups : l \notin direct => st[l] = "idle"
  /\ synced => Floor <= now /\ \A l \in direct : st[l] \in Ended

\* A direct lookup never waits for the mutex.
DirectWithoutLock == \A l \in direct : st[l] \notin {"idle", "lock"}

\* Each resolver before the one being asked has been tried.
TriedInOrder ==
  \A l \in Lookups :
    st[l] \in {"idle", "lock", "cert"} => \A r \in 1..(res[l] - 1) : r \in tried[l]

\* An answer is the resolver's to the lookup's own name, or one made with a key that
\* others have.
AnswerInv ==
  \A l \in Lookups :
    st[l] = "ok" => answer[l] = Domain[l] \/ (answer[l] = "bogus" /\ Exposed(l))

IInv ==
  /\ TypeOK
  /\ DirectFirst
  /\ CacheBegun
  /\ LockMeansUnusable
  /\ HasSession
  /\ DirectWithoutLock
  /\ TriedInOrder
  /\ SessionCurrent
  /\ LockHeldByEstablisher
  /\ FailsAfterAll
  /\ AnswerInv

\* A certificate is a record of three numbers and a key.
LEMMA CertTimes ==
  ASSUME NEW c \in Certs \cup {Forged}
  PROVE  c.start \in Nat /\ c.end \in Nat
BY DnscryptAssumption

LEMMA InitInvariant == Init => IInv
<1> SUFFICES ASSUME Init PROVE IInv
  OBVIOUS
<1>1. TypeOK
  <2>1. 1 \in Resolver
    BY DEF Resolver, HARDCODED_RESOLVERS
  <2>2. res \in [Lookups -> Resolver] /\ tried \in [Lookups -> SUBSET Resolver]
    BY <2>1 DEF Init
  <2>3. sess \in [Lookups -> Sessions \cup {NoSession}] /\ taken \in [Lookups -> 0..MaxTime]
    BY DnscryptAssumption DEF Init
  <2>4. sends \in [Lookups -> 0..MaxSends]
    BY DnscryptAssumption DEF Init
  <2>5. /\ via \in [Lookups -> {"none", "udp", "connect", "read"}]
        /\ st \in [Lookups -> {"idle", "lock", "cert", "query"} \cup Ended]
    BY DEF Init
  <2>6. answer \in [Lookups -> {"none", "bogus"} \cup {Domain[l] : l \in Lookups}]
    BY DEF Init
  <2> QED
    BY <2>2, <2>3, <2>4, <2>5, <2>6 DEF Init, TypeOK
<1> QED
  BY <1>1, DnscryptAssumption DEF Init, IInv, CacheBegun, LockMeansUnusable, HasSession,
     DirectFirst, DirectWithoutLock, TriedInOrder, SessionCurrent, LockHeldByEstablisher,
     FailsAfterAll, AnswerInv

-----------------------------------------------------------------------------
(* Steps that keep it.                                                     *)

\* A step that only moves the exchange with the resolver.
LEMMA ExchangeMoves ==
  ASSUME IInv,
         via' \in [Lookups -> {"none", "udp", "connect", "read"}],
         sends' \in [Lookups -> 0..MaxSends],
         UNCHANGED <<now, synced, session, lock, st, direct, res, tried, sess, taken, answer>>
  PROVE  IInv'
BY DEF IInv, TypeOK, DirectFirst, CacheBegun, LockMeansUnusable, HasSession,
   DirectWithoutLock, TriedInOrder, SessionCurrent, LockHeldByEstablisher, FailsAfterAll,
   AnswerInv, Exposed, Reusable

LEMMA TickInvariant == ASSUME IInv, Tick PROVE IInv'
<1>1. TypeOK'
  BY DnscryptAssumption DEF IInv, TypeOK, Tick, lookup, Time
<1>2. now \in Nat /\ now' = now + 1 /\ UNCHANGED <<synced, session, lock>>
  BY DnscryptAssumption DEF IInv, TypeOK, Tick, Time
<1>3. session # NoSession => session.cert.start \in Nat /\ session.cert.end \in Nat
  BY CertTimes DEF IInv, TypeOK, Sessions
<1>4. CacheBegun' /\ LockMeansUnusable'
  BY <1>2, <1>3 DEF IInv, CacheBegun, LockMeansUnusable, Reusable
<1>5. DirectFirst'
  BY <1>2, DnscryptAssumption DEF IInv, DirectFirst, Tick, lookup
<1> QED
  BY <1>1, <1>4, <1>5 DEF IInv, Tick, lookup, HasSession, DirectWithoutLock, TriedInOrder,
     SessionCurrent, LockHeldByEstablisher, FailsAfterAll, AnswerInv, Exposed

\* main() sets the clock when the direct lookups have ended: no session is cached and none
\* of the other lookups has begun, whichever way the clock moves.
LEMMA SynchroniseInvariant == ASSUME IInv, Synchronise PROVE IInv'
<1>1. now' \in Time /\ Floor <= now' /\ synced' = TRUE
  BY DnscryptAssumption DEF Synchronise, Time
<1>2. TypeOK'
  BY <1>1 DEF IInv, TypeOK, Synchronise, lookup
<1>3. CacheBegun' /\ LockMeansUnusable' /\ DirectFirst'
  BY <1>1 DEF IInv, CacheBegun, LockMeansUnusable, DirectFirst, Synchronise, lookup, Reusable
<1> QED
  BY <1>2, <1>3 DEF IInv, Synchronise, lookup, HasSession, DirectWithoutLock, TriedInOrder,
     SessionCurrent, LockHeldByEstablisher, FailsAfterAll, AnswerInv, Exposed

\* resolve waits for the mutex; resolve_domain_via_dnscrypt starts without it.
LEMMA ResolveInvariant ==
  ASSUME IInv, NEW l \in Lookups, Resolve(l)
  PROVE  IInv'
<1> USE DEF IInv, Resolve
<1>1. TypeOK'
  BY DEF TypeOK
<1>2. st' \in [Lookups -> {"idle", "lock", "cert", "query"} \cup Ended]
      /\ st'[l] = "lock" /\ \A k \in Lookups \ {l} : st'[k] = st[k]
  BY DEF TypeOK, Ended
<1> QED
  BY <1>1, <1>2, DnscryptAssumption DEF CacheBegun, LockMeansUnusable, HasSession,
     DirectWithoutLock, DirectFirst, TriedInOrder, SessionCurrent, LockHeldByEstablisher,
     FailsAfterAll, AnswerInv, Exposed, Reusable

LEMMA ResolveDirectlyInvariant ==
  ASSUME IInv, NEW l \in Lookups, ResolveDirectly(l)
  PROVE  IInv'
<1> USE DEF IInv, ResolveDirectly, Exchange
<1>1. TypeOK'
  BY DnscryptAssumption DEF TypeOK
<1>2. /\ st'[l] = "cert" /\ \A k \in Lookups \ {l} : st'[k] = st[k]
      /\ direct' = direct \cup {l} /\ synced' = FALSE /\ ~synced
  BY DEF TypeOK
<1>3. LockHeldByEstablisher' /\ DirectFirst' /\ DirectWithoutLock'
  BY <1>2, DnscryptAssumption DEF LockHeldByEstablisher, DirectWithoutLock, DirectFirst, TypeOK
<1>4. SessionCurrent' /\ HasSession'
  BY <1>2 DEF SessionCurrent, HasSession
<1>5. AnswerInv'
  BY <1>2 DEF AnswerInv, Exposed
<1> QED
  BY <1>1, <1>2, <1>3, <1>4, <1>5 DEF CacheBegun, LockMeansUnusable, TriedInOrder,
     FailsAfterAll, Reusable

LEMMA ReuseSessionInvariant ==
  ASSUME IInv, NEW l \in Lookups, ReuseSession(l)
  PROVE  IInv'
<1> USE DEF IInv, ReuseSession, Exchange, Takes
<1>1. TypeOK'
  BY DnscryptAssumption DEF TypeOK, Reusable, Time
<1>2. /\ st'[l] = "query" /\ sess'[l] = session /\ taken'[l] = now
      /\ \A k \in Lookups \ {l} : st'[k] = st[k] /\ sess'[k] = sess[k] /\ taken'[k] = taken[k]
  BY DEF TypeOK
<1>3. session # NoSession /\ now < session.cert.end /\ session.cert.start <= now
  BY DEF Reusable, CacheBegun
<1>4. now \in Nat /\ session.cert.end \in Nat
  BY <1>3, CertTimes, DnscryptAssumption DEF TypeOK, Sessions, Time
<1>5. Floor <= now /\ synced
  BY <1>3 DEF DirectFirst
<1>6. HasSession' /\ SessionCurrent'
  BY <1>2, <1>3, <1>4, <1>5 DEF HasSession, SessionCurrent
<1>7. DirectFirst' /\ DirectWithoutLock' /\ LockHeldByEstablisher'
  BY <1>2, <1>5, DnscryptAssumption DEF TypeOK, DirectFirst, DirectWithoutLock,
     LockHeldByEstablisher, Ended
<1>8. TriedInOrder' /\ FailsAfterAll' /\ AnswerInv'
  BY <1>2, <1>3 DEF TypeOK, TriedInOrder, FailsAfterAll, AnswerInv, Exposed
<1> QED
  BY <1>1, <1>6, <1>7, <1>8 DEF CacheBegun, LockMeansUnusable, Reusable

LEMMA BeginEstablishInvariant ==
  ASSUME IInv, NEW l \in Lookups, BeginEstablish(l)
  PROVE  IInv'
<1> USE DEF IInv, BeginEstablish, Exchange
<1>1. TypeOK'
  BY DnscryptAssumption DEF TypeOK
<1>2. st'[l] = "cert" /\ \A k \in Lookups \ {l} : st'[k] = st[k]
  BY DEF TypeOK
<1>3. LockHeldByEstablisher' /\ DirectFirst' /\ DirectWithoutLock'
  BY <1>2, DnscryptAssumption DEF LockHeldByEstablisher, DirectWithoutLock, DirectFirst,
     TypeOK, Ended
<1> QED
  BY <1>1, <1>2, <1>3 DEF CacheBegun, LockMeansUnusable, HasSession, TriedInOrder,
     SessionCurrent, FailsAfterAll, AnswerInv, Exposed, Reusable

\* A usable certificate of a response: the session, and the cache unless the lookup is a
\* direct one, come from it, and the mutex is free again.
LEMMA EstablishedInvariant ==
  ASSUME IInv, NEW l \in Lookups, NEW certs, Established(l, certs)
  PROVE  IInv'
<1> USE DEF IInv
<1>1. PICK c \in BestCert(certs) :
        LET s == [resolver |-> res[l], client |-> l, cert |-> c] IN
        /\ session' = IF l \in direct THEN session ELSE s
        /\ Takes(l, s)
  BY DEF Established
<1> DEFINE s == [resolver |-> res[l], client |-> l, cert |-> c]
<1>2. verify_cert(c)
  BY DEF BestCert, Usable
<1>3. /\ now \in Nat /\ now <= MaxTime /\ c \in Certs
      /\ st[l] = "cert" /\ (l \notin direct => Floor <= now)
  BY <1>2, DnscryptAssumption DEF TypeOK, Time, verify_cert, Established, DirectFirst
<1>4. \/ c.start <= now /\ now <= c.end
      \/ l \in direct /\ now <= SaneClock
  BY <1>2, <1>3, DnscryptAssumption DEF verify_cert
<1>5. s \in Sessions /\ s # NoSession /\ s.cert = c
  BY <1>3, NoSessionAssumption DEF Sessions, TypeOK
<1> HIDE DEF s
<1>6. /\ st' = [st EXCEPT ![l] = "query"] /\ sess' = [sess EXCEPT ![l] = s]
      /\ taken' = [taken EXCEPT ![l] = now] /\ session' = IF l \in direct THEN session ELSE s
      /\ via' = [via EXCEPT ![l] = "udp"] /\ sends' = [sends EXCEPT ![l] = 1]
      /\ lock' = Unlocked(l) /\ st[l] = "cert"
      /\ UNCHANGED <<now, synced, res, tried, direct, answer>>
  BY <1>1 DEF Established, Exchange, Takes, s
<1>7. TypeOK'
  BY <1>3, <1>5, <1>6, DnscryptAssumption DEF TypeOK, Unlocked
<1>8. /\ st'[l] = "query" /\ sess'[l] = s /\ taken'[l] = now
      /\ \A k \in Lookups \ {l} : st'[k] = st[k] /\ sess'[k] = sess[k] /\ taken'[k] = taken[k]
  BY <1>6 DEF TypeOK
<1>9. HasSession' /\ SessionCurrent'
  BY <1>3, <1>4, <1>5, <1>6, <1>8 DEF HasSession, SessionCurrent
<1>10. l \in direct => lock # l
  BY DEF LockHeldByEstablisher
<1>11. CacheBegun' /\ LockMeansUnusable'
  <2>1. CASE l \in direct
    BY <1>6, <1>10, <2>1 DEF CacheBegun, LockMeansUnusable, Reusable, Unlocked
  <2>2. CASE l \notin direct
    <3>1. lock = l /\ lock' = NoLookup /\ session' = s /\ now' = now
      BY <1>6, <2>2 DEF LockHeldByEstablisher, Unlocked
    <3> QED
      BY <1>4, <1>5, <2>2, <3>1 DEF CacheBegun, LockMeansUnusable
  <2> QED
    BY <2>1, <2>2
<1>12. LockHeldByEstablisher'
  BY <1>6, <1>8, DnscryptAssumption DEF LockHeldByEstablisher, Unlocked
<1>13. DirectWithoutLock' /\ TriedInOrder' /\ FailsAfterAll' /\ AnswerInv'
  BY <1>5, <1>6, <1>8 DEF TypeOK, DirectWithoutLock, TriedInOrder, FailsAfterAll, AnswerInv,
     Exposed
<1>14. DirectFirst'
  BY <1>3, <1>6, <1>8 DEF DirectFirst, Unlocked, Ended
<1> QED
  BY <1>7, <1>9, <1>11, <1>12, <1>13, <1>14

\* A lookup that ends without an answer: with an error or dropped at an await.
LEMMA EndsInvariant ==
  ASSUME IInv, NEW l \in Lookups, NEW how \in {"failed", "nokey", "dropped"},
         Active(l), how = "failed" => st[l] = "query",
         Ends(l, how), lock' = Unlocked(l),
         UNCHANGED <<now, synced, session, res, tried, sess, taken, direct, answer>>
  PROVE  IInv'
<1> USE DEF IInv, Ends
<1>1. TypeOK'
  BY DnscryptAssumption DEF TypeOK, Ended, Unlocked
<1>2. st'[l] = how /\ \A k \in Lookups \ {l} : st'[k] = st[k]
  BY DEF TypeOK
<1>3. LockHeldByEstablisher'
  BY <1>2, DnscryptAssumption DEF LockHeldByEstablisher, Unlocked
<1>4. lock' # NoLookup => lock # NoLookup
  BY DEF Unlocked
<1>5. CacheBegun' /\ LockMeansUnusable' /\ SessionCurrent'
  BY <1>4 DEF CacheBegun, LockMeansUnusable, SessionCurrent, Reusable
<1>6. HasSession' /\ DirectWithoutLock' /\ TriedInOrder' /\ FailsAfterAll'
  BY <1>2 DEF HasSession, DirectWithoutLock, TriedInOrder, FailsAfterAll, TypeOK
<1>7. AnswerInv'
  BY <1>2 DEF AnswerInv, Exposed
<1>8. DirectFirst'
  BY <1>2, <1>4 DEF DirectFirst, Active, Ended
<1> QED
  BY <1>1, <1>3, <1>5, <1>6, <1>7, <1>8

\* No usable certificate: the next resolver is asked, or all of them have been.
LEMMA NextResolverInvariant ==
  ASSUME IInv, NEW l \in Lookups, NextResolver(l)
  PROVE  IInv'
<1> USE DEF IInv
<1>1. tried' = [tried EXCEPT ![l] = @ \cup {res[l]}] /\ st[l] = "cert"
  BY DEF NextResolver
<1>2. Resolver = 1..Len(HARDCODED_RESOLVERS) /\ Len(HARDCODED_RESOLVERS) = 3
  BY DEF Resolver, HARDCODED_RESOLVERS
<1>3. /\ res[l] \in 1..3 /\ tried' \in [Lookups -> SUBSET Resolver]
      /\ tried'[l] = tried[l] \cup {res[l]}
      /\ \A k \in Lookups \ {l} : tried'[k] = tried[k]
  BY <1>1, <1>2 DEF TypeOK
<1>4. \A r \in 1..res[l] : r \in tried'[l]
  <2>1. \A r \in 1..res[l] : r = res[l] \/ r \in 1..(res[l] - 1)
    BY <1>3
  <2> QED
    BY <1>1, <1>3, <2>1 DEF TriedInOrder
<1>5. CASE /\ res[l] < 3
           /\ res' = [res EXCEPT ![l] = @ + 1]
           /\ Exchange(l, "cert")
           /\ UNCHANGED <<now, synced, session, lock, sess, taken, direct, answer>>
  <2>1. TypeOK'
    BY <1>2, <1>3, <1>5, DnscryptAssumption DEF TypeOK, Exchange
  <2>2. st' = st
    BY <1>1, <1>5 DEF Exchange, TypeOK
  <2>3. res'[l] = res[l] + 1 /\ \A k \in Lookups \ {l} : res'[k] = res[k]
    BY <1>5 DEF TypeOK
  <2>4. TriedInOrder'
    <3>1. \A r \in 1..(res'[l] - 1) : r \in tried'[l]
      BY <1>3, <1>4, <2>3
    <3> QED
      BY <1>3, <2>2, <2>3, <3>1 DEF TriedInOrder
  <2>5. FailsAfterAll'
    BY <1>1, <1>3, <1>5, <2>2 DEF FailsAfterAll
  <2> QED
    BY <1>5, <2>1, <2>2, <2>4, <2>5 DEF CacheBegun, LockMeansUnusable, HasSession, DirectFirst,
       DirectWithoutLock, SessionCurrent, LockHeldByEstablisher, AnswerInv, Exposed, Reusable
<1>6. CASE res[l] = 3 /\ Fails(l, "failed")
  <2> USE DEF Fails, Ends
  <2>1. TypeOK'
    BY <1>3, <1>6, DnscryptAssumption DEF TypeOK, Unlocked, Ended
  <2>2. st'[l] = "failed" /\ \A k \in Lookups \ {l} : st'[k] = st[k]
    BY <1>6 DEF TypeOK
  <2>3. LockHeldByEstablisher'
    BY <1>6, <2>2, DnscryptAssumption DEF LockHeldByEstablisher, Unlocked
  <2>4. CacheBegun' /\ LockMeansUnusable' /\ SessionCurrent'
    BY <1>6 DEF CacheBegun, LockMeansUnusable, SessionCurrent, Reusable, Unlocked
  <2>5. tried'[l] = Resolver
    BY <1>2, <1>3, <1>4, <1>6
  <2>6. FailsAfterAll' /\ TriedInOrder'
    BY <1>3, <1>6, <2>2, <2>5 DEF FailsAfterAll, TriedInOrder
  <2>7. HasSession' /\ DirectWithoutLock' /\ AnswerInv'
    BY <1>1, <1>6, <2>2 DEF HasSession, DirectWithoutLock, AnswerInv, Exposed, TypeOK
  <2>8. DirectFirst'
    BY <1>1, <1>6, <2>2 DEF DirectFirst, Unlocked, Ended
  <2> QED
    BY <2>1, <2>3, <2>4, <2>6, <2>7, <2>8
<1> QED
  BY <1>2, <1>5, <1>6 DEF NextResolver

-----------------------------------------------------------------------------
(* What arrives.                                                           *)

\* The packet a lookup accepts is the resolver's answer to its name, unless others have
\* the key of the lookup's session.
LEMMA AcceptedIsAuthentic ==
  ASSUME IInv, NEW l \in Lookups, NEW p \in ReplyPackets,
         st[l] = "query", Opens(l, p), HasAddress(p)
  PROVE  p.body = Domain[l] \/ (p.body = "bogus" /\ Exposed(l))
<1>1. sess[l] \in Sessions /\ sess[l].cert \in Certs
  BY DEF IInv, TypeOK, HasSession, Sessions
<1>2. CASE p \in Genuine
  <2>1. PICK k \in Querying : \/ p = Sealed(k, SharedKey(sess[k]), Domain[k])
                              \/ p = Sealed(k, SharedKey(sess[k]), "no A record")
    BY <1>2 DEF Genuine
  <2>2. CASE p = Sealed(k, SharedKey(sess[k]), Domain[k])
    <3>1. p.nonce = k /\ p.body = Domain[k]
      BY <2>2 DEF Sealed
    <3> QED
      BY <3>1 DEF Opens
  <2>3. CASE p = Sealed(k, SharedKey(sess[k]), "no A record")
    <3>1. p.body = "no A record"
      BY <2>3 DEF Sealed
    <3> QED
      BY <3>1 DEF HasAddress
  <2> QED
    BY <2>1, <2>2, <2>3
<1>3. CASE p \in Reflected
  <2>1. p.body = "query"
    BY <1>3 DEF Reflected, Sealed
  <2> QED
    BY <2>1 DEF HasAddress
<1>4. CASE p \in SealedByOthers
  <2>1. PICK m \in Querying, k \in {x \in Keys : x.peer \in KnownPeers} :
          p = Sealed(m, k, "bogus")
    BY <1>4 DEF SealedByOthers
  <2>2. p.key = k /\ p.body = "bogus"
    BY <2>1 DEF Sealed
  <2>3. k.peer = sess[l].cert.key
    BY <2>2 DEF Opens, SharedKey
  <2>4. PICK d \in Leaked \cup {Forged} : sess[l].cert.key = d.key
    BY <2>1, <2>3 DEF KnownPeers
  <2>5. sess[l] # NoSession /\ sess[l].cert \in Leaked
    BY <1>1, <2>4, NoSessionAssumption, DnscryptAssumption
  <2>6. Exposed(l)
    BY <2>5 DEF IInv, SessionCurrent, Exposed
  <2> QED
    BY <2>2, <2>6
<1>5. CASE p \in Unsealed
  <2>1. p.nonce = NoLookup
    BY <1>5 DEF Unsealed
  <2> QED
    BY <2>1, DnscryptAssumption DEF Opens
<1> QED
  BY <1>2, <1>3, <1>4, <1>5 DEF ReplyPackets

LEMMA AcceptsInvariant ==
  ASSUME IInv, NEW l \in Lookups, NEW p \in ReplyPackets, st[l] = "query", Accepts(l, p)
  PROVE  IInv'
<1> USE DEF IInv
<1>1. p.body = Domain[l] \/ (p.body = "bogus" /\ Exposed(l))
  BY AcceptedIsAuthentic DEF Accepts
<1>2. /\ st' = [st EXCEPT ![l] = "ok"] /\ answer' = [answer EXCEPT ![l] = p.body]
      /\ via' = [via EXCEPT ![l] = "none"] /\ sends' = [sends EXCEPT ![l] = 0]
      /\ UNCHANGED <<now, synced, session, lock, res, tried, sess, direct, taken>>
  BY DEF Accepts, Ends
<1>3. TypeOK'
  <2>1. answer' \in [Lookups -> {"none", "bogus"} \cup {Domain[k] : k \in Lookups}]
    BY <1>1, <1>2 DEF TypeOK
  <2> QED
    BY <1>2, <2>1, DnscryptAssumption DEF TypeOK, Ended
<1>4. /\ st'[l] = "ok" /\ answer'[l] = p.body
      /\ \A k \in Lookups \ {l} : st'[k] = st[k] /\ answer'[k] = answer[k]
  BY <1>2 DEF TypeOK
<1>5. ASSUME NEW k \in Lookups, st'[k] = "ok"
      PROVE  answer'[k] = Domain[k] \/ (answer'[k] = "bogus" /\ Exposed(k)')
  <2>1. CASE k = l
    BY <1>1, <1>2, <1>4, <2>1 DEF Exposed
  <2>2. CASE k # l
    BY <1>2, <1>4, <1>5, <2>2 DEF AnswerInv, Exposed
  <2> QED
    BY <2>1, <2>2
<1>6. AnswerInv'
  BY <1>5 DEF AnswerInv, Exposed
<1>7. LockHeldByEstablisher'
  BY <1>2, <1>4 DEF LockHeldByEstablisher
<1>8. DirectFirst'
  BY <1>2, <1>4 DEF DirectFirst, Ended
<1> QED
  BY <1>2, <1>3, <1>4, <1>6, <1>7, <1>8 DEF CacheBegun, LockMeansUnusable, HasSession,
     DirectWithoutLock, TriedInOrder, SessionCurrent, FailsAfterAll, Reusable, TypeOK

LEMMA ReceivedInvariant ==
  ASSUME IInv, NEW l \in Lookups, NEW p \in Arriving(l), Received(l, p)
  PROVE  IInv'
<1>1. CASE st[l] = "cert"
  <2>1. CASE Established(l, p.certs)
    BY <2>1, EstablishedInvariant
  <2>2. CASE NoKey(l)
    BY <1>1, <2>2, EndsInvariant DEF NoKey, Fails, Active
  <2>3. CASE NextResolver(l)
    BY <2>3, NextResolverInvariant
  <2> QED
    BY <1>1, <2>1, <2>2, <2>3 DEF Received
<1>2. CASE st[l] = "query"
  <2>1. p \in ReplyPackets
    BY <1>2 DEF Arriving
  <2>2. CASE Accepts(l, p)
    BY <1>2, <2>1, <2>2, AcceptsInvariant
  <2>3. CASE Rejects(l, p)
    BY <1>2, <2>3, EndsInvariant DEF Rejects, Fails, Active
  <2> QED
    BY <1>2, <2>2, <2>3 DEF Received
<1> QED
  BY <1>1, <1>2 DEF Received

-----------------------------------------------------------------------------
(* Every step.                                                             *)

LEMMA GoesToInvariant ==
  ASSUME IInv, NEW l \in Lookups, NEW place \in {"connect", "read"}, GoesTo(l, place)
  PROVE  IInv'
<1>1. /\ via' \in [Lookups -> {"none", "udp", "connect", "read"}]
      /\ sends' \in [Lookups -> 0..MaxSends]
  BY DEF IInv, TypeOK, GoesTo
<1> QED
  BY <1>1, ExchangeMoves DEF GoesTo

LEMMA StepInvariant ==
  ASSUME IInv, NEW l \in Lookups, Step(l)
  PROVE  IInv'
<1>1. CASE UdpAnswer(l)
  <2>1. PICK p \in Arriving(l) : IF Truncated(p) THEN GoesTo(l, "connect") ELSE Received(l, p)
    BY <1>1 DEF UdpAnswer
  <2> QED
    BY <2>1, GoesToInvariant, ReceivedInvariant
<1>2. CASE UdpGivesUp(l)
  BY <1>2, GoesToInvariant DEF UdpGivesUp
<1>3. CASE UdpRetry(l)
  <2>1. sends' \in [Lookups -> 0..MaxSends]
    BY <1>3, DnscryptAssumption DEF UdpRetry, IInv, TypeOK
  <2>2. via' \in [Lookups -> {"none", "udp", "connect", "read"}]
    BY <1>3 DEF UdpRetry, IInv, TypeOK
  <2> QED
    BY <1>3, <2>1, <2>2, ExchangeMoves DEF UdpRetry
<1>4. CASE TcpConnects(l)
  BY <1>4, GoesToInvariant DEF TcpConnects
<1>5. CASE TcpFails(l)
  <2>1. CASE NextResolver(l)
    BY <2>1, NextResolverInvariant
  <2>2. CASE st[l] = "query" /\ Fails(l, "failed") /\ UNCHANGED tried
    BY <2>2, EndsInvariant DEF Fails, Active
  <2> QED
    BY <1>5, <2>1, <2>2 DEF TcpFails
<1>6. CASE TcpAnswer(l)
  BY <1>6, ReceivedInvariant DEF TcpAnswer
<1>7. CASE NoNonce(l)
  BY <1>7, EndsInvariant DEF NoNonce, NoKey, Fails, Active
<1>8. CASE Drop(l)
  BY <1>8, EndsInvariant DEF Drop
<1> QED
  BY <1>1, <1>2, <1>3, <1>4, <1>5, <1>6, <1>7, <1>8, ResolveInvariant,
     ResolveDirectlyInvariant, ReuseSessionInvariant, BeginEstablishInvariant DEF Step

LEMMA NextInvariant == IInv /\ [Next]_vars => IInv'
<1> SUFFICES ASSUME IInv, [Next]_vars PROVE IInv'
  OBVIOUS
<1>1. CASE UNCHANGED vars
  BY <1>1, ExchangeMoves DEF vars, lookup, IInv, TypeOK
<1> QED
  BY <1>1, TickInvariant, SynchroniseInvariant, StepInvariant DEF Next, AllEnded

\* Sessions, the mutex, the order of resolvers and the answers stay as the invariant says.
THEOREM InvariantHolds == Spec => []IInv
BY InitInvariant, NextInvariant, PTL DEF Spec

-----------------------------------------------------------------------------
(* The theorems.                                                           *)

\* A lookup returns the resolver's answer to its own name, whatever arrives: answers to
\* other lookups, its query sent back, packets sealed by others, unless these have the key
\* of its certificate and the clock had not ruled that certificate out.
THEOREM AuthenticAnswers == Spec => []AnswersAuthentic
<1>1. IInv => AnswersAuthentic
  BY DEF IInv, AnswerInv, AnswersAuthentic
<1> QED
  BY <1>1, InvariantHolds, PTL

\* For the HTTP client the clock has been set: if the keys that others have are those of
\* certificates that end before LAST_KNOWN_GOOD_TIME, its answers are the resolver's.
THEOREM ClientAnswersAuthentic ==
  ASSUME \A c \in Leaked : c.end < Floor
  PROVE  Spec => [](\A l \in Lookups : st[l] = "ok" /\ l \notin direct => answer[l] = Domain[l])
<1>1. ASSUME IInv, NEW l \in Lookups, l \notin direct
      PROVE  ~Exposed(l)
  <2>1. SUFFICES ASSUME Exposed(l) PROVE FALSE
    OBVIOUS
  <2>2. sess[l].cert \in Leaked /\ taken[l] <= sess[l].cert.end /\ Floor <= taken[l]
    BY <1>1, <2>1 DEF IInv, HasSession, Exposed
  <2>3. sess[l].cert.end \in Nat /\ taken[l] \in Nat /\ sess[l].cert.end < Floor
    BY <1>1, <2>2, CertTimes, DnscryptAssumption DEF IInv, TypeOK
  <2> QED
    BY <2>2, <2>3, DnscryptAssumption
<1>2. IInv => \A l \in Lookups : st[l] = "ok" /\ l \notin direct => answer[l] = Domain[l]
  BY <1>1 DEF IInv, AnswerInv
<1> QED
  BY <1>2, InvariantHolds, PTL

\* get_or_establish_session gives no session of a certificate that is not valid then; only
\* a direct lookup may take one that is not, while the clock has not been set.
THEOREM CurrentSessions == Spec => []SessionCurrent
<1>1. IInv => SessionCurrent
  BY DEF IInv
<1> QED
  BY <1>1, InvariantHolds, PTL

\* The tokio mutex is held exactly by the lookup that is establishing the session.
THEOREM LockDiscipline == Spec => []LockHeldByEstablisher
<1>1. IInv => LockHeldByEstablisher
  BY DEF IInv
<1> QED
  BY <1>1, InvariantHolds, PTL

\* establish_dnscrypt_session gives up only after asking every resolver.
THEOREM AllResolversAsked == Spec => []FailsAfterAll
<1>1. IInv => FailsAfterAll
  BY DEF IInv
<1> QED
  BY <1>1, InvariantHolds, PTL

-----------------------------------------------------------------------------
(* The cache.                                                              *)

LEMMA EstablishedKeepsCache ==
  ASSUME IInv, NEW l \in Lookups, NEW certs, Established(l, certs), Reusable
  PROVE  session' = session
<1>1. l \in direct \/ lock = l
  BY DEF IInv, LockHeldByEstablisher, Established
<1>2. lock # l
  BY DnscryptAssumption DEF IInv, LockMeansUnusable
<1> QED
  BY <1>1, <1>2 DEF Established

LEMMA ReceivedKeepsCache ==
  ASSUME IInv, NEW l \in Lookups, NEW p, Received(l, p), Reusable
  PROVE  session' = session
BY EstablishedKeepsCache DEF Received, NoKey, NextResolver, Fails, Accepts, Rejects

\* Lookups that miss the cache together establish one session: one that can still be used
\* is never replaced.
THEOREM StableCache == Spec => CacheStable
<1>1. ASSUME IInv, [Next]_vars, Reusable
      PROVE  session' = session
  <2>1. CASE UNCHANGED vars \/ Tick \/ Synchronise
    BY <2>1 DEF vars, Tick, Synchronise
  <2>2. ASSUME NEW l \in Lookups, Step(l)
        PROVE  session' = session
    <3>1. CASE UdpAnswer(l)
      <4>1. PICK p \in Arriving(l) :
              IF Truncated(p) THEN GoesTo(l, "connect") ELSE Received(l, p)
        BY <3>1 DEF UdpAnswer
      <4>2. CASE Truncated(p)
        BY <4>1, <4>2 DEF GoesTo
      <4>3. CASE ~Truncated(p)
        BY <1>1, <4>1, <4>3, ReceivedKeepsCache
      <4> QED
        BY <4>2, <4>3
    <3>2. CASE TcpAnswer(l)
      BY <1>1, <3>2, ReceivedKeepsCache DEF TcpAnswer
    <3> QED
      BY <2>2, <3>1, <3>2 DEF Step, Resolve, ResolveDirectly, ReuseSession, BeginEstablish,
         UdpRetry, UdpGivesUp, TcpConnects, TcpFails, NoNonce, NoKey, Drop, GoesTo, Fails,
         NextResolver
  <2> QED
    BY <1>1, <2>1, <2>2 DEF Next, AllEnded, vars
<1>2. IInv /\ [Next]_vars => [Reusable => session' = session]_vars
  BY <1>1
<1> QED
  BY <1>2, InvariantHolds, PTL DEF Spec, CacheStable

-----------------------------------------------------------------------------
(* The refinement of NameService.                                          *)

Others(l) ==
  \A k \in Lookups \ {l} :
    st'[k] = st[k] /\ answer'[k] = answer[k] /\ (k \in direct' <=> k \in direct)

\* A step of a lookup begins it, moves it on or ends it with the session it has.
Advances(l) ==
  \/ st[l] = "idle" /\ Active(l)'
  \/ Active(l) /\ direct' = direct /\ Active(l)'
  \/ /\ Active(l) /\ st'[l] \in Ended
     /\ UNCHANGED <<direct, sess, taken>>

LEMMA ReceivedAdvances ==
  ASSUME IInv, NEW l \in Lookups, NEW p, Received(l, p)
  PROVE  Others(l) /\ Advances(l)
<1> USE DEF Others, Advances, Active, Ended, IInv, TypeOK
<1>1. CASE st[l] = "cert" /\ Established(l, p.certs)
  BY <1>1 DEF Established, Exchange
<1>2. CASE st[l] = "cert" /\ NextResolver(l)
  BY <1>2 DEF NextResolver, Exchange, Fails, Ends
<1>3. CASE st[l] \in {"cert", "query"} /\ (NoKey(l) \/ Rejects(l, p))
  BY <1>3 DEF NoKey, Rejects, Fails, Ends
<1>4. CASE st[l] = "query" /\ Accepts(l, p)
  BY <1>4 DEF Accepts, Ends
<1> QED
  BY <1>1, <1>2, <1>3, <1>4 DEF Received

LEMMA StepAdvances ==
  ASSUME IInv, NEW l \in Lookups, Step(l)
  PROVE  Others(l) /\ Advances(l)
<1>1. ASSUME NEW place, GoesTo(l, place), st[l] \in {"cert", "query"}
      PROVE  Others(l) /\ Advances(l)
  BY <1>1 DEF GoesTo, Others, Advances, Active
<1>2. CASE UdpAnswer(l)
  <2>1. PICK p \in Arriving(l) : IF Truncated(p) THEN GoesTo(l, "connect") ELSE Received(l, p)
    BY <1>2 DEF UdpAnswer
  <2> QED
    BY <1>1, <1>2, <2>1, ReceivedAdvances DEF UdpAnswer
<1>3. CASE TcpAnswer(l)
  BY <1>3, ReceivedAdvances DEF TcpAnswer
<1>4. CASE UdpGivesUp(l) \/ TcpConnects(l)
  BY <1>1, <1>4 DEF UdpGivesUp, TcpConnects
<1>5. CASE Resolve(l) \/ ResolveDirectly(l) \/ ReuseSession(l) \/ BeginEstablish(l)
  BY <1>5 DEF Resolve, ResolveDirectly, ReuseSession, BeginEstablish, Exchange, Others,
     Advances, Active, IInv, TypeOK
<1>6. CASE UdpRetry(l)
  BY <1>6 DEF UdpRetry, Others, Advances, Active
<1>7. CASE TcpFails(l)
  BY <1>7 DEF TcpFails, NextResolver, Exchange, Fails, Ends, Others, Advances, Active, Ended,
     IInv, TypeOK
<1>8. CASE NoNonce(l) \/ Drop(l)
  BY <1>8 DEF NoNonce, NoKey, Drop, Fails, Ends, Others, Advances, Active, Ended, IInv, TypeOK
<1> QED
  BY <1>2, <1>3, <1>4, <1>5, <1>6, <1>7, <1>8 DEF Step

\* One result changes at a time, from none to asked for and from there to the right
\* address, the others' if the lookup is exposed, or an error.
LEMMA AdvanceRefines ==
  ASSUME IInv, IInv', NEW l \in Lookups, Others(l), Advances(l)
  PROVE  [Service!Next]_results
<1>1. \A k \in Lookups \ {l} : Result(k)' = Result(k)
  BY DEF Others, Result, Active
<1>2. results' = [results EXCEPT ![l] = Result(l)']
  BY <1>1 DEF results
<1>3. results[l] = Result(l)
  BY DEF results
<1>4. CASE Result(l)' = Result(l)
  <2>1. results' = results
    BY <1>1, <1>4 DEF results
  <2> QED
    BY <2>1
<1>5. CASE st[l] = "idle" /\ Active(l)'
  <2>1. Result(l) = "none" /\ Result(l)' \in {"pending", "unbounded"}
    BY <1>5 DEF Result, Active
  <2> QED
    BY <1>2, <1>3, <2>1 DEF Service!Next, Service!Ask
<1>6. CASE Active(l) /\ direct' = direct /\ Active(l)'
  <2>1. Result(l)' = Result(l)
    BY <1>6 DEF Result, Active
  <2> QED
    BY <1>4, <2>1
<1>7. CASE Active(l) /\ st'[l] \in Ended /\ UNCHANGED <<direct, sess, taken>>
  <2>1. Result(l) \in {"pending", "unbounded"}
    BY <1>7 DEF Result, Active
  <2>2. Result(l)' \in {Domain[l], "error"} \/ (Result(l)' = "bogus" /\ Exposed(l)')
    BY <1>7 DEF Result, Active, Ended, IInv, AnswerInv
  <2>3. Exposed(l)' => l \in exposed
    BY <1>7 DEF Exposed, exposed
  <2>4. CASE Result(l)' \in {Domain[l], "error"}
    BY <1>2, <1>3, <2>1, <2>4 DEF Service!Next, Service!Answer, Service!Fail, Service!Asked
  <2>5. CASE Result(l)' = "bogus" /\ l \in exposed
    BY <1>2, <1>3, <2>1, <2>5 DEF Service!Next, Service!Mislead, Service!Asked
  <2> QED
    BY <2>2, <2>3, <2>4, <2>5
<1> QED
  BY <1>5, <1>6, <1>7 DEF Advances

\* The resolver implements the safety part of NameService: each lookup is answered at most
\* once, with the address of its own name unless it is exposed, or fails.
THEOREM Refinement == Spec => Service!Safety
<1>1. Init => Service!Init
  <2>1. Init => \A l \in Lookups : Result(l) = "none"
    BY DEF Init, Result, Active
  <2> QED
    BY <2>1 DEF Service!Init, results
<1>2. ASSUME IInv, IInv', [Next]_vars
      PROVE  [Service!Next]_results
  <2>1. CASE Tick \/ Synchronise \/ UNCHANGED vars
    <3>1. results' = results
      BY <2>1 DEF Tick, Synchronise, vars, lookup, results, Result, Active
    <3> QED
      BY <3>1
  <2>2. ASSUME NEW l \in Lookups, Step(l)
        PROVE  [Service!Next]_results
    BY <1>2, <2>2, StepAdvances, AdvanceRefines
  <2> QED
    BY <1>2, <2>1, <2>2 DEF Next, AllEnded
<1> QED
  BY <1>1, <1>2, InvariantHolds, PTL DEF Spec, Service!Safety

=============================================================================
