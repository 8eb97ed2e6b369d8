------------------------- MODULE AttestationProofs -------------------------
(***************************************************************************)
(* Proofs about AttestationServer for any number of connections, subnets   *)
(* and any limits: type correctness, that the limiter and the semaphore    *)
(* account for exactly the permits that are out, the rate limit, and what  *)
(* a refusal says.                                                         *)
(***************************************************************************)
EXTENDS AttestationServer, FiniteSetTheorems, SequenceTheorems, TLAPS

-----------------------------------------------------------------------------
(* The limiter's operators.                                                *)

\* Popping outdated instants leaves a queue of instants.
LEMMA PruneType ==
  ASSUME NEW q \in Seq(0..MaxTime)
  PROVE  Prune(q) \in Seq(0..MaxTime)
<1> DEFINE popped == {i \in 1..Len(q) : \A j \in 1..i : Outdated(q[j])}
<1>1. Len(q) \in Nat
  OBVIOUS
<1>2. IsFiniteSet(1..Len(q)) /\ Cardinality(1..Len(q)) = Len(q)
  BY <1>1, FS_Interval, SMTT(30)
<1>3. popped \in SUBSET (1..Len(q))
  OBVIOUS
<1> HIDE DEF popped
<1>4. IsFiniteSet(popped)
  BY <1>2, <1>3, FS_Subset
<1>5. Cardinality(popped) \in Nat
  BY <1>4, FS_CardinalityType
<1>6. SubSeq(q, Cardinality(popped) + 1, Len(q)) \in Seq(0..MaxTime)
  <2>1. \A i \in (Cardinality(popped) + 1)..Len(q) : q[i] \in 0..MaxTime
    <3>1. (Cardinality(popped) + 1)..Len(q) \subseteq 1..Len(q)
      BY <1>1, <1>5
    <3>2. \A i \in 1..Len(q) : q[i] \in 0..MaxTime
      BY ElementOfSeq
    <3>3. QED
      BY <3>1, <3>2
  <2>2. Cardinality(popped) + 1 \in Int /\ Len(q) \in Int
    BY <1>1, <1>5
  <2>3. QED
    BY <2>1, <2>2, SubSeqProperties
<1>7. QED
  BY <1>6 DEF Prune, popped

\* Collection keeps the type of the map and forgets no entry that is in use.
LEMMA CollectedFacts ==
  ASSUME TypeOK
  PROVE  /\ DOMAIN Collected \subseteq DOMAIN subnets
         /\ \A s \in DOMAIN Collected : /\ Collected[s] \in SubnetState
                                        /\ Collected[s].active = subnets[s].active
         /\ \A s \in DOMAIN subnets \ DOMAIN Collected : subnets[s].active = 0
<1>1. ASSUME NEW s \in DOMAIN subnets
      PROVE  /\ subnets[s].active \in Nat
             /\ [subnets[s] EXCEPT !.requests = Prune(@)] \in SubnetState
             /\ [subnets[s] EXCEPT !.requests = Prune(@)].active = subnets[s].active
  <2>1. subnets[s] \in SubnetState
    BY DEF TypeOK
  <2>2. Prune(subnets[s].requests) \in Seq(0..MaxTime)
    BY <2>1, PruneType DEF SubnetState
  <2>3. QED
    BY <2>1, <2>2 DEF SubnetState
<1>2. CASE Cardinality(DOMAIN subnets) > GcThreshold
  <2> DEFINE kept == {s \in DOMAIN subnets :
                        subnets[s].active > 0 \/ Prune(subnets[s].requests) # << >>}
  <2>1. Collected = [s \in kept |-> [subnets[s] EXCEPT !.requests = Prune(@)]]
    <3>1. Collected = Collect(subnets)
      BY <1>2 DEF Collected
    <3>2. QED
      BY <3>1 DEF Collect
  <2>2. \A s \in DOMAIN subnets \ kept : subnets[s].active = 0
    <3>1. ASSUME NEW s \in DOMAIN subnets, s \notin kept
          PROVE  subnets[s].active = 0
      <4>1. subnets[s].active \in Nat
        BY <1>1
      <4>2. ~(subnets[s].active > 0)
        BY <3>1
      <4>3. QED
        BY <4>1, <4>2
    <3>2. QED
      BY <3>1
  <2>3. kept \subseteq DOMAIN subnets
    OBVIOUS
  <2> HIDE DEF kept
  <2>4. DOMAIN Collected = kept
    BY <2>1
  <2>5. \A s \in kept : Collected[s] = [subnets[s] EXCEPT !.requests = Prune(@)]
    BY <2>1
  <2>6. DOMAIN Collected \subseteq DOMAIN subnets
    BY <2>3, <2>4
  <2>7. ASSUME NEW s \in DOMAIN Collected
        PROVE  Collected[s] \in SubnetState /\ Collected[s].active = subnets[s].active
    <3>1. s \in DOMAIN subnets /\ Collected[s] = [subnets[s] EXCEPT !.requests = Prune(@)]
      BY <2>4, <2>5, <2>6
    <3>2. QED
      BY <1>1, <3>1
  <2>8. \A s \in DOMAIN subnets \ DOMAIN Collected : subnets[s].active = 0
    BY <2>2, <2>4
  <2>9. QED
    BY <2>6, <2>7, <2>8
<1>3. CASE ~(Cardinality(DOMAIN subnets) > GcThreshold)
  BY <1>3 DEF Collected, TypeOK
<1>4. QED
  BY <1>2, <1>3

\* The entry acquire works on has the count the limiter had for that subnet.
LEMMA EntryFacts ==
  ASSUME TypeOK, NEW s \in Prefix
  PROVE  EntryOf(s) \in SubnetState /\ EntryOf(s).active = ActiveOf(s)
<1>1. CASE s \in DOMAIN Collected
  <2>1. Collected[s] \in SubnetState /\ s \in DOMAIN subnets
        /\ Collected[s].active = subnets[s].active
    BY <1>1, CollectedFacts
  <2>2. Prune(Collected[s].requests) \in Seq(0..MaxTime)
    BY <2>1, PruneType DEF SubnetState
  <2>3. QED
    BY <1>1, <2>1, <2>2 DEF EntryOf, SubnetState, ActiveOf
<1>2. CASE s \notin DOMAIN Collected
  <2>1. ActiveOf(s) = 0
    BY <1>2, CollectedFacts DEF ActiveOf
  <2>2. << >> \in Seq(0..MaxTime)
    OBVIOUS
  <2>3. Prune(<< >>) \in Seq(0..MaxTime)
    BY <2>2, PruneType
  <2>4. QED
    BY <1>2, <2>1, <2>3 DEF EntryOf, Fresh, SubnetState
<1>3. QED
  BY <1>1, <1>2

\* Writing an entry back changes the count of that subnet alone.
LEMMA PutFacts ==
  ASSUME TypeOK, NEW s \in Prefix, NEW e \in SubnetState, subnets' = Put(s, e)
  PROVE  /\ DOMAIN subnets' \subseteq Prefix
         /\ \A t \in DOMAIN subnets' : subnets'[t] \in SubnetState
         /\ ActiveOf(s)' = e.active
         /\ \A t \in Prefix \ {s} : ActiveOf(t)' = ActiveOf(t)
<1>1. DOMAIN subnets' = DOMAIN Collected \cup {s}
  BY DEF Put
<1>2. \A t \in DOMAIN subnets' : subnets'[t] = IF t = s THEN e ELSE Collected[t]
  BY <1>1 DEF Put
<1>3. QED
  BY <1>1, <1>2, CollectedFacts DEF TypeOK, ActiveOf

-----------------------------------------------------------------------------
(* The inductive invariant.  The counts alone are not inductive: a permit  *)
(* must also be known to be held exactly in the places of the handler      *)
(* between acquire and the drops, and the hardware permit inside of it.    *)

ErrorsInv == srv \in {"accepting", "throttle"} => errs < MaxErrors

PlaceInv ==
  \A c \in Conn :
    /\ permit[c] => st[c] \in {"reading", "request", "ioctl", "sending", "closing"}
    /\ st[c] \in {"reading", "request", "ioctl"} => permit[c]
    /\ hw[c] => permit[c] /\ st[c] \in {"ioctl", "sending", "closing"}

Accounts == LimiterCountsPermits /\ ConcurrencyBounded /\ HardwareConserved

AccountInv == TypeOK /\ ErrorsInv /\ PlaceInv /\ Accounts

LEMMA FiniteHolders ==
  ASSUME NEW s
  PROVE  /\ IsFiniteSet(Holders(s)) /\ Cardinality(Holders(s)) \in Nat
         /\ IsFiniteSet(HardwareHolders) /\ Cardinality(HardwareHolders) \in Nat
<1>1. Holders(s) \in SUBSET Conn /\ HardwareHolders \in SUBSET Conn
  BY DEF Holders, HardwareHolders
<1>2. QED
  BY <1>1, AttestationAssumption, FS_Subset, FS_CardinalityType

LEMMA AccountInit == Init => AccountInv
<1> SUFFICES ASSUME Init PROVE AccountInv
  OBVIOUS
<1> USE AttestationAssumption
<1>1. DOMAIN subnets = {}
  BY DEF Init
<1>2. TypeOK
  BY <1>1 DEF Init, TypeOK, Location, NotGranted
<1>3. ErrorsInv /\ PlaceInv
  BY DEF Init, ErrorsInv, PlaceInv
<1>4. \A s : Holders(s) = {}
  BY DEF Init, Holders
<1>5. HardwareHolders = {} /\ free = MaxHardware
  BY DEF Init, HardwareHolders
<1>e. Cardinality({}) = 0
  BY FS_EmptySet
<1>6. LimiterCountsPermits /\ ConcurrencyBounded
  <2>1. ASSUME NEW s \in Prefix
        PROVE  ActiveOf(s) = 0 /\ Cardinality(Holders(s)) = 0
    BY <1>1, <1>4, <1>e DEF ActiveOf
  <2>2. QED
    BY <2>1 DEF LimiterCountsPermits, ConcurrencyBounded
<1>7. HardwareConserved
  BY <1>5, <1>e DEF HardwareConserved
<1>8. QED
  BY <1>2, <1>3, <1>6, <1>7 DEF AccountInv, Accounts

\* A step that leaves the limiter's map and its permits alone keeps their accounts.
LEMMA QuietLimiter ==
  ASSUME LimiterCountsPermits, ConcurrencyBounded, UNCHANGED <<subnets, permit, from>>
  PROVE  LimiterCountsPermits' /\ ConcurrencyBounded'
<1>1. \A s : Holders(s)' = Holders(s) /\ ActiveOf(s)' = ActiveOf(s)
  BY DEF Holders, ActiveOf
<1>2. QED
  BY <1>1 DEF LimiterCountsPermits, ConcurrencyBounded

LEMMA QuietDevice ==
  ASSUME HardwareConserved, UNCHANGED device
  PROVE  HardwareConserved'
  BY DEF HardwareConserved, HardwareHolders, device

\* A connection that is let in adds one permit and one count to its subnet.
LEMMA GrantKeepsAccounts ==
  ASSUME AccountInv, NEW c \in Conn, AcquireGranted(c)
  PROVE  AccountInv'
<1> USE DEF loop, limiter, device, request, At, Goto
<1>1. TypeOK /\ PlaceInv /\ ErrorsInv /\ Accounts
  BY DEF AccountInv
<1>2. PICK s \in Prefix : s = Subnet(from[c]) /\ s = from[c][1]
  BY <1>1 DEF TypeOK, Ip, Subnet
<1>3. EntryOf(s) \in SubnetState /\ EntryOf(s).active = ActiveOf(s)
  BY <1>1, EntryFacts
<1>4. PICK e \in SubnetState : /\ subnets' = Put(s, e)
                              /\ e.active = ActiveOf(s) + 1
  <2> DEFINE d == [requests |-> Append(EntryOf(s).requests, now),
                   active |-> EntryOf(s).active + 1]
  <2>1. EntryOf(s).requests \in Seq(0..MaxTime) /\ now \in 0..MaxTime
    BY <1>1, <1>3 DEF SubnetState, TypeOK
  <2>2. Append(EntryOf(s).requests, now) \in Seq(0..MaxTime)
    BY <2>1, AppendProperties
  <2>3. d \in SubnetState /\ d.active = ActiveOf(s) + 1
    BY <1>3, <2>2 DEF SubnetState
  <2>4. subnets' = Put(s, d)
    BY <1>2 DEF AcquireGranted
  <2>5. QED
    BY <2>3, <2>4
<1>5. /\ DOMAIN subnets' \subseteq Prefix
      /\ \A t \in DOMAIN subnets' : subnets'[t] \in SubnetState
      /\ ActiveOf(s)' = ActiveOf(s) + 1
      /\ \A t \in Prefix \ {s} : ActiveOf(t)' = ActiveOf(t)
  BY <1>1, <1>4, PutFacts
<1>6. /\ st' = [st EXCEPT ![c] = "reading"]
      /\ permit' = [permit EXCEPT ![c] = TRUE]
      /\ granted' = [granted EXCEPT ![c] = now]
      /\ st[c] = "accepted"
      /\ ~ConcurrencyExceeded(s)
      /\ UNCHANGED <<srv, errs, now, free, hw, from, got, reply>>
  BY <1>2 DEF AcquireGranted
<1>7. TypeOK'
  <2>1. granted' \in [Conn -> 0..NotGranted]
    BY <1>1, <1>6, AttestationAssumption DEF TypeOK, NotGranted
  <2>2. st' \in [Conn -> Location] /\ permit' \in [Conn -> BOOLEAN]
    BY <1>1, <1>6 DEF TypeOK, Location
  <2>3. QED
    BY <1>1, <1>5, <1>6, <2>1, <2>2 DEF TypeOK
<1>8. ErrorsInv' /\ PlaceInv'
  BY <1>1, <1>6 DEF ErrorsInv, PlaceInv, TypeOK
<1>9. Holders(s)' = Holders(s) \cup {c} /\ c \notin Holders(s)
  BY <1>1, <1>2, <1>6 DEF Holders, PlaceInv, TypeOK
<1>10. \A t \in Prefix \ {s} : Holders(t)' = Holders(t)
  BY <1>1, <1>2, <1>6 DEF Holders, TypeOK
<1>11. Cardinality(Holders(s))' = Cardinality(Holders(s)) + 1
  BY <1>9, FiniteHolders, FS_AddElement
<1>12. LimiterCountsPermits'
  <2>1. ASSUME NEW t \in Prefix
        PROVE  ActiveOf(t)' = Cardinality(Holders(t))'
    BY <1>1, <1>5, <1>10, <1>11 DEF LimiterCountsPermits, Accounts
  <2>2. QED
    BY <2>1 DEF LimiterCountsPermits
<1>13. Cardinality(Holders(s)) < MaxConcurrent
  BY <1>1, <1>3, <1>6, FiniteHolders, AttestationAssumption
  DEF ConcurrencyExceeded, LimiterCountsPermits, Accounts
<1>14. ConcurrencyBounded'
  <2>1. Cardinality(Holders(s))' <= MaxConcurrent
    BY <1>11, <1>13, FiniteHolders, AttestationAssumption
  <2>2. ASSUME NEW t \in Prefix
        PROVE  Cardinality(Holders(t))' <= MaxConcurrent
    BY <1>1, <1>10, <2>1 DEF ConcurrencyBounded, Accounts
  <2>3. QED
    BY <2>2 DEF ConcurrencyBounded
<1>15. HardwareConserved'
  BY <1>1, <1>6, QuietDevice DEF Accounts
<1>16. QED
  BY <1>7, <1>8, <1>12, <1>14, <1>15 DEF AccountInv, Accounts

\* A connection that is refused changes no count, whatever was collected.
LEMMA RefusalKeepsAccounts ==
  ASSUME AccountInv, NEW c \in Conn, AcquireRefused(c)
  PROVE  AccountInv'
<1> USE DEF loop, limiter, device, request, At, Goto, Answer
<1>1. TypeOK /\ PlaceInv /\ ErrorsInv /\ Accounts
  BY DEF AccountInv
<1>2. PICK s \in Prefix : s = Subnet(from[c])
  BY <1>1 DEF TypeOK, Ip, Subnet
<1>3. EntryOf(s) \in SubnetState /\ EntryOf(s).active = ActiveOf(s)
  BY <1>1, EntryFacts
<1>4. subnets' = Put(s, EntryOf(s))
  BY <1>2 DEF AcquireRefused
<1>5. /\ DOMAIN subnets' \subseteq Prefix
      /\ \A t \in DOMAIN subnets' : subnets'[t] \in SubnetState
      /\ \A t \in Prefix : ActiveOf(t)' = ActiveOf(t)
  BY <1>1, <1>2, <1>3, <1>4, PutFacts
<1>6. TypeOK'
  BY <1>1, <1>5 DEF AcquireRefused, TypeOK, Location
<1>7. ErrorsInv' /\ PlaceInv'
  BY <1>1 DEF AcquireRefused, ErrorsInv, PlaceInv, TypeOK
<1>8. \A t : Holders(t)' = Holders(t)
  BY DEF AcquireRefused, Holders
<1>9. LimiterCountsPermits' /\ ConcurrencyBounded'
  BY <1>1, <1>5, <1>8 DEF LimiterCountsPermits, ConcurrencyBounded, Accounts
<1>10. HardwareConserved'
  BY <1>1, QuietDevice DEF AcquireRefused, Accounts
<1>11. QED
  BY <1>6, <1>7, <1>9, <1>10 DEF AccountInv, Accounts

\* Dropping a subnet permit takes one permit and one count from its subnet.
LEMMA DropKeepsAccounts ==
  ASSUME AccountInv, NEW c \in Conn, DropPermit(c)
  PROVE  AccountInv'
<1> USE DEF loop, limiter, device, request, At, Goto
<1>1. TypeOK /\ PlaceInv /\ ErrorsInv /\ Accounts
  BY DEF AccountInv
<1>2. PICK s \in Prefix : s = Subnet(from[c]) /\ s = from[c][1]
  BY <1>1 DEF TypeOK, Ip, Subnet
<1>3. /\ permit[c] /\ ~hw[c] /\ st[c] = "closing"
      /\ permit' = [permit EXCEPT ![c] = FALSE]
      /\ UNCHANGED <<srv, errs, now, granted, free, hw, from, got, st, reply>>
  BY DEF DropPermit
<1>4. /\ c \in Holders(s)
      /\ Holders(s)' = Holders(s) \ {c}
      /\ \A t \in Prefix \ {s} : Holders(t)' = Holders(t)
  BY <1>1, <1>2, <1>3 DEF Holders, TypeOK
<1>5. Cardinality(Holders(s))' = Cardinality(Holders(s)) - 1
  BY <1>4, FiniteHolders, FS_RemoveElement
<1>6. Cardinality(Holders(s)) > 0
  BY <1>4, FiniteHolders, FS_EmptySet
<1>7. ActiveOf(s) = Cardinality(Holders(s))
  BY <1>1 DEF Accounts, LimiterCountsPermits
<1>8. s \in DOMAIN subnets /\ subnets[s].active = ActiveOf(s) /\ subnets[s] \in SubnetState
  BY <1>1, <1>6, <1>7 DEF ActiveOf, TypeOK
<1>9. subnets' = [subnets EXCEPT ![s] = [subnets[s] EXCEPT !.active = subnets[s].active - 1]]
  BY <1>2, <1>6, <1>7, <1>8 DEF DropPermit
<1>10. /\ DOMAIN subnets' = DOMAIN subnets
       /\ \A t \in DOMAIN subnets \ {s} : subnets'[t] = subnets[t]
       /\ subnets'[s] = [subnets[s] EXCEPT !.active = subnets[s].active - 1]
  BY <1>8, <1>9
<1>11. subnets'[s] \in SubnetState /\ subnets'[s].active = ActiveOf(s) - 1
  BY <1>6, <1>7, <1>8, <1>10, FiniteHolders, SMTT(30) DEF SubnetState
<1>12. TypeOK'
  BY <1>1, <1>3, <1>10, <1>11 DEF TypeOK
<1>13. ErrorsInv' /\ PlaceInv'
  BY <1>1, <1>3 DEF ErrorsInv, PlaceInv, TypeOK
<1>14. LimiterCountsPermits'
  <2>1. ASSUME NEW t \in Prefix
        PROVE  ActiveOf(t)' = Cardinality(Holders(t))'
    <3>1. CASE t = s
      BY <3>1, <1>5, <1>7, <1>8, <1>10, <1>11 DEF ActiveOf
    <3>2. CASE t # s
      BY <3>2, <1>1, <1>4, <1>10 DEF ActiveOf, Accounts, LimiterCountsPermits
    <3>3. QED
      BY <3>1, <3>2
  <2>2. QED
    BY <2>1 DEF LimiterCountsPermits
<1>15. ConcurrencyBounded'
  <2>1. Cardinality(Holders(s)) <= MaxConcurrent
    BY <1>1 DEF Accounts, ConcurrencyBounded
  <2>2. Cardinality(Holders(s))' <= MaxConcurrent
    BY <1>5, <2>1, FiniteHolders, AttestationAssumption
  <2>3. ASSUME NEW t \in Prefix
        PROVE  Cardinality(Holders(t))' <= MaxConcurrent
    BY <1>1, <1>4, <2>2 DEF ConcurrencyBounded, Accounts
  <2>4. QED
    BY <2>3 DEF ConcurrencyBounded
<1>16. HardwareConserved'
  BY <1>1, <1>3, QuietDevice DEF Accounts
<1>17. QED
  BY <1>12, <1>13, <1>14, <1>15, <1>16 DEF AccountInv, Accounts

\* try_acquire and the drop of its permit move one permit each way.
LEMMA HardwareKeepsAccounts ==
  ASSUME AccountInv, NEW c \in Conn, TakeHardware(c) \/ DropHardware(c)
  PROVE  AccountInv'
<1> USE DEF loop, limiter, device, request, At, Goto
<1>1. TypeOK /\ PlaceInv /\ ErrorsInv /\ Accounts
  BY DEF AccountInv
<1>2. UNCHANGED <<srv, errs, now, subnets, permit, granted, from, got, reply>>
  BY DEF TakeHardware, DropHardware
<1>3. LimiterCountsPermits' /\ ConcurrencyBounded'
  BY <1>1, <1>2, QuietLimiter DEF Accounts
<1>4. ErrorsInv' /\ PlaceInv'
  BY <1>1, <1>2 DEF TakeHardware, DropHardware, ErrorsInv, PlaceInv, TypeOK
<1>5. free \in Nat /\ free + Cardinality(HardwareHolders) = MaxHardware
  BY <1>1 DEF Accounts, HardwareConserved, TypeOK
<1>6. HardwareConserved' /\ free' \in 0..MaxHardware
  <2>1. CASE TakeHardware(c)
    <3>1. HardwareHolders' = HardwareHolders \cup {c} /\ c \notin HardwareHolders
      BY <1>1, <2>1 DEF TakeHardware, HardwareHolders, PlaceInv, TypeOK
    <3>2. Cardinality(HardwareHolders)' = Cardinality(HardwareHolders) + 1
      BY <3>1, FiniteHolders, FS_AddElement
    <3>3. free > 0 /\ free' = free - 1
      BY <2>1 DEF TakeHardware
    <3>4. QED
      BY <1>5, <3>2, <3>3, FiniteHolders, AttestationAssumption DEF HardwareConserved
  <2>2. CASE DropHardware(c)
    <3>1. HardwareHolders' = HardwareHolders \ {c} /\ c \in HardwareHolders
      BY <1>1, <2>2 DEF DropHardware, HardwareHolders, TypeOK
    <3>2. Cardinality(HardwareHolders)' = Cardinality(HardwareHolders) - 1
      BY <3>1, FiniteHolders, FS_RemoveElement
    <3>3. Cardinality(HardwareHolders) > 0
      BY <3>1, FiniteHolders, FS_EmptySet
    <3>4. free' = free + 1
      BY <2>2 DEF DropHardware
    <3>5. QED
      BY <1>5, <3>2, <3>3, <3>4, FiniteHolders, AttestationAssumption DEF HardwareConserved
  <2>3. QED
    BY <2>1, <2>2
<1>7. TypeOK'
  <2>1. hw \in [Conn -> BOOLEAN] /\ st \in [Conn -> Location] /\ "ioctl" \in Location
    BY <1>1 DEF TypeOK, Location
  <2>2. hw' \in [Conn -> BOOLEAN] /\ st' \in [Conn -> Location]
    <3>1. CASE TakeHardware(c)
      BY <2>1, <3>1 DEF TakeHardware
    <3>2. CASE DropHardware(c)
      BY <2>1, <3>2 DEF DropHardware
    <3>3. QED
      BY <3>1, <3>2
  <2>3. QED
    BY <1>1, <1>2, <1>6, <2>2 DEF TypeOK
<1>8. QED
  BY <1>3, <1>4, <1>6, <1>7 DEF AccountInv, Accounts

\* The other steps of a handler change no permit.
LEMMA HandlerKeepsAccounts ==
  ASSUME AccountInv, NEW c \in Conn, Handle(c)
  PROVE  AccountInv'
<1> USE DEF loop, limiter, device, request, At, Goto, Answer, EndRead
<1>1. TypeOK /\ PlaceInv /\ ErrorsInv /\ Accounts
  BY DEF AccountInv
<1>2. CASE AcquireGranted(c) \/ AcquireRefused(c)
  BY <1>2, GrantKeepsAccounts, RefusalKeepsAccounts
<1>3. CASE TakeHardware(c) \/ DropHardware(c) \/ DropPermit(c)
  BY <1>3, HardwareKeepsAccounts, DropKeepsAccounts
<1>4. CASE ReadChunk(c) \/ ReadEof(c) \/ ReadFails(c) \/ BadRequest(c) \/ HardwareBusy(c)
           \/ GetReport(c) \/ Send(c) \/ Close(c)
  <2>1. UNCHANGED <<srv, errs, now, subnets, permit, granted, free, hw, from>>
    BY <1>4 DEF ReadChunk, ReadEof, ReadFails, BadRequest, HardwareBusy, GetReport, Send, Close
  <2>2. Accounts'
    BY <1>1, <2>1, QuietLimiter, QuietDevice DEF Accounts
  <2>3. ErrorsInv' /\ PlaceInv'
    BY <1>1, <1>4, <2>1 DEF ReadChunk, ReadEof, ReadFails, BadRequest, HardwareBusy,
       GetReport, Send, Close, ErrorsInv, PlaceInv, TypeOK
  <2>4. got' \in [Conn -> 0..MaxBuffer]
    BY <1>1, <1>4, AttestationAssumption DEF ReadChunk, ReadEof, ReadFails, BadRequest,
       HardwareBusy, GetReport, Send, Close, TypeOK
  <2>5. st' \in [Conn -> Location] /\ reply' \in [Conn -> {0, 200, 400, 429, 503}]
    BY <1>1, <1>4 DEF ReadChunk, ReadEof, ReadFails, BadRequest, HardwareBusy, GetReport,
       Send, Close, TypeOK, Location
  <2>6. TypeOK'
    BY <1>1, <2>1, <2>4, <2>5 DEF TypeOK
  <2>7. QED
    BY <2>2, <2>3, <2>6 DEF AccountInv
<1>5. QED
  BY <1>2, <1>3, <1>4 DEF Handle

\* Nor do the accept loop, the clock and an exited process.
LEMMA LoopKeepsAccounts ==
  ASSUME AccountInv,
         \/ \E c \in Conn : Accept(c)
         \/ AcceptTransient \/ AcceptNoFd \/ AcceptError \/ Resume
         \/ Tick \/ Exited \/ UNCHANGED vars
  PROVE  AccountInv'
<1> USE DEF loop, limiter, device, request, vars
<1> USE DEF Accept, AcceptTransient, AcceptNoFd, AcceptError, Resume, Tick, Exited
<1>1. TypeOK /\ PlaceInv /\ ErrorsInv /\ Accounts
  BY DEF AccountInv
<1>2. UNCHANGED <<subnets, permit, granted, free, hw, from, got, reply>>
  OBVIOUS
<1>3. Accounts'
  BY <1>1, <1>2, QuietLimiter, QuietDevice DEF Accounts
<1>4. PlaceInv'
  BY <1>1, <1>2 DEF PlaceInv, TypeOK
<1>5. ErrorsInv' /\ errs' \in 0..MaxErrors
  BY <1>1, AttestationAssumption DEF ErrorsInv, TypeOK
<1>6. TypeOK'
  BY <1>1, <1>2, <1>5, AttestationAssumption DEF TypeOK, Location
<1>7. QED
  BY <1>3, <1>4, <1>5, <1>6 DEF AccountInv

\* The invariant holds throughout every behaviour.
THEOREM AccountInvariant == Spec => []AccountInv
<1>1. AccountInv /\ [Next]_vars => AccountInv'
  BY HandlerKeepsAccounts, LoopKeepsAccounts DEF Next
<1>2. QED
  BY <1>1, AccountInit, PTL DEF Spec

-----------------------------------------------------------------------------
(* The properties.                                                         *)

\* Every variable keeps its type, for any number of connections.
THEOREM AttestationTypeCorrect == Spec => []TypeOK
<1>1. AccountInv => TypeOK
  BY DEF AccountInv
<1>2. QED
  BY <1>1, AccountInvariant, PTL

\* The limiter's count of a subnet is the number of permits that are out for it,
\* across every interleaving of acquire, collection and drop.
THEOREM LimiterCountsPermitsAlways == Spec => []LimiterCountsPermits
<1>1. AccountInv => LimiterCountsPermits
  BY DEF AccountInv, Accounts
<1>2. QED
  BY <1>1, AccountInvariant, PTL

\* No subnet is ever served more than max_concurrent connections at a time.
THEOREM ConcurrencyBoundedAlways == Spec => []ConcurrencyBounded
<1>1. AccountInv => ConcurrencyBounded
  BY DEF AccountInv, Accounts
<1>2. QED
  BY <1>1, AccountInvariant, PTL

\* The semaphore neither loses permits nor makes them up.
THEOREM HardwareConservedAlways == Spec => []HardwareConserved
<1>1. AccountInv => HardwareConserved
  BY DEF AccountInv, Accounts
<1>2. QED
  BY <1>1, AccountInvariant, PTL

\* One subnet never holds more hardware permits than it may have connections,
\* because a hardware permit is only ever held inside of a subnet permit.
THEOREM SubnetHardwareShareAlways == Spec => []SubnetHardwareShare
<1>1. AccountInv => SubnetHardwareShare
  <2> SUFFICES ASSUME AccountInv, NEW s \in Prefix
               PROVE  Cardinality({c \in HardwareHolders : from[c][1] = s}) <= MaxConcurrent
    BY DEF SubnetHardwareShare
  <2> DEFINE H == {c \in HardwareHolders : from[c][1] = s}
  <2>1. H \in SUBSET Holders(s)
    BY DEF AccountInv, PlaceInv, HardwareHolders, Holders
  <2> HIDE DEF H
  <2>2. /\ Cardinality(H) <= Cardinality(Holders(s))
        /\ Cardinality(H) \in Nat
    BY <2>1, FiniteHolders, FS_Subset, FS_CardinalityType
  <2>3. Cardinality(Holders(s)) <= MaxConcurrent
    BY DEF AccountInv, Accounts, ConcurrencyBounded
  <2>4. Cardinality(H) <= MaxConcurrent
    BY <2>2, <2>3, FiniteHolders, AttestationAssumption
  <2>5. QED
    BY <2>4 DEF H
<1>2. QED
  BY <1>1, AccountInvariant, PTL

-----------------------------------------------------------------------------
(***************************************************************************)
(* The rate limit.  The queue of a subnet is pruned, collected with its    *)
(* entry and made anew; what has to survive is that, from any instant of   *)
(* the last window on, it counts every request let in.  The last part      *)
(* shows the converse, that every entry is such a request, and from it     *)
(* that refusals are justified and that the map stays bounded.             *)
(***************************************************************************)


Instants == 0..MaxTime

\* The entries of a queue from instant v on.
Since(q, v) == {i \in 1..Len(q) : q[i] >= v}

\* The requests of subnet s that were let in from instant v on.
GrantedSince(s, v) ==
  {c \in Conn : granted[c] # NotGranted /\ granted[c] >= v /\ from[c][1] = s}

Requests(m, s) == IF s \in DOMAIN m THEN m[s].requests ELSE << >>

-----------------------------------------------------------------------------
(* Queues.                                                                 *)

LEMMA UpTo == \A n \in Nat : IsFiniteSet(1..n) /\ Cardinality(1..n) = n
<1>1. \A n \in Nat : n \in Int /\ 1 \in Int
  OBVIOUS
<1>2. \A n \in Nat : (IF 1 > n THEN 0 ELSE n - 1 + 1) = n
  OBVIOUS
<1> QED
  BY <1>1, <1>2, FS_Interval

LEMMA SinceFinite ==
  ASSUME NEW q \in Seq(Instants), NEW v
  PROVE  IsFiniteSet(Since(q, v)) /\ Cardinality(Since(q, v)) \in 0..Len(q)
<1>1. Len(q) \in Nat
  OBVIOUS
<1>2. Since(q, v) \in SUBSET (1..Len(q))
  BY DEF Since
<1>3. IsFiniteSet(1..Len(q)) /\ Cardinality(1..Len(q)) = Len(q)
  BY <1>1, UpTo
<1>4. IsFiniteSet(Since(q, v)) /\ Cardinality(Since(q, v)) <= Len(q)
  BY <1>2, <1>3, FS_Subset
<1> QED
  BY <1>1, <1>4, FS_CardinalityType

\* Pruning keeps every entry from an instant on that is not outdated.
LEMMA PruneKeepsRecent ==
  ASSUME NEW q \in Seq(Instants), NEW v \in Instants, now \in Instants, ~Outdated(v)
  PROVE  Cardinality(Since(q, v)) <= Cardinality(Since(Prune(q), v))
<1> DEFINE popped == {i \in 1..Len(q) : \A j \in 1..i : Outdated(q[j])}
           k == Cardinality(popped)
           r == SubSeq(q, k + 1, Len(q))
<1>1. Len(q) \in Nat /\ \A i \in 1..Len(q) : q[i] \in Instants
  BY ElementOfSeq
<1>2. IsFiniteSet(popped) /\ k \in Nat
  <2>1. IsFiniteSet(1..Len(q)) /\ popped \in SUBSET (1..Len(q))
    BY <1>1, UpTo
  <2> HIDE DEF popped
  <2> QED
    BY <2>1, FS_Subset, FS_CardinalityType
<1>3. ASSUME NEW i \in Since(q, v)
      PROVE  i \in 1..Len(q) /\ i > k
  <2>1. i \in 1..Len(q) /\ q[i] >= v /\ q[i] \in Instants
    BY <1>1 DEF Since
  <2>2. ~Outdated(q[i])
    BY <2>1, AttestationAssumption DEF Outdated, Instants
  <2>3. popped \in SUBSET (1..(i - 1))
    <3> SUFFICES ASSUME NEW m \in popped PROVE m \in 1..(i - 1)
      OBVIOUS
    <3>1. m \in 1..Len(q) /\ \A j \in 1..m : Outdated(q[j])
      OBVIOUS
    <3>2. i \notin 1..m
      BY <2>2, <3>1
    <3>3. i \in Nat /\ m \in Nat /\ 1 <= i /\ 1 <= m
      BY <1>1, <2>1, <3>1
    <3> HIDE DEF popped
    <3> QED
      BY <3>2, <3>3
  <2>4. IsFiniteSet(1..(i - 1)) /\ Cardinality(1..(i - 1)) = i - 1
    <3>1. i - 1 \in Nat
      BY <1>1, <2>1
    <3> QED
      BY <3>1, UpTo
  <2> HIDE DEF popped
  <2>5. k <= i - 1
    <3>1. Cardinality(popped) <= Cardinality(1..(i - 1))
      BY <2>3, <2>4, FS_Subset
    <3> QED
      BY <2>4, <3>1
  <2> QED
    BY <1>1, <1>2, <2>1, <2>5
<1> HIDE DEF popped, k
<1>4. /\ r \in Seq(Instants)
      /\ Len(r) = IF k + 1 <= Len(q) THEN Len(q) - (k + 1) + 1 ELSE 0
      /\ \A i \in 1..(Len(q) - (k + 1) + 1) : r[i] = q[k + 1 + i - 1]
  <2>1. \A i \in (k + 1)..Len(q) : q[i] \in Instants
    BY <1>1, <1>2
  <2>2. k + 1 \in Int /\ Len(q) \in Int
    BY <1>1, <1>2
  <2> QED
    BY <2>1, <2>2, SubSeqProperties
<1>5. Prune(q) = r
  BY DEF Prune, popped, k
<1> HIDE DEF r
<1> DEFINE f == [i \in Since(q, v) |-> i - k]
<1>6. ASSUME NEW i \in Since(q, v)
      PROVE  i - k \in Since(r, v)
  <2>1. i \in 1..Len(q) /\ i > k /\ q[i] >= v
    BY <1>3 DEF Since
  <2>2. i - k \in 1..Len(r) /\ i - k \in 1..(Len(q) - (k + 1) + 1) /\ k + 1 + (i - k) - 1 = i
    BY <1>1, <1>2, <1>4, <2>1
  <2>3. r[i - k] = q[i]
    BY <1>4, <2>2
  <2> QED
    BY <2>1, <2>2, <2>3 DEF Since
<1>7. f \in Injection(Since(q, v), Since(r, v))
  <2>1. f \in [Since(q, v) -> Since(r, v)]
    BY <1>6
  <2>2. \A a, b \in Since(q, v) : a - k = b - k => a = b
    BY <1>1, <1>2 DEF Since
  <2>3. \A a, b \in DOMAIN f : f[a] = f[b] => a = b
    BY <2>2
  <2> HIDE DEF f
  <2> QED
    BY <2>1, <2>3 DEF Injection, IsInjective
<1> QED
  <2> HIDE DEF f
  <2>1. IsFiniteSet(Since(r, v))
    BY <1>4, SinceFinite
  <2> QED
    BY <1>5, <1>7, <2>1, FS_Injection

\* An appended instant is one entry more from each instant up to it.
LEMMA AppendCounts ==
  ASSUME NEW q \in Seq(Instants), NEW v \in Instants, now \in Instants
  PROVE  Cardinality(Since(Append(q, now), v)) =
           IF now >= v THEN Cardinality(Since(q, v)) + 1 ELSE Cardinality(Since(q, v))
<1> DEFINE a == Append(q, now)
           n == Len(q) + 1
<1>1. Len(q) \in Nat /\ \A i \in 1..Len(q) : q[i] \in Instants
  BY ElementOfSeq
<1>2. Len(a) = n /\ a[n] = now /\ \A i \in 1..Len(q) : a[i] = q[i]
  BY AppendProperties
<1> HIDE DEF a
<1>3. \A i \in 1..n : i = n \/ i \in 1..Len(q)
  BY <1>1
<1>4. n \in 1..n /\ n \notin 1..Len(q) /\ 1..Len(q) \subseteq 1..n
  BY <1>1
<1> HIDE DEF n
<1>5. CASE now >= v
  <2>1. Since(a, v) = Since(q, v) \cup {n} /\ n \notin Since(q, v)
    BY <1>2, <1>3, <1>4, <1>5 DEF Since
  <2> QED
    BY <1>5, <2>1, SinceFinite, FS_AddElement DEF a
<1>6. CASE ~(now >= v)
  <2>1. Since(a, v) = Since(q, v)
    BY <1>2, <1>3, <1>4, <1>6 DEF Since
  <2> QED
    BY <1>6, <2>1 DEF a
<1> QED
  BY <1>5, <1>6

-----------------------------------------------------------------------------
(* The map.                                                                *)

LEMMA RequestsOf ==
  ASSUME NEW m, \A t \in DOMAIN m : m[t] \in SubnetState, NEW s
  PROVE  Requests(m, s) \in Seq(Instants)
<1>1. << >> \in Seq(Instants)
  OBVIOUS
<1>2. CASE s \in DOMAIN m
  BY <1>2 DEF Requests, SubnetState, Instants
<1>3. CASE s \notin DOMAIN m
  BY <1>1, <1>3 DEF Requests
<1> QED
  BY <1>2, <1>3

LEMMA RequestsType ==
  ASSUME TypeOK, NEW s
  PROVE  Requests(subnets, s) \in Seq(Instants) /\ << >> \in Seq(Instants) /\ now \in Instants
<1>1. << >> \in Seq(Instants)
  OBVIOUS
<1>2. now \in Instants /\ \A t \in DOMAIN subnets : subnets[t] \in SubnetState
  BY DEF TypeOK, Instants
<1> QED
  BY <1>1, <1>2, RequestsOf

\* What collection makes of the queue of a subnet: it is pruned, or stays as it is.
LEMMA CollectedQueue ==
  ASSUME TypeOK, NEW s \in Prefix
  PROVE  Requests(Collected, s) \in {Requests(subnets, s), Prune(Requests(subnets, s))}
<1>1. CASE Cardinality(DOMAIN subnets) > GcThreshold
  <2> DEFINE kept == {t \in DOMAIN subnets :
                        subnets[t].active > 0 \/ Prune(subnets[t].requests) # << >>}
  <2>1. Collected = [t \in kept |-> [subnets[t] EXCEPT !.requests = Prune(@)]]
    <3>1. Collected = Collect(subnets)
      BY <1>1 DEF Collected
    <3> QED
      BY <3>1 DEF Collect
  <2>2. CASE s \in kept
    <3>1. s \in DOMAIN subnets /\ subnets[s] \in SubnetState
      BY <2>2 DEF TypeOK
    <3> HIDE DEF kept
    <3>2. Collected[s] = [subnets[s] EXCEPT !.requests = Prune(@)] /\ s \in DOMAIN Collected
      BY <2>1, <2>2
    <3>3. Collected[s].requests = Prune(subnets[s].requests)
      BY <3>1, <3>2 DEF SubnetState
    <3> QED
      BY <3>1, <3>2, <3>3 DEF Requests
  <2>3. CASE s \in DOMAIN subnets /\ s \notin kept
    <3>1. Prune(subnets[s].requests) = << >>
      BY <2>3
    <3> HIDE DEF kept
    <3>2. s \notin DOMAIN Collected
      BY <2>1, <2>3
    <3> QED
      BY <2>3, <3>1, <3>2 DEF Requests
  <2>4. CASE s \notin DOMAIN subnets
    <3>1. s \notin DOMAIN Collected
      BY <2>4, CollectedFacts
    <3> QED
      BY <2>4, <3>1 DEF Requests
  <2> QED
    BY <2>2, <2>3, <2>4
<1>2. CASE ~(Cardinality(DOMAIN subnets) > GcThreshold)
  BY <1>2 DEF Collected
<1> QED
  BY <1>1, <1>2

\* Collection forgets no request that is not outdated.
LEMMA CollectedKeepsRecent ==
  ASSUME TypeOK, NEW s \in Prefix, NEW v \in Instants, ~Outdated(v)
  PROVE  /\ Requests(Collected, s) \in Seq(Instants)
         /\ Cardinality(Since(Requests(subnets, s), v))
              <= Cardinality(Since(Requests(Collected, s), v))
<1> DEFINE q == Requests(subnets, s)
           p == Requests(Collected, s)
<1>1. q \in Seq(Instants) /\ << >> \in Seq(Instants) /\ now \in Instants
  BY RequestsType
<1>2. Prune(q) \in Seq(Instants)
  BY <1>1, PruneType DEF Instants
<1>3. Cardinality(Since(q, v)) <= Cardinality(Since(Prune(q), v))
  BY <1>1, PruneKeepsRecent
<1>4. p \in {q, Prune(q)}
  BY CollectedQueue
<1> HIDE DEF p, q
<1>5. p \in Seq(Instants)
  BY <1>1, <1>2, <1>4
<1>6. Cardinality(Since(q, v)) <= Cardinality(Since(p, v))
  <2>1. Cardinality(Since(q, v)) <= Cardinality(Since(q, v))
    BY <1>1, SinceFinite
  <2> QED
    BY <1>3, <1>4, <2>1
<1> QED
  BY <1>5, <1>6 DEF p, q

\* acquire prunes the entry it works on.
LEMMA EntryQueue ==
  ASSUME TypeOK, NEW s \in Prefix
  PROVE  EntryOf(s).requests = Prune(Requests(Collected, s))
<1>1. CASE s \in DOMAIN Collected
  <2>1. Collected[s] \in SubnetState
    BY <1>1, CollectedFacts
  <2> QED
    BY <1>1, <2>1 DEF EntryOf, SubnetState, Requests
<1>2. CASE s \notin DOMAIN Collected
  BY <1>2 DEF EntryOf, Fresh, Requests
<1> QED
  BY <1>1, <1>2

\* Nor does the pruning of the entry that acquire works on.
LEMMA EntryKeepsRecent ==
  ASSUME TypeOK, NEW s \in Prefix, NEW v \in Instants, ~Outdated(v)
  PROVE  /\ EntryOf(s).requests \in Seq(Instants)
         /\ Cardinality(Since(Requests(subnets, s), v))
              <= Cardinality(Since(EntryOf(s).requests, v))
<1> DEFINE p == Requests(Collected, s)
<1>1. /\ p \in Seq(Instants)
      /\ Cardinality(Since(Requests(subnets, s), v)) <= Cardinality(Since(p, v))
  BY CollectedKeepsRecent
<1>2. EntryOf(s).requests = Prune(p)
  BY EntryQueue
<1>3. now \in Instants /\ Requests(subnets, s) \in Seq(Instants)
  BY RequestsType
<1> HIDE DEF p
<1>4. Cardinality(Since(p, v)) <= Cardinality(Since(Prune(p), v))
  BY <1>1, <1>3, PruneKeepsRecent
<1>5. Prune(p) \in Seq(Instants)
  BY <1>1, PruneType DEF Instants
<1>6. /\ Cardinality(Since(Requests(subnets, s), v)) \in Int
      /\ Cardinality(Since(p, v)) \in Int /\ Cardinality(Since(Prune(p), v)) \in Int
  <2>1. \A q \in Seq(Instants) : Cardinality(Since(q, v)) \in Int
    BY SinceFinite
  <2> QED
    BY <1>1, <1>3, <1>5, <2>1
<1> QED
  BY <1>1, <1>2, <1>4, <1>5, <1>6

-----------------------------------------------------------------------------
(* The invariant.                                                          *)

\* From each instant that is not outdated on, the queue of a subnet has at least as many
\* entries as requests were let in.
CountedInv ==
  \A s \in Prefix, v \in Instants :
    ~Outdated(v) =>
      Cardinality(GrantedSince(s, v)) <= Cardinality(Since(Requests(subnets, s), v))

\* A request is let in once, and not in the future.
GrantInv ==
  \A c \in Conn :
    /\ granted[c] # NotGranted => granted[c] <= now
    /\ st[c] \in {"new", "accepted"} => granted[c] = NotGranted

RateInv == AccountInv /\ CountedInv /\ GrantInv /\ RateBounded

LEMMA FiniteGranted ==
  ASSUME NEW s, NEW a, NEW b
  PROVE  /\ IsFiniteSet(GrantedSince(s, a)) /\ Cardinality(GrantedSince(s, a)) \in Nat
         /\ IsFiniteSet(GrantedIn(s, a, b)) /\ Cardinality(GrantedIn(s, a, b)) \in Nat
<1>1. GrantedSince(s, a) \in SUBSET Conn /\ GrantedIn(s, a, b) \in SUBSET Conn
  BY DEF GrantedSince, GrantedIn
<1> QED
  BY <1>1, AttestationAssumption, FS_Subset, FS_CardinalityType

LEMMA RateInit == Init => RateInv
<1> SUFFICES ASSUME Init PROVE RateInv
  OBVIOUS
<1>1. AccountInv
  BY AccountInit
<1>2. GrantInv
  BY DEF Init, GrantInv
<1>3. Cardinality({}) = 0
  BY FS_EmptySet
<1>4. CountedInv
  <2>1. ASSUME NEW s \in Prefix, NEW v \in Instants
        PROVE  Cardinality(GrantedSince(s, v)) <= Cardinality(Since(Requests(subnets, s), v))
    <3>1. GrantedSince(s, v) = {}
      BY DEF Init, GrantedSince
    <3>2. Cardinality(Since(Requests(subnets, s), v)) \in Nat
      BY <1>1, RequestsType, SinceFinite DEF AccountInv
    <3> QED
      BY <1>3, <3>1, <3>2
  <2> QED
    BY <2>1 DEF CountedInv
<1>5. RateBounded
  <2>1. ASSUME NEW s \in Prefix, NEW t \in 0..MaxTime
        PROVE  Cardinality(GrantedIn(s, t, t + Window)) <= MaxRequests
    <3>1. GrantedIn(s, t, t + Window) = {}
      BY DEF Init, GrantedIn
    <3> QED
      BY <1>3, <3>1, AttestationAssumption
  <2> QED
    BY <2>1 DEF RateBounded
<1> QED
  BY <1>1, <1>2, <1>4, <1>5 DEF RateInv

\* What is in the last window of a later time is in the last window now.
LEMMA RecentBefore ==
  ASSUME NEW v \in Instants, now \in Instants, now' \in Instants, now' >= now, ~Outdated(v)'
  PROVE  ~Outdated(v)
<1>1. now \in Int /\ now' \in Int /\ v \in Int /\ Window \in Int
  BY AttestationAssumption DEF Instants
<1>2. ~(now' - v > Window)
  BY DEF Outdated
<1>3. \A a, b, w \in Int : b >= a /\ ~(b - v > w) => ~(a - v > w)
  BY <1>1
<1> QED
  BY <1>1, <1>2, <1>3 DEF Outdated

\* A step that lets no one in and forgets nothing recent, at the same time or a later one.
LEMMA QuietRate ==
  ASSUME RateInv, AccountInv', UNCHANGED <<granted, from>>,
         now' >= now,
         \A c \in Conn : st'[c] \in {"new", "accepted"} => st[c] \in {"new", "accepted"},
         \A s \in Prefix, v \in Instants : ~Outdated(v) =>
           Cardinality(Since(Requests(subnets, s), v))
             <= Cardinality(Since(Requests(subnets, s)', v))
  PROVE  RateInv'
<1>1. now \in Instants /\ now' \in Instants /\ granted \in [Conn -> 0..NotGranted]
  BY DEF RateInv, AccountInv, TypeOK, Instants
<1>2. CountedInv'
  <2> SUFFICES ASSUME NEW s \in Prefix, NEW v \in Instants, ~Outdated(v)'
               PROVE  Cardinality(GrantedSince(s, v))'
                        <= Cardinality(Since(Requests(subnets, s), v))'
    BY DEF CountedInv
  <2>1. ~Outdated(v)
    BY <1>1, RecentBefore
  <2>2. Cardinality(GrantedSince(s, v)) <= Cardinality(Since(Requests(subnets, s), v))
    BY <2>1 DEF RateInv, CountedInv
  <2>3. GrantedSince(s, v)' = GrantedSince(s, v)
    BY DEF GrantedSince
  <2>4. Cardinality(Since(Requests(subnets, s), v))
          <= Cardinality(Since(Requests(subnets, s)', v))
    BY <2>1
  <2>5. /\ Cardinality(GrantedSince(s, v)) \in Int
        /\ Cardinality(Since(Requests(subnets, s), v)) \in Int
    <3>1. Cardinality(GrantedSince(s, v)) \in Int
      BY FiniteGranted
    <3>2. Requests(subnets, s) \in Seq(Instants)
      BY RequestsType DEF RateInv, AccountInv
    <3> QED
      BY <3>1, <3>2, SinceFinite
  <2>6. Cardinality(Since(Requests(subnets, s)', v)) \in Int
    <3>1. Requests(subnets', s) \in Seq(Instants)
      BY RequestsOf DEF AccountInv, TypeOK
    <3>2. Requests(subnets, s)' = Requests(subnets', s)
      BY DEF Requests
    <3> QED
      BY <3>1, <3>2, SinceFinite
  <2>7. Since(Requests(subnets, s), v)' = Since(Requests(subnets, s)', v)
    BY DEF Since
  <2> QED
    BY <2>2, <2>3, <2>4, <2>5, <2>6, <2>7
<1>3. GrantInv'
  BY <1>1, AttestationAssumption DEF RateInv, GrantInv, Instants, NotGranted
<1>4. RateBounded'
  BY DEF RateInv, RateBounded, GrantedIn
<1> QED
  BY <1>2, <1>3, <1>4 DEF RateInv

\* A step that changes neither the limiter's queues nor what it granted.
LEMMA SameQueues ==
  ASSUME RateInv, AccountInv', UNCHANGED <<granted, from>>, now' >= now,
         \A c \in Conn : st'[c] \in {"new", "accepted"} => st[c] \in {"new", "accepted"},
         \A s \in Prefix : Requests(subnets', s) = Requests(subnets, s)
  PROVE  RateInv'
<1>1. \A s \in Prefix : Requests(subnets, s)' = Requests(subnets, s)
  BY DEF Requests
<1>2. \A s \in Prefix, v \in Instants :
        Cardinality(Since(Requests(subnets, s), v))
          <= Cardinality(Since(Requests(subnets, s)', v))
  <2>1. ASSUME NEW s \in Prefix, NEW v \in Instants
        PROVE  Cardinality(Since(Requests(subnets, s), v)) \in Int
    <3>1. Requests(subnets, s) \in Seq(Instants)
      BY RequestsType DEF RateInv, AccountInv
    <3> QED
      BY <3>1, SinceFinite
  <2> QED
    BY <1>1, <2>1
<1> QED
  BY <1>2, QuietRate

\* acquire writes an entry back: the other subnets' queues are the collected ones.
LEMMA PutRequests ==
  ASSUME NEW s \in Prefix, NEW e, subnets' = Put(s, e)
  PROVE  /\ Requests(subnets', s) = e.requests
         /\ \A t \in Prefix \ {s} : Requests(subnets', t) = Requests(Collected, t)
<1>1. /\ DOMAIN subnets' = DOMAIN Collected \cup {s}
      /\ \A t \in DOMAIN subnets' : subnets'[t] = IF t = s THEN e ELSE Collected[t]
  BY DEF Put
<1> QED
  BY <1>1 DEF Requests

LEMMA RefusalKeepsRate ==
  ASSUME RateInv, NEW c \in Conn, AcquireRefused(c)
  PROVE  RateInv'
<1>1. AccountInv' /\ TypeOK
  BY RefusalKeepsAccounts DEF RateInv, AccountInv
<1>2. PICK s \in Prefix : s = Subnet(from[c])
  BY <1>1 DEF TypeOK, Ip, Subnet
<1>3. subnets' = Put(s, EntryOf(s))
  BY <1>2 DEF AcquireRefused
<1>4. UNCHANGED <<granted, from, now>> /\ now \in Instants
  BY <1>1 DEF AcquireRefused, request, TypeOK, Instants
<1>5. \A d \in Conn : st'[d] \in {"new", "accepted"} => st[d] \in {"new", "accepted"}
  BY <1>1 DEF AcquireRefused, Answer, Goto, TypeOK
<1>6. ASSUME NEW t \in Prefix, NEW v \in Instants, ~Outdated(v)
      PROVE  Cardinality(Since(Requests(subnets, t), v))
               <= Cardinality(Since(Requests(subnets, t)', v))
  <2>1. Requests(subnets, t)' = IF t = s THEN EntryOf(s).requests ELSE Requests(Collected, t)
    BY <1>3, PutRequests DEF Requests
  <2> QED
    BY <1>1, <1>6, <2>1, CollectedKeepsRecent, EntryKeepsRecent
<1>7. now' >= now
  BY <1>4 DEF Instants
<1> QED
  BY <1>1, <1>4, <1>5, <1>6, <1>7, QuietRate

\* A request that is let in is one more on both sides, and before it there were too few.
LEMMA GrantKeepsRate ==
  ASSUME RateInv, NEW c \in Conn, AcquireGranted(c)
  PROVE  RateInv'
<1>1. AccountInv' /\ TypeOK /\ AccountInv
  BY GrantKeepsAccounts DEF RateInv, AccountInv
<1>2. PICK s \in Prefix : s = Subnet(from[c]) /\ s = from[c][1]
  BY <1>1 DEF TypeOK, Ip, Subnet
<1> DEFINE q == EntryOf(s).requests
<1>3. /\ granted' = [granted EXCEPT ![c] = now] /\ granted[c] = NotGranted
      /\ UNCHANGED <<from, now>> /\ st' = [st EXCEPT ![c] = "reading"]
      /\ Len(q) < MaxRequests
      /\ Requests(subnets', s) = Append(q, now)
      /\ \A t \in Prefix \ {s} : Requests(subnets', t) = Requests(Collected, t)
  <2> DEFINE e == [requests |-> Append(q, now), active |-> EntryOf(s).active + 1]
  <2>1. subnets' = Put(s, e)
    BY <1>2 DEF AcquireGranted
  <2>2. e.requests = Append(q, now)
    OBVIOUS
  <2> HIDE DEF e
  <2>3. /\ Requests(subnets', s) = Append(q, now)
        /\ \A t \in Prefix \ {s} : Requests(subnets', t) = Requests(Collected, t)
    BY <2>1, <2>2, PutRequests
  <2>4. granted[c] = NotGranted
    BY DEF AcquireGranted, At, RateInv, GrantInv
  <2>5. Len(q) < MaxRequests
    <3>1. ~(Len(q) >= MaxRequests)
      BY <1>2 DEF AcquireGranted, RateExceeded
    <3>2. EntryOf(s) \in SubnetState
      BY <1>1, EntryFacts
    <3>3. Len(q) \in Nat
      BY <3>2 DEF SubnetState
    <3> QED
      BY <3>1, <3>3, AttestationAssumption
  <2> QED
    BY <2>3, <2>4, <2>5 DEF AcquireGranted, request, Goto
<1>4. now \in Instants /\ now # NotGranted /\ granted \in [Conn -> 0..NotGranted]
  BY <1>1, AttestationAssumption DEF TypeOK, NotGranted, Instants
<1>5. /\ granted'[c] = now /\ \A d \in Conn \ {c} : granted'[d] = granted[d]
      /\ st'[c] = "reading" /\ \A d \in Conn \ {c} : st'[d] = st[d]
  BY <1>1, <1>3, <1>4 DEF TypeOK
<1>6. q \in Seq(Instants)
  <2>1. EntryOf(s) \in SubnetState
    BY <1>1, EntryFacts
  <2> QED
    BY <2>1 DEF SubnetState, Instants
<1>7. GrantInv'
  BY <1>3, <1>4, <1>5 DEF RateInv, GrantInv, Instants
<1> HIDE DEF q
<1>8. ASSUME NEW v \in Instants
      PROVE  GrantedSince(s, v)' =
               IF now >= v THEN GrantedSince(s, v) \cup {c} ELSE GrantedSince(s, v)
  BY <1>2, <1>3, <1>4, <1>5 DEF GrantedSince
<1>9. \A t \in Prefix \ {s}, v \in Instants : GrantedSince(t, v)' = GrantedSince(t, v)
  BY <1>2, <1>3, <1>4, <1>5 DEF GrantedSince
<1>10. ASSUME NEW v \in Instants, ~Outdated(v)
       PROVE  Cardinality(GrantedSince(s, v)) <= Cardinality(Since(q, v))
  <2>1. Cardinality(GrantedSince(s, v)) <= Cardinality(Since(Requests(subnets, s), v))
    BY <1>10 DEF RateInv, CountedInv
  <2>2. Cardinality(Since(Requests(subnets, s), v)) <= Cardinality(Since(q, v))
    BY <1>1, <1>10, EntryKeepsRecent DEF q
  <2>3. /\ Cardinality(GrantedSince(s, v)) \in Int /\ Cardinality(Since(q, v)) \in Int
        /\ Cardinality(Since(Requests(subnets, s), v)) \in Int
    <3>1. Cardinality(GrantedSince(s, v)) \in Int
      BY FiniteGranted
    <3>2. Cardinality(Since(q, v)) \in Int
      BY <1>6, SinceFinite
    <3>3. Requests(subnets, s) \in Seq(Instants)
      BY <1>1, RequestsType
    <3> QED
      BY <3>1, <3>2, <3>3, SinceFinite
  <2> QED
    BY <2>1, <2>2, <2>3
<1>11. CountedInv'
  <2> SUFFICES ASSUME NEW t \in Prefix, NEW v \in Instants, ~Outdated(v)'
               PROVE  Cardinality(GrantedSince(t, v))'
                        <= Cardinality(Since(Requests(subnets, t), v))'
    BY DEF CountedInv
  <2>1. ~Outdated(v)
    BY <1>3 DEF Outdated
  <2>2. Since(Requests(subnets, t), v)' = Since(Requests(subnets', t), v)
    BY DEF Since, Requests
  <2>3. CASE t = s
    <3>1. Cardinality(Since(Requests(subnets', s), v)) =
            IF now >= v THEN Cardinality(Since(q, v)) + 1 ELSE Cardinality(Since(q, v))
      BY <1>3, <1>4, <1>6, AppendCounts
    <3>2. Cardinality(GrantedSince(s, v)') =
            IF now >= v THEN Cardinality(GrantedSince(s, v)) + 1
                        ELSE Cardinality(GrantedSince(s, v))
      <4>1. c \notin GrantedSince(s, v)
        BY <1>3 DEF GrantedSince
      <4>2. CASE now >= v
        <5>1. GrantedSince(s, v)' = GrantedSince(s, v) \cup {c}
          BY <1>8, <4>2
        <5> QED
          BY <4>1, <4>2, <5>1, FiniteGranted, FS_AddElement
      <4>3. CASE ~(now >= v)
        BY <1>8, <4>3
      <4> QED
        BY <4>2, <4>3
    <3>3. Cardinality(GrantedSince(s, v)) \in Int /\ Cardinality(Since(q, v)) \in Int
      BY FiniteGranted, <1>6, SinceFinite
    <3> QED
      BY <1>10, <2>1, <2>2, <2>3, <3>1, <3>2, <3>3
  <2>4. CASE t # s
    <3>1. Cardinality(GrantedSince(t, v)) <= Cardinality(Since(Requests(subnets, t), v))
      BY <2>1 DEF RateInv, CountedInv
    <3>2. /\ Requests(Collected, t) \in Seq(Instants)
          /\ Cardinality(Since(Requests(subnets, t), v))
               <= Cardinality(Since(Requests(Collected, t), v))
      BY <1>1, <2>1, CollectedKeepsRecent
    <3>3. /\ Cardinality(GrantedSince(t, v)) \in Int
          /\ Cardinality(Since(Requests(Collected, t), v)) \in Int
      BY <3>2, FiniteGranted, SinceFinite
    <3>4. Cardinality(Since(Requests(subnets, t), v)) \in Int
      BY <1>1, RequestsType, SinceFinite
    <3> QED
      BY <1>3, <1>9, <2>2, <2>4, <3>1, <3>2, <3>3, <3>4
  <2> QED
    BY <2>3, <2>4
<1>12. RateBounded'
  <2> SUFFICES ASSUME NEW t \in Prefix, NEW v \in 0..MaxTime
               PROVE  Cardinality(GrantedIn(t, v, v + Window))' <= MaxRequests
    BY DEF RateBounded
  <2>1. Cardinality(GrantedIn(t, v, v + Window)) <= MaxRequests
    BY DEF RateInv, RateBounded
  <2>2. CASE t # s \/ now \notin v..(v + Window)
    <3>1. GrantedIn(t, v, v + Window)' = GrantedIn(t, v, v + Window)
      BY <1>2, <1>3, <1>4, <1>5, <2>2 DEF GrantedIn
    <3> QED
      BY <2>1, <3>1
  <2>3. CASE t = s /\ now \in v..(v + Window)
    <3>1. GrantedIn(s, v, v + Window)' = GrantedIn(s, v, v + Window) \cup {c}
      BY <1>2, <1>3, <1>4, <1>5, <2>3 DEF GrantedIn
    <3>2. c \notin GrantedIn(s, v, v + Window)
      BY <1>3 DEF GrantedIn
    <3>3. v \in Instants /\ v \in Int /\ ~Outdated(v)
      BY <1>4, <2>3, AttestationAssumption DEF Outdated, Instants
    <3>4. GrantedIn(s, v, v + Window) \in SUBSET GrantedSince(s, v)
      BY <3>3, AttestationAssumption DEF GrantedIn, GrantedSince
    <3>5. Cardinality(GrantedIn(s, v, v + Window)) <= Cardinality(GrantedSince(s, v))
      BY <3>4, FiniteGranted, FS_Subset
    <3>6. Cardinality(GrantedSince(s, v)) <= Cardinality(Since(q, v))
      BY <1>10, <3>3
    <3>7. Cardinality(Since(q, v)) \in 0..Len(q) /\ Len(q) \in Nat
      BY <1>6, SinceFinite
    <3>8. Cardinality(GrantedIn(s, v, v + Window)') =
            Cardinality(GrantedIn(s, v, v + Window)) + 1
      BY <3>1, <3>2, FiniteGranted, FS_AddElement
    <3>9. /\ Cardinality(GrantedIn(s, v, v + Window)) \in Int
          /\ Cardinality(GrantedSince(s, v)) \in Int /\ MaxRequests \in Int
          /\ Len(q) < MaxRequests
      BY <1>3, FiniteGranted, AttestationAssumption
    <3> QED
      BY <2>3, <3>5, <3>6, <3>7, <3>8, <3>9
  <2> QED
    BY <2>2, <2>3
<1> QED
  BY <1>1, <1>7, <1>11, <1>12 DEF RateInv

\* The other steps of a handler touch no queue.
LEMMA OthersKeepQueues ==
  ASSUME TypeOK, NEW c \in Conn, Handle(c), ~AcquireGranted(c), ~AcquireRefused(c)
  PROVE  /\ UNCHANGED <<granted, from, now>>
         /\ \A d \in Conn : st'[d] \in {"new", "accepted"} => st[d] \in {"new", "accepted"}
         /\ \A t \in Prefix : Requests(subnets', t) = Requests(subnets, t)
         /\ DOMAIN subnets' = DOMAIN subnets
<1> USE DEF loop, limiter, device, request, At, Goto, Answer, EndRead
<1>1. CASE DropPermit(c)
  <2> DEFINE s == Subnet(from[c])
  <2>1. UNCHANGED <<granted, from, now, st>>
    BY <1>1 DEF DropPermit
  <2>2. \A u \in DOMAIN subnets : subnets[u] \in [requests : Seq(Instants), active : Nat]
    BY DEF TypeOK, SubnetState, Instants
  <2>3. CASE s \in DOMAIN subnets
    <3>1. PICK n : subnets' = [subnets EXCEPT ![s] = [subnets[s] EXCEPT !.active = n]]
      BY <1>1, <2>3 DEF DropPermit
    <3>2. /\ DOMAIN subnets' = DOMAIN subnets
          /\ \A u \in DOMAIN subnets \ {s} : subnets'[u] = subnets[u]
          /\ subnets'[s] = [subnets[s] EXCEPT !.active = n]
      BY <2>3, <3>1
    <3>3. subnets'[s].requests = subnets[s].requests
      BY <2>2, <2>3, <3>2
    <3> HIDE DEF s
    <3> QED
      BY <2>1, <3>2, <3>3 DEF Requests
  <2>4. CASE s \notin DOMAIN subnets
    <3>1. subnets' = subnets
      BY <1>1, <2>4 DEF DropPermit
    <3> QED
      BY <2>1, <3>1 DEF Requests
  <2> QED
    BY <2>3, <2>4
<1>2. CASE TakeHardware(c) \/ DropHardware(c) \/ ReadChunk(c) \/ ReadEof(c) \/ ReadFails(c)
           \/ BadRequest(c) \/ HardwareBusy(c) \/ GetReport(c) \/ Send(c) \/ Close(c)
  <2>1. UNCHANGED <<subnets, granted, from, now>>
    BY <1>2 DEF TakeHardware, DropHardware, ReadChunk, ReadEof, ReadFails, BadRequest,
       HardwareBusy, GetReport, Send, Close
  <2>2. \A d \in Conn : st'[d] \in {"new", "accepted"} => st[d] \in {"new", "accepted"}
    BY <1>2 DEF TakeHardware, DropHardware, ReadChunk, ReadEof, ReadFails, BadRequest,
       HardwareBusy, GetReport, Send, Close, TypeOK
  <2> QED
    BY <2>1, <2>2 DEF Requests
<1> QED
  BY <1>1, <1>2 DEF Handle

LEMMA HandlerKeepsRate ==
  ASSUME RateInv, NEW c \in Conn, Handle(c)
  PROVE  RateInv'
<1>1. TypeOK /\ AccountInv'
  BY HandlerKeepsAccounts DEF RateInv, AccountInv
<1>2. CASE AcquireGranted(c) \/ AcquireRefused(c)
  BY <1>2, GrantKeepsRate, RefusalKeepsRate
<1>3. CASE ~AcquireGranted(c) /\ ~AcquireRefused(c)
  <2>1. /\ UNCHANGED <<granted, from, now>>
        /\ \A d \in Conn : st'[d] \in {"new", "accepted"} => st[d] \in {"new", "accepted"}
        /\ \A t \in Prefix : Requests(subnets', t) = Requests(subnets, t)
    BY <1>1, <1>3, OthersKeepQueues
  <2>2. now' >= now
    BY <1>1, <2>1, AttestationAssumption DEF TypeOK
  <2> QED
    BY <1>1, <2>1, <2>2, SameQueues
<1> QED
  BY <1>2, <1>3

\* Nor do the accept loop, an exited process and the clock.
LEMMA LoopKeepsRate ==
  ASSUME RateInv,
         \/ \E c \in Conn : Accept(c)
         \/ AcceptTransient \/ AcceptNoFd \/ AcceptError \/ Resume
         \/ Tick \/ Exited \/ UNCHANGED vars
  PROVE  RateInv'
<1> USE DEF loop, limiter, device, request, vars
<1> USE DEF Accept, AcceptTransient, AcceptNoFd, AcceptError, Resume, Tick, Exited
<1>1. TypeOK /\ AccountInv /\ AccountInv'
  BY LoopKeepsAccounts DEF RateInv, AccountInv
<1>2. UNCHANGED <<subnets, granted, from>>
  OBVIOUS
<1>3. now' >= now
  BY <1>1, AttestationAssumption DEF TypeOK
<1>4. \A d \in Conn : st'[d] \in {"new", "accepted"} => st[d] \in {"new", "accepted"}
  BY <1>1 DEF TypeOK
<1>5. \A t \in Prefix : Requests(subnets', t) = Requests(subnets, t)
  BY <1>2
<1> QED
  BY <1>1, <1>2, <1>3, <1>4, <1>5, SameQueues

\* The queues cover what was let in, throughout every behaviour.
THEOREM RateInvariant == Spec => []RateInv
<1>1. RateInv /\ [Next]_vars => RateInv'
  BY HandlerKeepsRate, LoopKeepsRate DEF Next
<1> QED
  BY <1>1, RateInit, PTL DEF Spec

\* No subnet gets more than max_requests requests in within one window, however its entry
\* was pruned, collected and made anew in between.
THEOREM RateBoundedAlways == Spec => []RateBounded
<1>1. RateInv => RateBounded
  BY DEF RateInv
<1> QED
  BY <1>1, RateInvariant, PTL

-----------------------------------------------------------------------------
(* Refusals.  That a refused client really met a limit needs the other     *)
(* direction: every entry of a queue is a request that was let in, and the *)
(* entries are in order, so that those behind a recent one are recent.     *)

\* r is what is left of q when entries are taken off its front.
RestOf(r, q) ==
  \E k \in 0..Len(q) : Len(r) = Len(q) - k /\ \A i \in 1..Len(r) : r[i] = q[i + k]

\* Instants in the order of time, up to now.
InOrder(q, t) ==
  /\ \A i \in 1..Len(q) : q[i] <= t
  /\ \A i, j \in 1..Len(q) : i <= j => q[i] <= q[j]

LEMMA RestOfItself ==
  ASSUME NEW q \in Seq(Instants)
  PROVE  RestOf(q, q)
<1>1. Len(q) \in Nat
  OBVIOUS
<1>2. RestOf(q, q)
  <2>1. 0 \in 0..Len(q) /\ Len(q) = Len(q) - 0 /\ \A i \in 1..Len(q) : i + 0 = i
    BY <1>1
  <2> QED
    BY <2>1 DEF RestOf
<1> QED
  BY <1>2

LEMMA RestOfRest ==
  ASSUME NEW p \in Seq(Instants), NEW q \in Seq(Instants), NEW r \in Seq(Instants),
         RestOf(r, q), RestOf(q, p)
  PROVE  RestOf(r, p)
<1>1. Len(p) \in Nat /\ Len(q) \in Nat /\ Len(r) \in Nat
  OBVIOUS
<1>2. PICK k \in 0..Len(q) : Len(r) = Len(q) - k /\ \A i \in 1..Len(r) : r[i] = q[i + k]
  BY DEF RestOf
<1>3. PICK l \in 0..Len(p) : Len(q) = Len(p) - l /\ \A i \in 1..Len(q) : q[i] = p[i + l]
  BY DEF RestOf
<1>4. k + l \in 0..Len(p) /\ Len(r) = Len(p) - (k + l)
  BY <1>1, <1>2, <1>3
<1>5. ASSUME NEW i \in 1..Len(r)
      PROVE  r[i] = p[i + (k + l)]
  <2>1. i + k \in 1..Len(q) /\ (i + k) + l = i + (k + l)
    BY <1>1, <1>2, <1>3
  <2> QED
    BY <1>2, <1>3, <2>1
<1> QED
  BY <1>4, <1>5 DEF RestOf

\* What is left has no more entries from any instant on, and keeps the order.
LEMMA RestFacts ==
  ASSUME NEW q \in Seq(Instants), NEW r \in Seq(Instants), RestOf(r, q)
  PROVE  /\ \A v \in Instants : Cardinality(Since(r, v)) <= Cardinality(Since(q, v))
         /\ \A t \in Instants : InOrder(q, t) => InOrder(r, t)
<1>1. Len(q) \in Nat /\ Len(r) \in Nat
  OBVIOUS
<1>2. PICK k \in 0..Len(q) : Len(r) = Len(q) - k /\ \A i \in 1..Len(r) : r[i] = q[i + k]
  BY DEF RestOf
<1>3. \A i \in 1..Len(r) : i + k \in 1..Len(q)
  BY <1>1, <1>2
<1>4. ASSUME NEW v \in Instants
      PROVE  Cardinality(Since(r, v)) <= Cardinality(Since(q, v))
  <2> DEFINE f == [i \in Since(r, v) |-> i + k]
  <2>1. f \in [Since(r, v) -> Since(q, v)]
    BY <1>2, <1>3 DEF Since
  <2>2. \A a, b \in Since(r, v) : a + k = b + k => a = b
    BY <1>1, <1>2 DEF Since
  <2>3. \A a, b \in DOMAIN f : f[a] = f[b] => a = b
    BY <2>2
  <2> HIDE DEF f
  <2>4. f \in Injection(Since(r, v), Since(q, v))
    BY <2>1, <2>3 DEF Injection, IsInjective
  <2> QED
    BY <2>4, SinceFinite, FS_Injection
<1>5. ASSUME NEW t \in Instants, InOrder(q, t)
      PROVE  InOrder(r, t)
  <2>1. \A i, j \in 1..Len(r) : i <= j => i + k <= j + k
    BY <1>1, <1>2
  <2> QED
    BY <1>2, <1>3, <1>5, <2>1 DEF InOrder
<1> QED
  BY <1>4, <1>5

\* Pruning takes entries off the front, until the first is not outdated.
LEMMA PruneFront ==
  ASSUME NEW q \in Seq(Instants)
  PROVE  /\ RestOf(Prune(q), q)
         /\ Prune(q) # << >> => Prune(q)[1] \in Instants /\ ~Outdated(Prune(q)[1])
<1> DEFINE popped == {i \in 1..Len(q) : \A j \in 1..i : Outdated(q[j])}
           k == Cardinality(popped)
           r == SubSeq(q, k + 1, Len(q))
<1>1. Len(q) \in Nat /\ \A i \in 1..Len(q) : q[i] \in Instants
  BY ElementOfSeq
<1>2. popped \in SUBSET (1..Len(q))
  OBVIOUS
<1>3. \A i \in popped : \A j \in 1..i : Outdated(q[j])
  OBVIOUS
<1>4. \A i \in 1..Len(q) : (\A j \in 1..i : Outdated(q[j])) => i \in popped
  OBVIOUS
<1>5. \A i \in popped, j \in 1..Len(q) : j <= i => j \in popped
  <2> SUFFICES ASSUME NEW i \in popped, NEW j \in 1..Len(q), j <= i
               PROVE  \A m \in 1..j : Outdated(q[m])
    BY <1>4
  <2>1. i \in 1..Len(q)
    BY <1>2
  <2> HIDE DEF popped
  <2>2. 1..j \subseteq 1..i
    BY <1>1, <2>1
  <2> QED
    BY <1>3, <2>2
<1> HIDE DEF popped
<1>6. \A n \in Nat : IsFiniteSet(1..n) /\ Cardinality(1..n) = n
  BY UpTo
<1>7. IsFiniteSet(popped) /\ k \in Nat /\ k <= Len(q)
  <2>1. IsFiniteSet(1..Len(q)) /\ Cardinality(1..Len(q)) = Len(q)
    BY <1>1, <1>6
  <2>2. IsFiniteSet(popped) /\ Cardinality(popped) <= Cardinality(1..Len(q))
    BY <1>2, <2>1, FS_Subset
  <2> QED
    BY <2>1, <2>2, FS_CardinalityType
<1>8. \A i \in 1..k : i \in popped
  <2> SUFFICES ASSUME NEW i \in 1..k, i \notin popped PROVE FALSE
    OBVIOUS
  <2>1. i \in 1..Len(q) /\ i - 1 \in Nat /\ i - 1 < k
    <3> HIDE DEF k
    <3> QED
      BY <1>1, <1>7
  <2>2. popped \in SUBSET (1..(i - 1))
    <3> SUFFICES ASSUME NEW m \in popped PROVE m \in 1..(i - 1)
      OBVIOUS
    <3>1. m \in 1..Len(q) /\ ~(i <= m)
      BY <1>2, <1>5, <2>1
    <3> QED
      BY <1>1, <2>1, <3>1
  <2>3. k <= i - 1
    <3>1. IsFiniteSet(1..(i - 1)) /\ Cardinality(1..(i - 1)) = i - 1
      BY <1>6, <2>1
    <3>2. Cardinality(popped) <= Cardinality(1..(i - 1))
      BY <2>2, <3>1, FS_Subset
    <3> QED
      BY <3>1, <3>2
  <2> HIDE DEF k
  <2> QED
    BY <1>7, <2>1, <2>3
<1>9. k + 1 \notin popped
  <2> SUFFICES ASSUME k + 1 \in popped PROVE FALSE
    OBVIOUS
  <2>1. k + 1 \in 1..Len(q) /\ k + 1 \in Nat
    BY <1>2, <1>7
  <2>2. \A i \in 1..(k + 1) : i \in 1..Len(q) /\ i <= k + 1
    <3> HIDE DEF k
    <3> QED
      BY <1>1, <2>1
  <2>3. 1..(k + 1) \in SUBSET popped
    BY <1>5, <2>2
  <2>4. Cardinality(1..(k + 1)) <= k
    BY <1>7, <2>3, FS_Subset
  <2>5. Cardinality(1..(k + 1)) = k + 1
    <3> HIDE DEF k
    <3> QED
      BY <1>6, <2>1
  <2> HIDE DEF k
  <2> QED
    BY <1>7, <2>4, <2>5
<1> HIDE DEF k
<1>10. k + 1 \in 1..Len(q) => ~Outdated(q[k + 1])
  <2> SUFFICES ASSUME k + 1 \in 1..Len(q), Outdated(q[k + 1]) PROVE FALSE
    OBVIOUS
  <2>1. \A j \in 1..(k + 1) : j = k + 1 \/ j \in 1..k
    BY <1>7
  <2>2. \A j \in 1..k : Outdated(q[j])
    <3> SUFFICES ASSUME NEW j \in 1..k PROVE Outdated(q[j])
      OBVIOUS
    <3>1. j \in popped /\ j \in 1..j
      BY <1>7, <1>8
    <3> QED
      BY <1>3, <3>1
  <2> QED
    BY <1>4, <1>9, <2>1, <2>2
<1>11. /\ r \in Seq(Instants)
       /\ Len(r) = IF k + 1 <= Len(q) THEN Len(q) - (k + 1) + 1 ELSE 0
       /\ \A i \in 1..(Len(q) - (k + 1) + 1) : r[i] = q[k + 1 + i - 1]
  <2>1. \A i \in (k + 1)..Len(q) : q[i] \in Instants
    BY <1>1, <1>7
  <2>2. k + 1 \in Int /\ Len(q) \in Int
    BY <1>1, <1>7
  <2> QED
    BY <2>1, <2>2, SubSeqProperties
<1>12. Prune(q) = r
  BY DEF Prune, popped, k
<1> HIDE DEF r
<1>13. RestOf(r, q)
  <2>1. k \in 0..Len(q) /\ Len(r) = Len(q) - k
    BY <1>1, <1>7, <1>11
  <2>2. ASSUME NEW i \in 1..Len(r)
        PROVE  r[i] = q[i + k]
    <3>1. i \in 1..(Len(q) - (k + 1) + 1) /\ k + 1 + i - 1 = i + k
      BY <1>1, <1>7, <2>1
    <3> QED
      BY <1>11, <3>1
  <2> QED
    BY <2>1, <2>2 DEF RestOf
<1>14. r # << >> => r[1] \in Instants /\ ~Outdated(r[1])
  <2> SUFFICES ASSUME r # << >> PROVE r[1] \in Instants /\ ~Outdated(r[1])
    OBVIOUS
  <2>1. Len(r) \in Nat /\ Len(r) # 0
    BY <1>11
  <2>2. k + 1 <= Len(q) /\ k + 1 \in 1..Len(q) /\ 1 \in 1..(Len(q) - (k + 1) + 1)
        /\ k + 1 + 1 - 1 = k + 1
    BY <1>1, <1>7, <1>11, <2>1
  <2>3. r[1] = q[k + 1]
    BY <1>11, <2>2
  <2> QED
    BY <1>1, <1>10, <2>2, <2>3
<1> QED
  BY <1>12, <1>13, <1>14

\* Collection leaves of each queue a rest, and so does the pruning of an entry, of which
\* the first request is then not outdated.
LEMMA CollectedRest ==
  ASSUME TypeOK, NEW s \in Prefix
  PROVE  /\ Requests(Collected, s) \in Seq(Instants)
         /\ RestOf(Requests(Collected, s), Requests(subnets, s))
<1> DEFINE q == Requests(subnets, s)
           p == Requests(Collected, s)
<1>1. q \in Seq(Instants)
  BY RequestsType
<1>2. Prune(q) \in Seq(Instants) /\ RestOf(Prune(q), q) /\ RestOf(q, q)
  BY <1>1, PruneType, PruneFront, RestOfItself DEF Instants
<1>3. p \in {q, Prune(q)}
  BY CollectedQueue
<1> HIDE DEF p, q
<1>4. p \in Seq(Instants) /\ RestOf(p, q)
  BY <1>1, <1>2, <1>3
<1> QED
  BY <1>4 DEF p, q

LEMMA EntryRest ==
  ASSUME TypeOK, NEW s \in Prefix
  PROVE  LET q == EntryOf(s).requests IN
         /\ q \in Seq(Instants)
         /\ RestOf(q, Requests(subnets, s))
         /\ q # << >> => q[1] \in Instants /\ ~Outdated(q[1])
<1> DEFINE p == Requests(Collected, s)
<1>1. p \in Seq(Instants) /\ RestOf(p, Requests(subnets, s))
  BY CollectedRest
<1>2. EntryOf(s).requests = Prune(p)
  BY EntryQueue
<1>3. Requests(subnets, s) \in Seq(Instants)
  BY RequestsType
<1> HIDE DEF p
<1>4. /\ Prune(p) \in Seq(Instants) /\ RestOf(Prune(p), p)
      /\ Prune(p) # << >> => Prune(p)[1] \in Instants /\ ~Outdated(Prune(p)[1])
  BY <1>1, PruneType, PruneFront DEF Instants
<1>5. RestOf(Prune(p), Requests(subnets, s))
  BY <1>1, <1>3, <1>4, RestOfRest
<1> QED
  BY <1>2, <1>4, <1>5

\* Every entry of a queue is a request that was let in.
BackedInv ==
  \A s \in Prefix, v \in Instants :
    Cardinality(Since(Requests(subnets, s), v)) <= Cardinality(GrantedSince(s, v))

OrderInv == \A s \in Prefix : InOrder(Requests(subnets, s), now)

\* Only a handler that is sending has a reply.
ReplyInv == \A c \in Conn : st[c] # "sending" => reply[c] = 0

FiniteMap == IsFiniteSet(DOMAIN subnets)

RefusalInv == RateInv /\ BackedInv /\ OrderInv /\ ReplyInv /\ FiniteMap

\* What a step does to the queue of a subnet: entries leave at the front, and a request
\* that is let in enters at the back.
Enters(c, s) ==
  /\ \A v \in Instants : GrantedSince(s, v)' =
       IF now >= v THEN GrantedSince(s, v) \cup {c} ELSE GrantedSince(s, v)
  /\ \A v \in Instants : c \notin GrantedSince(s, v)
  /\ \E r \in Seq(Instants) :
       RestOf(r, Requests(subnets, s)) /\ Requests(subnets', s) = Append(r, now)

Leaves(s) ==
  /\ \A v \in Instants : GrantedSince(s, v)' = GrantedSince(s, v)
  /\ RestOf(Requests(subnets', s), Requests(subnets, s))

LEMMA GrantQueues ==
  ASSUME RateInv, NEW c \in Conn, AcquireGranted(c), NEW s \in Prefix
  PROVE  Enters(c, s) \/ Leaves(s)
<1>1. TypeOK
  BY DEF RateInv, AccountInv
<1>2. PICK u \in Prefix : u = Subnet(from[c]) /\ u = from[c][1]
  BY <1>1 DEF TypeOK, Ip, Subnet
<1> DEFINE r == EntryOf(u).requests
           e == [requests |-> Append(r, now), active |-> EntryOf(u).active + 1]
<1>3. r \in Seq(Instants) /\ RestOf(r, Requests(subnets, u))
  BY <1>1, EntryRest
<1>4. subnets' = Put(u, e) /\ e.requests = Append(r, now)
  BY <1>2 DEF AcquireGranted
<1> HIDE DEF e, r
<1>5. /\ Requests(subnets', u) = Append(r, now)
      /\ \A t \in Prefix \ {u} : Requests(subnets', t) = Requests(Collected, t)
  BY <1>4, PutRequests
<1>6. /\ granted' = [granted EXCEPT ![c] = now] /\ granted[c] = NotGranted
      /\ from' = from
  BY DEF AcquireGranted, At, RateInv, GrantInv, request
<1>7. now \in Instants /\ now # NotGranted /\ granted \in [Conn -> 0..NotGranted]
  BY <1>1, AttestationAssumption DEF TypeOK, NotGranted, Instants
<1>8. granted'[c] = now /\ \A d \in Conn \ {c} : granted'[d] = granted[d]
  BY <1>6, <1>7
<1>9. CASE s = u
  <2>1. \A v \in Instants : GrantedSince(s, v)' =
          IF now >= v THEN GrantedSince(s, v) \cup {c} ELSE GrantedSince(s, v)
    BY <1>2, <1>6, <1>7, <1>8, <1>9 DEF GrantedSince
  <2>2. \A v \in Instants : c \notin GrantedSince(s, v)
    BY <1>6 DEF GrantedSince
  <2> QED
    BY <1>3, <1>5, <1>9, <2>1, <2>2 DEF Enters
<1>10. CASE s # u
  <2>1. \A v \in Instants : GrantedSince(s, v)' = GrantedSince(s, v)
    BY <1>2, <1>6, <1>7, <1>8, <1>10 DEF GrantedSince
  <2>2. RestOf(Requests(Collected, s), Requests(subnets, s))
    BY <1>1, CollectedRest
  <2> QED
    BY <1>5, <1>10, <2>1, <2>2 DEF Leaves
<1> QED
  BY <1>9, <1>10

LEMMA RefusalQueues ==
  ASSUME RateInv, NEW c \in Conn, AcquireRefused(c), NEW s \in Prefix
  PROVE  Leaves(s)
<1>1. TypeOK
  BY DEF RateInv, AccountInv
<1>2. PICK u \in Prefix : u = Subnet(from[c])
  BY <1>1 DEF TypeOK, Ip, Subnet
<1>3. subnets' = Put(u, EntryOf(u)) /\ UNCHANGED <<granted, from>>
  BY <1>2 DEF AcquireRefused, request
<1>4. Requests(subnets', s) = IF s = u THEN EntryOf(u).requests ELSE Requests(Collected, s)
  BY <1>3, PutRequests
<1>5. /\ RestOf(EntryOf(u).requests, Requests(subnets, u))
      /\ RestOf(Requests(Collected, s), Requests(subnets, s))
  BY <1>1, EntryRest, CollectedRest
<1>6. \A v \in Instants : GrantedSince(s, v)' = GrantedSince(s, v)
  BY <1>3 DEF GrantedSince
<1> QED
  BY <1>4, <1>5, <1>6 DEF Leaves

LEMMA StepQueues ==
  ASSUME RateInv, [Next]_vars, NEW s \in Prefix
  PROVE  (\E c \in Conn : Enters(c, s)) \/ Leaves(s)
<1>1. TypeOK
  BY DEF RateInv, AccountInv
<1>2. ASSUME UNCHANGED <<granted, from>>, Requests(subnets', s) = Requests(subnets, s)
      PROVE  Leaves(s)
  <2>1. RestOf(Requests(subnets, s), Requests(subnets, s))
    BY <1>1, RequestsType, RestOfItself
  <2> QED
    BY <1>2, <2>1 DEF Leaves, GrantedSince
<1>3. CASE \E c \in Conn : Handle(c)
  <2>1. PICK c \in Conn : Handle(c)
    BY <1>3
  <2>2. CASE AcquireGranted(c)
    BY <2>2, GrantQueues
  <2>3. CASE AcquireRefused(c)
    BY <2>3, RefusalQueues
  <2>4. CASE ~AcquireGranted(c) /\ ~AcquireRefused(c)
    <3>1. UNCHANGED <<granted, from>> /\ Requests(subnets', s) = Requests(subnets, s)
      BY <1>1, <2>1, <2>4, OthersKeepQueues
    <3> QED
      BY <1>2, <3>1
  <2> QED
    BY <2>2, <2>3, <2>4
<1>4. CASE \/ \E c \in Conn : Accept(c)
           \/ AcceptTransient \/ AcceptNoFd \/ AcceptError \/ Resume
           \/ Tick \/ Exited \/ UNCHANGED vars
  <2>1. UNCHANGED <<subnets, granted, from>>
    BY <1>4 DEF Accept, AcceptTransient, AcceptNoFd, AcceptError, Resume, Tick, Exited,
       loop, limiter, device, request, vars
  <2>2. Requests(subnets', s) = Requests(subnets, s)
    BY <2>1
  <2> QED
    BY <1>2, <2>1, <2>2
<1> QED
  BY <1>3, <1>4 DEF Next

LEMMA SinceInt ==
  ASSUME NEW q \in Seq(Instants), NEW v
  PROVE  Cardinality(Since(q, v)) \in Int
<1>1. Len(q) \in Nat
  OBVIOUS
<1>2. Cardinality(Since(q, v)) \in 0..Len(q)
  BY SinceFinite
<1> QED
  BY <1>1, <1>2

LEMMA RefusalInit == Init => RefusalInv
<1> SUFFICES ASSUME Init PROVE RefusalInv
  OBVIOUS
<1>1. RateInv
  BY RateInit
<1>2. DOMAIN subnets = {}
  BY DEF Init
<1>3. \A s : Requests(subnets, s) = << >>
  BY <1>2 DEF Requests
<1>4. ASSUME NEW s, NEW v
      PROVE  Cardinality(Since(<< >>, v)) <= Cardinality(GrantedSince(s, v))
  <2>1. Since(<< >>, v) = {}
    BY DEF Since
  <2> QED
    <3>1. Cardinality(GrantedSince(s, v)) \in Nat
      BY FiniteGranted
    <3>2. Cardinality({}) = 0
      BY FS_EmptySet
    <3>3. Cardinality(Since(<< >>, v)) = 0
      BY <2>1, <3>2
    <3>4. \A n \in Nat : 0 <= n
      OBVIOUS
    <3> QED
      BY <3>1, <3>3, <3>4, Zenon
<1>5. BackedInv /\ OrderInv
  BY <1>3, <1>4 DEF BackedInv, OrderInv, InOrder
<1>6. ReplyInv /\ FiniteMap
  BY <1>2, FS_EmptySet DEF Init, ReplyInv, FiniteMap
<1> QED
  BY <1>1, <1>5, <1>6 DEF RefusalInv

\* Entries that leave at the front take nothing from the rest of the queue, and a request
\* that enters is both an entry and let in.
LEMMA QueueBacked ==
  ASSUME RefusalInv, [Next]_vars, RateInv', now' >= now, NEW s \in Prefix
  PROVE  /\ \A v \in Instants :
              Cardinality(Since(Requests(subnets', s), v)) <= Cardinality(GrantedSince(s, v)')
         /\ InOrder(Requests(subnets', s), now')
<1> DEFINE q == Requests(subnets, s)
           p == Requests(subnets', s)
<1>1. /\ TypeOK /\ RateInv
      /\ q \in Seq(Instants) /\ now \in Instants
      /\ \A v \in Instants : Cardinality(Since(q, v)) <= Cardinality(GrantedSince(s, v))
      /\ InOrder(q, now)
  BY RequestsType DEF RefusalInv, RateInv, AccountInv, BackedInv, OrderInv
<1>2. p \in Seq(Instants) /\ now' \in Instants
  BY RequestsOf DEF RateInv, AccountInv, TypeOK, Instants
<1>3. (\E c \in Conn : Enters(c, s)) \/ Leaves(s)
  BY <1>1, StepQueues
<1> HIDE DEF p, q
<1>4. CASE Leaves(s)
  <2>1. RestOf(p, q) /\ \A v \in Instants : GrantedSince(s, v)' = GrantedSince(s, v)
    BY <1>4 DEF Leaves, p, q
  <2>2. InOrder(p, now) /\ \A v \in Instants : Cardinality(Since(p, v)) <= Cardinality(Since(q, v))
    BY <1>1, <1>2, <2>1, RestFacts
  <2>3. InOrder(p, now')
    <3>1. \A i \in 1..Len(p) : p[i] \in Instants
      BY <1>2, ElementOfSeq
    <3> QED
      BY <1>1, <1>2, <2>2, <3>1, AttestationAssumption DEF InOrder, Instants
  <2>4. ASSUME NEW v \in Instants
        PROVE  Cardinality(Since(p, v)) <= Cardinality(GrantedSince(s, v)')
    <3>1. /\ Cardinality(Since(p, v)) \in Int /\ Cardinality(Since(q, v)) \in Int
          /\ Cardinality(GrantedSince(s, v)) \in Int
      <4>1. Cardinality(GrantedSince(s, v)) \in Int
        BY FiniteGranted
      <4> QED
        BY <1>1, <1>2, <4>1, SinceInt
    <3> QED
      BY <1>1, <2>1, <2>2, <3>1
  <2> QED
    BY <2>3, <2>4 DEF p
<1>5. CASE \E c \in Conn : Enters(c, s)
  <2>1. PICK c \in Conn : Enters(c, s)
    BY <1>5
  <2>2. PICK r \in Seq(Instants) : RestOf(r, q) /\ p = Append(r, now)
    BY <2>1 DEF Enters, p, q
  <2>3. InOrder(r, now) /\ \A v \in Instants : Cardinality(Since(r, v)) <= Cardinality(Since(q, v))
    BY <1>1, <2>2, RestFacts
  <2>4. InOrder(p, now')
    <3>1. Len(r) \in Nat /\ Len(p) = Len(r) + 1 /\ p[Len(r) + 1] = now
          /\ \A i \in 1..Len(r) : p[i] = r[i] /\ r[i] \in Instants
      BY <2>2, AppendProperties, ElementOfSeq
    <3>2. \A i \in 1..Len(p) : i = Len(p) \/ i \in 1..Len(r)
      BY <3>1
    <3>3. \A i \in 1..Len(p) : p[i] <= now /\ p[i] \in Int
      BY <1>1, <2>3, <3>1, <3>2, AttestationAssumption DEF InOrder, Instants
    <3>4. ASSUME NEW i \in 1..Len(p), NEW j \in 1..Len(p), i <= j
          PROVE  p[i] <= p[j]
      <4>1. CASE j = Len(p)
        BY <3>1, <3>3, <4>1
      <4>2. CASE j # Len(p)
        <5>1. i \in 1..Len(r) /\ j \in 1..Len(r)
          BY <3>1, <3>4, <4>2
        <5> QED
          BY <2>3, <3>1, <3>4, <5>1 DEF InOrder
      <4> QED
        BY <4>1, <4>2
    <3>5. \A i \in 1..Len(p) : p[i] <= now'
      BY <1>1, <1>2, <3>3, AttestationAssumption DEF Instants
    <3> QED
      BY <3>4, <3>5 DEF InOrder
  <2>5. ASSUME NEW v \in Instants
        PROVE  Cardinality(Since(p, v)) <= Cardinality(GrantedSince(s, v)')
    <3>1. Cardinality(Since(p, v)) =
            IF now >= v THEN Cardinality(Since(r, v)) + 1 ELSE Cardinality(Since(r, v))
      BY <1>1, <2>2, AppendCounts
    <3>2. Cardinality(GrantedSince(s, v)') =
            IF now >= v THEN Cardinality(GrantedSince(s, v)) + 1
                        ELSE Cardinality(GrantedSince(s, v))
      <4>1. /\ c \notin GrantedSince(s, v)
            /\ GrantedSince(s, v)' =
                 IF now >= v THEN GrantedSince(s, v) \cup {c} ELSE GrantedSince(s, v)
        BY <2>1 DEF Enters
      <4>2. Cardinality(GrantedSince(s, v) \cup {c}) = Cardinality(GrantedSince(s, v)) + 1
        BY <4>1, FiniteGranted, FS_AddElement
      <4> QED
        BY <4>1, <4>2
    <3>3. /\ Cardinality(Since(r, v)) \in Int /\ Cardinality(Since(q, v)) \in Int
          /\ Cardinality(GrantedSince(s, v)) \in Int
      <4>1. Cardinality(GrantedSince(s, v)) \in Int
        BY FiniteGranted
      <4> QED
        BY <1>1, <4>1, SinceInt
    <3> QED
      BY <1>1, <2>3, <3>1, <3>2, <3>3
  <2> QED
    BY <2>4, <2>5 DEF p
<1> QED
  BY <1>3, <1>4, <1>5

LEMMA LaterOrNow ==
  ASSUME TypeOK, [Next]_vars
  PROVE  now' >= now
<1> USE DEF loop, limiter, device, request, vars
<1>1. now \in Int
  BY AttestationAssumption DEF TypeOK
<1>2. ASSUME NEW c \in Conn, Handle(c)
      PROVE  now' = now
  BY <1>2 DEF Handle, AcquireGranted, AcquireRefused, ReadChunk, ReadEof, ReadFails,
     BadRequest, TakeHardware, HardwareBusy, GetReport, Send, DropHardware, DropPermit, Close
<1> QED
  BY <1>1, <1>2 DEF Next, Accept, AcceptTransient, AcceptNoFd, AcceptError, Resume, Tick, Exited

\* The map loses entries by collection only and gets one at a time.
LEMMA MapStaysFinite ==
  ASSUME TypeOK, FiniteMap, [Next]_vars
  PROVE  FiniteMap'
<1>1. IsFiniteSet(DOMAIN subnets) /\ IsFiniteSet(DOMAIN Collected)
  BY CollectedFacts, FS_Subset DEF FiniteMap
<1>2. CASE \E c \in Conn : AcquireGranted(c) \/ AcquireRefused(c)
  <2>1. PICK s, e : subnets' = Put(s, e)
    BY <1>2 DEF AcquireGranted, AcquireRefused
  <2>2. DOMAIN subnets' = DOMAIN Collected \cup {s}
    BY <2>1 DEF Put
  <2> QED
    BY <1>1, <2>2, FS_AddElement DEF FiniteMap
<1>3. CASE \E c \in Conn : Handle(c) /\ ~AcquireGranted(c) /\ ~AcquireRefused(c)
  BY <1>1, <1>3, OthersKeepQueues DEF FiniteMap
<1>4. CASE \/ \E c \in Conn : Accept(c)
           \/ AcceptTransient \/ AcceptNoFd \/ AcceptError \/ Resume
           \/ Tick \/ Exited \/ UNCHANGED vars
  <2>1. subnets' = subnets
    BY <1>4 DEF Accept, AcceptTransient, AcceptNoFd, AcceptError, Resume, Tick, Exited,
       loop, limiter, device, request, vars
  <2> QED
    BY <1>1, <2>1 DEF FiniteMap
<1> QED
  BY <1>2, <1>3, <1>4 DEF Next

LEMMA RepliesKept ==
  ASSUME TypeOK, ReplyInv, [Next]_vars
  PROVE  ReplyInv'
<1> USE DEF loop, limiter, device, request, vars, ReplyInv, TypeOK
<1>1. ASSUME NEW c \in Conn, Handle(c)
      PROVE  ReplyInv'
  <2> USE DEF At, Goto, Answer, EndRead
  <2>1. CASE AcquireGranted(c) \/ ReadChunk(c) \/ ReadEof(c) \/ ReadFails(c) \/ TakeHardware(c)
    BY <2>1 DEF AcquireGranted, ReadChunk, ReadEof, ReadFails, TakeHardware
  <2>2. CASE AcquireRefused(c) \/ BadRequest(c) \/ HardwareBusy(c) \/ GetReport(c) \/ Send(c)
    BY <2>2 DEF AcquireRefused, BadRequest, HardwareBusy, GetReport, Send
  <2>3. CASE DropHardware(c) \/ DropPermit(c) \/ Close(c)
    BY <2>3 DEF DropHardware, DropPermit, Close
  <2> QED
    BY <1>1, <2>1, <2>2, <2>3 DEF Handle
<1>2. CASE \/ \E c \in Conn : Accept(c)
           \/ AcceptTransient \/ AcceptNoFd \/ AcceptError \/ Resume
           \/ Tick \/ Exited \/ UNCHANGED vars
  BY <1>2 DEF Accept, AcceptTransient, AcceptNoFd, AcceptError, Resume, Tick, Exited
<1> QED
  BY <1>1, <1>2 DEF Next

LEMMA RefusalNext == RefusalInv /\ [Next]_vars => RefusalInv'
<1> SUFFICES ASSUME RefusalInv, [Next]_vars PROVE RefusalInv'
  OBVIOUS
<1>1. RateInv' /\ TypeOK
  BY HandlerKeepsRate, LoopKeepsRate DEF RefusalInv, RateInv, AccountInv, Next
<1>2. now' >= now
  BY <1>1, LaterOrNow
<1>3. ASSUME NEW s \in Prefix
      PROVE  /\ \A v \in Instants :
                  Cardinality(Since(Requests(subnets, s), v)') <= Cardinality(GrantedSince(s, v)')
             /\ InOrder(Requests(subnets, s), now)'
  <2>1. Requests(subnets, s)' = Requests(subnets', s)
    BY DEF Requests
  <2> QED
    BY <1>1, <1>2, <2>1, QueueBacked DEF Since, InOrder
<1>4. BackedInv' /\ OrderInv'
  BY <1>3 DEF BackedInv, OrderInv
<1>5. ReplyInv' /\ FiniteMap'
  BY <1>1, MapStaysFinite, RepliesKept DEF RefusalInv
<1> QED
  BY <1>1, <1>4, <1>5 DEF RefusalInv

THEOREM RefusalInvariant == Spec => []RefusalInv
BY RefusalInit, RefusalNext, PTL DEF Spec

-----------------------------------------------------------------------------
(* The properties of refusals and of the map.                              *)

\* The requests of subnet s that were let in within the last window.
Recent(s) == {d \in Conn : d \in GrantedIn(s, 0, now) /\ now - granted[d] <= Window}

LEMMA RecentFinite ==
  ASSUME NEW s
  PROVE  IsFiniteSet(Recent(s)) /\ Cardinality(Recent(s)) \in Nat
<1>1. Recent(s) \in SUBSET Conn
  BY DEF Recent
<1> QED
  BY <1>1, AttestationAssumption, FS_Subset, FS_CardinalityType

\* Whoever was let in from an instant on that is not outdated was so within the window.
LEMMA SinceIsRecent ==
  ASSUME RefusalInv, NEW s \in Prefix, NEW v \in Instants, ~Outdated(v)
  PROVE  /\ GrantedSince(s, v) \subseteq Recent(s)
         /\ Cardinality(GrantedSince(s, v)) <= Cardinality(Recent(s))
<1>1. now \in Instants /\ granted \in [Conn -> 0..NotGranted]
  BY DEF RefusalInv, RateInv, AccountInv, TypeOK, Instants
<1>2. ASSUME NEW d \in GrantedSince(s, v)
      PROVE  d \in Recent(s)
  <2>1. /\ d \in Conn /\ granted[d] # NotGranted /\ granted[d] >= v /\ from[d][1] = s
        /\ granted[d] <= now /\ granted[d] \in 0..NotGranted
    BY <1>1 DEF GrantedSince, RefusalInv, RateInv, GrantInv
  <2>2. granted[d] \in Int /\ granted[d] >= 0 /\ granted[d] \in 0..now
    BY <1>1, <2>1, AttestationAssumption DEF Instants, NotGranted
  <2>3. now - granted[d] <= Window
    BY <1>1, <2>1, <2>2, AttestationAssumption DEF Instants, Outdated
  <2> QED
    BY <2>1, <2>2, <2>3 DEF Recent, GrantedIn
<1>3. GrantedSince(s, v) \in SUBSET Recent(s)
  BY <1>2
<1> QED
  BY <1>3, RecentFinite, FS_Subset

LEMMA ReplyChanges ==
  ASSUME TypeOK, NEW c \in Conn, [Next]_vars, reply'[c] # reply[c]
  PROVE  \/ AcquireRefused(c) \/ BadRequest(c) \/ HardwareBusy(c) \/ GetReport(c)
         \/ Send(c)
<1> USE DEF loop, limiter, device, request, vars
<1>1. \/ \E d \in Conn : Handle(d)
      \/ UNCHANGED reply
  BY DEF Next, Accept, AcceptTransient, AcceptNoFd, AcceptError, Resume, Tick, Exited
<1>2. PICK d \in Conn : Handle(d)
  BY <1>1
<1>3. ~UNCHANGED reply
  OBVIOUS
<1>4. \/ AcquireRefused(d) \/ BadRequest(d) \/ HardwareBusy(d) \/ GetReport(d)
      \/ Send(d)
  BY <1>2, <1>3 DEF Handle, AcquireGranted, ReadChunk, ReadEof, ReadFails, TakeHardware,
     DropHardware, DropPermit, Close
<1>5. PICK n : reply' = [reply EXCEPT ![d] = n]
  BY <1>3, <1>4 DEF AcquireRefused, BadRequest, HardwareBusy, GetReport, Send, Answer
<1>6. d = c
  BY <1>5 DEF TypeOK
<1> QED
  BY <1>4, <1>6

\* A queue that is full after pruning holds as many recent requests.
LEMMA RefusedAtLimit ==
  ASSUME RefusalInv, NEW c \in Conn, AcquireRefused(c)
  PROVE  \/ Cardinality(Holders(from[c][1])) >= MaxConcurrent
         \/ Cardinality(Recent(from[c][1])) >= MaxRequests
<1>1. TypeOK /\ AccountInv
  BY DEF RefusalInv, RateInv, AccountInv
<1>2. PICK s \in Prefix : s = Subnet(from[c]) /\ s = from[c][1]
  BY <1>1 DEF TypeOK, Ip, Subnet
<1>3. RateExceeded(s) \/ ConcurrencyExceeded(s)
  BY <1>2 DEF AcquireRefused
<1>4. CASE ConcurrencyExceeded(s)
  <2>1. EntryOf(s).active = Cardinality(Holders(s))
    BY <1>1, EntryFacts DEF AccountInv, Accounts, LimiterCountsPermits
  <2> QED
    BY <1>2, <1>4, <2>1 DEF ConcurrencyExceeded
<1>5. CASE RateExceeded(s)
  <2> DEFINE q == Requests(subnets, s)
             r == EntryOf(s).requests
  <2>1. /\ r \in Seq(Instants) /\ RestOf(r, q)
        /\ r # << >> => r[1] \in Instants /\ ~Outdated(r[1])
    BY <1>1, EntryRest
  <2>2. q \in Seq(Instants) /\ now \in Instants /\ InOrder(q, now)
    BY <1>1, RequestsType DEF RefusalInv, OrderInv
  <2>3. \A v \in Instants : Cardinality(Since(q, v)) <= Cardinality(GrantedSince(s, v))
    BY DEF RefusalInv, BackedInv
  <2>4. Len(r) >= MaxRequests
    BY <1>5 DEF RateExceeded
  <2> HIDE DEF q, r
  <2>5. InOrder(r, now) /\ \A v \in Instants : Cardinality(Since(r, v)) <= Cardinality(Since(q, v))
    BY <2>1, <2>2, RestFacts
  <2>6. Len(r) \in Nat
    BY <2>1
  <2>7. Cardinality(Recent(s)) >= MaxRequests
    <3>1. CASE r = << >>
      <4>1. Cardinality(Recent(s)) \in Nat
        BY RecentFinite
      <4>2. Len(r) = 0
        BY <3>1
      <4> QED
        BY <2>4, <4>1, <4>2, AttestationAssumption
    <3>2. CASE r # << >>
      <4> DEFINE v == r[1]
      <4>1. v \in Instants /\ ~Outdated(v)
        BY <2>1, <3>2
      <4>2. \A i \in 1..Len(r) : r[i] >= v
        <5>1. \A i \in 1..Len(r) : 1 \in 1..Len(r) /\ 1 <= i /\ r[i] \in Instants
          BY <2>1, <2>6, ElementOfSeq
        <5>2. \A i \in 1..Len(r) : r[1] <= r[i]
          BY <2>5, <5>1 DEF InOrder
        <5> HIDE DEF v
        <5>3. v \in Int /\ \A i \in 1..Len(r) : r[i] \in Int
          BY <4>1, <5>1, AttestationAssumption DEF Instants
        <5> QED
          BY <5>2, <5>3 DEF v
      <4> HIDE DEF v
      <4>3. Since(r, v) = 1..Len(r)
        BY <4>2 DEF Since
      <4>4. Cardinality(1..Len(r)) = Len(r)
        BY <2>6, UpTo
      <4>5. /\ Cardinality(Since(r, v)) <= Cardinality(Since(q, v))
            /\ Cardinality(Since(q, v)) <= Cardinality(GrantedSince(s, v))
            /\ Cardinality(GrantedSince(s, v)) <= Cardinality(Recent(s))
        BY <2>3, <2>5, <4>1, SinceIsRecent
      <4>6. /\ Cardinality(Since(q, v)) \in Int /\ Cardinality(GrantedSince(s, v)) \in Int
            /\ Cardinality(Recent(s)) \in Int
        <5>1. Cardinality(GrantedSince(s, v)) \in Int /\ Cardinality(Recent(s)) \in Int
          BY FiniteGranted, RecentFinite
        <5> QED
          BY <2>2, <5>1, SinceInt
      <4> QED
        BY <2>4, <2>6, <4>3, <4>4, <4>5, <4>6, AttestationAssumption
    <3> QED
      BY <3>1, <3>2
  <2> QED
    BY <1>2, <2>7
<1> QED
  BY <1>3, <1>4, <1>5

\* A client is turned away with 429 only when its subnet has as many connections or as many
\* requests within the last window as allowed, and with 503 for want of a hardware permit
\* only when all of them are out: no leaked permit, no stale entry refuses anybody.
THEOREM RefusalsAreJustifiedAlways == Spec => RefusalsAreJustified
<1>1. ASSUME RefusalInv, [Next]_vars, NEW c \in Conn
      PROVE  /\ st[c] = "accepted" /\ reply'[c] = 429 =>
                  LET s == from[c][1] IN
                  \/ Cardinality(Holders(s)) >= MaxConcurrent
                  \/ Cardinality({d \in Conn : /\ d \in GrantedIn(s, 0, now)
                                               /\ now - granted[d] <= Window}) >= MaxRequests
             /\ st[c] = "request" /\ reply'[c] = 503 =>
                  Cardinality(HardwareHolders) = MaxHardware
  <2>1. TypeOK
    BY <1>1 DEF RefusalInv, RateInv, AccountInv
  <2>2. st[c] # "sending" => reply[c] = 0
    BY <1>1 DEF RefusalInv, ReplyInv
  <2>3. ASSUME st[c] = "accepted", reply'[c] = 429
        PROVE  AcquireRefused(c)
    BY <1>1, <2>1, <2>2, <2>3, ReplyChanges DEF BadRequest, HardwareBusy, GetReport, Send, At
  <2>4. ASSUME st[c] = "request", reply'[c] = 503
        PROVE  Cardinality(HardwareHolders) = MaxHardware
    <3>1. BadRequest(c) \/ HardwareBusy(c)
      BY <1>1, <2>1, <2>2, <2>4, ReplyChanges DEF AcquireRefused, GetReport, Send, At
    <3>2. ~BadRequest(c)
      BY <2>1, <2>2, <2>4 DEF BadRequest, Answer, TypeOK
    <3>3. free = 0
      BY <3>1, <3>2 DEF HardwareBusy
    <3>4. free + Cardinality(HardwareHolders) = MaxHardware
      BY <1>1 DEF RefusalInv, RateInv, AccountInv, Accounts, HardwareConserved
    <3> QED
      BY <3>3, <3>4, FiniteHolders
  <2> QED
    BY <1>1, <2>3, <2>4, RefusedAtLimit DEF Recent
<1>2. ASSUME RefusalInv, [Next]_vars
      PROVE  [\A c \in Conn :
                /\ st[c] = "accepted" /\ reply'[c] = 429 =>
                     LET s == from[c][1] IN
                     \/ Cardinality(Holders(s)) >= MaxConcurrent
                     \/ Cardinality({d \in Conn : /\ d \in GrantedIn(s, 0, now)
                                                  /\ now - granted[d] <= Window}) >= MaxRequests
                /\ st[c] = "request" /\ reply'[c] = 503 =>
                     Cardinality(HardwareHolders) = MaxHardware]_vars
  BY <1>1, <1>2
<1> QED
  BY <1>2, RefusalInvariant, PTL DEF Spec, RefusalsAreJustified

\* A queue of which something is left after pruning has a request of the last window.
LEMMA PrunedQueueRecent ==
  ASSUME RefusalInv, NEW s \in Prefix, Prune(Requests(subnets, s)) # << >>
  PROVE  Recent(s) # {}
<1> DEFINE q == Requests(subnets, s)
           r == Prune(q)
           v == r[1]
<1>1. TypeOK /\ q \in Seq(Instants) /\ now \in Instants
  BY RequestsType DEF RefusalInv, RateInv, AccountInv
<1>2. r \in Seq(Instants) /\ RestOf(r, q)
  BY <1>1, PruneType, PruneFront DEF Instants
<1>3. v \in Instants /\ ~Outdated(v) /\ r # << >>
  BY <1>1, PruneFront
<1>4. Cardinality(Since(q, v)) <= Cardinality(GrantedSince(s, v))
  BY <1>3 DEF RefusalInv, BackedInv
<1> HIDE DEF q
<1>5. Cardinality(Since(r, v)) <= Cardinality(Since(q, v))
  BY <1>1, <1>2, <1>3, RestFacts
<1>6. Since(r, v) # {}
  <2>1. 1 \in 1..Len(r)
    BY <1>2, <1>3
  <2>2. v >= v
    BY <1>3, AttestationAssumption DEF Instants
  <2> QED
    BY <2>1, <2>2 DEF Since
<1> HIDE DEF r, v
<1>7. Cardinality(Since(r, v)) \in Nat /\ Cardinality(Since(r, v)) # 0
  <2>1. Len(r) \in Nat
    BY <1>2
  <2>2. IsFiniteSet(Since(r, v)) /\ Cardinality(Since(r, v)) \in Nat
    BY <1>2, <2>1, SinceFinite
  <2> QED
    BY <1>6, <2>2, FS_EmptySet
<1>8. GrantedSince(s, v) # {}
  <2>1. Cardinality(GrantedSince(s, v)) \in Int /\ Cardinality(Since(q, v)) \in Int
    BY <1>1, FiniteGranted, SinceInt
  <2>2. Cardinality(GrantedSince(s, v)) # 0
    BY <1>4, <1>5, <1>7, <2>1
  <2> QED
    BY <2>2, FS_EmptySet
<1> QED
  BY <1>3, <1>8, SinceIsRecent

\* What survives a collection holds a permit or got a request in lately.
LEMMA CollectedBusy ==
  ASSUME RefusalInv, Cardinality(DOMAIN subnets) > GcThreshold
  PROVE  DOMAIN Collected \subseteq Busy
<1>1. TypeOK /\ LimiterCountsPermits
  BY DEF RefusalInv, RateInv, AccountInv, Accounts
<1>2. SUFFICES ASSUME NEW s \in DOMAIN Collected
               PROVE  s \in Busy
  OBVIOUS
<1>3. s \in DOMAIN subnets /\ s \in Prefix
  BY <1>1, CollectedFacts DEF TypeOK
<1>4. subnets[s].active > 0 \/ Prune(subnets[s].requests) # << >>
  <2>1. Collected = Collect(subnets)
    BY DEF Collected
  <2> QED
    BY <1>2, <2>1 DEF Collect
<1>5. CASE subnets[s].active > 0
  <2>1. Cardinality(Holders(s)) > 0
    BY <1>1, <1>3, <1>5 DEF LimiterCountsPermits, ActiveOf
  <2>2. Holders(s) # {}
    BY <2>1, FS_EmptySet
  <2> QED
    BY <1>3, <2>2 DEF Busy
<1>6. CASE Prune(subnets[s].requests) # << >>
  <2>1. Requests(subnets, s) = subnets[s].requests
    BY <1>3 DEF Requests
  <2>2. Recent(s) # {}
    BY <1>3, <1>6, <2>1, PrunedQueueRecent
  <2> QED
    BY <1>3, <2>2 DEF Busy, Recent
<1> QED
  BY <1>4, <1>5, <1>6

\* Every busy subnet has a connection, and there are finitely many of those.
LEMMA BusyFinite == IsFiniteSet(Busy)
<1> DEFINE f == [c \in Conn |-> from[c][1]]
           Of == {f[c] : c \in Conn}
<1>1. IsFiniteSet(Of)
  <2>1. f \in [Conn -> Of] /\ \A s \in Of : \E c \in Conn : f[c] = s
    OBVIOUS
  <2> HIDE DEF f, Of
  <2>2. f \in Surjection(Conn, Of)
    BY <2>1 DEF Surjection
  <2> QED
    BY <2>2, AttestationAssumption, FS_Surjection
<1>2. Busy \subseteq Of
  <2>1. ASSUME NEW s \in Busy
        PROVE  \E c \in Conn : f[c] = s
    BY <2>1 DEF Busy, Holders, GrantedIn
  <2> QED
    BY <2>1
<1> HIDE DEF Of
<1> QED
  BY <1>1, <1>2, FS_Subset

\* The connection that leaves "accepted" is the one acquire answers.
LEMMA AcquireStep ==
  ASSUME TypeOK, NEW c \in Conn, [Next]_vars, st[c] = "accepted", st'[c] # "accepted"
  PROVE  \E s, e : subnets' = Put(s, e)
<1> USE DEF loop, limiter, device, request, vars, TypeOK
<1>1. \/ \E d \in Conn : Accept(d) \/ Handle(d)
      \/ UNCHANGED st
  BY DEF Next, AcceptTransient, AcceptNoFd, AcceptError, Resume, Tick, Exited
<1>2. PICK d \in Conn : Accept(d) \/ Handle(d)
  BY <1>1
<1>3. CASE AcquireGranted(d) \/ AcquireRefused(d)
  BY <1>3 DEF AcquireGranted, AcquireRefused
<1>4. CASE Accept(d)
  BY <1>4 DEF Accept
<1>5. CASE Handle(d) /\ ~AcquireGranted(d) /\ ~AcquireRefused(d)
  BY <1>5 DEF Handle, ReadChunk, ReadEof, ReadFails, BadRequest, TakeHardware, HardwareBusy,
     GetReport, Send, DropHardware, DropPermit, Close, At, Goto, Answer, EndRead
<1> QED
  BY <1>2, <1>3, <1>4, <1>5

\* The map does not grow with the subnets ever seen: after an acquire it has at most one
\* entry more than the collection threshold, or than the subnets that are busy.
THEOREM MapBoundedAlways == Spec => MapBounded
<1>1. ASSUME RefusalInv, [Next]_vars, NEW c \in Conn,
             st[c] = "accepted", st'[c] # "accepted"
      PROVE  \/ Cardinality(DOMAIN subnets') <= GcThreshold + 1
             \/ Cardinality(DOMAIN subnets') <= Cardinality(Busy) + 1
  <2>1. TypeOK /\ IsFiniteSet(DOMAIN subnets)
    BY <1>1 DEF RefusalInv, RateInv, AccountInv, FiniteMap
  <2>2. PICK s : DOMAIN subnets' = DOMAIN Collected \cup {s}
    BY <1>1, <2>1, AcquireStep DEF Put
  <2>3. IsFiniteSet(DOMAIN Collected)
    BY <2>1, CollectedFacts, FS_Subset
  <2>4. /\ Cardinality(DOMAIN Collected) \in Nat /\ Cardinality(DOMAIN subnets) \in Nat
        /\ Cardinality(Busy) \in Nat
    BY <2>1, <2>3, BusyFinite, FS_CardinalityType
  <2>5. Cardinality(DOMAIN subnets') <= Cardinality(DOMAIN Collected) + 1
    <3>1. Cardinality(DOMAIN Collected \cup {s}) =
            IF s \in DOMAIN Collected THEN Cardinality(DOMAIN Collected)
                                      ELSE Cardinality(DOMAIN Collected) + 1
      BY <2>3, FS_AddElement
    <3> QED
      BY <2>2, <2>4, <3>1
  <2>6. CASE Cardinality(DOMAIN subnets) > GcThreshold
    <3>1. Cardinality(DOMAIN Collected) <= Cardinality(Busy)
      BY <1>1, <2>6, CollectedBusy, BusyFinite, FS_Subset
    <3>2. Cardinality(DOMAIN subnets') \in Int
      BY <2>2, <2>3, FS_AddElement, FS_CardinalityType
    <3> QED
      BY <2>4, <2>5, <3>1, <3>2
  <2>7. CASE ~(Cardinality(DOMAIN subnets) > GcThreshold)
    <3>1. Cardinality(DOMAIN Collected) <= GcThreshold
      BY <2>4, <2>7, AttestationAssumption DEF Collected
    <3>2. Cardinality(DOMAIN subnets') \in Int
      BY <2>2, <2>3, FS_AddElement, FS_CardinalityType
    <3> QED
      BY <2>4, <2>5, <3>1, <3>2, AttestationAssumption
  <2> QED
    BY <2>6, <2>7
<1>2. ASSUME RefusalInv, [Next]_vars
      PROVE  [\A c \in Conn :
                st[c] = "accepted" /\ st'[c] # "accepted" =>
                  \/ Cardinality(DOMAIN subnets') <= GcThreshold + 1
                  \/ Cardinality(DOMAIN subnets') <= Cardinality(Busy) + 1]_vars
  BY <1>1, <1>2
<1> QED
  BY <1>2, RefusalInvariant, PTL DEF Spec, MapBounded

=============================================================================
