----------------------------- MODULE TimeProofs -----------------------------
(***************************************************************************)
(* Proofs about TimeSync for any number of servers, of which any may lie:  *)
(* the median of the accepted midpoints is a current time whenever most of *)
(* them are, although the network delays, repeats and replays answers.     *)
(***************************************************************************)
EXTENDS TimeSync, FiniteSetTheorems, TLAPS

-----------------------------------------------------------------------------
(* Arithmetic.                                                             *)

\* Halving an even or an odd number of positions.
LEMMA Halves ==
  ASSUME NEW n \in Nat
  PROVE  /\ n \div 2 \in Nat
         /\ n % 2 = 1 => n = 2 * (n \div 2) + 1
         /\ n % 2 # 1 => n = 2 * (n \div 2)
  OBVIOUS

\* What is lost by counting in whole seconds is less than one.
LEMMA WholeSeconds ==
  ASSUME NEW t \in Nat
  PROVE  /\ (t \div Second) * Second \in Nat
         /\ (t \div Second) * Second <= t
         /\ t - Second + 1 <= (t \div Second) * Second
<1> DEFINE q == t \div Second
<1>1. Second \in Nat /\ Second > 0
  BY TimeAssumption
<1>2. q \in Nat /\ q * Second <= t /\ t < (q + 1) * Second
  BY <1>1, Z3
<1> HIDE DEF q
<1>3. (q + 1) * Second = q * Second + Second /\ q * Second \in Nat
  BY <1>1, <1>2
<1>4. q * Second <= t /\ t - Second + 1 <= q * Second
  BY <1>1, <1>2, <1>3
<1>5. QED
  BY <1>3, <1>4 DEF q

\* The wrapping average of two u64 is a u64, and lies between them if they are small.
LEMMA Average ==
  ASSUME NEW a \in U64, NEW b \in U64
  PROVE  /\ ((a + b) % Word) \div 2 \in U64
         /\ \A lo, hi \in Nat :
              /\ a \in lo..hi /\ b \in lo..hi /\ 2 * hi < Word
              => ((a + b) % Word) \div 2 \in lo..hi
<1>1. Word \in Nat /\ Word > 0 /\ a \in Nat /\ b \in Nat
  BY TimeAssumption DEF U64
<1>2. (a + b) % Word \in 0..(Word - 1)
  BY <1>1
<1>3. ((a + b) % Word) \div 2 \in U64
  BY <1>1, <1>2 DEF U64
<1>4. ASSUME NEW lo \in Nat, NEW hi \in Nat,
             a \in lo..hi, b \in lo..hi, 2 * hi < Word
      PROVE  ((a + b) % Word) \div 2 \in lo..hi
  <2>1. (a + b) % Word = a + b
    BY <1>1, <1>4
  <2>2. QED
    BY <1>1, <1>4, <2>1
<1>5. QED
  BY <1>3, <1>4

-----------------------------------------------------------------------------
(* The median.                                                             *)

\* A majority of the elements meets every half of the positions.
LEMMA MajorityMeets ==
  ASSUME NEW V, IsFiniteSet(V), NEW T \in SUBSET V,
         2 * Cardinality(T) > Cardinality(V),
         NEW f \in [1..Cardinality(V) -> V],
         \A i, j \in 1..Cardinality(V) : i # j => f[i] # f[j],
         NEW K \in SUBSET (1..Cardinality(V)),
         2 * Cardinality(K) >= Cardinality(V)
  PROVE  \E i \in K : f[i] \in T
<1> DEFINE n == Cardinality(V)
<1>1. n \in Nat /\ IsFiniteSet(1..n)
  BY FS_CardinalityType, FS_Interval
<1>2. IsFiniteSet(K) /\ Cardinality(K) \in Nat
  BY <1>1, FS_Subset, FS_CardinalityType
<1>3. IsFiniteSet(T) /\ Cardinality(T) \in Nat
  BY FS_Subset, FS_CardinalityType
<1>4. V \cap T = T
  OBVIOUS
<1>5. IsFiniteSet(V \ T) /\ Cardinality(V \ T) = n - Cardinality(T)
  BY <1>4, FS_Difference
<1>6. Cardinality(V \ T) < Cardinality(K)
  BY <1>1, <1>2, <1>3, <1>5
<1>7. SUFFICES ASSUME \A i \in K : f[i] \notin T PROVE FALSE
  OBVIOUS
<1> DEFINE g == [i \in K |-> f[i]]
<1>8. g \in [K -> V \ T]
  BY <1>7
<1> HIDE DEF g
<1>9. \E i, j \in K : i # j /\ g[i] = g[j]
  BY <1>2, <1>5, <1>6, <1>8, FS_PigeonHole
<1>10. QED
  BY <1>9 DEF g

\* The voters are finitely many, and their midpoints are u64.
LEMMA VotersFinite ==
  ASSUME TypeOK
  PROVE  /\ IsFiniteSet(Voters) /\ Cardinality(Voters) \in Nat
         /\ Voters \subseteq Server
         /\ \A s \in Voters : vote[s] \in U64
<1>1. IsFiniteSet(Server)
  BY TimeAssumption, FS_Interval DEF Server
<1>2. Voters \in SUBSET Server
  BY DEF Voters
<1>3. \A s \in Voters : vote[s] \in U64
  BY DEF Voters, TypeOK
<1>4. QED
  BY <1>1, <1>2, <1>3, FS_Subset, FS_CardinalityType

\* A middle midpoint is bracketed by true ones when these are the majority.
LEMMA MiddleBracketed ==
  ASSUME TypeOK, NEW T \in SUBSET Voters,
         2 * Cardinality(T) > Cardinality(Voters),
         NEW lo \in Nat, NEW hi \in Nat, \A s \in T : vote[s] \in lo..hi,
         NEW order \in Sorted,
         NEW p \in 1..Cardinality(Voters),
         2 * p >= Cardinality(Voters),
         2 * (Cardinality(Voters) - p + 1) >= Cardinality(Voters)
  PROVE  vote[order[p]] \in lo..hi
<1> DEFINE n == Cardinality(Voters)
<1>1. n \in Nat /\ IsFiniteSet(Voters) /\ \A s \in Voters : vote[s] \in U64
  BY VotersFinite
<1>2. /\ order \in [1..n -> Voters]
      /\ \A i, j \in 1..n : i # j => order[i] # order[j]
      /\ \A i, j \in 1..n : i < j => vote[order[i]] <= vote[order[j]]
  BY DEF Sorted
<1>3. \E i \in 1..p : order[i] \in T
  <2>1. Cardinality(1..p) = p
    BY <1>1, FS_Interval
  <2>2. 1..p \in SUBSET (1..n)
    BY <1>1
  <2>3. QED
    BY <1>1, <1>2, <2>1, <2>2, MajorityMeets
<1>4. \E i \in p..n : order[i] \in T
  <2>1. Cardinality(p..n) = n - p + 1
    BY <1>1, FS_Interval
  <2>2. p..n \in SUBSET (1..n)
    BY <1>1
  <2>3. QED
    BY <1>1, <1>2, <2>1, <2>2, MajorityMeets
<1>5. vote[order[p]] \in Nat
  BY <1>1, <1>2, TimeAssumption DEF U64
<1>6. vote[order[p]] >= lo
  <2>1. PICK i \in 1..p : order[i] \in T
    BY <1>3
  <2>2. vote[order[i]] \in lo..hi
    BY <2>1
  <2>3. i = p \/ vote[order[i]] <= vote[order[p]]
    BY <1>1, <1>2
  <2>4. QED
    BY <1>5, <2>2, <2>3
<1>7. vote[order[p]] <= hi
  <2>1. PICK i \in p..n : order[i] \in T
    BY <1>4
  <2>2. vote[order[i]] \in lo..hi
    BY <2>1
  <2>3. i = p \/ vote[order[p]] <= vote[order[i]]
    BY <1>1, <1>2
  <2>4. QED
    BY <1>5, <2>2, <2>3
<1>8. QED
  BY <1>5, <1>6, <1>7

\* Every median is a u64.
LEMMA MedianType ==
  ASSUME TypeOK, Voters # {}, NEW order \in Sorted
  PROVE  Median(order) \in U64
<1> DEFINE n == Cardinality(Voters)
           mid == n \div 2
<1>1. n \in Nat /\ n # 0 /\ \A s \in Voters : vote[s] \in U64
  BY VotersFinite, FS_EmptySet
<1>2. order \in [1..n -> Voters]
  BY DEF Sorted
<1>3. /\ mid \in Nat
      /\ n % 2 = 1 => n = 2 * mid + 1
      /\ n % 2 # 1 => n = 2 * mid
  BY <1>1, Halves
<1> HIDE DEF n, mid
<1>4. CASE n % 2 = 1
  <2>1. mid + 1 \in 1..n
    BY <1>1, <1>3, <1>4
  <2>2. vote[order[mid + 1]] \in U64
    BY <1>1, <1>2, <2>1
  <2>3. QED
    BY <1>4, <2>2 DEF Median, n, mid
<1>5. CASE n % 2 # 1
  <2>1. mid \in 1..n /\ mid + 1 \in 1..n
    BY <1>1, <1>3, <1>5
  <2>2. vote[order[mid]] \in U64 /\ vote[order[mid + 1]] \in U64
    BY <1>1, <1>2, <2>1
  <2>3. ((vote[order[mid]] + vote[order[mid + 1]]) % Word) \div 2 \in U64
    BY <2>2, Average
  <2>4. QED
    BY <1>5, <2>3 DEF Median, n, mid
<1>6. QED
  BY <1>4, <1>5

\* The median lies among the true midpoints when these are the majority.
LEMMA MedianBracketed ==
  ASSUME TypeOK, NEW T \in SUBSET Voters,
         2 * Cardinality(T) > Cardinality(Voters),
         NEW lo \in Nat, NEW hi \in Nat, 2 * hi < Word,
         \A s \in T : vote[s] \in lo..hi,
         NEW order \in Sorted
  PROVE  Median(order) \in lo..hi
<1> DEFINE n == Cardinality(Voters)
           mid == n \div 2
<1>1. n \in Nat /\ n # 0 /\ \A s \in Voters : vote[s] \in U64
  <2>1. IsFiniteSet(T) /\ Cardinality(T) \in Nat /\ Cardinality(T) <= n
    BY VotersFinite, FS_Subset, FS_CardinalityType
  <2>2. QED
    BY <2>1, VotersFinite
<1>2. order \in [1..n -> Voters]
  BY DEF Sorted
<1>3. /\ mid \in Nat
      /\ n % 2 = 1 => n = 2 * mid + 1
      /\ n % 2 # 1 => n = 2 * mid
  BY <1>1, Halves
<1>4. ASSUME NEW p \in 1..n, 2 * p >= n, 2 * (n - p + 1) >= n
      PROVE  vote[order[p]] \in lo..hi
  BY <1>4, MiddleBracketed
<1> HIDE DEF n, mid
<1>5. CASE n % 2 = 1
  <2>1. mid + 1 \in 1..n /\ 2 * (mid + 1) >= n /\ 2 * (n - (mid + 1) + 1) >= n
    BY <1>1, <1>3, <1>5
  <2>2. vote[order[mid + 1]] \in lo..hi
    BY <1>4, <2>1
  <2>3. QED
    BY <1>5, <2>2 DEF Median, n, mid
<1>6. CASE n % 2 # 1
  <2>1. mid \in 1..n /\ 2 * mid >= n /\ 2 * (n - mid + 1) >= n
    BY <1>1, <1>3, <1>6
  <2>2. mid + 1 \in 1..n /\ 2 * (mid + 1) >= n /\ 2 * (n - (mid + 1) + 1) >= n
    BY <1>1, <1>3, <1>6
  <2>3. vote[order[mid]] \in lo..hi /\ vote[order[mid + 1]] \in lo..hi
    BY <1>4, <2>1, <2>2
  <2>4. vote[order[mid]] \in U64 /\ vote[order[mid + 1]] \in U64
    BY <1>1, <1>2, <2>1, <2>2
  <2>5. ((vote[order[mid]] + vote[order[mid + 1]]) % Word) \div 2 \in lo..hi
    BY <2>3, <2>4, Average
  <2>6. QED
    BY <1>6, <2>5 DEF Median, n, mid
<1>7. QED
  BY <1>5, <1>6

-----------------------------------------------------------------------------
(* The inductive invariant.                                                *)

Running == {"send", "recv", "pause"}

\* What has happened at each place of main(): queries run only while they are waited
\* for, nothing is signed before the queries began, and a fallback means no votes.
PlaceInv ==
  /\ begun <= now
  /\ pc \in {"resolve", "spawn"} =>
       /\ asked = {} /\ Voters = {}
       /\ \A s \in Server : answers[s] = {} /\ task[s] = "idle"
  /\ \A s \in Server : task[s] \in Running => pc = "join"
  /\ \A s \in Server : pc = "join" => answers[s] \subseteq begun..now
  /\ pc \in {"check", "set"} => midpoint \in U64
  /\ pc \notin {"check", "set", "halted"} => source = "none"
  /\ pc = "fallback" \/ source = "tls" => Voters = {}
  /\ pc # "halted" => halt = "none"

TimeInv == TypeOK /\ PlaceInv /\ VotesAuthentic /\ ClockCurrent /\ ShutdownHasCause

\* The invariant holds when main() begins to resolve.
LEMMA TimeInit == Init => TimeInv
<1> SUFFICES ASSUME Init PROVE TimeInv
  OBVIOUS
<1> USE TimeAssumption
<1>1. Voters = {}
  BY DEF Init, Voters, NoVote
<1>2. TypeOK
  BY DEF Init, TypeOK, Server, U64, NoVote, Unset
<1>3. PlaceInv
  BY <1>1 DEF Init, PlaceInv, Running
<1>4. VotesAuthentic
  BY <1>1 DEF VotesAuthentic
<1>5. ClockCurrent /\ ShutdownHasCause
  BY <1>1 DEF Init, ClockCurrent, ShutdownHasCause, Majority
<1>6. QED
  BY <1>2, <1>3, <1>4, <1>5 DEF TimeInv

\* Steps that leave votes and the established time alone keep the majority as it is.
LEMMA SameVotes ==
  ASSUME UNCHANGED <<vote, source>>
  PROVE  Voters' = Voters /\ (Majority' <=> Majority)
  BY DEF Voters, Majority, Truthful

\* Resolution of servers.
LEMMA ResolveKeeps ==
  ASSUME TimeInv, Resolved \/ ResolveFails \/ ResolverStalls
  PROVE  TimeInv'
<1> USE TimeAssumption DEF TimeInv
<1>1. UNCHANGED <<now, begun, midpoint, source, clock, halt, tasks>>
  BY DEF Resolved, ResolveFails, ResolverStalls, Resolving
<1>2. /\ pc \in {"resolve", "fallback"}
      /\ pc' \in {"resolve", "spawn", "stalled"}
      /\ pc' \in {"resolve", "spawn"} => pc = "resolve"
      /\ next' \in Server /\ target' \subseteq Server
  <2>1. next \in Server /\ target \subseteq Server
    BY DEF TypeOK
  <2>2. ASSUME NEW chosen, Resolving(chosen), pc = "resolve", chosen \subseteq Server
        PROVE  /\ pc' \in {"resolve", "spawn"} /\ next' \in Server
               /\ target' \subseteq Server
    BY <2>1, <2>2 DEF Resolving, Server
  <2>3. CASE Resolved
    BY <2>1, <2>2, <2>3 DEF Resolved
  <2>4. CASE ResolveFails
    BY <2>1, <2>2, <2>4 DEF ResolveFails
  <2>5. CASE ResolverStalls
    BY <2>1, <2>5 DEF ResolverStalls
  <2>6. QED
    BY <2>3, <2>4, <2>5
<1>3. UNCHANGED <<task, attempt, asked, answers, vote>>
  BY <1>1 DEF tasks
<1>4. Voters' = Voters /\ (Majority' <=> Majority)
  BY <1>1, <1>3, SameVotes
<1>5. TypeOK'
  BY <1>1, <1>2, <1>3 DEF TypeOK, Final
<1>6. PlaceInv'
  BY <1>1, <1>2, <1>3, <1>4 DEF PlaceInv, Running
<1>7. VotesAuthentic'
  BY <1>1, <1>3, <1>4 DEF VotesAuthentic
<1>8. ClockCurrent' /\ ShutdownHasCause'
  BY <1>1, <1>2, <1>4 DEF ClockCurrent, ShutdownHasCause
<1>9. QED
  BY <1>5, <1>6, <1>7, <1>8

\* The queries begin.
LEMMA SpawnKeeps ==
  ASSUME TimeInv, Spawn
  PROVE  TimeInv'
<1> USE TimeAssumption DEF TimeInv
<1>1. /\ pc = "spawn" /\ pc' = "join" /\ begun' = now
      /\ UNCHANGED <<now, next, target, midpoint, source, clock, halt>>
      /\ UNCHANGED <<attempt, asked, answers, vote>>
      /\ task' = [s \in Server |-> IF s \in target THEN "send" ELSE "done"]
  BY DEF Spawn
<1>2. Voters' = Voters /\ (Majority' <=> Majority) /\ Voters = {} /\ source = "none"
  BY <1>1, SameVotes DEF PlaceInv
<1>3. TypeOK'
  BY <1>1 DEF TypeOK
<1>4. PlaceInv'
  BY <1>1, <1>2 DEF PlaceInv, TypeOK
<1>5. VotesAuthentic'
  BY <1>2 DEF VotesAuthentic
<1>6. ClockCurrent' /\ ShutdownHasCause'
  BY <1>1, <1>2 DEF ClockCurrent, ShutdownHasCause, Majority, PlaceInv
<1>7. QED
  BY <1>3, <1>4, <1>5, <1>6

\* A datagram that verifies for a server that does not lie was signed in this query,
\* or dates itself into a delegation that has ended.
LEMMA Authentic ==
  ASSUME TimeInv, NEW s \in Server \cap Honest, pc = "join",
         NEW m \in Arriving(s), verify_roughtime_response(m, s)
  PROVE  m.midp <= Leaked \/ m.midp \in begun..now
<1>1. s # NoKey
  BY TimeAssumption DEF Server, NoKey
<1>2. answers[s] \subseteq begun..now
  BY DEF TimeInv, PlaceInv
<1>3. m.key = s /\ m.midp <= m.dele.maxt /\ m.fresh
  BY DEF verify_roughtime_response
<1>4. CASE m \in [key : {s}, dele : {Unlimited}, fresh : {TRUE}, midp : answers[s]]
  BY <1>2, <1>4
<1>5. CASE m \in [key : {s}, dele : {Unlimited}, fresh : {FALSE}, midp : 0..now]
  BY <1>3, <1>5
<1>6. CASE m \in [key : {s}, dele : {Expired}, fresh : {TRUE}, midp : U64]
  <2>1. m.dele = Expired
    BY <1>6
  <2>2. QED
    BY <1>3, <2>1 DEF Expired
<1>7. CASE m \in [key : {s} \ Honest, dele : {Unlimited}, fresh : {TRUE}, midp : U64]
  BY <1>7
<1>8. CASE m \in [key : {NoKey}, dele : {Unlimited}, fresh : {TRUE}, midp : U64]
  BY <1>1, <1>3, <1>8
<1>9. QED
  BY <1>4, <1>5, <1>6, <1>7, <1>8 DEF Arriving

\* Whatever arrives carries a u64.
LEMMA ArrivingType ==
  ASSUME TypeOK, NEW s \in Server, NEW m \in Arriving(s)
  PROVE  m.midp \in U64
<1>1. answers[s] \subseteq U64 /\ 0..now \subseteq U64
  BY TimeAssumption DEF TypeOK, U64
<1>2. QED
  BY <1>1 DEF Arriving

\* A step of a query.
LEMMA QueryKeeps ==
  ASSUME TimeInv, NEW s \in Server, Query(s)
  PROVE  TimeInv'
<1> USE TimeAssumption DEF TimeInv
<1>1. /\ task[s] \in Running
      /\ \E to \in {"send", "recv", "pause", "done"} : task' = [task EXCEPT ![s] = to]
      /\ UNCHANGED <<now, main, answers>>
  BY DEF Query, OwnStep, BindFails, Send, SendFails, Receive, ReceiveFails, Retry, Moves, Running
<1>2. /\ UNCHANGED <<now, pc, next, target, begun, midpoint, source, clock, halt, answers>>
      /\ pc = "join" /\ source = "none" /\ halt = "none"
  BY <1>1 DEF main, PlaceInv
<1>3. attempt' \in [Server -> 1..MaxSends] /\ asked' \subseteq Server
  BY DEF Query, OwnStep, BindFails, Send, SendFails, Receive, ReceiveFails, Retry, TypeOK
<1>4. \/ vote' = vote
      \/ \E m \in Arriving(s) : /\ verify_roughtime_response(m, s)
                                /\ vote' = [vote EXCEPT ![s] = m.midp]
  BY DEF Query, OwnStep, BindFails, Send, SendFails, Receive, ReceiveFails, Retry
<1>5. TypeOK'
  <2>1. vote' \in [Server -> U64 \cup {NoVote}]
    BY <1>4, ArrivingType DEF TypeOK
  <2>2. task' \in [Server -> {"idle", "send", "recv", "pause", "done"}]
    BY <1>1 DEF TypeOK
  <2>3. QED
    BY <1>2, <1>3, <2>1, <2>2 DEF TypeOK
<1>6. PlaceInv'
  BY <1>2 DEF PlaceInv
<1>7. VotesAuthentic'
  <2>1. CASE vote' = vote
    BY <1>2, <2>1 DEF VotesAuthentic, Voters
  <2>2. ASSUME NEW m \in Arriving(s), verify_roughtime_response(m, s),
               vote' = [vote EXCEPT ![s] = m.midp]
        PROVE  VotesAuthentic'
    <3>1. s \in Honest => m.midp <= Leaked \/ m.midp \in begun..now
      BY <1>2, <2>2, Authentic
    <3>2. \A u \in Server : vote'[u] = IF u = s THEN m.midp ELSE vote[u]
      BY <2>2 DEF TypeOK
    <3>3. QED
      BY <1>2, <3>1, <3>2 DEF VotesAuthentic, Voters
  <2>3. QED
    BY <1>4, <2>1, <2>2
<1>8. ClockCurrent' /\ ShutdownHasCause'
  BY <1>2 DEF ClockCurrent, ShutdownHasCause, Majority
<1>9. QED
  BY <1>5, <1>6, <1>7, <1>8

\* A server signs an answer.
LEMMA AnswerKeeps ==
  ASSUME TimeInv, NEW s \in Server, ServerAnswers(s)
  PROVE  TimeInv'
<1> USE TimeAssumption DEF TimeInv
<1>1. /\ UNCHANGED <<now, pc, next, target, begun, midpoint, source, clock, halt>>
      /\ UNCHANGED <<task, attempt, asked, vote>>
      /\ s \in asked
      /\ answers' = [answers EXCEPT ![s] = @ \cup {now}]
  BY DEF ServerAnswers, main
<1>2. Voters' = Voters /\ (Majority' <=> Majority)
  BY <1>1, SameVotes
<1>3. \A u \in Server : answers'[u] \subseteq answers[u] \cup {now}
  BY <1>1 DEF TypeOK
<1>4. TypeOK'
  BY <1>1 DEF TypeOK
<1>5. PlaceInv'
  <2>1. pc \notin {"resolve", "spawn"}
    BY <1>1 DEF PlaceInv
  <2>2. \A u \in Server : pc = "join" => answers'[u] \subseteq begun..now
    BY <1>3 DEF PlaceInv, TypeOK
  <2>3. QED
    BY <1>1, <1>2, <2>1, <2>2 DEF PlaceInv
<1>6. VotesAuthentic' /\ ClockCurrent' /\ ShutdownHasCause'
  BY <1>1, <1>2 DEF VotesAuthentic, ClockCurrent, ShutdownHasCause
<1>7. QED
  BY <1>4, <1>5, <1>6

\* The queries are joined and their median taken: here the majority decides.
LEMMA ConsensusKeeps ==
  ASSUME TimeInv, Consensus
  PROVE  TimeInv'
<1> USE TimeAssumption DEF TimeInv
<1>1. PICK order \in Sorted : Establish(Median(order), "roughtime")
  BY DEF Consensus
<1>2. /\ pc = "join" /\ pc' = "check" /\ source' = "roughtime" /\ Voters # {}
      /\ midpoint' = Median(order)
      /\ UNCHANGED <<now, begun, next, target, clock, halt>>
      /\ UNCHANGED <<task, attempt, asked, answers, vote>>
      /\ \A s \in Server : task[s] = "done"
  BY <1>1 DEF Consensus, AllJoined, Establish, tasks
<1>3. midpoint' \in U64
  BY <1>2, MedianType
<1>4. Voters' = Voters /\ Truthful' = Truthful
  BY <1>2 DEF Voters, Truthful
<1>5. TypeOK'
  BY <1>2, <1>3 DEF TypeOK
<1>6. PlaceInv'
  BY <1>2, <1>3, <1>4 DEF PlaceInv, Running
<1>7. VotesAuthentic'
  BY <1>2, <1>4 DEF VotesAuthentic
<1>8. ClockCurrent'
  <2>1. ASSUME Majority' PROVE midpoint' \in begun..now
    <3>1. 2 * Cardinality(Truthful) > Cardinality(Voters)
      BY <1>4, <2>1 DEF Majority
    <3>2. Truthful \in SUBSET Voters
      BY DEF Truthful
    <3>3. \A s \in Truthful : vote[s] \in begun..now
      <4>1. \A s \in Voters : vote[s] \in U64
        BY VotersFinite
      <4>2. QED
        BY <4>1 DEF Truthful, VotesAuthentic, U64
    <3>4. begun \in Nat /\ now \in Nat /\ 2 * now < Word
      BY DEF TypeOK
    <3>5. Median(order) \in begun..now
      BY <3>1, <3>2, <3>3, <3>4, MedianBracketed
    <3>6. QED
      BY <1>2, <3>5
  <2>2. QED
    BY <1>2, <2>1 DEF ClockCurrent
<1>9. ShutdownHasCause'
  BY <1>2 DEF ShutdownHasCause, PlaceInv
<1>10. QED
  BY <1>5, <1>6, <1>7, <1>8, <1>9

\* No votes: the fallback begins.
LEMMA NoConsensusKeeps ==
  ASSUME TimeInv, NoConsensus
  PROVE  TimeInv'
<1> USE TimeAssumption DEF TimeInv
<1>1. /\ pc = "join" /\ pc' = "fallback" /\ begun' = now /\ Voters = {}
      /\ UNCHANGED <<now, next, target, midpoint, source, clock, halt>>
      /\ UNCHANGED <<task, attempt, asked, answers, vote>>
      /\ \A s \in Server : task[s] = "done"
  BY DEF NoConsensus, AllJoined, tasks
<1>2. Voters' = Voters /\ source' = "none" /\ halt' = "none"
  BY <1>1, SameVotes DEF PlaceInv
<1>3. TypeOK'
  BY <1>1 DEF TypeOK
<1>4. PlaceInv'
  BY <1>1, <1>2 DEF PlaceInv, Running, TypeOK
<1>5. VotesAuthentic'
  BY <1>1, <1>2 DEF VotesAuthentic
<1>6. ClockCurrent' /\ ShutdownHasCause'
  BY <1>1, <1>2 DEF ClockCurrent, ShutdownHasCause, Majority
<1>7. QED
  BY <1>3, <1>4, <1>5, <1>6

\* The Date header stands in.
LEMMA FallbackKeeps ==
  ASSUME TimeInv, query_mullvad_secure_date
  PROVE  TimeInv'
<1> USE TimeAssumption DEF TimeInv
<1>1. /\ pc = "fallback" /\ pc' = "check" /\ source' = "tls"
      /\ midpoint' = (now \div Second) * Second
      /\ UNCHANGED <<now, begun, next, target, clock, halt>>
      /\ UNCHANGED <<task, attempt, asked, answers, vote>>
  BY DEF query_mullvad_secure_date, Establish, tasks
<1>2. Voters' = {} /\ Voters = {}
  BY <1>1 DEF Voters, PlaceInv
<1>3. /\ midpoint' \in Nat
      /\ midpoint' <= now
      /\ now - Second + 1 <= midpoint'
  <2>1. now \in Nat
    BY DEF TypeOK
  <2>2. /\ (now \div Second) * Second \in Nat
        /\ (now \div Second) * Second <= now
        /\ now - Second + 1 <= (now \div Second) * Second
    BY <2>1, WholeSeconds
  <2>3. QED
    BY <1>1, <2>2
<1>4. midpoint' \in U64 /\ midpoint' \in (begun - Second + 1)..now
  BY <1>3 DEF TypeOK, PlaceInv, U64
<1>5. TypeOK'
  BY <1>1, <1>4 DEF TypeOK
<1>6. PlaceInv'
  BY <1>1, <1>2, <1>4 DEF PlaceInv, Running
<1>7. VotesAuthentic'
  BY <1>2 DEF VotesAuthentic
<1>8. ClockCurrent' /\ ShutdownHasCause'
  BY <1>1, <1>4 DEF ClockCurrent, ShutdownHasCause, Majority, PlaceInv
<1>9. QED
  BY <1>5, <1>6, <1>7, <1>8

\* The established time is refused or set.
LEMMA CheckKeeps ==
  ASSUME TimeInv, NoTime \/ TimeBeforeFloor \/ SetClock \/ SetClockFails
  PROVE  TimeInv'
<1> USE TimeAssumption DEF TimeInv
<1>1. /\ UNCHANGED <<now, next, target, begun, midpoint, source>>
      /\ UNCHANGED <<task, attempt, asked, answers, vote>>
  BY DEF NoTime, TimeBeforeFloor, SetClock, SetClockFails, panic_shutdown, tasks
<1>2. \/ pc = "fallback" /\ pc' = "halted" /\ halt' = "no_time" /\ clock' = clock
      \/ /\ pc = "check" /\ midpoint < Floor
         /\ pc' = "halted" /\ halt' = "time_before_floor" /\ clock' = clock
      \/ /\ pc = "check" /\ midpoint >= Floor
         /\ pc' = "set" /\ halt' = halt /\ clock' = midpoint
      \/ pc = "check" /\ pc' = "halted" /\ halt' = "clock_settime" /\ clock' = clock
  BY DEF NoTime, TimeBeforeFloor, SetClock, SetClockFails, panic_shutdown
<1>3. Voters' = Voters /\ (Majority' <=> Majority)
  BY <1>1, SameVotes
<1>4. TypeOK'
  BY <1>1, <1>2 DEF TypeOK, Final, PlaceInv
<1>5. PlaceInv'
  BY <1>1, <1>2, <1>3 DEF PlaceInv, Running
<1>6. VotesAuthentic'
  BY <1>1, <1>3 DEF VotesAuthentic
<1>7. ClockCurrent'
  BY <1>1, <1>2, <1>3 DEF ClockCurrent
<1>8. ShutdownHasCause'
  BY <1>1, <1>2, <1>3 DEF ShutdownHasCause, ClockCurrent, PlaceInv, TypeOK, U64
<1>9. QED
  BY <1>4, <1>5, <1>6, <1>7, <1>8

\* Time passes.
LEMMA TickKeeps ==
  ASSUME TimeInv, Tick
  PROVE  TimeInv'
<1> USE TimeAssumption DEF TimeInv
<1>1. /\ now' = now + 1 /\ now < MaxTime /\ pc # "set"
      /\ UNCHANGED <<pc, next, target, begun, midpoint, source, clock, halt>>
      /\ UNCHANGED <<task, attempt, asked, answers, vote>>
  BY DEF Tick, main, tasks, Final
<1>2. Voters' = Voters /\ (Majority' <=> Majority)
  BY <1>1, SameVotes
<1>3. TypeOK'
  BY <1>1 DEF TypeOK
<1>4. \A a \in Int : a..now \subseteq a..now'
  BY <1>1 DEF TypeOK
<1>5. begun \in Int /\ begun - Second + 1 \in Int /\ begun <= now'
  BY <1>1 DEF TypeOK, PlaceInv
<1>6. PlaceInv'
  BY <1>1, <1>2, <1>4, <1>5 DEF PlaceInv
<1>7. VotesAuthentic'
  BY <1>1, <1>2, <1>4, <1>5 DEF VotesAuthentic
<1>8. ClockCurrent' /\ ShutdownHasCause'
  BY <1>1, <1>2, <1>4, <1>5 DEF ClockCurrent, ShutdownHasCause
<1>9. QED
  BY <1>3, <1>6, <1>7, <1>8

\* Every step keeps the invariant.
LEMMA TimeStep == TimeInv /\ [Next]_vars => TimeInv'
<1> SUFFICES ASSUME TimeInv, [Next]_vars PROVE TimeInv'
  OBVIOUS
<1>1. CASE Main
  BY <1>1, ResolveKeeps, SpawnKeeps, ConsensusKeeps, NoConsensusKeeps,
     FallbackKeeps, CheckKeeps DEF Main
<1>2. ASSUME NEW s \in Server, Query(s) \/ ServerAnswers(s) PROVE TimeInv'
  BY <1>2, QueryKeeps, AnswerKeeps
<1>3. CASE Tick
  BY <1>3, TickKeeps
<1>4. CASE Finished \/ UNCHANGED vars
  <2>1. UNCHANGED <<now, pc, next, target, begun, midpoint, source, clock, halt,
                    task, attempt, asked, answers, vote>>
    BY <1>4 DEF Finished, vars, main, tasks
  <2>2. Voters' = Voters /\ (Majority' <=> Majority)
    BY <2>1, SameVotes
  <2>3. TypeOK' /\ PlaceInv'
    BY <2>1, <2>2 DEF TimeInv, TypeOK, PlaceInv
  <2>4. VotesAuthentic' /\ ClockCurrent' /\ ShutdownHasCause'
    BY <2>1, <2>2 DEF TimeInv, VotesAuthentic, ClockCurrent, ShutdownHasCause
  <2>5. QED
    BY <2>3, <2>4 DEF TimeInv
<1>5. QED
  BY <1>1, <1>2, <1>3, <1>4 DEF Next

\* The invariant holds throughout synchronisation.
THEOREM TimeInvariant == Spec => []TimeInv
<1>1. QED
  BY TimeInit, TimeStep, PTL DEF Spec

\* Type correctness, for any number of servers and attempts.
THEOREM TimeTypeCorrect == Spec => []TypeOK
<1>1. TimeInv => TypeOK
  BY DEF TimeInv
<1>2. QED
  BY <1>1, TimeInvariant, PTL

\* A midpoint accepted from a server that does not lie was signed during the query or
\* dates itself into an ended delegation (the nonce, key and interval checks together).
THEOREM VotesAuthenticAlways == Spec => []VotesAuthentic
<1>1. TimeInv => VotesAuthentic
  BY DEF TimeInv
<1>2. QED
  BY <1>1, TimeInvariant, PTL

\* With most accepted midpoints true, the time taken over by main() is current.
THEOREM ClockCurrentAlways == Spec => []ClockCurrent
<1>1. TimeInv => ClockCurrent
  BY DEF TimeInv
<1>2. QED
  BY <1>1, TimeInvariant, PTL

\* Synchronisation does not refuse a boot in which most accepted midpoints are true.
THEOREM ShutdownHasCauseAlways == Spec => []ShutdownHasCause
<1>1. TimeInv => ShutdownHasCause
  BY DEF TimeInv
<1>2. QED
  BY <1>1, TimeInvariant, PTL

-----------------------------------------------------------------------------
(* The time step of Loader.                                                *)

\* Steps on the way to a time, and a query's own, are none of Loader's.
LEMMA OnTheWay ==
  ASSUME UNCHANGED <<clock, halt>>,
         pc' = pc \/ {pc, pc'} \subseteq {"resolve", "spawn", "join", "fallback", "check"}
  PROVE  UNCHANGED Boot!vars
  BY DEF Boot!vars, Boot!power, Boot!control, Boot!fs, Boot!memory, Boot!procs

\* A shutdown for want of a time stops Loader where it stops main().
LEMMA RefusalStopsBoot ==
  ASSUME NEW reason \in {"no_time", "time_before_floor", "clock_settime"},
         pc \in {"fallback", "check"}, panic_shutdown(reason)
  PROVE  Boot!TimeFails
<1>1. /\ pc' = "halted" /\ halt' = reason /\ UNCHANGED clock
      /\ reason \in Boot!TimeFailure
  BY DEF panic_shutdown, Boot!TimeFailure
<1>2. Boot!At("time")
  BY DEF Boot!At
<1>3. Boot!panic_shutdown(reason)
  BY <1>1 DEF Boot!panic_shutdown, Boot!control, Boot!fs, Boot!memory, Boot!procs
<1> QED
  BY <1>1, <1>2, <1>3 DEF Boot!TimeFails

LEMMA MainStepsBoot ==
  ASSUME TimeInv, Main
  PROVE  [Boot!SetClock \/ Boot!TimeFails \/ Boot!ResolverStalls]_(Boot!vars)
<1>1. CASE \/ Resolved \/ ResolveFails \/ Spawn \/ Consensus \/ NoConsensus
           \/ query_mullvad_secure_date
  <2>1. UNCHANGED <<clock, halt>>
    BY <1>1 DEF Resolved, ResolveFails, Resolving, Spawn, Consensus, NoConsensus,
       query_mullvad_secure_date, Establish
  <2>2. {pc, pc'} \subseteq {"resolve", "spawn", "join", "fallback", "check"}
    BY <1>1 DEF Resolved, ResolveFails, Resolving, Spawn, Consensus, NoConsensus,
       query_mullvad_secure_date, Establish, AllJoined
  <2> QED
    BY <2>1, <2>2, OnTheWay
<1>2. CASE NoTime \/ TimeBeforeFloor \/ SetClockFails
  BY <1>2, RefusalStopsBoot DEF NoTime, TimeBeforeFloor, SetClockFails
<1>3. CASE ResolverStalls
  <2>1. /\ pc \in {"resolve", "fallback"} /\ pc' = "stalled"
        /\ UNCHANGED <<clock, halt>>
    BY <1>3 DEF ResolverStalls
  <2>2. Boot!ResolverStalls
    BY <2>1 DEF Boot!ResolverStalls, Boot!At, Boot!Goto, Boot!power, Boot!fs, Boot!memory,
       Boot!procs
  <2> QED
    BY <2>2
<1>4. CASE SetClock
  <2>1. /\ pc = "check" /\ pc' = "set" /\ UNCHANGED halt
        /\ clock' = midpoint /\ midpoint >= Floor
    BY <1>4 DEF SetClock
  <2>2. midpoint \in 0..(Word - 1)
    BY <2>1, TimeAssumption DEF TimeInv, TypeOK, U64, Unset
  <2>3. Boot!SetClock
    BY <2>1, <2>2 DEF Boot!SetClock, Boot!At, Boot!Goto, Boot!power, Boot!fs, Boot!memory,
       Boot!procs
  <2> QED
    BY <2>3
<1> QED
  BY <1>1, <1>2, <1>3, <1>4 DEF Main

\* Synchronisation does to the boot what Loader lets its time step do: it sets the clock
\* to a time at or after the floor and goes on, stops the VM for a reason Loader knows, or
\* stalls, and does so once.
THEOREM TimeStepImplemented == Spec => ImplementsTimeStep
<1>1. Init => Boot!At("time")
  BY DEF Init, Boot!At
<1>2. ASSUME TimeInv, [Next]_vars
      PROVE  [Boot!SetClock \/ Boot!TimeFails \/ Boot!ResolverStalls]_(Boot!vars)
  <2>1. CASE Main
    BY <1>2, <2>1, MainStepsBoot
  <2>2. CASE (\E s \in Server : Query(s) \/ ServerAnswers(s)) \/ Tick \/ Finished
             \/ UNCHANGED vars
    <3>1. UNCHANGED <<pc, clock, halt>>
      BY <2>2 DEF Query, OwnStep, BindFails, Send, SendFails, Receive, ReceiveFails, Retry,
         Moves, ServerAnswers, Tick, Finished, vars, main
    <3> QED
      BY <3>1, OnTheWay
  <2> QED
    BY <1>2, <2>1, <2>2 DEF Next
<1> QED
  BY <1>1, <1>2, TimeInvariant, PTL DEF Spec, ImplementsTimeStep
=============================================================================
