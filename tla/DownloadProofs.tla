--------------------------- MODULE DownloadProofs ---------------------------
(***************************************************************************)
(* TLAPS proofs about Download, for every number of attempts, every limit  *)
(* and bodies of every size.                                               *)
(***************************************************************************)
EXTENDS Download, SequenceTheorems, TLAPS

\* The bytes a server can send.
Byte == [attempt : 1..MaxAttempts, at : 1..MaxBody]

-----------------------------------------------------------------------------
(* Pieces of a body.                                                       *)

\* A piece is a sequence of bytes of its attempt, as long as its bounds say.
LEMMA SliceFacts ==
  ASSUME NEW a \in 1..MaxAttempts, NEW k \in Nat, NEW n \in 0..MaxBody, k <= n
  PROVE  /\ Slice(a, k, n) \in Seq(Byte)
         /\ Len(Slice(a, k, n)) = n - k
         /\ \A i \in 1..(n - k) : Slice(a, k, n)[i] = [attempt |-> a, at |-> k + i]
<1> DEFINE S == Slice(a, k, n)
           m == n - k
<1>1. m \in Nat
  BY DownloadAssumption
<1>2. \A i \in 1..m : [attempt |-> a, at |-> k + i] \in Byte
  <2> SUFFICES ASSUME NEW i \in 1..m
               PROVE  [attempt |-> a, at |-> k + i] \in Byte
    OBVIOUS
  <2>1. k + i \in 1..MaxBody
    BY DownloadAssumption
  <2> QED
    BY <2>1 DEF Byte
<1>3. S = [i \in 1..m |-> [attempt |-> a, at |-> k + i]]
  BY DEF Slice
<1>4. S \in [1..m -> Byte] /\ DOMAIN S = 1..m
  <2> HIDE DEF m, S
  <2> QED
    BY <1>2, <1>3
<1>5. \A i \in 1..m : S[i] = [attempt |-> a, at |-> k + i]
  <2> HIDE DEF m, S
  <2> QED
    BY <1>3
<1>6. S \in Seq(Byte)
  <2> HIDE DEF m, S
  <2> QED
    BY <1>1, <1>4
<1>7. Len(S) = m
  <2> HIDE DEF m, S
  <2>1. Len(S) \in Nat /\ 1..Len(S) = 1..m
    BY <1>4, <1>6, LenProperties
  <2>2. ~(Len(S) > m)
    <3>1. Len(S) > m => Len(S) \in 1..Len(S) /\ Len(S) \notin 1..m
      BY <1>1, <2>1
    <3> QED
      BY <2>1, <3>1
  <2>3. ~(m > Len(S))
    <3>1. m > Len(S) => m \in 1..m /\ m \notin 1..Len(S)
      BY <1>1, <2>1
    <3> QED
      BY <2>1, <3>1
  <2> QED
    BY <2>1, <2>2, <2>3, <1>1
<1> QED
  BY <1>5, <1>6, <1>7

\* The next piece appended to what has arrived is what has arrived then.
LEMMA SlicesJoin ==
  ASSUME NEW a \in 1..MaxAttempts, NEW k \in Nat, NEW n \in 0..MaxBody, k <= n
  PROVE  Body(a, k) \o Slice(a, k, n) = Body(a, n)
<1> DEFINE s == Slice(a, 0, k)
           t == Slice(a, k, n)
           w == Slice(a, 0, n)
<1>1. k \in 0..MaxBody /\ n - k \in Nat /\ n \in Nat /\ 0 <= n /\ 0 <= k /\ k - 0 = k /\ n - 0 = n
  BY DownloadAssumption
<1>2. /\ s \in Seq(Byte) /\ Len(s) = k
      /\ \A i \in 1..k : s[i] = [attempt |-> a, at |-> 0 + i]
  BY <1>1, SliceFacts
<1>3. /\ t \in Seq(Byte) /\ Len(t) = n - k
      /\ \A i \in 1..(n - k) : t[i] = [attempt |-> a, at |-> k + i]
  BY <1>1, SliceFacts
<1>4. /\ w \in Seq(Byte) /\ Len(w) = n
      /\ \A i \in 1..n : w[i] = [attempt |-> a, at |-> 0 + i]
  BY <1>1, SliceFacts
<1> HIDE DEF s, t, w
<1>5. /\ s \o t \in Seq(Byte)
      /\ Len(s \o t) = Len(s) + Len(t)
      /\ \A i \in 1..(Len(s) + Len(t)) :
           (s \o t)[i] = IF i <= Len(s) THEN s[i] ELSE t[i - Len(s)]
  BY <1>2, <1>3, ConcatProperties
<1>6. Len(s \o t) = n
  BY <1>1, <1>2, <1>3, <1>5
<1>7. ASSUME NEW i \in 1..n
      PROVE  (s \o t)[i] = w[i]
  <2>1. (s \o t)[i] = IF i <= k THEN s[i] ELSE t[i - k]
    BY <1>1, <1>2, <1>3, <1>5
  <2>2. w[i] = [attempt |-> a, at |-> i]
    BY <1>1, <1>4
  <2>3. CASE i <= k
    BY <2>1, <2>2, <2>3, <1>1, <1>2
  <2>4. CASE ~(i <= k)
    <3>1. i - k \in 1..(n - k) /\ k + (i - k) = i
      BY <2>4, <1>1
    <3> QED
      BY <2>1, <2>2, <2>4, <3>1, <1>3
  <2> QED
    BY <2>3, <2>4
<1>8. s \o t = w
  BY <1>4, <1>5, <1>6, <1>7, SeqEqual
<1> QED
  BY <1>8 DEF s, t, w, Body

-----------------------------------------------------------------------------
(* The invariant.                                                          *)

\* What the loop knows: the vector holds what has arrived of this attempt's body, and every
\* attempt before this one has failed.
BytesArrived ==
  /\ pc = "body" => bytes = Body(attempt, sent)
  /\ pc = "returned" => sent = size /\ bytes = Body(attempt, sent) /\ bytes # <<>>

Failed(a) == \E c \in causes : c.attempt = a

AttemptsFailed ==
  /\ \A a \in 1..(attempt - 1) : Failed(a)
  /\ pc = "shutdown" => attempt = MaxAttempts /\ Failed(attempt)

IInv == TypeOK /\ BytesArrived /\ AttemptsFailed

LEMMA InitInvariant == Init => IInv
<1> SUFFICES ASSUME Init PROVE IInv
  OBVIOUS
<1>1. TypeOK
  BY DownloadAssumption DEF Init, TypeOK
<1> QED
  BY <1>1 DEF Init, IInv, BytesArrived, AttemptsFailed

\* An attempt that fails is remembered, whatever comes after it.
LEMMA NextAttemptInvariant ==
  ASSUME IInv, NEW why \in Why, NextAttempt(why),
         pc \in {"send", "body", "oversized"}
  PROVE  IInv'
<1> DEFINE c0 == [attempt |-> attempt, why |-> why]
<1>1. TypeOK
  BY DEF IInv
<1>2. attempt \in 1..MaxAttempts /\ c0 \in [attempt : 1..MaxAttempts, why : Why]
  BY <1>1 DEF TypeOK
<1>3. causes' = causes \cup {c0} /\ c0.attempt = attempt
  BY DEF NextAttempt
<1>4. \A a \in 1..attempt : \E c \in causes' : c.attempt = a
  <2>1. \A a \in 1..(attempt - 1) : \E c \in causes : c.attempt = a
    BY DEF IInv, AttemptsFailed, Failed
  <2>2. \A a \in 1..attempt : a = attempt \/ a \in 1..(attempt - 1)
    BY <1>2
  <2> HIDE DEF c0
  <2> QED
    BY <1>3, <2>1, <2>2
<1>5. TypeOK'
  <2>1. causes' \subseteq [attempt : 1..MaxAttempts, why : Why]
    BY <1>1, <1>2, <1>3 DEF TypeOK
  <2>2. attempt' \in 1..MaxAttempts
    BY <1>2, DownloadAssumption DEF NextAttempt
  <2>3. pc' \in {"send", "shutdown"} /\ UNCHANGED <<size, sent, bytes>>
    BY DEF NextAttempt
  <2> QED
    BY <1>1, <2>1, <2>2, <2>3 DEF TypeOK
<1>6. AttemptsFailed'
  <2>1. CASE attempt < MaxAttempts
    <3>1. pc' = "send" /\ attempt' = attempt + 1 /\ attempt' - 1 = attempt
      BY <1>2, <2>1 DEF NextAttempt
    <3> QED
      BY <1>4, <3>1 DEF AttemptsFailed, Failed
  <2>2. CASE ~(attempt < MaxAttempts)
    <3>1. attempt' = attempt /\ attempt = MaxAttempts
      BY <1>2, <2>2, DownloadAssumption DEF NextAttempt
    <3>2. attempt \in 1..attempt /\ \A a \in 1..(attempt - 1) : a \in 1..attempt
      BY <1>2
    <3> QED
      BY <1>4, <3>1, <3>2 DEF AttemptsFailed, Failed
  <2> QED
    BY <2>1, <2>2
<1>7. BytesArrived'
  BY DEF NextAttempt, BytesArrived
<1> QED
  BY <1>5, <1>6, <1>7 DEF IInv

LEMMA ChunkInvariant ==
  ASSUME IInv, NEW n \in 1..MaxBody, Chunk(n)
  PROVE  IInv'
<1>1. TypeOK /\ AttemptsFailed
  BY DEF IInv
<1>2. /\ attempt \in 1..MaxAttempts /\ sent \in Nat /\ size \in 0..MaxBody
      /\ n \in 0..size /\ n \in 0..MaxBody /\ sent <= n
      /\ sent' = n /\ size' = size /\ attempt' = attempt /\ causes' = causes
      /\ pc = "body" /\ pc' \in {"body", "oversized"}
  BY <1>1, DownloadAssumption DEF TypeOK, Chunk
<1>3. bytes = Body(attempt, sent)
  BY <1>2 DEF IInv, BytesArrived
<1>4. CASE pc' = "body"
  <2>1. bytes' = Body(attempt, n)
    <3>1. bytes' = bytes \o Slice(attempt, sent, n)
      BY <1>4 DEF Chunk
    <3> QED
      BY <1>2, <1>3, <3>1, SlicesJoin
  <2>2. bytes' \in Seq(Byte)
    BY <1>2, <2>1, SliceFacts DEF Body
  <2>3. TypeOK'
    BY <1>1, <1>2, <2>2 DEF TypeOK, Byte
  <2> QED
    BY <1>1, <1>2, <1>4, <2>1, <2>3 DEF IInv, BytesArrived, AttemptsFailed, Failed
<1>5. CASE pc' = "oversized"
  <2>1. bytes' = bytes
    BY <1>5 DEF Chunk
  <2>2. TypeOK'
    BY <1>1, <1>2, <2>1 DEF TypeOK
  <2> QED
    BY <1>1, <1>2, <1>5, <2>2 DEF IInv, BytesArrived, AttemptsFailed, Failed
<1> QED
  BY <1>2, <1>4, <1>5

LEMMA NextInvariant == IInv /\ [Next]_vars => IInv'
<1> SUFFICES ASSUME IInv, [Next]_vars PROVE IInv'
  OBVIOUS
<1>1. TypeOK /\ AttemptsFailed
  BY DEF IInv
<1>2. CASE SendFails
  BY <1>2, NextAttemptInvariant DEF SendFails, Why
<1>3. CASE BadStatus
  BY <1>3, NextAttemptInvariant DEF BadStatus, Why
<1>4. CASE ResponseHead
  <2>1. bytes' = Body(attempt', sent')
    <3>1. attempt \in 1..MaxAttempts /\ 0 \in Nat /\ 0 \in 0..MaxBody /\ 0 <= 0 /\ 0 - 0 = 0
      BY <1>1, DownloadAssumption DEF TypeOK
    <3>2. Slice(attempt, 0, 0) \in Seq(Byte) /\ Len(Slice(attempt, 0, 0)) = 0
      BY <3>1, SliceFacts
    <3>3. Slice(attempt, 0, 0) = <<>>
      BY <3>2, EmptySeq
    <3> QED
      BY <1>4, <3>3 DEF ResponseHead, Body
  <2>2. TypeOK'
    BY <1>1, <1>4, DownloadAssumption DEF TypeOK, ResponseHead
  <2> QED
    BY <1>1, <1>4, <2>1, <2>2 DEF ResponseHead, IInv, BytesArrived, AttemptsFailed, Failed
<1>5. CASE \E n \in 1..MaxBody : Chunk(n)
  BY <1>5, ChunkInvariant
<1>6. CASE Oversized
  BY <1>6, NextAttemptInvariant DEF Oversized, Why
<1>7. CASE ReadFails
  BY <1>7, NextAttemptInvariant DEF ReadFails, Why
<1>8. CASE Empty
  BY <1>8, NextAttemptInvariant DEF Empty, Why
<1>9. CASE Complete
  <2>1. TypeOK'
    BY <1>1, <1>9 DEF TypeOK, Complete
  <2> QED
    BY <1>9, <2>1 DEF Complete, IInv, BytesArrived, AttemptsFailed, Failed
<1>10. CASE UNCHANGED vars
  BY <1>10 DEF vars, IInv, TypeOK, BytesArrived, AttemptsFailed, Failed
<1> QED
  BY <1>2, <1>3, <1>4, <1>5, <1>6, <1>7, <1>8, <1>9, <1>10 DEF Next, Finished

\* The loop keeps its invariant, whatever the server sends and wherever it breaks off.
THEOREM InvariantHolds == Spec => []IInv
BY InitInvariant, NextInvariant, PTL DEF Spec

\* No chunk is appended that would make the vector longer than the limit.
WithinLimit == Len(bytes) <= Limit

LEMMA NextWithinLimit == IInv /\ WithinLimit /\ [Next]_vars => WithinLimit'
<1> SUFFICES ASSUME IInv, WithinLimit, [Next]_vars PROVE WithinLimit'
  OBVIOUS
<1>1. ASSUME NEW n \in 1..MaxBody, Chunk(n)
      PROVE  WithinLimit'
  <2>1. CASE Len(bytes) + (n - sent) > Limit
    BY <1>1, <2>1 DEF Chunk, WithinLimit
  <2>2. CASE ~(Len(bytes) + (n - sent) > Limit)
    <3>1. /\ attempt \in 1..MaxAttempts /\ sent \in Nat /\ n \in 0..MaxBody /\ sent <= n
          /\ bytes \in Seq(Byte)
      BY <1>1, DownloadAssumption DEF IInv, TypeOK, Chunk, Byte
    <3>2. Slice(attempt, sent, n) \in Seq(Byte) /\ Len(Slice(attempt, sent, n)) = n - sent
      BY <3>1, SliceFacts
    <3>3. bytes' = bytes \o Slice(attempt, sent, n)
      BY <1>1, <2>2 DEF Chunk
    <3>4. Len(bytes') = Len(bytes) + (n - sent)
      BY <3>1, <3>2, <3>3, ConcatProperties
    <3>5. Len(bytes) \in Nat /\ n - sent \in Int /\ Limit \in Nat
      BY <3>1, DownloadAssumption, LenProperties
    <3> QED
      BY <2>2, <3>4, <3>5 DEF WithinLimit
  <2> QED
    BY <2>1, <2>2
<1>2. CASE ResponseHead
  <2>1. bytes' = <<>> /\ Len(bytes') = 0
    BY <1>2 DEF ResponseHead
  <2> QED
    BY <2>1, DownloadAssumption DEF WithinLimit
<1>3. CASE bytes' = bytes
  BY <1>3 DEF WithinLimit
<1> QED
  BY <1>1, <1>2, <1>3 DEF Next, SendFails, BadStatus, Oversized, ReadFails, Empty, Complete,
     NextAttempt, Finished, vars

LEMMA LimitHolds == Spec => []WithinLimit
<1>1. Init => WithinLimit
  BY DownloadAssumption DEF Init, WithinLimit
<1> QED
  BY <1>1, NextWithinLimit, InvariantHolds, PTL DEF Spec

-----------------------------------------------------------------------------
(* The theorems.                                                           *)

\* Every variable of download_with_retry keeps its type.
THEOREM TypeCorrect == Spec => []TypeOK
<1>1. IInv => TypeOK
  BY DEF IInv
<1> QED
  BY <1>1, InvariantHolds, PTL

\* What download_with_retry returns is the whole, non-empty body of its last attempt's
\* response: never a prefix, never bytes of two attempts; and its vector never holds more
\* than the limit.
THEOREM ReturnsWhole == Spec => []ReturnedWhole
<1>1. IInv /\ WithinLimit => ReturnedWhole
  <2> SUFFICES ASSUME IInv, WithinLimit, pc = "returned"
               PROVE  bytes = Body(attempt, size) /\ size > 0
    BY DEF ReturnedWhole, WithinLimit
  <2>1. sent = size /\ bytes = Body(attempt, sent) /\ bytes # <<>>
    BY DEF IInv, BytesArrived
  <2>2. attempt \in 1..MaxAttempts /\ size \in 0..MaxBody /\ 0 \in Nat /\ 0 <= size
    BY DownloadAssumption DEF IInv, TypeOK
  <2>3. Slice(attempt, 0, size) \in Seq(Byte) /\ Len(Slice(attempt, 0, size)) = size - 0
    BY <2>2, SliceFacts
  <2>4. size # 0
    <3>1. size = 0 => Len(bytes) = 0 /\ bytes \in Seq(Byte)
      BY <2>1, <2>2, <2>3 DEF Body
    <3> QED
      BY <2>1, <3>1, EmptySeq
  <2> QED
    BY <2>1, <2>2, <2>4, DownloadAssumption
<1> QED
  BY <1>1, InvariantHolds, LimitHolds, PTL

\* The VM is shut down only when each of the attempts has failed.
THEOREM GivesUpLast == Spec => []GivesUpAfterAll
<1>1. IInv => GivesUpAfterAll
  <2> SUFFICES ASSUME IInv, pc = "shutdown", NEW a \in 1..MaxAttempts
               PROVE  \E c \in causes : c.attempt = a
    BY DEF GivesUpAfterAll
  <2>1. attempt = MaxAttempts /\ Failed(attempt) /\ \A b \in 1..(attempt - 1) : Failed(b)
    BY DEF IInv, AttemptsFailed
  <2>2. a = attempt \/ a \in 1..(attempt - 1)
    BY <2>1, DownloadAssumption
  <2> QED
    BY <2>1, <2>2 DEF Failed
<1> QED
  BY <1>1, InvariantHolds, PTL
=============================================================================
