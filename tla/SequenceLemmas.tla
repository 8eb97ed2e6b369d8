--------------------------- MODULE SequenceLemmas ---------------------------
(***************************************************************************)
(* What the proofs about wire formats need to know of sequences: induction *)
(* over the numbers, and where in a flattened or concatenated sequence its *)
(* parts are.                                                              *)
(***************************************************************************)
EXTENDS Integers, SequencesExt, SequenceTheorems, WellFoundedInduction, TLAPS

-----------------------------------------------------------------------------
(* Induction: the least number outside of a set.                           *)

LEMMA InductionSet ==
  ASSUME NEW S, 0 \in S, \A n \in Nat : n \in S => n + 1 \in S
  PROVE  Nat \subseteq S
<1> DEFINE T == {n \in Nat : n \notin S}
<1>1. SUFFICES ASSUME T # {} PROVE FALSE
  OBVIOUS
<1>2. T \subseteq Nat
  OBVIOUS
<1> HIDE DEF T
<1>3. PICK x \in T : \A y \in T : ~(<<y, x>> \in OpToRel(<, Nat))
  BY <1>1, <1>2, NatLessThanWellFounded, WFMin
<1>4. x \in Nat /\ x \notin S /\ x # 0
  BY DEF T
<1>5. x - 1 \in Nat /\ x - 1 < x /\ x - 1 + 1 = x
  BY <1>4
<1>6. x - 1 \in S
  <2>1. x - 1 \in T => <<x - 1, x>> \in OpToRel(<, Nat)
    BY <1>4, <1>5 DEF OpToRel
  <2>2. QED
    BY <1>3, <1>5, <2>1 DEF T
<1>7. QED
  BY <1>4, <1>5, <1>6

-----------------------------------------------------------------------------
(* Flattening.                                                             *)

\* The equation that defines FlattenSeq, for the first n of the sequences ss.
Flattens(f, ss, n) ==
  f = [j \in 1..n |-> IF j = 1 THEN ss[j] ELSE f[j - 1] \o ss[j]]

LEMMA FlattensAt ==
  ASSUME NEW f, NEW ss, NEW n, Flattens(f, ss, n)
  PROVE  \A j \in 1..n : f[j] = IF j = 1 THEN ss[j] ELSE f[j - 1] \o ss[j]
<1> DEFINE h == [j \in 1..n |-> IF j = 1 THEN ss[j] ELSE f[j - 1] \o ss[j]]
<1>1. \A j \in 1..n : h[j] = IF j = 1 THEN ss[j] ELSE f[j - 1] \o ss[j]
  OBVIOUS
<1>2. f = h
  BY DEF Flattens
<1> HIDE DEF h
<1>3. QED
  BY <1>1, <1>2

LEMMA FlattensExists ==
  ASSUME NEW ss
  PROVE  \A n \in Nat : n >= 1 => \E f : Flattens(f, ss, n)
<1> DEFINE S == {n \in Nat : n >= 1 => \E f : Flattens(f, ss, n)}
<1>1. 0 \in S
  OBVIOUS
<1>2. ASSUME NEW n \in Nat, n \in S PROVE n + 1 \in S
  <2>1. CASE n = 0
    <3> DEFINE f == [j \in 1..1 |-> ss[j]]
    <3>1. f = [j \in 1..1 |-> IF j = 1 THEN ss[j] ELSE f[j - 1] \o ss[j]]
      OBVIOUS
    <3> HIDE DEF f
    <3>2. Flattens(f, ss, n + 1)
      BY <2>1, <3>1 DEF Flattens
    <3>3. QED
      BY <3>2
  <2>2. CASE n >= 1
    <3>1. PICK f : Flattens(f, ss, n)
      BY <1>2, <2>2
    <3> DEFINE g == [j \in 1..(n + 1) |-> IF j <= n THEN f[j] ELSE f[n] \o ss[n + 1]]
    <3>2. \A j \in 1..n : f[j] = IF j = 1 THEN ss[j] ELSE f[j - 1] \o ss[j]
      BY <3>1, FlattensAt
    <3>3. ASSUME NEW j \in 1..(n + 1)
          PROVE  g[j] = IF j = 1 THEN ss[j] ELSE g[j - 1] \o ss[j]
      <4>1. CASE j <= n
        <5>1. j \in 1..n /\ (j # 1 => j - 1 \in 1..n)
          BY <4>1
        <5>2. j # 1 => g[j - 1] = f[j - 1]
          BY <5>1
        <5>3. QED
          BY <4>1, <5>1, <5>2, <3>2
      <4>2. CASE j = n + 1
        BY <4>2, <2>2
      <4>3. QED
        BY <4>1, <4>2
    <3>4. g = [j \in 1..(n + 1) |-> IF j = 1 THEN ss[j] ELSE g[j - 1] \o ss[j]]
      <4>1. g = [j \in 1..(n + 1) |-> g[j]]
        OBVIOUS
      <4> HIDE DEF g
      <4>2. QED
        BY <4>1, <3>3
    <3> HIDE DEF g
    <3>5. Flattens(g, ss, n + 1)
      BY <3>4 DEF Flattens
    <3>6. QED
      BY <3>5
  <2>3. QED
    BY <2>1, <2>2
<1> HIDE DEF S
<1>3. Nat \subseteq S
  BY <1>1, <1>2, InductionSet
<1>4. QED
  BY <1>3 DEF S

LEMMA FlattensUnique ==
  ASSUME NEW ss, NEW m \in Nat, NEW n \in m..(m + 1), NEW f, NEW g,
         Flattens(f, ss, m), Flattens(g, ss, n)
  PROVE  \A j \in 1..m : f[j] = g[j]
<1> DEFINE S == {j \in Nat : j \in 1..m => f[j] = g[j]}
<1>1. 0 \in S
  OBVIOUS
<1>2. ASSUME NEW j \in Nat, j \in S PROVE j + 1 \in S
  <2>1. SUFFICES ASSUME j + 1 \in 1..m PROVE f[j + 1] = g[j + 1]
    OBVIOUS
  <2>2. f[j + 1] = IF j + 1 = 1 THEN ss[j + 1] ELSE f[j + 1 - 1] \o ss[j + 1]
    BY <2>1, FlattensAt
  <2>3. j + 1 \in 1..n
    BY <2>1
  <2>4. g[j + 1] = IF j + 1 = 1 THEN ss[j + 1] ELSE g[j + 1 - 1] \o ss[j + 1]
    BY <2>3, FlattensAt
  <2>5. j # 0 => f[j] = g[j]
    BY <1>2, <2>1
  <2>6. j + 1 - 1 = j /\ (j + 1 = 1 <=> j = 0)
    OBVIOUS
  <2>7. QED
    BY <2>2, <2>4, <2>5, <2>6
<1> HIDE DEF S
<1>3. Nat \subseteq S
  BY <1>1, <1>2, InductionSet
<1>4. QED
  BY <1>3 DEF S

\* The first n sequences of ss, flattened.
Upto(ss, n) == FlattenSeq(SubSeq(ss, 1, n))

LEMMA UptoFlattens ==
  ASSUME NEW T, NEW ss \in Seq(T), NEW n \in 1..Len(ss)
  PROVE  \E f : Flattens(f, ss, n) /\ Upto(ss, n) = f[n]
<1> DEFINE t == SubSeq(ss, 1, n)
<1>0. Len(ss) \in Nat /\ n \in Nat /\ n >= 1 /\ 1 \in Int /\ n \in Int /\ n - 1 + 1 = n
  BY LenProperties
<1>1. \A j \in 1..n : ss[j] \in T
  BY <1>0, ElementOfSeq
<1>2. Len(t) = n /\ \A j \in 1..n : t[j] = ss[j]
  <2>1. \A j \in 1..n : 1 + j - 1 = j
    BY <1>0
  <2>2. /\ Len(t) = n - 1 + 1
        /\ \A j \in 1..(n - 1 + 1) : t[j] = ss[1 + j - 1]
    BY <1>0, <1>1, SubSeqProperties
  <2>3. QED
    BY <2>1, <2>2, <1>0
<1> DEFINE F == CHOOSE f : f = [j \in 1..Len(t) |-> IF j = 1 THEN t[j] ELSE f[j - 1] \o t[j]]
<1>3. Upto(ss, n) = F[Len(t)]
  BY <1>0, <1>2 DEF Upto, FlattenSeq
<1> HIDE DEF t
<1>4. \E f : f = [j \in 1..Len(t) |-> IF j = 1 THEN t[j] ELSE f[j - 1] \o t[j]]
  BY <1>0, <1>2, FlattensExists DEF Flattens
<1>5. F = [j \in 1..Len(t) |-> IF j = 1 THEN t[j] ELSE F[j - 1] \o t[j]]
  BY <1>4
<1> HIDE DEF F
<1>6. F = [j \in 1..n |-> IF j = 1 THEN ss[j] ELSE F[j - 1] \o ss[j]]
  BY <1>5, <1>2
<1>7. QED
  BY <1>2, <1>3, <1>6 DEF Flattens

LEMMA UptoEmpty == ASSUME NEW ss PROVE Upto(ss, 0) = << >>
<1>1. SubSeq(ss, 1, 0) = << >>
  BY SubSeqEmpty
<1>2. QED
  BY <1>1, EmptySeq DEF Upto, FlattenSeq

LEMMA UptoStep ==
  ASSUME NEW T, NEW ss \in Seq(Seq(T)), NEW n \in 1..Len(ss)
  PROVE  Upto(ss, n) = Upto(ss, n - 1) \o ss[n]
<1>0. Len(ss) \in Nat /\ n \in Nat /\ n >= 1 /\ ss[n] \in Seq(T)
  BY LenProperties, ElementOfSeq
<1>1. PICK f : Flattens(f, ss, n) /\ Upto(ss, n) = f[n]
  BY UptoFlattens
<1>2. CASE n = 1
  <2>1. Upto(ss, n) = ss[n]
    <3>1. \A j \in 1..n : f[j] = IF j = 1 THEN ss[j] ELSE f[j - 1] \o ss[j]
      BY <1>1, FlattensAt
    <3>2. n \in 1..n
      BY <1>2
    <3>3. QED
      BY <1>1, <1>2, <3>1, <3>2
  <2>2. Upto(ss, n - 1) = << >>
    BY <1>2, UptoEmpty
  <2>3. QED
    BY <1>0, <2>1, <2>2, ConcatEmptySeq
<1>3. CASE n > 1
  <2>1. n - 1 \in 1..Len(ss) /\ n \in (n - 1)..(n - 1 + 1) /\ n - 1 \in Nat /\ n - 1 \in 1..(n - 1)
    BY <1>0, <1>3
  <2>2. PICK g : Flattens(g, ss, n - 1) /\ Upto(ss, n - 1) = g[n - 1]
    BY <2>1, UptoFlattens
  <2>3. g[n - 1] = f[n - 1]
    BY <1>1, <2>1, <2>2, FlattensUnique
  <2>4. f[n] = f[n - 1] \o ss[n]
    <3>1. \A j \in 1..n : f[j] = IF j = 1 THEN ss[j] ELSE f[j - 1] \o ss[j]
      BY <1>1, FlattensAt
    <3>2. n \in 1..n /\ n # 1
      BY <1>0, <1>3
    <3>3. QED
      BY <3>1, <3>2
  <2>5. QED
    BY <1>1, <2>2, <2>3, <2>4
<1>4. n = 1 \/ n > 1
  BY <1>0
<1>5. QED
  BY <1>2, <1>3, <1>4

LEMMA UptoType ==
  ASSUME NEW T, NEW ss \in Seq(Seq(T))
  PROVE  \A n \in 0..Len(ss) : Upto(ss, n) \in Seq(T)
<1> DEFINE S == {n \in Nat : n <= Len(ss) => Upto(ss, n) \in Seq(T)}
<1>0. Len(ss) \in Nat
  BY LenProperties
<1>1. 0 \in S
  BY UptoEmpty, EmptySeq
<1>2. ASSUME NEW n \in Nat, n \in S PROVE n + 1 \in S
  <2>1. SUFFICES ASSUME n + 1 <= Len(ss) PROVE Upto(ss, n + 1) \in Seq(T)
    OBVIOUS
  <2>2. n + 1 \in 1..Len(ss) /\ n + 1 - 1 = n /\ n <= Len(ss)
    BY <1>0, <2>1
  <2>3. Upto(ss, n) \in Seq(T) /\ ss[n + 1] \in Seq(T)
    BY <1>2, <2>2, ElementOfSeq
  <2>4. Upto(ss, n + 1) = Upto(ss, n) \o ss[n + 1]
    <3>1. \A m \in 1..Len(ss) : m - 1 = n => Upto(ss, m) = Upto(ss, n) \o ss[m]
      BY UptoStep
    <3>2. QED
      BY <2>2, <3>1
  <2>5. QED
    BY <2>3, <2>4, ConcatProperties
<1> HIDE DEF S
<1>3. Nat \subseteq S
  BY <1>1, <1>2, InductionSet
<1>4. QED
  BY <1>3 DEF S

\* What has been flattened stays in front.
LEMMA UptoPrefix ==
  ASSUME NEW T, NEW ss \in Seq(Seq(T)), NEW k \in 0..Len(ss)
  PROVE  \A n \in k..Len(ss) :
           /\ Len(Upto(ss, k)) <= Len(Upto(ss, n))
           /\ \A j \in 1..Len(Upto(ss, k)) : Upto(ss, n)[j] = Upto(ss, k)[j]
<1> DEFINE Q(n) == /\ Len(Upto(ss, k)) <= Len(Upto(ss, n))
                   /\ \A j \in 1..Len(Upto(ss, k)) : Upto(ss, n)[j] = Upto(ss, k)[j]
           S == {d \in Nat : k + d <= Len(ss) => Q(k + d)}
<1>0. Len(ss) \in Nat /\ k \in Nat /\ Upto(ss, k) \in Seq(T) /\ Len(Upto(ss, k)) \in Nat
  <2>1. Len(ss) \in Nat /\ k \in Nat
    BY LenProperties
  <2>2. Upto(ss, k) \in Seq(T)
    BY UptoType
  <2>3. QED
    BY <2>1, <2>2, LenProperties
<1>1. 0 \in S
  <2>1. k + 0 = k
    BY <1>0
  <2>2. Q(k)
    BY <1>0
  <2>3. QED
    BY <2>1, <2>2
<1>2. ASSUME NEW d \in Nat, d \in S PROVE d + 1 \in S
  <2> DEFINE n == k + d
  <2>1. SUFFICES ASSUME n + 1 <= Len(ss) PROVE Q(n + 1)
    <3>1. k + (d + 1) = n + 1
      BY <1>0
    <3>2. QED
      BY <3>1, <2>1
  <2>2. n \in Nat /\ n + 1 \in 1..Len(ss) /\ n + 1 - 1 = n /\ n \in 0..Len(ss)
    BY <1>0, <2>1
  <2>3. Q(n)
    BY <1>2, <2>2
  <2> HIDE DEF n
  <2>4. Upto(ss, n) \in Seq(T) /\ ss[n + 1] \in Seq(T)
    BY <2>2, UptoType, ElementOfSeq
  <2>5. Upto(ss, n + 1) = Upto(ss, n) \o ss[n + 1]
    <3>1. \A m \in 1..Len(ss) : m - 1 = n => Upto(ss, m) = Upto(ss, n) \o ss[m]
      BY UptoStep
    <3>2. QED
      BY <2>2, <3>1
  <2>6. Len(Upto(ss, n)) \in Nat /\ Len(ss[n + 1]) \in Nat
    BY <2>4, LenProperties
  <2>7. /\ Len(Upto(ss, n + 1)) = Len(Upto(ss, n)) + Len(ss[n + 1])
        /\ \A j \in 1..(Len(Upto(ss, n)) + Len(ss[n + 1])) :
             Upto(ss, n + 1)[j] =
               IF j <= Len(Upto(ss, n)) THEN Upto(ss, n)[j] ELSE ss[n + 1][j - Len(Upto(ss, n))]
    BY <2>4, <2>5, ConcatProperties
  <2>8. Len(Upto(ss, k)) <= Len(Upto(ss, n + 1))
    BY <1>0, <2>3, <2>6, <2>7
  <2>9. ASSUME NEW j \in 1..Len(Upto(ss, k))
        PROVE  Upto(ss, n + 1)[j] = Upto(ss, k)[j]
    <3>1. j \in 1..(Len(Upto(ss, n)) + Len(ss[n + 1])) /\ j <= Len(Upto(ss, n))
      BY <1>0, <2>3, <2>6
    <3>2. Upto(ss, n + 1)[j] = Upto(ss, n)[j]
      BY <2>7, <3>1
    <3>3. QED
      BY <2>3, <3>2
  <2>10. QED
    BY <2>8, <2>9
<1> HIDE DEF S
<1>3. Nat \subseteq S
  BY <1>1, <1>2, InductionSet
<1>4. ASSUME NEW n \in k..Len(ss) PROVE Q(n)
  <2>1. n - k \in Nat /\ k + (n - k) = n /\ n <= Len(ss)
    BY <1>0
  <2>2. QED
    BY <1>3, <2>1 DEF S
<1>5. QED
  BY <1>4

\* Each of the sequences is found again at its place.
LEMMA FlattenedAt ==
  ASSUME NEW T, NEW ss \in Seq(Seq(T)), NEW k \in 1..Len(ss)
  PROVE  /\ FlattenSeq(ss) \in Seq(T)
         /\ Len(Upto(ss, k)) = Len(Upto(ss, k - 1)) + Len(ss[k])
         /\ Len(Upto(ss, k)) <= Len(FlattenSeq(ss))
         /\ \A j \in 1..Len(ss[k]) : FlattenSeq(ss)[Len(Upto(ss, k - 1)) + j] = ss[k][j]
<1>1. Len(ss) \in Nat /\ k \in Nat /\ k - 1 \in 0..Len(ss) /\ k \in 0..Len(ss)
      /\ Len(ss) \in k..Len(ss) /\ Len(ss) \in 0..Len(ss)
  BY LenProperties
<1>2. FlattenSeq(ss) = Upto(ss, Len(ss))
  BY SubSeqFull DEF Upto
<1>3. Upto(ss, k - 1) \in Seq(T) /\ Upto(ss, Len(ss)) \in Seq(T) /\ ss[k] \in Seq(T)
  BY <1>1, UptoType, ElementOfSeq
<1>4. Upto(ss, k) = Upto(ss, k - 1) \o ss[k]
  BY UptoStep
<1>5. Len(Upto(ss, k - 1)) \in Nat /\ Len(ss[k]) \in Nat
  BY <1>3, LenProperties
<1> DEFINE u == Upto(ss, k - 1)
           s == ss[k]
<1>6. /\ Len(Upto(ss, k)) = Len(u) + Len(s)
      /\ \A j \in 1..(Len(u) + Len(s)) :
           Upto(ss, k)[j] = IF j <= Len(u) THEN u[j] ELSE s[j - Len(u)]
  <2>1. u \in Seq(T) /\ s \in Seq(T) /\ Upto(ss, k) = u \o s
    BY <1>3, <1>4
  <2> HIDE DEF u, s
  <2>2. QED
    BY <2>1, ConcatProperties
<1>7. /\ Len(Upto(ss, k)) <= Len(Upto(ss, Len(ss)))
      /\ \A j \in 1..Len(Upto(ss, k)) : Upto(ss, Len(ss))[j] = Upto(ss, k)[j]
  BY <1>1, UptoPrefix
<1>8. ASSUME NEW j \in 1..Len(ss[k])
      PROVE  FlattenSeq(ss)[Len(Upto(ss, k - 1)) + j] = ss[k][j]
  <2> DEFINE p == Len(Upto(ss, k - 1)) + j
  <2>1. p \in 1..(Len(Upto(ss, k - 1)) + Len(ss[k])) /\ ~(p <= Len(Upto(ss, k - 1)))
        /\ p - Len(Upto(ss, k - 1)) = j
    BY <1>5
  <2>2. QED
    BY <1>2, <1>6, <1>7, <2>1
<1>9. QED
  BY <1>2, <1>3, <1>6, <1>7, <1>8

-----------------------------------------------------------------------------
(* Functions as sequences, and concatenation.                              *)

LEMMA SameLength ==
  ASSUME NEW m \in Nat, NEW n \in Nat, 1..m = 1..n
  PROVE  m = n
<1>1. m # 0 => m \in 1..n
  <2>1. m # 0 => m \in 1..m
    OBVIOUS
  <2>2. QED
    BY <2>1
<1>2. n # 0 => n \in 1..m
  <2>1. n # 0 => n \in 1..n
    OBVIOUS
  <2>2. QED
    BY <2>1
<1>3. (m # 0 => m <= n) /\ (n # 0 => n <= m)
  BY <1>1, <1>2
<1>4. QED
  BY <1>3

LEMMA FunctionIsSeq ==
  ASSUME NEW n \in Nat, NEW S, NEW f \in [1..n -> S]
  PROVE  f \in Seq(S) /\ Len(f) = n
<1>1. f \in Seq(S)
  BY SeqDef
<1>2. Len(f) \in Nat /\ 1..Len(f) = 1..n
  BY <1>1, LenProperties
<1>3. QED
  BY <1>1, <1>2, SameLength

\* A concatenation is the one sequence and then the other.
LEMMA ConcatParts ==
  ASSUME NEW S, NEW s \in Seq(S), NEW t \in Seq(S)
  PROVE  /\ s \o t \in Seq(S) /\ Len(s \o t) = Len(s) + Len(t)
         /\ \A j \in 1..Len(s) : (s \o t)[j] = s[j]
         /\ \A k \in 1..Len(t) : (s \o t)[Len(s) + k] = t[k]
<1>1. Len(s) \in Nat /\ Len(t) \in Nat
  BY LenProperties
<1>2. /\ s \o t \in Seq(S)
      /\ Len(s \o t) = Len(s) + Len(t)
      /\ \A j \in 1..(Len(s) + Len(t)) :
           (s \o t)[j] = IF j <= Len(s) THEN s[j] ELSE t[j - Len(s)]
  BY ConcatProperties
<1>3. \A j \in 1..Len(s) : j \in 1..(Len(s) + Len(t)) /\ j <= Len(s)
  BY <1>1
<1>4. \A k \in 1..Len(t) : /\ Len(s) + k \in 1..(Len(s) + Len(t))
                            /\ ~(Len(s) + k <= Len(s)) /\ (Len(s) + k) - Len(s) = k
  BY <1>1
<1>5. QED
  BY <1>2, <1>3, <1>4

-----------------------------------------------------------------------------
(* Where the parts of a concatenation are.                                 *)

\* t is found in s behind the first p elements.
LiesAt(s, p, t) == p + Len(t) <= Len(s) /\ \A i \in 1..Len(t) : s[p + i] = t[i]

LEMMA ConcatLies ==
  ASSUME NEW S, NEW s \in Seq(S), NEW t \in Seq(S)
  PROVE  LiesAt(s \o t, 0, s) /\ LiesAt(s \o t, Len(s), t)
<1>1. Len(s) \in Nat /\ Len(t) \in Nat
  BY LenProperties
<1>2. /\ Len(s \o t) = Len(s) + Len(t)
      /\ \A j \in 1..Len(s) : (s \o t)[j] = s[j]
      /\ \A k \in 1..Len(t) : (s \o t)[Len(s) + k] = t[k]
  BY ConcatParts
<1>3. \A j \in 1..Len(s) : 0 + j = j
  BY <1>1
<1>4. 0 + Len(s) <= Len(s) + Len(t) /\ Len(s) + Len(t) <= Len(s) + Len(t)
  BY <1>1
<1>5. QED
  BY <1>2, <1>3, <1>4 DEF LiesAt

LEMMA LiesWithin ==
  ASSUME NEW S, NEW s \in Seq(S), NEW t \in Seq(S), NEW u \in Seq(S),
         NEW p \in Nat, NEW q \in Nat, LiesAt(s, p, t), LiesAt(t, q, u)
  PROVE  LiesAt(s, p + q, u)
<1>1. Len(s) \in Nat /\ Len(t) \in Nat /\ Len(u) \in Nat
  BY LenProperties
<1>2. p + Len(t) <= Len(s) /\ q + Len(u) <= Len(t)
  BY DEF LiesAt
<1>3. (p + q) + Len(u) <= Len(s)
  BY <1>1, <1>2
<1>4. ASSUME NEW i \in 1..Len(u) PROVE s[(p + q) + i] = u[i]
  <2>1. q + i \in 1..Len(t) /\ p + (q + i) = (p + q) + i
    BY <1>1, <1>2
  <2>2. t[q + i] = u[i] /\ s[p + (q + i)] = t[q + i]
    BY <2>1 DEF LiesAt
  <2>3. QED
    BY <2>1, <2>2
<1>5. QED
  BY <1>3, <1>4 DEF LiesAt

LEMMA FlattenedLies ==
  ASSUME NEW T, NEW ss \in Seq(Seq(T)), NEW k \in 1..Len(ss)
  PROVE  LiesAt(FlattenSeq(ss), Len(Upto(ss, k - 1)), ss[k])
<1>1. /\ Len(Upto(ss, k)) = Len(Upto(ss, k - 1)) + Len(ss[k])
      /\ Len(Upto(ss, k)) <= Len(FlattenSeq(ss))
      /\ \A j \in 1..Len(ss[k]) : FlattenSeq(ss)[Len(Upto(ss, k - 1)) + j] = ss[k][j]
  BY FlattenedAt
<1>2. QED
  BY <1>1 DEF LiesAt

\* A concatenation of five.
FiveParts(S, s, a, b, c, d, e) ==
  /\ a \in Seq(S) /\ b \in Seq(S) /\ c \in Seq(S) /\ d \in Seq(S) /\ e \in Seq(S)
  /\ s = a \o b \o c \o d \o e

LEMMA FiveLie ==
  ASSUME NEW S, NEW s, NEW a, NEW b, NEW c, NEW d, NEW e, FiveParts(S, s, a, b, c, d, e)
  PROVE  /\ s \in Seq(S) /\ Len(s) = Len(a) + Len(b) + Len(c) + Len(d) + Len(e)
         /\ LiesAt(s, 0, a) /\ LiesAt(s, Len(a), b)
         /\ LiesAt(s, Len(a) + Len(b) + Len(c), d)
         /\ LiesAt(s, Len(a) + Len(b) + Len(c) + Len(d), e)
<1>0. /\ a \in Seq(S) /\ b \in Seq(S) /\ c \in Seq(S) /\ d \in Seq(S) /\ e \in Seq(S)
      /\ s = a \o b \o c \o d \o e
  BY DEF FiveParts
<1> DEFINE ab == a \o b
           abc == ab \o c
           abcd == abc \o d
<1>1. Len(a) \in Nat /\ Len(b) \in Nat /\ Len(c) \in Nat /\ Len(d) \in Nat /\ Len(e) \in Nat
  BY <1>0, LenProperties
<1>2. /\ ab \in Seq(S) /\ Len(ab) = Len(a) + Len(b)
      /\ LiesAt(ab, 0, a) /\ LiesAt(ab, Len(a), b)
  BY <1>0, ConcatParts, ConcatLies
<1> HIDE DEF ab
<1>3. abc \in Seq(S) /\ Len(abc) = Len(ab) + Len(c) /\ LiesAt(abc, 0, ab)
  BY <1>0, <1>2, ConcatParts, ConcatLies
<1> HIDE DEF abc
<1>4. /\ abcd \in Seq(S) /\ Len(abcd) = Len(abc) + Len(d)
      /\ LiesAt(abcd, 0, abc) /\ LiesAt(abcd, Len(abc), d)
  BY <1>0, <1>3, ConcatParts, ConcatLies
<1>10. s = abcd \o e
  BY <1>0 DEF ab, abc, abcd
<1> HIDE DEF abcd
<1>5. /\ s \in Seq(S) /\ Len(s) = Len(abcd) + Len(e)
      /\ LiesAt(s, 0, abcd) /\ LiesAt(s, Len(abcd), e)
  BY <1>0, <1>4, <1>10, ConcatParts, ConcatLies
<1>6. /\ Len(abc) = Len(a) + Len(b) + Len(c) /\ Len(abc) \in Nat
      /\ Len(abcd) = Len(a) + Len(b) + Len(c) + Len(d) /\ Len(abcd) \in Nat
      /\ Len(s) = Len(a) + Len(b) + Len(c) + Len(d) + Len(e)
  BY <1>1, <1>2, <1>3, <1>4, <1>5
<1>7. LiesAt(abcd, 0, ab) /\ LiesAt(s, 0, ab)
  <2>1. LiesAt(abcd, 0 + 0, ab)
    BY <1>2, <1>3, <1>4, LiesWithin
  <2>2. LiesAt(abcd, 0, ab)
    BY <2>1
  <2>3. LiesAt(s, 0 + 0, ab)
    BY <1>2, <1>4, <1>5, <2>2, LiesWithin
  <2>4. QED
    BY <2>2, <2>3
<1>8. LiesAt(s, 0, a) /\ LiesAt(s, Len(a), b)
  <2>1. LiesAt(s, 0 + 0, a)
    BY <1>0, <1>2, <1>5, <1>7, LiesWithin
  <2>2. LiesAt(s, 0 + Len(a), b)
    BY <1>0, <1>1, <1>2, <1>5, <1>7, LiesWithin
  <2>3. 0 + Len(a) = Len(a)
    BY <1>1
  <2>4. QED
    BY <2>1, <2>2, <2>3
<1>9. LiesAt(s, Len(abc), d)
  <2>1. LiesAt(s, 0 + Len(abc), d)
    BY <1>0, <1>4, <1>5, <1>6, LiesWithin
  <2>2. 0 + Len(abc) = Len(abc)
    BY <1>6
  <2>3. QED
    BY <2>1, <2>2
<1>11. QED
  BY <1>5, <1>6, <1>8, <1>9

=============================================================================
