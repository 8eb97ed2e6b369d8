------------------------- MODULE TimeFormatProofs --------------------------
(***************************************************************************)
(* Proofs about TimeFormats, for messages, batches and calendars of any    *)
(* size: RtMessage::parse stays inside the packet and decodes what was     *)
(* encoded, a Merkle path proves the client's nonce and nothing else, and  *)
(* a date is converted to the seconds that have passed.  What recursive    *)
(* functions compute is proved by taking the least number outside of a     *)
(* set (InductionSet of SequenceLemmas).                                   *)
(***************************************************************************)
EXTENDS TimeFormats, SequenceLemmas

-----------------------------------------------------------------------------
(* The encoding.                                                           *)

\* Where the words of an encoded message are.
LEMMA EncodeAt ==
  ASSUME NEW m \in Messages
  PROVE  LET n == Len(m.tags)
             v == FlattenSeq(m.values) IN
         /\ n \in Nat /\ n >= 1 /\ v \in Seq(Nat)
         /\ Encode(m) \in Seq(Nat) /\ Len(Encode(m)) = 2 * n + Len(v)
         /\ Encode(m)[1] = n
         /\ \A k \in 1..(n - 1) : Encode(m)[1 + k] = Offset(m, k)
         /\ \A k \in 1..n : Encode(m)[n + k] = m.tags[k]
         /\ \A k \in 1..Len(v) : Encode(m)[2 * n + k] = v[k]
<1> DEFINE n == Len(m.tags)
           v == FlattenSeq(m.values)
           o == [k \in 1..(n - 1) |-> Offset(m, k)]
           a == <<n>> \o o
           t == m.tags
           b == a \o t
<1>1. m.tags \in Seq(Nat) /\ m.values \in Seq(Seq(Nat)) /\ Len(m.values) = n /\ n >= 1
  BY RtAssumption
<1>2. n \in Nat /\ n \in 1..n /\ n - 1 \in Nat
  BY <1>1, LenProperties
<1>3. v \in Seq(Nat) /\ Len(v) \in Nat
  <2>1. v \in Seq(Nat)
    BY <1>1, <1>2, FlattenedAt
  <2>2. QED
    BY <2>1, LenProperties
<1>4. \A k \in 1..(n - 1) : Offset(m, k) \in Nat
  <2>1. SUFFICES ASSUME NEW k \in 1..(n - 1) PROVE Offset(m, k) \in Nat
    OBVIOUS
  <2>2. Upto(m.values, k) \in Seq(Nat)
    <3>1. k \in 0..Len(m.values)
      BY <1>1, <1>2
    <3>2. QED
      BY <1>1, <3>1, UptoType
  <2>3. Len(Upto(m.values, k)) \in Nat
    BY <2>2, LenProperties
  <2>4. QED
    BY <2>3 DEF Offset, Upto
<1>5. o \in Seq(Nat) /\ Len(o) = n - 1 /\ \A k \in 1..(n - 1) : o[k] = Offset(m, k)
  <2>1. o \in [1..(n - 1) -> Nat]
    BY <1>4
  <2>2. QED
    BY <1>2, <2>1, FunctionIsSeq
<1>6. Encode(m) = b \o v
  BY DEF Encode
<1> HIDE DEF n, v, o
<1>7. <<n>> \in Seq(Nat) /\ Len(<<n>>) = 1 /\ <<n>>[1] = n
  BY <1>2
<1>8. /\ a \in Seq(Nat) /\ Len(a) = n
      /\ a[1] = n /\ \A k \in 1..(n - 1) : a[1 + k] = Offset(m, k)
  <2>1. /\ a \in Seq(Nat) /\ Len(a) = 1 + (n - 1)
        /\ \A j \in 1..1 : a[j] = <<n>>[j]
        /\ \A k \in 1..(n - 1) : a[1 + k] = o[k]
    <3>1. /\ a \in Seq(Nat) /\ Len(a) = Len(<<n>>) + Len(o)
          /\ \A j \in 1..Len(<<n>>) : a[j] = <<n>>[j]
          /\ \A k \in 1..Len(o) : a[Len(<<n>>) + k] = o[k]
      BY <1>5, <1>7, ConcatParts
    <3>2. Len(<<n>>) = 1 /\ Len(o) = n - 1
      BY <1>5, <1>7
    <3>3. QED
      BY <3>1, <3>2
  <2>2. 1 \in 1..1 /\ 1 + (n - 1) = n
    BY <1>2
  <2>3. QED
    BY <1>5, <1>7, <2>1, <2>2
<1> HIDE DEF a
<1>9. /\ b \in Seq(Nat) /\ Len(b) = 2 * n
      /\ \A j \in 1..n : b[j] = a[j]
      /\ \A k \in 1..n : b[n + k] = m.tags[k]
  <2>1. /\ b \in Seq(Nat) /\ Len(b) = n + n
        /\ \A j \in 1..n : b[j] = a[j]
        /\ \A k \in 1..n : b[n + k] = t[k]
    <3>1. t \in Seq(Nat) /\ n = Len(t)
      BY <1>1 DEF n
    <3>2. a \in Seq(Nat) /\ n = Len(a)
      BY <1>8
    <3> HIDE DEF t
    <3>3. /\ a \o t \in Seq(Nat) /\ Len(a \o t) = Len(a) + Len(t)
          /\ \A j \in 1..Len(a) : (a \o t)[j] = a[j]
          /\ \A k \in 1..Len(t) : (a \o t)[Len(a) + k] = t[k]
      <4>1. a \in Seq(Nat) /\ t \in Seq(Nat)
        BY <3>1, <3>2
      <4>2. QED
        BY <4>1, ConcatParts
    <3>4. QED
      BY <3>1, <3>2, <3>3
  <2>2. n + n = 2 * n
    BY <1>2
  <2>3. QED
    BY <2>1, <2>2
<1> HIDE DEF b
<1>10. /\ b \o v \in Seq(Nat) /\ Len(b \o v) = 2 * n + Len(v)
       /\ \A j \in 1..(2 * n) : (b \o v)[j] = b[j]
       /\ \A k \in 1..Len(v) : (b \o v)[2 * n + k] = v[k]
  <2>1. /\ b \o v \in Seq(Nat) /\ Len(b \o v) = Len(b) + Len(v)
        /\ \A j \in 1..Len(b) : (b \o v)[j] = b[j]
        /\ \A k \in 1..Len(v) : (b \o v)[Len(b) + k] = v[k]
    <3>1. b \in Seq(Nat) /\ v \in Seq(Nat)
      BY <1>3, <1>9
    <3>2. QED
      BY <3>1, ConcatParts
  <2>2. Len(b) = 2 * n
    BY <1>9
  <2>3. QED
    BY <2>1, <2>2
<1>11. \A j \in 1..n : j \in 1..(2 * n) /\ n + j \in 1..(2 * n)
  BY <1>2
<1>12. 1 \in 1..n /\ \A k \in 1..(n - 1) : 1 + k \in 1..n
  BY <1>1, <1>2
<1>13. /\ Encode(m)[1] = n
       /\ \A k \in 1..(n - 1) : Encode(m)[1 + k] = Offset(m, k)
       /\ \A k \in 1..n : Encode(m)[n + k] = m.tags[k]
  BY <1>6, <1>8, <1>9, <1>10, <1>11, <1>12
<1>14. QED
  BY <1>1, <1>2, <1>3, <1>6, <1>10, <1>13 DEF n, v

-----------------------------------------------------------------------------
(* The parser: its indexes.                                                *)

OffsetAt(k) == offsets[k]
EndAt(k) == IF k < num_tags THEN offsets[k + 1] ELSE ValuesLen

\* What Check has found out about the value of tag k.
Inside(k) ==
  /\ OffsetAt(k) <= EndAt(k) /\ EndAt(k) <= ValuesLen
  /\ OffsetAt(k) % 4 = 0 /\ EndAt(k) % 4 = 0

ParseType ==
  /\ words \in Seq(Nat) /\ tail \in 0..3
  /\ num_tags \in Nat /\ i \in Nat
  /\ offsets \in Seq(Nat) /\ tags \in Seq(Nat) /\ values \in Seq(Seq(Nat))
  /\ pc \in {"count", "offsets", "tags", "check", "values", "some", "none"}

\* From Count on the header lies inside the packet, and each loop is at one of the tags.
HeaderInv ==
  pc \in {"offsets", "tags", "check", "values"} =>
    /\ i \in 1..num_tags
    /\ 2 * num_tags <= Len(words)
    /\ Len(offsets) = IF pc = "offsets" THEN i ELSE num_tags

\* Values are read when all of them have been found inside.
CheckedInv ==
  /\ pc = "check" => \A k \in 1..(i - 1) : Inside(k)
  /\ pc = "values" => \A k \in 1..num_tags : Inside(k)

ParserInv == ParseType /\ HeaderInv /\ CheckedInv /\ NeverPanics

\* What has been parsed of a message that arrived intact is what was encoded.
DecodedInv ==
  intact =>
    /\ msg \in Messages /\ words = Encode(msg) /\ tail = 0
    /\ pc # "none" /\ (pc # "count" => num_tags = Len(msg.tags))
    /\ \A k \in 1..Len(offsets) : offsets[k] = Offset(msg, k - 1)
    /\ \A k \in 1..Len(tags) : tags[k] = msg.tags[k]
    /\ \A k \in 1..Len(values) : values[k] = msg.values[k]
    /\ Len(tags) = CASE pc \in {"count", "offsets"} -> 0
                     [] pc = "tags" -> i - 1
                     [] OTHER -> num_tags
    /\ Len(values) = CASE pc = "values" -> i - 1
                       [] pc = "some" -> num_tags
                       [] OTHER -> 0

LEMMA ParserInit == Init => ParserInv /\ DecodedInv
<1> SUFFICES ASSUME Init PROVE ParserInv /\ DecodedInv
  OBVIOUS
<1>1. msg \in Messages /\ Encode(msg) \in Seq(Nat)
  BY EncodeAt DEF Init
<1>2. words \in Seq(Nat)
  <2>1. PICK n \in 0..Len(Encode(msg)), k \in 0..Len(Encode(msg)), w \in Words :
          words = SubSeq(IF k = 0 THEN Encode(msg) ELSE [Encode(msg) EXCEPT ![k] = w], 1, n)
    BY DEF Init
  <2> DEFINE e == IF k = 0 THEN Encode(msg) ELSE [Encode(msg) EXCEPT ![k] = w]
  <2>2. Len(Encode(msg)) \in Nat
    BY <1>1, LenProperties
  <2>3. e \in Seq(Nat) /\ Len(e) = Len(Encode(msg))
    <3>1. CASE k = 0
      BY <1>1, <3>1
    <3>2. CASE k # 0
      <4>1. k \in 1..Len(Encode(msg)) /\ w \in Nat
        BY <2>2, <3>2, RtAssumption
      <4>2. QED
        BY <1>1, <3>2, <4>1, ExceptSeq
    <3>3. QED
      BY <3>1, <3>2
  <2>4. words = SubSeq(e, 1, n)
    BY <2>1
  <2> HIDE DEF e
  <2>5. \A j \in 1..n : e[j] \in Nat
    <3>1. \A j \in 1..n : j \in 1..Len(e)
      BY <2>2, <2>3
    <3>2. QED
      BY <2>3, <3>1, ElementOfSeq
  <2>6. n \in Int /\ 1 \in Int
    OBVIOUS
  <2>7. SubSeq(e, 1, n) \in Seq(Nat)
    BY <2>5, <2>6, SubSeqProperties
  <2>8. QED
    BY <2>4, <2>7
<1>3. ParseType
  BY <1>2, EmptySeq, RtAssumption DEF Init, ParseType
<1>4. HeaderInv /\ CheckedInv /\ NeverPanics
  BY DEF Init, HeaderInv, CheckedInv, NeverPanics
<1>5. DecodedInv
  <2>1. Len(offsets) = 0 /\ Len(tags) = 0 /\ Len(values) = 0
    BY EmptySeq DEF Init
  <2>2. intact => words = Encode(msg) /\ tail = 0
    BY DEF Init
  <2>3. pc = "count" /\ num_tags = 0
    BY DEF Init
  <2>4. QED
    BY <1>1, <2>1, <2>2, <2>3 DEF DecodedInv
<1>6. QED
  BY <1>3, <1>4, <1>5 DEF ParserInv

\* Count: a header of n tags that fits into the bytes fits into the whole words.
LEMMA CountKeeps ==
  ASSUME ParserInv, Count, UNCHANGED packet
  PROVE  ParserInv'
<1>1. ParseType /\ HeaderInv /\ CheckedInv /\ ~panicked
  BY DEF ParserInv, NeverPanics
<1>2. words \in Seq(Nat) /\ Len(words) \in Nat /\ tail \in 0..3
      /\ words' = words /\ tail' = tail
  <2>1. words \in Seq(Nat) /\ tail \in 0..3
    BY <1>1 DEF ParseType
  <2>2. QED
    BY <2>1, LenProperties DEF packet
<1>3. CASE None
  BY <1>1, <1>2, <1>3 DEF None, ParserInv, ParseType, HeaderInv, CheckedInv, NeverPanics
<1>4. CASE ~None
  <2>1. /\ DataLen >= 4 /\ Word(1) # 0 /\ DataLen >= 8 * Word(1)
        /\ num_tags' = Word(1) /\ offsets' = <<0>> /\ pc' = "offsets" /\ i' = 1
        /\ panicked' = (panicked \/ 1 \notin DOMAIN words)
        /\ UNCHANGED <<tags, values>>
    <3>1. ~(DataLen < 4 \/ Word(1) = 0 \/ DataLen < 8 * Word(1))
      BY <1>4 DEF Count
    <3>2. Word(1) \in Int
      <4>1. 1 \in DOMAIN words => words[1] \in Nat
        BY <1>2, LenProperties, ElementOfSeq
      <4>2. QED
        BY <4>1 DEF Word
    <3>3. DataLen \in Int
      BY <1>2 DEF DataLen
    <3>4. QED
      BY <1>4, <3>1, <3>2, <3>3 DEF Count, Reads
  <2>2. 1 \in DOMAIN words /\ Word(1) \in Nat
    <3>1. 1 \in 1..Len(words)
      BY <1>2, <2>1 DEF DataLen
    <3>2. QED
      BY <1>2, <3>1, LenProperties, ElementOfSeq DEF Word
  <2>3. 2 * Word(1) <= Len(words) /\ Word(1) >= 1
    BY <1>2, <2>1, <2>2 DEF DataLen
  <2>4. <<0>> \in Seq(Nat) /\ Len(<<0>>) = 1
    OBVIOUS
  <2>5. ParseType'
    BY <1>1, <1>2, <2>1, <2>2, <2>4 DEF ParseType
  <2>6. HeaderInv'
    BY <1>2, <2>1, <2>2, <2>3, <2>4 DEF HeaderInv
  <2>7. CheckedInv' /\ NeverPanics'
    BY <1>1, <2>1, <2>2 DEF CheckedInv, NeverPanics
  <2>8. QED
    BY <2>5, <2>6, <2>7 DEF ParserInv
<1>5. QED
  BY <1>3, <1>4

\* The words of the header are inside of the packet.
LEMMA HeaderRead ==
  ASSUME ParserInv, NEW n \in 1..(2 * num_tags),
         pc \in {"offsets", "tags", "check", "values"}
  PROVE  n \in DOMAIN words /\ Word(n) \in Nat
<1>1. words \in Seq(Nat) /\ num_tags \in Nat /\ 2 * num_tags <= Len(words)
  BY DEF ParserInv, ParseType, HeaderInv
<1>2. Len(words) \in Nat /\ DOMAIN words = 1..Len(words)
  BY <1>1, LenProperties
<1>3. n \in 1..Len(words)
  BY <1>1, <1>2
<1>4. QED
  BY <1>1, <1>2, <1>3, ElementOfSeq DEF Word

LEMMA HeaderKeeps ==
  ASSUME ParserInv, ReadOffset \/ OffsetsRead \/ ReadTag, UNCHANGED packet
  PROVE  ParserInv'
<1>1. ParseType /\ HeaderInv /\ CheckedInv /\ ~panicked
  BY DEF ParserInv, NeverPanics
<1>2. /\ num_tags \in Nat /\ i \in 1..num_tags /\ i \in Nat /\ i + 1 \in Nat
      /\ 2 * num_tags <= Len(words) /\ pc \in {"offsets", "tags"}
      /\ Len(offsets) = IF pc = "offsets" THEN i ELSE num_tags
      /\ words' = words /\ tail' = tail /\ num_tags' = num_tags /\ values' = values
  BY <1>1 DEF ParseType, HeaderInv, ReadOffset, OffsetsRead, ReadTag, packet
<1>3. CASE ReadOffset
  <2>1. 1 + i \in 1..(2 * num_tags) /\ i + 1 \in 1..num_tags
    BY <1>2, <1>3 DEF ReadOffset
  <2>2. 1 + i \in DOMAIN words /\ Word(1 + i) \in Nat
    BY <1>2, <2>1, HeaderRead
  <2>3. offsets' \in Seq(Nat) /\ Len(offsets') = Len(offsets) + 1
    BY <1>1, <1>3, <2>2, AppendProperties DEF ReadOffset, ParseType
  <2>4. ~panicked' /\ pc' = pc /\ pc = "offsets" /\ i' = i + 1 /\ tags' = tags
    BY <1>1, <1>3, <2>2 DEF ReadOffset, Reads
  <2>5. QED
    BY <1>1, <1>2, <2>1, <2>3, <2>4
    DEF ParserInv, ParseType, HeaderInv, CheckedInv, NeverPanics
<1>4. CASE OffsetsRead
  BY <1>1, <1>2, <1>4
  DEF OffsetsRead, ParserInv, ParseType, HeaderInv, CheckedInv, NeverPanics
<1>5. CASE ReadTag
  <2>1. num_tags + i \in 1..(2 * num_tags)
    BY <1>2
  <2>2. num_tags + i \in DOMAIN words /\ Word(num_tags + i) \in Nat
    BY <1>2, <2>1, HeaderRead
  <2>3. tags' \in Seq(Nat)
    BY <1>1, <1>5, <2>2, AppendProperties DEF ReadTag, ParseType
  <2>4. ~panicked' /\ pc = "tags" /\ offsets' = offsets
    BY <1>1, <1>5, <2>2 DEF ReadTag, Reads
  <2>5. CASE i < num_tags
    <3>1. i' = i + 1 /\ pc' = pc /\ i + 1 \in 1..num_tags
      BY <1>2, <1>5, <2>5 DEF ReadTag
    <3>2. QED
      BY <1>1, <1>2, <2>3, <2>4, <3>1
      DEF ParserInv, ParseType, HeaderInv, CheckedInv, NeverPanics
  <2>6. CASE ~(i < num_tags)
    <3>1. i' = 1 /\ pc' = "check" /\ 1 \in 1..num_tags /\ 1..(1 - 1) = {}
      BY <1>2, <1>5, <2>6 DEF ReadTag
    <3>2. QED
      BY <1>1, <1>2, <2>3, <2>4, <3>1
      DEF ParserInv, ParseType, HeaderInv, CheckedInv, NeverPanics
  <2>7. QED
    BY <2>5, <2>6
<1>6. QED
  BY <1>3, <1>4, <1>5

LEMMA CheckKeeps ==
  ASSUME ParserInv, Check, UNCHANGED packet
  PROVE  ParserInv'
<1>1. ParseType /\ HeaderInv /\ CheckedInv /\ ~panicked
  BY DEF ParserInv, NeverPanics
<1>2. /\ num_tags \in Nat /\ i \in 1..num_tags /\ i \in Nat /\ i + 1 \in Nat
      /\ 2 * num_tags <= Len(words) /\ pc = "check" /\ Len(offsets) = num_tags
      /\ words' = words /\ tail' = tail /\ values' = values /\ tags' = tags
      /\ offsets' = offsets /\ panicked' = panicked /\ num_tags' = num_tags
  BY <1>1 DEF ParseType, HeaderInv, Check, None, packet
<1>3. \A k : Inside(k)' <=> Inside(k)
  BY <1>2 DEF Inside, OffsetAt, EndAt, ValuesLen, DataLen
<1>4. CASE InOrder /\ Aligned
  <2>1. Inside(i)
    BY <1>4 DEF InOrder, Aligned, From, To, Inside, OffsetAt, EndAt
  <2>2. \A k \in 1..i : Inside(k)
    <3>1. \A k \in 1..i : k = i \/ k \in 1..(i - 1)
      BY <1>2
    <3>2. QED
      BY <1>1, <1>2, <2>1, <3>1 DEF CheckedInv
  <2>3. CASE i < num_tags
    <3>1. i' = i + 1 /\ pc' = "check" /\ i + 1 \in 1..num_tags /\ (i + 1) - 1 = i
      BY <1>2, <1>4, <2>3 DEF Check
    <3>2. ParseType' /\ HeaderInv' /\ NeverPanics'
      BY <1>1, <1>2, <3>1 DEF ParseType, HeaderInv, NeverPanics
    <3>3. \A k \in 1..(i' - 1) : Inside(k)'
      BY <1>3, <2>2, <3>1
    <3>4. QED
      BY <3>1, <3>2, <3>3 DEF ParserInv, CheckedInv
  <2>4. CASE ~(i < num_tags)
    <3>1. i' = 1 /\ pc' = "values" /\ 1 \in 1..num_tags /\ i = num_tags
      BY <1>2, <1>4, <2>4 DEF Check
    <3>2. ParseType' /\ HeaderInv' /\ NeverPanics'
      BY <1>1, <1>2, <3>1 DEF ParseType, HeaderInv, NeverPanics
    <3>3. \A k \in 1..num_tags' : Inside(k)'
      BY <1>2, <1>3, <2>2, <3>1
    <3>4. QED
      BY <3>1, <3>2, <3>3 DEF ParserInv, CheckedInv
  <2>5. QED
    BY <2>3, <2>4
<1>5. CASE ~(InOrder /\ Aligned)
  <2>1. pc' = "none" /\ i' = i
    BY <1>5 DEF Check, None
  <2>2. QED
    BY <1>1, <1>2, <2>1 DEF ParserInv, ParseType, HeaderInv, CheckedInv, NeverPanics
<1>6. QED
  BY <1>4, <1>5

\* A value that Check has let pass is a run of whole words of the packet.
LEMMA ValueRead ==
  ASSUME ParserInv, pc = "values"
  PROVE  /\ 0 <= From /\ From <= To /\ To <= ValuesLen
         /\ From \in Int /\ To \in Int /\ ValuesLen \in Int
         /\ SubSeq(words, ValuesStart + From \div 4 + 1, ValuesStart + To \div 4) \in Seq(Nat)
<1>1. /\ num_tags \in Nat /\ i \in 1..num_tags /\ 2 * num_tags <= Len(words)
      /\ words \in Seq(Nat) /\ tail \in 0..3 /\ offsets \in Seq(Nat) /\ Len(offsets) = num_tags
  BY DEF ParserInv, ParseType, HeaderInv
<1>2. Len(words) \in Nat
  BY <1>1, LenProperties
<1>3. ValuesLen \in Int /\ ValuesLen <= 4 * (Len(words) - ValuesStart) + 3
  BY <1>1, <1>2 DEF ValuesLen, DataLen, ValuesStart
<1>4. Inside(i)
  BY <1>1 DEF ParserInv, CheckedInv
<1>5. From <= To /\ To <= ValuesLen /\ From % 4 = 0 /\ To % 4 = 0
  BY <1>4 DEF Inside, OffsetAt, EndAt, From, To
<1>6. From \in Nat /\ To \in Int
  <2>1. offsets[i] \in Nat
    BY <1>1, ElementOfSeq
  <2>2. i < num_tags => offsets[i + 1] \in Nat
    <3>1. i < num_tags => i + 1 \in 1..Len(offsets)
      BY <1>1
    <3>2. QED
      BY <1>1, <3>1, ElementOfSeq
  <2>3. QED
    BY <1>3, <2>1, <2>2 DEF From, To
<1>7. ValuesStart \in Nat /\ ValuesStart + To \div 4 <= Len(words)
      /\ ValuesStart + To \div 4 \in Int /\ ValuesStart + From \div 4 + 1 \in Nat
      /\ ValuesStart + From \div 4 + 1 >= 1
  BY <1>1, <1>2, <1>3, <1>5, <1>6 DEF ValuesStart
<1>8. \A j \in (ValuesStart + From \div 4 + 1)..(ValuesStart + To \div 4) : words[j] \in Nat
  <2>1. \A j \in (ValuesStart + From \div 4 + 1)..(ValuesStart + To \div 4) : j \in 1..Len(words)
    BY <1>2, <1>7
  <2>2. QED
    BY <1>1, <2>1, ElementOfSeq
<1>9. SubSeq(words, ValuesStart + From \div 4 + 1, ValuesStart + To \div 4) \in Seq(Nat)
  <2> DEFINE a == ValuesStart + From \div 4 + 1
             b == ValuesStart + To \div 4
  <2>1. a \in Int /\ b \in Int /\ \A j \in a..b : words[j] \in Nat
    BY <1>7, <1>8
  <2> HIDE DEF a, b
  <2>2. SubSeq(words, a, b) \in Seq(Nat)
    BY <2>1, SubSeqProperties
  <2>3. QED
    BY <2>2 DEF a, b
<1>10. QED
  BY <1>3, <1>5, <1>6, <1>9

LEMMA ReadValueKeeps ==
  ASSUME ParserInv, ReadValue, UNCHANGED packet
  PROVE  ParserInv'
<1>1. ParseType /\ HeaderInv /\ CheckedInv /\ ~panicked /\ pc = "values"
  BY DEF ParserInv, NeverPanics, ReadValue
<1>2. /\ num_tags \in Nat /\ i \in 1..num_tags /\ i \in Nat /\ i + 1 \in Nat
      /\ 2 * num_tags <= Len(words) /\ Len(offsets) = num_tags
      /\ words' = words /\ tail' = tail /\ tags' = tags
      /\ offsets' = offsets /\ num_tags' = num_tags
  BY <1>1 DEF ParseType, HeaderInv, ReadValue, packet
<1>3. ~panicked'
  BY <1>1, ValueRead DEF ReadValue
<1>4. values' \in Seq(Seq(Nat))
  BY <1>1, ValueRead, AppendProperties DEF ReadValue, ParseType
<1>5. \A k : Inside(k)' <=> Inside(k)
  BY <1>2 DEF Inside, OffsetAt, EndAt, ValuesLen, DataLen
<1>6. CASE i < num_tags
  <2>1. i' = i + 1 /\ pc' = "values" /\ i + 1 \in 1..num_tags
    BY <1>1, <1>2, <1>6 DEF ReadValue
  <2>2. ParseType' /\ HeaderInv' /\ NeverPanics'
    BY <1>1, <1>2, <1>3, <1>4, <2>1 DEF ParseType, HeaderInv, NeverPanics
  <2>3. \A k \in 1..num_tags' : Inside(k)'
    BY <1>1, <1>2, <1>5 DEF CheckedInv
  <2>4. QED
    BY <2>1, <2>2, <2>3 DEF ParserInv, CheckedInv
<1>7. CASE ~(i < num_tags)
  <2>1. i' = i /\ pc' = "some"
    BY <1>7 DEF ReadValue
  <2>2. QED
    BY <1>1, <1>2, <1>3, <1>4, <2>1
    DEF ParserInv, ParseType, HeaderInv, CheckedInv, NeverPanics
<1>8. QED
  BY <1>6, <1>7

LEMMA ParserIdle == ParserInv /\ UNCHANGED vars => ParserInv'
BY DEF ParserInv, ParseType, HeaderInv, CheckedInv, NeverPanics, Inside, OffsetAt, EndAt,
       ValuesLen, DataLen, vars, packet

LEMMA ParserStep == ParserInv /\ Next => ParserInv'
BY CountKeeps, HeaderKeeps, CheckKeeps, ReadValueKeeps, ParserIdle
DEF Next, Parse, Returned

LEMMA ParserOfIdle == MessageIdle => ParserInv /\ DecodedInv
<1> SUFFICES ASSUME MessageIdle PROVE ParserInv /\ DecodedInv
  OBVIOUS
<1>1. ParserInv
  BY EmptySeq
  DEF MessageIdle, ParserInv, ParseType, HeaderInv, CheckedInv, NeverPanics
<1>2. DecodedInv
  BY DEF MessageIdle, DecodedInv
<1>3. QED
  BY <1>1, <1>2

-----------------------------------------------------------------------------
(* NeverPanics: whatever bytes arrive, RtMessage::parse does not index     *)
(* outside of them.                                                        *)
THEOREM ParserNeverPanics == FormatsSpec => []NeverPanics
<1>1. FormatsInit => ParserInv
  BY ParserInit, ParserOfIdle DEF FormatsInit
<1>2. ParserInv /\ [FormatsNext]_<<task, vars, merkle, calendar>> => ParserInv'
  BY ParserStep, ParserIdle DEF FormatsNext
<1>3. ParserInv => NeverPanics
  BY DEF ParserInv
<1>4. QED
  BY <1>1, <1>2, <1>3, PTL DEF FormatsSpec

-----------------------------------------------------------------------------
(* The parser: what it finds in a message that arrived intact.             *)

LEMMA OffsetUpto ==
  ASSUME NEW m \in Messages, NEW k \in 0..Len(m.tags)
  PROVE  /\ Offset(m, k) = 4 * Len(Upto(m.values, k))
         /\ Len(Upto(m.values, k)) \in Nat
         /\ Offset(m, 0) = 0
<1>1. m.values \in Seq(Seq(Nat)) /\ k \in 0..Len(m.values)
  BY RtAssumption
<1>2. Upto(m.values, k) \in Seq(Nat)
  BY <1>1, UptoType
<1>3. Len(Upto(m.values, 0)) = 0
  BY UptoEmpty, EmptySeq
<1>4. Offset(m, k) = 4 * Len(Upto(m.values, k)) /\ Offset(m, 0) = 4 * Len(Upto(m.values, 0))
  BY DEF Offset, Upto
<1>5. QED
  BY <1>2, <1>3, <1>4, LenProperties

\* The packet, as long as it is the encoded message.
LEMMA IntactPacket ==
  ASSUME ParserInv, DecodedInv, intact
  PROVE  LET n == Len(msg.tags)
             v == FlattenSeq(msg.values) IN
         /\ msg \in Messages /\ n \in Nat /\ n >= 1 /\ Len(v) \in Nat
         /\ Len(words) = 2 * n + Len(v) /\ tail = 0 /\ DataLen = 4 * (2 * n + Len(v))
         /\ Word(1) = n
         /\ \A k \in 1..(n - 1) : Word(1 + k) = Offset(msg, k)
         /\ \A k \in 1..n : Word(n + k) = msg.tags[k]
         /\ \A k \in 1..Len(v) : words[2 * n + k] = v[k]
<1> DEFINE n == Len(msg.tags)
           v == FlattenSeq(msg.values)
<1>1. msg \in Messages /\ words = Encode(msg) /\ tail = 0
  BY DEF DecodedInv
<1>2. /\ n \in Nat /\ n >= 1 /\ v \in Seq(Nat)
      /\ words \in Seq(Nat) /\ Len(words) = 2 * n + Len(v)
      /\ words[1] = n
      /\ \A k \in 1..(n - 1) : words[1 + k] = Offset(msg, k)
      /\ \A k \in 1..n : words[n + k] = msg.tags[k]
      /\ \A k \in 1..Len(v) : words[2 * n + k] = v[k]
  BY <1>1, EncodeAt
<1> HIDE DEF n, v
<1>3. Len(v) \in Nat /\ DOMAIN words = 1..Len(words)
  BY <1>2, LenProperties
<1>4. /\ 1 \in 1..Len(words)
      /\ \A k \in 1..(n - 1) : 1 + k \in 1..Len(words)
      /\ \A k \in 1..n : n + k \in 1..Len(words)
  BY <1>2, <1>3
<1>5. /\ Word(1) = n
      /\ \A k \in 1..(n - 1) : Word(1 + k) = Offset(msg, k)
      /\ \A k \in 1..n : Word(n + k) = msg.tags[k]
  BY <1>2, <1>3, <1>4 DEF Word
<1>6. DataLen = 4 * (2 * n + Len(v))
  BY <1>1, <1>2, <1>3 DEF DataLen
<1>7. QED
  BY <1>1, <1>2, <1>3, <1>5, <1>6 DEF n, v

LEMMA CountDecodes ==
  ASSUME ParserInv, DecodedInv, Count, UNCHANGED packet
  PROVE  DecodedInv'
<1> SUFFICES ASSUME intact PROVE DecodedInv'
  BY DEF DecodedInv, packet
<1> DEFINE n == Len(msg.tags)
           v == FlattenSeq(msg.values)
<1>1. /\ msg \in Messages /\ n \in Nat /\ n >= 1 /\ Len(v) \in Nat
      /\ DataLen = 4 * (2 * n + Len(v)) /\ Word(1) = n
  BY IntactPacket
<1> HIDE DEF n, v
<1>2. ~(DataLen < 4 \/ Word(1) = 0 \/ DataLen < 8 * Word(1))
  BY <1>1
<1>3. /\ num_tags' = n /\ offsets' = <<0>> /\ pc' = "offsets" /\ pc = "count"
      /\ UNCHANGED <<msg, words, tail, tags, values>>
  BY <1>1, <1>2 DEF Count, packet
<1>4. Offset(msg, 0) = 0
  <2>1. 0 \in 0..Len(msg.tags)
    BY <1>1 DEF n
  <2>2. QED
    BY <1>1, <2>1, OffsetUpto
<1>5. Len(<<0>>) = 1 /\ \A k \in 1..1 : <<0>>[k] = 0 /\ k - 1 = 0
  OBVIOUS
<1>6. \A k \in 1..Len(offsets') : offsets'[k] = Offset(msg', k - 1)
  BY <1>3, <1>4, <1>5 DEF Offset
<1>7. Len(tags) = 0 /\ Len(values) = 0
  BY <1>3 DEF DecodedInv
<1>8. QED
  BY <1>1, <1>3, <1>6, <1>7 DEF DecodedInv, n, Encode, Offset

LEMMA HeaderDecodes ==
  ASSUME ParserInv, DecodedInv, ReadOffset \/ OffsetsRead \/ ReadTag, UNCHANGED packet
  PROVE  DecodedInv'
<1> SUFFICES ASSUME intact PROVE DecodedInv'
  BY DEF DecodedInv, packet
<1> DEFINE n == Len(msg.tags)
<1>1. /\ msg \in Messages /\ n \in Nat
      /\ \A k \in 1..(n - 1) : Word(1 + k) = Offset(msg, k)
      /\ \A k \in 1..n : Word(n + k) = msg.tags[k]
  BY IntactPacket
<1>2. /\ pc \in {"offsets", "tags"} /\ num_tags = n /\ i \in 1..n
      /\ offsets \in Seq(Nat) /\ tags \in Seq(Nat)
      /\ Len(offsets) = IF pc = "offsets" THEN i ELSE n
      /\ UNCHANGED <<msg, intact, words, tail, values, num_tags>>
  BY DEF ParserInv, ParseType, HeaderInv, DecodedInv, ReadOffset, OffsetsRead, ReadTag, packet
<1>3. /\ words = Encode(msg) /\ tail = 0
      /\ \A k \in 1..Len(offsets) : offsets[k] = Offset(msg, k - 1)
      /\ \A k \in 1..Len(tags) : tags[k] = msg.tags[k]
      /\ Len(values) = 0 /\ Len(tags) = IF pc = "offsets" THEN 0 ELSE i - 1
  BY <1>2 DEF DecodedInv
<1> HIDE DEF n
<1>4. CASE ReadOffset
  <2>1. pc = "offsets" /\ pc' = pc /\ i' = i + 1 /\ tags' = tags /\ i \in 1..(n - 1)
    BY <1>1, <1>2, <1>4 DEF ReadOffset
  <2>2. offsets' = Append(offsets, Offset(msg, i)) /\ Offset(msg, i) \in Nat
    <3>1. i \in 0..Len(msg.tags)
      BY <1>1, <2>1 DEF n
    <3>2. Offset(msg, i) \in Nat
      BY <1>1, <3>1, OffsetUpto
    <3>3. QED
      BY <1>1, <1>4, <2>1, <3>2 DEF ReadOffset
  <2>3. /\ Len(offsets') = i + 1 /\ offsets'[i + 1] = Offset(msg, i)
        /\ \A k \in 1..i : offsets'[k] = offsets[k]
    BY <1>2, <2>1, <2>2, AppendProperties
  <2>4. \A k \in 1..Len(offsets') : offsets'[k] = Offset(msg, k - 1)
    <3>1. \A k \in 1..(i + 1) : k \in 1..i \/ (k = i + 1 /\ k - 1 = i)
      BY <1>2
    <3>2. QED
      BY <1>2, <1>3, <2>1, <2>3, <3>1
  <2>5. QED
    BY <1>1, <1>2, <1>3, <2>1, <2>4 DEF DecodedInv, n, Encode, Offset
<1>5. CASE OffsetsRead
  <2>1. /\ pc = "offsets" /\ pc' = "tags" /\ i' = 1 /\ UNCHANGED <<offsets, tags>>
        /\ Len(tags) = i' - 1
    BY <1>3, <1>5 DEF OffsetsRead
  <2>2. QED
    BY <1>1, <1>2, <1>3, <2>1 DEF DecodedInv, n, Encode, Offset
<1>6. CASE ReadTag
  <2>1. /\ pc = "tags" /\ offsets' = offsets
        /\ IF i < n THEN i' = i + 1 /\ pc' = "tags" ELSE i' = 1 /\ pc' = "check"
    BY <1>2, <1>6 DEF ReadTag
  <2>2. tags' = Append(tags, msg.tags[i]) /\ msg.tags[i] \in Nat
    <3>1. msg.tags \in Seq(Nat) /\ i \in 1..Len(msg.tags)
      BY <1>1, <1>2, RtAssumption DEF n
    <3>2. msg.tags[i] \in Nat
      BY <3>1, ElementOfSeq
    <3>3. QED
      BY <1>1, <1>2, <1>6, <3>2 DEF ReadTag
  <2>3. /\ Len(tags) = i - 1 /\ Len(tags') = i /\ tags'[i] = msg.tags[i]
        /\ \A k \in 1..(i - 1) : tags'[k] = tags[k]
    <3>1. Len(tags) = i - 1 /\ Len(tags) + 1 = i
      BY <1>1, <1>2, <1>3, <2>1
    <3>2. /\ Len(tags') = Len(tags) + 1 /\ tags'[Len(tags) + 1] = msg.tags[i]
          /\ \A k \in 1..Len(tags) : tags'[k] = tags[k]
      BY <1>2, <2>2, AppendProperties
    <3>3. QED
      BY <3>1, <3>2
  <2>4. \A k \in 1..Len(tags') : tags'[k] = msg.tags[k]
    <3>1. \A k \in 1..i : k \in 1..(i - 1) \/ k = i
      BY <1>2
    <3>2. QED
      BY <1>3, <2>3, <3>1
  <2>5. Len(tags') = IF i < n THEN i' - 1 ELSE n
    BY <1>1, <1>2, <2>1, <2>3
  <2>6. QED
    BY <1>1, <1>2, <1>3, <2>1, <2>4, <2>5 DEF DecodedInv, n, Encode, Offset
<1>7. QED
  BY <1>4, <1>5, <1>6

\* In a message that arrived intact the offsets are those of the values.
LEMMA IntactRange ==
  ASSUME ParserInv, DecodedInv, intact, pc \in {"check", "values"}
  PROVE  LET v == msg.values IN
         /\ From = 4 * Len(Upto(v, i - 1)) /\ Len(Upto(v, i - 1)) \in Nat
         /\ To = 4 * Len(Upto(v, i)) /\ Len(Upto(v, i)) \in Nat
         /\ ValuesLen = 4 * Len(FlattenSeq(v)) /\ Len(FlattenSeq(v)) \in Nat
         /\ Len(v[i]) \in Nat /\ Len(Upto(v, i)) = Len(Upto(v, i - 1)) + Len(v[i])
         /\ Len(Upto(v, i)) <= Len(FlattenSeq(v))
         /\ \A j \in 1..Len(v[i]) : FlattenSeq(v)[Len(Upto(v, i - 1)) + j] = v[i][j]
<1> DEFINE n == Len(msg.tags)
           v == msg.values
<1>1. /\ msg \in Messages /\ n \in Nat /\ Len(FlattenSeq(v)) \in Nat
      /\ DataLen = 4 * (2 * n + Len(FlattenSeq(v)))
  BY IntactPacket
<1>2. /\ num_tags = n /\ i \in 1..n /\ Len(offsets) = n
      /\ \A k \in 1..Len(offsets) : offsets[k] = Offset(msg, k - 1)
  BY DEF ParserInv, HeaderInv, DecodedInv
<1>3. v \in Seq(Seq(Nat)) /\ Len(v) = n
  BY <1>1, RtAssumption
<1>4. /\ Offset(msg, i - 1) = 4 * Len(Upto(v, i - 1)) /\ Len(Upto(v, i - 1)) \in Nat
      /\ Offset(msg, i) = 4 * Len(Upto(v, i)) /\ Len(Upto(v, i)) \in Nat
  <2>1. i - 1 \in 0..Len(msg.tags) /\ i \in 0..Len(msg.tags)
    BY <1>1, <1>2
  <2>2. QED
    BY <1>1, <2>1, OffsetUpto
<1>5. /\ Len(Upto(v, i)) = Len(Upto(v, i - 1)) + Len(v[i])
      /\ Len(Upto(v, i)) <= Len(FlattenSeq(v))
      /\ \A j \in 1..Len(v[i]) : FlattenSeq(v)[Len(Upto(v, i - 1)) + j] = v[i][j]
  <2>1. i \in 1..Len(v)
    BY <1>2, <1>3
  <2> HIDE DEF v
  <2>2. QED
    BY <1>3, <2>1, FlattenedAt
<1>6. Len(v[i]) \in Nat
  <2>1. v[i] \in Seq(Nat)
    BY <1>2, <1>3, ElementOfSeq
  <2>2. QED
    BY <2>1, LenProperties
<1>7. ValuesLen = 4 * Len(FlattenSeq(v))
  <2> DEFINE c == Len(FlattenSeq(v))
  <2>1. DataLen = 4 * (2 * n + c) /\ num_tags = n /\ n \in Nat /\ c \in Nat
    BY <1>1, <1>2
  <2> HIDE DEF n, v, c
  <2>2. ValuesLen = 4 * c
    BY <2>1 DEF ValuesLen
  <2>3. QED
    BY <2>2 DEF c
<1>8. From = 4 * Len(Upto(v, i - 1))
  BY <1>2, <1>4 DEF From
<1>9. To = 4 * Len(Upto(v, i))
  <2>1. CASE i < n
    <3>1. i + 1 \in 1..Len(offsets) /\ (i + 1) - 1 = i
      BY <1>1, <1>2, <2>1
    <3>2. offsets[i + 1] = Offset(msg, i)
      BY <1>2, <3>1
    <3>3. QED
      BY <1>2, <1>4, <2>1, <3>2 DEF To
  <2>2. CASE ~(i < n)
    <3>1. i = Len(v)
      BY <1>1, <1>2, <1>3, <2>2
    <3>2. Upto(v, i) = FlattenSeq(v)
      BY <1>3, <3>1, SubSeqFull DEF Upto
    <3>3. QED
      BY <1>2, <1>7, <2>2, <3>2 DEF To
  <2>3. QED
    BY <2>1, <2>2
<1>10. QED
  BY <1>1, <1>4, <1>5, <1>6, <1>7, <1>8, <1>9

LEMMA CheckDecodes ==
  ASSUME ParserInv, DecodedInv, Check, UNCHANGED packet
  PROVE  DecodedInv'
<1> SUFFICES ASSUME intact PROVE DecodedInv'
  BY DEF DecodedInv, packet
<1>1. pc = "check"
  BY DEF Check
<1>2. InOrder /\ Aligned
  <2> DEFINE a == Len(Upto(msg.values, i - 1))
             b == Len(Upto(msg.values, i))
             c == Len(FlattenSeq(msg.values))
             l == Len(msg.values[i])
  <2>1. /\ From = 4 * a /\ To = 4 * b /\ ValuesLen = 4 * c
        /\ a \in Nat /\ b \in Nat /\ c \in Nat /\ l \in Nat /\ b = a + l /\ b <= c
    BY <1>1, IntactRange
  <2> HIDE DEF a, b, c, l
  <2>2. From <= To /\ To <= ValuesLen /\ From % 4 = 0 /\ To % 4 = 0
    BY <2>1
  <2>3. QED
    BY <2>2 DEF InOrder, Aligned
<1>3. /\ UNCHANGED <<msg, words, tail, num_tags, offsets, tags, values>>
      /\ pc' # "none" /\ pc' \in {"check", "values"} /\ (pc' = "values" => i' = 1)
  BY <1>1, <1>2 DEF Check, packet
<1>4. Len(values) = 0 /\ Len(tags) = num_tags
  BY <1>1 DEF DecodedInv
<1>5. Len(values') = IF pc' = "values" THEN i' - 1 ELSE 0
  BY <1>3, <1>4
<1>6. /\ msg' \in Messages /\ words' = Encode(msg') /\ tail' = 0
      /\ num_tags' = Len(msg'.tags)
      /\ \A k \in 1..Len(offsets') : offsets'[k] = Offset(msg', k - 1)
      /\ \A k \in 1..Len(tags') : tags'[k] = msg'.tags[k]
      /\ \A k \in 1..Len(values') : values'[k] = msg'.values[k]
  BY <1>1, <1>3 DEF DecodedInv, Encode, Offset
<1>7. QED
  BY <1>3, <1>4, <1>5, <1>6 DEF DecodedInv

LEMMA ReadValueDecodes ==
  ASSUME ParserInv, DecodedInv, ReadValue, UNCHANGED packet
  PROVE  DecodedInv'
<1> SUFFICES ASSUME intact PROVE DecodedInv'
  BY DEF DecodedInv, packet
<1> DEFINE n == Len(msg.tags)
           v == msg.values
           a == Len(Upto(v, i - 1))
           b == Len(Upto(v, i))
           l == Len(v[i])
           F == FlattenSeq(v)
<1>1. pc = "values"
  BY DEF ReadValue
<1>2. /\ From = 4 * a /\ To = 4 * b /\ a \in Nat /\ b \in Nat /\ l \in Nat
      /\ b = a + l /\ b <= Len(F) /\ Len(F) \in Nat
      /\ \A j \in 1..l : F[a + j] = v[i][j]
  BY <1>1, IntactRange
<1>3. /\ msg \in Messages /\ n \in Nat /\ Len(words) = 2 * n + Len(F)
      /\ \A k \in 1..Len(F) : words[2 * n + k] = F[k]
  BY IntactPacket
<1>4. /\ num_tags = n /\ i \in 1..n /\ Len(values) = i - 1 /\ Len(tags) = n
      /\ values \in Seq(Seq(Nat)) /\ words \in Seq(Nat)
      /\ \A k \in 1..Len(values) : values[k] = v[k]
  BY <1>1 DEF ParserInv, ParseType, HeaderInv, DecodedInv
<1>5. v[i] \in Seq(Nat)
  <2>1. v \in Seq(Seq(Nat)) /\ Len(v) = n
    BY <1>3, RtAssumption
  <2>2. QED
    BY <1>4, <2>1, ElementOfSeq
<1>6. /\ UNCHANGED <<msg, intact, words, tail, num_tags, offsets, tags>>
      /\ values' = Append(values, SubSeq(words, ValuesStart + From \div 4 + 1,
                                                ValuesStart + To \div 4))
      /\ IF i < n THEN i' = i + 1 /\ pc' = "values" ELSE i' = i /\ pc' = "some"
  BY <1>1, <1>4 DEF ReadValue, packet
<1> HIDE DEF n, v, a, b, l, F
<1>7. ValuesStart + From \div 4 + 1 = 2 * n + a + 1 /\ ValuesStart + To \div 4 = 2 * n + b
  BY <1>2, <1>3, <1>4 DEF ValuesStart
<1>8. SubSeq(words, 2 * n + a + 1, 2 * n + b) = v[i]
  <2> DEFINE p == 2 * n + a + 1
             q == 2 * n + b
             t == SubSeq(words, p, q)
  <2>1. /\ p \in Int /\ q \in Int /\ q - p + 1 = l /\ p \in Nat /\ p >= 1 /\ q <= Len(words)
        /\ \A j \in p..q : j \in 1..Len(words)
    BY <1>2, <1>3
  <2>2. \A j \in p..q : words[j] \in Nat
    BY <1>4, <2>1, ElementOfSeq
  <2>3. \A j \in 1..l : /\ p + j - 1 = 2 * n + (a + j) /\ a + j \in 1..Len(F)
    BY <1>2, <1>3
  <2>4. p <= q => q - p + 1 = l
    BY <2>1
  <2>5. ~(p <= q) => l = 0
    BY <1>2, <1>3
  <2> HIDE DEF p, q
  <2>6. /\ t \in Seq(Nat) /\ Len(t) = IF p <= q THEN q - p + 1 ELSE 0
        /\ \A j \in 1..(q - p + 1) : t[j] = words[p + j - 1]
    BY <2>1, <2>2, SubSeqProperties
  <2>7. Len(t) = Len(v[i])
    BY <2>4, <2>5, <2>6 DEF l
  <2>8. ASSUME NEW j \in 1..l PROVE t[j] = v[i][j]
    <3>1. t[j] = words[p + j - 1]
      BY <2>1, <2>6
    <3>2. words[p + j - 1] = F[a + j]
      BY <1>3, <2>3
    <3>3. QED
      BY <1>2, <3>1, <3>2
  <2> HIDE DEF t
  <2>9. \A j \in 1..Len(t) : t[j] = v[i][j]
    BY <2>7, <2>8 DEF l
  <2>10. t = v[i]
    BY <1>5, <2>6, <2>7, <2>9, SeqEqual
  <2>11. QED
    BY <2>10 DEF t, p, q
<1>9. values' = Append(values, v[i])
  BY <1>6, <1>7, <1>8
<1>10. /\ Len(values') = i /\ values'[i] = v[i]
       /\ \A k \in 1..(i - 1) : values'[k] = values[k]
  <2>1. /\ Len(values') = Len(values) + 1 /\ values'[Len(values) + 1] = v[i]
        /\ \A k \in 1..Len(values) : values'[k] = values[k]
    BY <1>4, <1>5, <1>9, AppendProperties
  <2>2. Len(values) = i - 1 /\ Len(values) + 1 = i
    BY <1>3, <1>4
  <2>3. QED
    BY <2>1, <2>2
<1>11. \A k \in 1..Len(values') : values'[k] = v[k]
  <2>1. \A k \in 1..i : k \in 1..(i - 1) \/ k = i
    BY <1>3, <1>4
  <2>2. QED
    BY <1>4, <1>10, <2>1
<1>12. Len(values') = IF i < n THEN i' - 1 ELSE n
  BY <1>3, <1>4, <1>6, <1>10
<1>13. QED
  BY <1>3, <1>4, <1>6, <1>11, <1>12 DEF DecodedInv, n, v, Encode, Offset

LEMMA DecodedIdle == DecodedInv /\ UNCHANGED vars => DecodedInv'
BY DEF DecodedInv, vars, packet, Encode, Offset

LEMMA DecodedStep == ParserInv /\ DecodedInv /\ Next => DecodedInv'
BY CountDecodes, HeaderDecodes, CheckDecodes, ReadValueDecodes, DecodedIdle
DEF Next, Parse, Returned

\* get, when every tag and value is the one that was encoded.
LEMMA GetDecodes == ParserInv /\ DecodedInv => DecodesMessage
<1> SUFFICES ASSUME ParserInv, DecodedInv, intact, pc \in {"some", "none"}
             PROVE  /\ pc = "some"
                    /\ \A k \in DOMAIN msg.tags :
                         (\A j \in 1..(k - 1) : msg.tags[j] # msg.tags[k])
                           => get(msg.tags[k]) = {msg.values[k]}
  BY DEF DecodesMessage
<1>1. pc = "some"
  BY DEF DecodedInv
<1>2. SUFFICES ASSUME NEW k \in DOMAIN msg.tags,
                      \A j \in 1..(k - 1) : msg.tags[j] # msg.tags[k]
               PROVE  get(msg.tags[k]) = {msg.values[k]}
  BY <1>1
<1> DEFINE n == Len(msg.tags)
           tag == msg.tags[k]
           at == {j \in DOMAIN tags : tags[j] = tag}
<1>3. /\ n \in Nat /\ DOMAIN msg.tags = 1..n /\ DOMAIN tags = 1..n /\ Len(values) = n
      /\ \A j \in 1..n : tags[j] = msg.tags[j]
      /\ \A j \in 1..n : values[j] = msg.values[j]
  <2>1. /\ msg \in Messages /\ num_tags = n /\ Len(tags) = num_tags /\ Len(values) = num_tags
        /\ tags \in Seq(Nat)
        /\ \A j \in 1..Len(tags) : tags[j] = msg.tags[j]
        /\ \A j \in 1..Len(values) : values[j] = msg.values[j]
    BY <1>1 DEF DecodedInv, ParserInv, ParseType
  <2>2. msg.tags \in Seq(Nat)
    BY <2>1, RtAssumption
  <2>3. n \in Nat /\ DOMAIN msg.tags = 1..n
    BY <2>2, LenProperties
  <2>4. DOMAIN tags = 1..n
    BY <2>1, LenProperties
  <2>5. QED
    BY <2>1, <2>3, <2>4
<1>4. k \in 1..n /\ k \in at
  BY <1>3
<1>5. \A j \in at : k <= j
  <2>1. \A j \in 1..n : j \in 1..(k - 1) \/ k <= j
    BY <1>3, <1>4
  <2>2. \A j \in at : j \in 1..n /\ msg.tags[j] = tag
    BY <1>3
  <2>3. QED
    BY <1>2, <2>1, <2>2
<1>6. \A c \in at : (\A j \in at : c <= j) => c = k
  <2>1. \A c \in at : c \in Int
    BY <1>3
  <2>2. k \in Int
    BY <1>4
  <2> HIDE DEF at
  <2>3. QED
    BY <1>4, <1>5, <2>1, <2>2
<1>7. at # {}
  BY <1>4
<1>8. get(tag) = {values[CHOOSE c \in at : \A j \in at : c <= j]}
  BY <1>7 DEF get
<1> HIDE DEF at
<1>9. (CHOOSE c \in at : \A j \in at : c <= j) = k
  BY <1>4, <1>5, <1>6
<1>10. QED
  BY <1>3, <1>4, <1>8, <1>9

-----------------------------------------------------------------------------
(* DecodesMessage: RtMessage::parse and get find in an intact message what *)
(* the server has encoded, for messages of any number of tags and values.  *)
THEOREM ParserDecodes == FormatsSpec => []DecodesMessage
<1> DEFINE Inv == ParserInv /\ DecodedInv
<1>1. FormatsInit => Inv
  BY ParserInit, ParserOfIdle DEF FormatsInit
<1>2. Inv /\ [FormatsNext]_<<task, vars, merkle, calendar>> => Inv'
  BY ParserStep, ParserIdle, DecodedStep, DecodedIdle DEF FormatsNext
<1>3. Inv => DecodesMessage
  BY GetDecodes
<1>4. QED
  BY <1>1, <1>2, <1>3, PTL DEF FormatsSpec

-----------------------------------------------------------------------------
(* Powers of two.                                                          *)

\* The equation that defines Pow2, up to n.
Powers(f, n) == f = [d \in 0..n |-> IF d = 0 THEN 1 ELSE 2 * f[d - 1]]

LEMMA PowersAt ==
  ASSUME NEW f, NEW n, Powers(f, n)
  PROVE  \A d \in 0..n : f[d] = IF d = 0 THEN 1 ELSE 2 * f[d - 1]
<1> DEFINE h == [d \in 0..n |-> IF d = 0 THEN 1 ELSE 2 * f[d - 1]]
<1>1. \A d \in 0..n : h[d] = IF d = 0 THEN 1 ELSE 2 * f[d - 1]
  OBVIOUS
<1>2. f = h
  BY DEF Powers
<1> HIDE DEF h
<1>3. QED
  BY <1>1, <1>2

LEMMA PowersExist == \A n \in Nat : \E f : Powers(f, n)
<1> DEFINE S == {n \in Nat : \E f : Powers(f, n)}
<1>1. 0 \in S
  <2> DEFINE f == [d \in 0..0 |-> 1]
  <2>1. f = [d \in 0..0 |-> IF d = 0 THEN 1 ELSE 2 * f[d - 1]]
    OBVIOUS
  <2> HIDE DEF f
  <2>2. Powers(f, 0)
    BY <2>1 DEF Powers
  <2>3. QED
    BY <2>2
<1>2. ASSUME NEW n \in Nat, n \in S PROVE n + 1 \in S
  <2>1. PICK f : Powers(f, n)
    BY <1>2
  <2> DEFINE g == [d \in 0..(n + 1) |-> IF d <= n THEN f[d] ELSE 2 * f[n]]
  <2>2. \A d \in 0..n : f[d] = IF d = 0 THEN 1 ELSE 2 * f[d - 1]
    BY <2>1, PowersAt
  <2>3. ASSUME NEW d \in 0..(n + 1) PROVE g[d] = IF d = 0 THEN 1 ELSE 2 * g[d - 1]
    <3>1. CASE d <= n
      <4>1. d \in 0..n /\ (d # 0 => d - 1 \in 0..n)
        BY <3>1
      <4>2. d # 0 => g[d - 1] = f[d - 1]
        BY <4>1
      <4>3. QED
        BY <2>2, <3>1, <4>1, <4>2
    <3>2. CASE d = n + 1
      BY <3>2
    <3>3. QED
      BY <3>1, <3>2
  <2>4. g = [d \in 0..(n + 1) |-> IF d = 0 THEN 1 ELSE 2 * g[d - 1]]
    <3>1. g = [d \in 0..(n + 1) |-> g[d]]
      OBVIOUS
    <3> HIDE DEF g
    <3>2. QED
      BY <2>3, <3>1
  <2> HIDE DEF g
  <2>5. Powers(g, n + 1)
    BY <2>4 DEF Powers
  <2>6. QED
    BY <2>5
<1> HIDE DEF S
<1>3. Nat \subseteq S
  BY <1>1, <1>2, InductionSet
<1>4. QED
  BY <1>3 DEF S

LEMMA PowersUnique ==
  ASSUME NEW m \in Nat, NEW n \in m..(m + 1), NEW f, NEW g, Powers(f, m), Powers(g, n)
  PROVE  f[m] = g[m]
<1> DEFINE S == {d \in Nat : d \in 0..m => f[d] = g[d]}
<1>1. \A d \in 0..m : f[d] = IF d = 0 THEN 1 ELSE 2 * f[d - 1]
  BY PowersAt
<1>2. \A d \in 0..n : g[d] = IF d = 0 THEN 1 ELSE 2 * g[d - 1]
  BY PowersAt
<1>3. \A d \in 0..m : d \in 0..n
  OBVIOUS
<1>4. 0 \in S
  BY <1>1, <1>2, <1>3
<1>5. ASSUME NEW d \in Nat, d \in S PROVE d + 1 \in S
  <2>1. SUFFICES ASSUME d + 1 \in 0..m PROVE f[d + 1] = g[d + 1]
    OBVIOUS
  <2>2. d \in 0..m /\ d + 1 # 0 /\ (d + 1) - 1 = d
    BY <2>1
  <2>3. f[d + 1] = 2 * f[d] /\ g[d + 1] = 2 * g[d]
    BY <1>1, <1>2, <1>3, <2>1, <2>2
  <2>4. QED
    BY <1>5, <2>2, <2>3
<1> HIDE DEF S
<1>6. Nat \subseteq S
  BY <1>4, <1>5, InductionSet
<1>7. QED
  BY <1>6 DEF S

LEMMA Pow2Equation ==
  \A d \in Nat : Merkle!Pow2[d] = IF d = 0 THEN 1 ELSE 2 * Merkle!Pow2[d - 1]
<1> DEFINE p == [n \in Nat |-> (CHOOSE f : Powers(f, n))[n]]
<1>1. \A n \in Nat : Powers(CHOOSE f : Powers(f, n), n)
  BY PowersExist
<1>2. ASSUME NEW d \in Nat PROVE p[d] = IF d = 0 THEN 1 ELSE 2 * p[d - 1]
  <2> DEFINE f == CHOOSE h : Powers(h, d)
             g == CHOOSE h : Powers(h, d - 1)
  <2>1. Powers(f, d) /\ p[d] = f[d]
    BY <1>1
  <2>2. CASE d = 0
    <3>1. f[d] = 1
      <4>1. 0 \in 0..d
        OBVIOUS
      <4> HIDE DEF f
      <4>2. QED
        BY <2>1, <2>2, <4>1, PowersAt
    <3>2. QED
      BY <2>1, <2>2, <3>1
  <2>3. CASE d # 0
    <3>1. d - 1 \in Nat /\ d \in (d - 1)..((d - 1) + 1) /\ d \in 0..d
      BY <2>3
    <3>2. Powers(g, d - 1) /\ p[d - 1] = g[d - 1]
      BY <1>1, <3>1
    <3> HIDE DEF f, g
    <3>3. g[d - 1] = f[d - 1]
      BY <2>1, <3>1, <3>2, PowersUnique
    <3>4. f[d] = 2 * f[d - 1]
      BY <2>1, <2>3, <3>1, PowersAt
    <3>5. QED
      BY <2>1, <2>3, <3>2, <3>3, <3>4
  <2>4. QED
    BY <2>2, <2>3
<1>3. p = [d \in Nat |-> IF d = 0 THEN 1 ELSE 2 * p[d - 1]]
  <2>1. p = [d \in Nat |-> p[d]]
    OBVIOUS
  <2> HIDE DEF p
  <2>2. QED
    BY <1>2, <2>1
<1> HIDE DEF p
<1>4. \E f : f = [d \in Nat |-> IF d = 0 THEN 1 ELSE 2 * f[d - 1]]
  BY <1>3
<1> DEFINE q == CHOOSE f : f = [d \in Nat |-> IF d = 0 THEN 1 ELSE 2 * f[d - 1]]
<1>5. Merkle!Pow2 = q
  BY DEF Merkle!Pow2
<1>6. q = [d \in Nat |-> IF d = 0 THEN 1 ELSE 2 * q[d - 1]]
  BY <1>4
<1> HIDE DEF q
<1> DEFINE h == [d \in Nat |-> IF d = 0 THEN 1 ELSE 2 * q[d - 1]]
<1>7. \A d \in Nat : h[d] = IF d = 0 THEN 1 ELSE 2 * q[d - 1]
  OBVIOUS
<1> HIDE DEF h
<1>8. q = h
  BY <1>6 DEF h
<1>9. QED
  BY <1>5, <1>7, <1>8

LEMMA Pow2Type ==
  /\ Merkle!Pow2[0] = 1
  /\ \A d \in Nat : /\ Merkle!Pow2[d] \in Nat /\ Merkle!Pow2[d] >= 1
                     /\ Merkle!Pow2[d + 1] = 2 * Merkle!Pow2[d]
<1> DEFINE S == {d \in Nat : Merkle!Pow2[d] \in Nat /\ Merkle!Pow2[d] >= 1}
<1>1. Merkle!Pow2[0] = 1
  BY Pow2Equation
<1>2. ASSUME NEW d \in Nat PROVE Merkle!Pow2[d + 1] = 2 * Merkle!Pow2[d]
  <2>1. d + 1 \in Nat /\ d + 1 # 0 /\ (d + 1) - 1 = d
    OBVIOUS
  <2>2. \A k \in Nat : k # 0 /\ k - 1 = d => Merkle!Pow2[k] = 2 * Merkle!Pow2[d]
    BY Pow2Equation
  <2>3. QED
    BY <2>1, <2>2
<1>3. 0 \in S
  BY <1>1
<1>4. ASSUME NEW d \in Nat, d \in S PROVE d + 1 \in S
  BY <1>2, <1>4
<1> HIDE DEF S
<1>5. Nat \subseteq S
  BY <1>3, <1>4, InductionSet
<1>6. QED
  BY <1>1, <1>2, <1>5 DEF S

-----------------------------------------------------------------------------
(* The server's tree.                                                      *)

LEMMA DepthIs ==
  ASSUME NEW b \in Batches
  PROVE  /\ Len(b) \in Nat /\ b \in Seq(Range(b))
         /\ Merkle!Depth(b) \in Nat /\ Merkle!Pow2[Merkle!Depth(b)] = Len(b)
<1>1. b \in Seq(Range(b)) /\ \E d \in 0..Len(b) : Len(b) = Merkle!Pow2[d]
  BY MerkleAssumption
<1>2. Len(b) \in Nat
  BY <1>1, LenProperties
<1>3. Merkle!Depth(b) \in 0..Len(b) /\ Merkle!Pow2[Merkle!Depth(b)] = Len(b)
  BY <1>1 DEF Merkle!Depth
<1>4. QED
  BY <1>1, <1>2, <1>3

\* The equation that defines a tree over batch b of depth h, up to level n.
LevelOver(b, h, f, d) ==
  IF d = 0 THEN [k \in 1..Len(b) |-> Merkle!Leaf(b[k])]
  ELSE [k \in 1..(Merkle!Pow2[h - d]) |->
         Merkle!Node(f[d - 1][2 * k - 1], f[d - 1][2 * k])]
Levels(b, h, f, n) == f = [d \in 0..n |-> LevelOver(b, h, f, d)]

LEMMA LevelOverSame ==
  ASSUME NEW b, NEW h, NEW f, NEW g, NEW d, d = 0 \/ f[d - 1] = g[d - 1]
  PROVE  LevelOver(b, h, f, d) = LevelOver(b, h, g, d)
BY DEF LevelOver

LEMMA LevelsAt ==
  ASSUME NEW b, NEW h, NEW f, NEW n, Levels(b, h, f, n)
  PROVE  \A d \in 0..n : f[d] = LevelOver(b, h, f, d)
<1> DEFINE g == [d \in 0..n |-> LevelOver(b, h, f, d)]
<1>1. \A d \in 0..n : g[d] = LevelOver(b, h, f, d)
  OBVIOUS
<1>2. f = g
  BY DEF Levels
<1> HIDE DEF g
<1>3. QED
  BY <1>1, <1>2

LEMMA LevelsExist ==
  ASSUME NEW b, NEW h
  PROVE  \A n \in Nat : \E f : Levels(b, h, f, n)
<1> DEFINE S == {n \in Nat : \E f : Levels(b, h, f, n)}
<1>1. 0 \in S
  <2> DEFINE f == [d \in 0..0 |-> LevelOver(b, h, <<>>, d)]
  <2>1. \A d \in 0..0 : LevelOver(b, h, <<>>, d) = LevelOver(b, h, f, d)
    BY LevelOverSame
  <2>2. f = [d \in 0..0 |-> LevelOver(b, h, f, d)]
    <3>1. f = [d \in 0..0 |-> LevelOver(b, h, <<>>, d)]
      OBVIOUS
    <3> HIDE DEF f
    <3>2. QED
      BY <2>1, <3>1
  <2> HIDE DEF f
  <2>3. Levels(b, h, f, 0)
    BY <2>2 DEF Levels
  <2>4. QED
    BY <2>3
<1>2. ASSUME NEW n \in Nat, n \in S PROVE n + 1 \in S
  <2>1. PICK f : Levels(b, h, f, n)
    BY <1>2
  <2> DEFINE g == [d \in 0..(n + 1) |-> LevelOver(b, h, f, d)]
  <2>2. \A d \in 0..n : f[d] = LevelOver(b, h, f, d)
    BY <2>1, LevelsAt
  <2>3. \A d \in 0..(n + 1) : g[d] = LevelOver(b, h, f, d)
    OBVIOUS
  <2>4. ASSUME NEW d \in 0..(n + 1) PROVE LevelOver(b, h, f, d) = LevelOver(b, h, g, d)
    <3> HIDE DEF g
    <3>1. d = 0 \/ (d - 1 \in 0..n /\ d - 1 \in 0..(n + 1))
      OBVIOUS
    <3>2. d = 0 \/ f[d - 1] = g[d - 1]
      BY <2>2, <2>3, <3>1
    <3>3. QED
      BY <3>2, LevelOverSame
  <2>5. g = [d \in 0..(n + 1) |-> LevelOver(b, h, g, d)]
    <3>1. g = [d \in 0..(n + 1) |-> LevelOver(b, h, f, d)]
      OBVIOUS
    <3> HIDE DEF g
    <3>2. QED
      BY <2>4, <3>1
  <2> HIDE DEF g
  <2>6. Levels(b, h, g, n + 1)
    BY <2>5 DEF Levels
  <2>7. QED
    BY <2>6
<1> HIDE DEF S
<1>3. Nat \subseteq S
  BY <1>1, <1>2, InductionSet
<1>4. QED
  BY <1>3 DEF S

\* The leaves, and each level from the one below it.
LEMMA TreeEquation ==
  ASSUME NEW b \in Batches
  PROVE  LET h == Merkle!Depth(b)
             t == Merkle!Tree(b) IN
         /\ \A k \in 1..Len(b) : t[0][k] = Merkle!Leaf(b[k])
         /\ \A d \in 1..h : \A k \in 1..(Merkle!Pow2[h - d]) :
              t[d][k] = Merkle!Node(t[d - 1][2 * k - 1], t[d - 1][2 * k])
<1> DEFINE h == Merkle!Depth(b)
           t == Merkle!Tree(b)
<1>1. h \in Nat
  BY DepthIs
<1>2. \E f : Levels(b, h, f, h)
  BY <1>1, LevelsExist
<1>3. t = CHOOSE f : Levels(b, h, f, h)
  BY DEF Merkle!Tree, Levels, LevelOver
<1>4. Levels(b, h, t, h)
  BY <1>2, <1>3
<1> HIDE DEF h, t
<1>5. \A d \in 0..h : t[d] = LevelOver(b, h, t, d)
  BY <1>4, LevelsAt
<1>6. ASSUME NEW k \in 1..Len(b) PROVE t[0][k] = Merkle!Leaf(b[k])
  <2>1. 0 \in 0..h
    BY <1>1
  <2>2. t[0] = [j \in 1..Len(b) |-> Merkle!Leaf(b[j])]
    BY <1>5, <2>1 DEF LevelOver
  <2>3. QED
    BY <2>2
<1>7. ASSUME NEW d \in 1..h, NEW k \in 1..(Merkle!Pow2[h - d])
      PROVE  t[d][k] = Merkle!Node(t[d - 1][2 * k - 1], t[d - 1][2 * k])
  <2>1. d \in 0..h /\ d # 0
    BY <1>1
  <2>2. t[d] = [j \in 1..(Merkle!Pow2[h - d]) |->
                 Merkle!Node(t[d - 1][2 * j - 1], t[d - 1][2 * j])]
    BY <1>5, <2>1 DEF LevelOver
  <2>3. QED
    BY <2>2
<1>8. QED
  BY <1>6, <1>7 DEF h, t

LEMMA HashesDiffer ==
  /\ \A n, x, y : Merkle!Leaf(n) # Merkle!Node(x, y)
  /\ \A m, n : Merkle!Leaf(m) = Merkle!Leaf(n) => m = n
  /\ \A x, y, u, v : Merkle!Node(x, y) = Merkle!Node(u, v) => x = u /\ y = v
<1>1. \A n : Merkle!Leaf(n)[1] = 0 /\ Merkle!Leaf(n)[2] = n
  BY DEF Merkle!Leaf
<1>2. \A x, y : /\ Merkle!Node(x, y)[1] = 1 /\ Merkle!Node(x, y)[2] = x
                /\ Merkle!Node(x, y)[3] = y
  BY DEF Merkle!Node
<1>3. \A n, x, y : Merkle!Leaf(n) # Merkle!Node(x, y)
  <2>1. 0 # 1
    OBVIOUS
  <2>2. QED
    BY <1>1, <1>2, <2>1
<1>4. \A m, n : Merkle!Leaf(m) = Merkle!Leaf(n) => m = n
  BY <1>1
<1>5. \A x, y, u, v : Merkle!Node(x, y) = Merkle!Node(u, v) => x = u /\ y = v
  BY <1>2
<1>6. QED
  BY <1>3, <1>4, <1>5

-----------------------------------------------------------------------------
(* The climb.                                                              *)

Height == Merkle!Depth(batch)
Span == Merkle!Pow2[used]

ClimbType ==
  /\ batch \in Batches /\ path \in Seq(Range(path))
  /\ index \in Nat /\ idx \in Nat /\ used \in 0..Len(path)
  /\ place \in {"leaf", "accepted", "rejected"}
  /\ place # "leaf" => used = Len(path)
  /\ place = "accepted" => Merkle!Matches
  /\ place = "rejected" => ~Merkle!Matches

\* Whatever path led to it, a hash of the tree is that of the node below which, at the
\* place that the used bits of the index name, the client's nonce is.
NonceBelow(d, q) ==
  /\ d = used
  /\ \E r \in 0..(Span - 1) :
       index = idx * Span + r /\ batch[(q - 1) * Span + r + 1] = Nonce

SoundInv ==
  \A d \in 0..Height : \A q \in 1..(Merkle!Pow2[Height - d]) :
    current = Merkle!Tree(batch)[d][q] => NonceBelow(d, q)

\* The path of the client's own leaf leads along its ancestors.
Genuine ==
  /\ index < Len(batch) /\ batch[index + 1] = Nonce
  /\ path = Merkle!PathFrom(batch, index)

CompleteInv ==
  Genuine => /\ idx = index \div Span /\ idx < Merkle!Pow2[Height - used]
             /\ current = Merkle!Tree(batch)[used][idx + 1]

ClimbInv == task = "climb" => ClimbType /\ SoundInv /\ CompleteInv

LEMMA ClimbInit == Merkle!Init => ClimbType /\ SoundInv /\ CompleteInv
<1> SUFFICES ASSUME Merkle!Init PROVE ClimbType /\ SoundInv /\ CompleteInv
  OBVIOUS
<1>1. /\ batch \in Batches /\ index \in Nat /\ idx = index /\ used = 0 /\ place = "leaf"
      /\ current = Merkle!Leaf(Nonce)
  BY MerkleAssumption DEF Merkle!Init
<1>2. Span = 1
  BY <1>1, Pow2Type DEF Span
<1>3. path \in Seq(Range(path)) /\ Len(path) \in Nat
  <2>1. PICK n \in 0..MaxPath : path \in [1..n -> Merkle!Hashes(batch) \cup {Merkle!Leaf(Nonce)}]
    BY DEF Merkle!Init
  <2>2. n \in Nat /\ path \in [1..n -> Range(path)]
    BY <2>1, MerkleAssumption DEF Range
  <2>3. path \in Seq(Range(path))
    BY <2>2, FunctionIsSeq
  <2>4. QED
    BY <2>3, LenProperties
<1>4. ClimbType
  BY <1>1, <1>3 DEF ClimbType
<1> DEFINE t == Merkle!Tree(batch)
<1>5. /\ Height \in Nat /\ Len(batch) \in Nat /\ Merkle!Pow2[Height] = Len(batch)
      /\ \A k \in 1..Len(batch) : t[0][k] = Merkle!Leaf(batch[k])
      /\ \A d \in 1..Height : \A k \in 1..(Merkle!Pow2[Height - d]) :
           t[d][k] = Merkle!Node(t[d - 1][2 * k - 1], t[d - 1][2 * k])
  BY <1>1, DepthIs, TreeEquation DEF Height
<1> HIDE DEF t
<1>6. SoundInv
  <2>1. SUFFICES ASSUME NEW d \in 0..Height, NEW q \in 1..(Merkle!Pow2[Height - d]),
                        current = t[d][q]
                 PROVE  NonceBelow(d, q)
    BY DEF SoundInv, t
  <2>2. d = 0
    <3>1. SUFFICES ASSUME d # 0 PROVE FALSE
      OBVIOUS
    <3>2. d \in 1..Height
      BY <1>5, <3>1
    <3>3. t[d][q] = Merkle!Node(t[d - 1][2 * q - 1], t[d - 1][2 * q])
      BY <1>5, <2>1, <3>2
    <3>4. Merkle!Leaf(Nonce) = Merkle!Node(t[d - 1][2 * q - 1], t[d - 1][2 * q])
      BY <1>1, <2>1, <3>3
    <3>5. QED
      BY <3>4, HashesDiffer
  <2>3. q \in 1..Len(batch) /\ Height - 0 = Height
    BY <1>5, <2>1, <2>2
  <2>4. batch[q] = Nonce
    <3>1. t[d][q] = Merkle!Leaf(batch[q])
      BY <1>5, <2>2, <2>3
    <3>2. Merkle!Leaf(Nonce) = Merkle!Leaf(batch[q])
      BY <1>1, <2>1, <3>1
    <3>3. QED
      BY <3>2, HashesDiffer
  <2>5. /\ 0 \in 0..(Span - 1) /\ index = idx * Span + 0
        /\ (q - 1) * Span + 0 + 1 = q
    BY <1>1, <1>2, <1>5, <2>3
  <2>6. QED
    BY <1>1, <2>2, <2>4, <2>5 DEF NonceBelow
<1>7. CompleteInv
  <2>1. SUFFICES ASSUME Genuine
                 PROVE  /\ idx = index \div Span /\ idx < Merkle!Pow2[Height - used]
                        /\ current = t[used][idx + 1]
    BY DEF CompleteInv, t
  <2>2. index + 1 \in 1..Len(batch) /\ batch[index + 1] = Nonce
    BY <1>1, <1>5, <2>1 DEF Genuine
  <2>3. index = index \div 1 /\ Height - 0 = Height /\ index < Len(batch)
    BY <1>1, <1>5, <2>1 DEF Genuine
  <2>4. QED
    BY <1>1, <1>2, <1>5, <2>2, <2>3
<1>8. QED
  BY <1>4, <1>6, <1>7

\* Climbing one level: what is needed of the tree, and the spans.
LEMMA Level ==
  ASSUME ClimbType
  PROVE  /\ Height \in Nat /\ Len(batch) \in Nat /\ used \in Nat
         /\ Merkle!Pow2[Height] = Len(batch)
         /\ Span \in Nat /\ Span >= 1 /\ Merkle!Pow2[used + 1] = 2 * Span
         /\ \A d \in 1..Height : Merkle!Pow2[Height - (d - 1)] = 2 * Merkle!Pow2[Height - d]
         /\ \A d \in 0..Height : Merkle!Pow2[Height - d] \in Nat
<1>1. /\ Height \in Nat /\ Len(batch) \in Nat /\ Merkle!Pow2[Height] = Len(batch)
  BY DepthIs DEF ClimbType, Height
<1>2. used \in Nat
  BY DEF ClimbType
<1>3. Span \in Nat /\ Span >= 1 /\ Merkle!Pow2[used + 1] = 2 * Span
  BY <1>2, Pow2Type DEF Span
<1>4. \A d \in 0..Height : Height - d \in Nat
  BY <1>1
<1>5. ASSUME NEW d \in 1..Height
      PROVE  Merkle!Pow2[Height - (d - 1)] = 2 * Merkle!Pow2[Height - d]
  <2>1. Height - d \in Nat /\ Height - (d - 1) = (Height - d) + 1
    BY <1>1
  <2>2. QED
    BY <2>1, Pow2Type
<1>6. QED
  BY <1>1, <1>2, <1>3, <1>4, <1>5, Pow2Type

LEMMA ClimbSound ==
  ASSUME ClimbType, SoundInv, Merkle!Climb
  PROVE  SoundInv'
<1> DEFINE t == Merkle!Tree(batch)
           P(d) == Merkle!Pow2[d]
<1>1. /\ Height \in Nat /\ Span \in Nat /\ Span >= 1 /\ P(used + 1) = 2 * Span
      /\ \A d \in 1..Height : P(Height - (d - 1)) = 2 * P(Height - d)
      /\ \A d \in 0..Height : P(Height - d) \in Nat
      /\ used \in Nat
  BY Level
<1>2. \A d \in 1..Height : \A k \in 1..(P(Height - d)) :
        t[d][k] = Merkle!Node(t[d - 1][2 * k - 1], t[d - 1][2 * k])
  BY TreeEquation DEF ClimbType, Height
<1>3. \A d \in 0..Height : \A q \in 1..(P(Height - d)) :
        current = t[d][q] => NonceBelow(d, q)
  BY DEF SoundInv
<1>4. /\ current' = IF idx % 2 = 0 THEN Merkle!Node(current, path[used + 1])
                                   ELSE Merkle!Node(path[used + 1], current)
      /\ idx' = idx \div 2 /\ used' = used + 1
      /\ UNCHANGED <<batch, path, index>>
  BY DEF Merkle!Climb
<1>5. idx \in Nat /\ index \in Nat
  BY DEF ClimbType
<1>6. Height' = Height /\ Span' = 2 * Span
  BY <1>1, <1>4 DEF Height, Span, Merkle!Depth
<1>7. \A k \in 1..Len(batch) : t[0][k] = Merkle!Leaf(batch[k])
  BY TreeEquation DEF ClimbType
<1>8. P(Height) = Len(batch)
  BY Level
<1> HIDE DEF t, P
<1>9. ASSUME NEW d \in 0..Height, NEW q \in 1..(P(Height - d)), current' = t[d][q]
      PROVE  NonceBelow(d, q)'
  <2>1. d # 0
    <3>1. SUFFICES ASSUME d = 0 PROVE FALSE
      OBVIOUS
    <3>2. Height - 0 = Height /\ q \in 1..Len(batch)
      BY <1>1, <1>8, <1>9, <3>1
    <3>3. t[d][q] = Merkle!Leaf(batch[q])
      BY <1>7, <3>1, <3>2
    <3>4. QED
      BY <1>4, <1>9, <3>3, HashesDiffer
  <2>2. d \in 1..Height /\ d - 1 \in 0..Height
    BY <1>1, <2>1
  <2>3. t[d][q] = Merkle!Node(t[d - 1][2 * q - 1], t[d - 1][2 * q])
    BY <1>2, <1>9, <2>2
  <2>4. 2 * q - 1 \in 1..(P(Height - (d - 1))) /\ 2 * q \in 1..(P(Height - (d - 1)))
    <3>1. P(Height - (d - 1)) = 2 * P(Height - d) /\ P(Height - d) \in Nat
      BY <1>1, <1>9, <2>2
    <3>2. QED
      BY <1>9, <3>1
  <2>5. CASE idx % 2 = 0
    <3>1. current = t[d - 1][2 * q - 1]
      BY <1>4, <1>9, <2>3, <2>5, HashesDiffer
    <3>2. NonceBelow(d - 1, 2 * q - 1)
      BY <1>3, <2>2, <2>4, <3>1
    <3>3. PICK r \in 0..(Span - 1) :
            index = idx * Span + r /\ batch[(2 * q - 1 - 1) * Span + r + 1] = Nonce
      BY <3>2 DEF NonceBelow
    <3>4. d = used + 1
      BY <1>1, <1>9, <3>2 DEF NonceBelow
    <3>5. r \in 0..(2 * Span - 1) /\ (2 * q - 1 - 1) * Span = (q - 1) * (2 * Span)
      BY <1>1, <1>9
    <3>6. idx * Span = (idx \div 2) * (2 * Span)
      <4>1. idx = 2 * (idx \div 2) /\ idx \div 2 \in Nat
        BY <1>5, <2>5
      <4>2. \A a \in Nat : (2 * a) * Span = a * (2 * Span)
        BY <1>1
      <4>3. QED
        BY <4>1, <4>2
    <3>7. QED
      BY <1>4, <1>6, <3>3, <3>4, <3>5, <3>6 DEF NonceBelow
  <2>6. CASE idx % 2 # 0
    <3>1. current = t[d - 1][2 * q]
      BY <1>4, <1>9, <2>3, <2>6, HashesDiffer
    <3>2. NonceBelow(d - 1, 2 * q)
      BY <1>3, <2>2, <2>4, <3>1
    <3>3. PICK r \in 0..(Span - 1) :
            index = idx * Span + r /\ batch[(2 * q - 1) * Span + r + 1] = Nonce
      BY <3>2 DEF NonceBelow
    <3>4. d = used + 1
      BY <1>1, <1>9, <3>2 DEF NonceBelow
    <3>5. /\ Span + r \in 0..(2 * Span - 1)
          /\ (2 * q - 1) * Span + r + 1 = (q - 1) * (2 * Span) + (Span + r) + 1
      <4>1. (2 * q - 1) * Span = (q - 1) * (2 * Span) + Span
        BY <1>1, <1>9
      <4>2. (q - 1) * (2 * Span) \in Int /\ r \in Int
        BY <1>1, <1>9
      <4>3. QED
        BY <1>1, <4>1, <4>2
    <3>6. idx * Span + r = (idx \div 2) * (2 * Span) + (Span + r)
      <4>1. idx = 2 * (idx \div 2) + 1 /\ idx \div 2 \in Nat
        BY <1>5, <2>6
      <4>2. \A a \in Nat : (2 * a + 1) * Span = a * (2 * Span) + Span /\ a * (2 * Span) \in Nat
        BY <1>1
      <4>3. idx * Span = (idx \div 2) * (2 * Span) + Span /\ (idx \div 2) * (2 * Span) \in Nat
        BY <4>1, <4>2
      <4>4. QED
        BY <1>1, <4>3
    <3>7. QED
      BY <1>4, <1>6, <3>3, <3>4, <3>5, <3>6 DEF NonceBelow
  <2>7. QED
    BY <2>5, <2>6
<1>10. QED
  <2>1. Merkle!Tree(batch)' = t
    BY <1>4 DEF t, Merkle!Tree, Merkle!Depth
  <2>2. QED
    BY <1>6, <1>9, <2>1 DEF SoundInv, P

LEMMA SameTree ==
  batch' = batch => Merkle!Tree(batch)' = Merkle!Tree(batch) /\ Height' = Height
BY DEF Merkle!Tree, Merkle!Depth, Height

LEMMA SameGenuine ==
  ASSUME UNCHANGED <<batch, path, index>>
  PROVE  Genuine' <=> Genuine
<1>1. Merkle!Tree(batch)' = Merkle!Tree(batch) /\ Merkle!Depth(batch)' = Merkle!Depth(batch)
  BY SameTree DEF Height
<1>2. Merkle!PathFrom(batch, index)' = Merkle!PathFrom(batch, index)
  BY <1>1 DEF Merkle!PathFrom, Merkle!Sibling
<1>3. QED
  BY <1>2 DEF Genuine

\* The genuine path has one hash for each level of the tree.
LEMMA GenuineLength ==
  ASSUME ClimbType, Genuine
  PROVE  /\ Len(path) = Height
         /\ \A d \in 1..Height :
              path[d] = Merkle!Tree(batch)[d - 1]
                          [Merkle!Sibling(index \div Merkle!Pow2[d - 1]) + 1]
<1> DEFINE h == Height
           e(d) == Merkle!Tree(batch)[d - 1][Merkle!Sibling(index \div Merkle!Pow2[d - 1]) + 1]
<1>1. h \in Nat
  BY Level
<1>2. path = [d \in 1..h |-> e(d)]
  BY DEF Genuine, Merkle!PathFrom, Height
<1>3. Len(path) \in Nat /\ DOMAIN path = 1..Len(path)
  BY LenProperties DEF ClimbType
<1> HIDE DEF h, e
<1>4. DOMAIN path = 1..h
  BY <1>2
<1>5. Len(path) = h
  <2>1. 1..Len(path) = 1..h
    BY <1>3, <1>4
  <2>2. QED
    BY <1>1, <1>3, <2>1, SameLength
<1>6. \A d \in 1..h : path[d] = e(d)
  BY <1>2
<1>7. QED
  BY <1>5, <1>6 DEF h, e

LEMMA ClimbComplete ==
  ASSUME ClimbType, CompleteInv, Merkle!Climb
  PROVE  CompleteInv'
<1> DEFINE t == Merkle!Tree(batch)
           P(d) == Merkle!Pow2[d]
<1>1. /\ Height \in Nat /\ Span \in Nat /\ Span >= 1 /\ P(used + 1) = 2 * Span
      /\ \A d \in 1..Height : P(Height - (d - 1)) = 2 * P(Height - d)
      /\ \A d \in 0..Height : P(Height - d) \in Nat
      /\ used \in Nat
  BY Level
<1>2. \A d \in 1..Height : \A k \in 1..(P(Height - d)) :
        t[d][k] = Merkle!Node(t[d - 1][2 * k - 1], t[d - 1][2 * k])
  BY TreeEquation DEF ClimbType, Height
<1>3. /\ current' = IF idx % 2 = 0 THEN Merkle!Node(current, path[used + 1])
                                   ELSE Merkle!Node(path[used + 1], current)
      /\ idx' = idx \div 2 /\ used' = used + 1 /\ used < Len(path)
      /\ UNCHANGED <<batch, path, index>>
  BY DEF Merkle!Climb
<1>4. idx \in Nat /\ index \in Nat
  BY DEF ClimbType
<1>5. Height' = Height /\ Span' = 2 * Span /\ Merkle!Tree(batch)' = t
  BY <1>1, <1>3 DEF Height, Span, Merkle!Depth, t, Merkle!Tree
<1>6. SUFFICES ASSUME Genuine
               PROVE  /\ idx' = index \div (2 * Span)
                      /\ idx' < Merkle!Pow2[Height - (used + 1)]
                      /\ current' = t[used + 1][idx' + 1]
  <2>1. Genuine' => Genuine
    BY <1>3, SameGenuine
  <2>2. QED
    BY <1>3, <1>5, <2>1 DEF CompleteInv
<1>7. idx = index \div Span /\ idx < P(Height - used) /\ current = t[used][idx + 1]
  BY <1>6 DEF CompleteInv
<1>8. used + 1 \in 1..Height /\ (used + 1) - 1 = used
  BY <1>1, <1>3, <1>6, GenuineLength
<1>9. path[used + 1] = t[used][Merkle!Sibling(idx) + 1]
  <2>1. \A d \in 1..Height : path[d] = t[d - 1][Merkle!Sibling(index \div P(d - 1)) + 1]
    BY <1>6, GenuineLength
  <2>2. path[used + 1] = t[(used + 1) - 1][Merkle!Sibling(index \div P((used + 1) - 1)) + 1]
    BY <1>8, <2>1
  <2>3. P((used + 1) - 1) = Span
    BY <1>8 DEF Span
  <2>4. QED
    BY <1>7, <1>8, <2>2, <2>3
<1> HIDE DEF t, P
<1>10. P(Height - used) = 2 * P(Height - (used + 1)) /\ P(Height - (used + 1)) \in Nat
  <2>1. used + 1 \in 0..Height
    BY <1>8
  <2>2. \A d \in 1..Height : d - 1 = used => P(Height - used) = 2 * P(Height - d)
    BY <1>1
  <2>3. QED
    BY <1>1, <1>8, <2>1, <2>2
<1>11. idx \div 2 = index \div (2 * Span)
  <2>1. \A a \in Nat, s \in Nat : s >= 1 => (a \div s) \div 2 = a \div (2 * s)
    OBVIOUS
  <2>2. QED
    BY <1>1, <1>4, <1>7, <2>1
<1>12. idx \div 2 \in Nat /\ idx \div 2 < P(Height - (used + 1))
  BY <1>4, <1>7, <1>10
<1>13. (idx \div 2) + 1 \in 1..(P(Height - (used + 1)))
  BY <1>10, <1>12
<1>14. t[used + 1][(idx \div 2) + 1] =
         Merkle!Node(t[used][2 * (idx \div 2) + 1], t[used][2 * (idx \div 2) + 2])
  <2> DEFINE k == (idx \div 2) + 1
  <2>1. k \in 1..(P(Height - (used + 1)))
    BY <1>13
  <2>2. 2 * k - 1 = 2 * (idx \div 2) + 1 /\ 2 * k = 2 * (idx \div 2) + 2
    BY <1>12
  <2> HIDE DEF k
  <2>3. t[used + 1][k] = Merkle!Node(t[(used + 1) - 1][2 * k - 1], t[(used + 1) - 1][2 * k])
    BY <1>2, <1>8, <2>1
  <2>4. t[used + 1][k] = Merkle!Node(t[used][2 * k - 1], t[used][2 * k])
    BY <1>8, <2>3
  <2>5. QED
    BY <2>2, <2>4 DEF k
<1>15. current' = t[used + 1][(idx \div 2) + 1]
  <2>1. CASE idx % 2 = 0
    <3>1. 2 * (idx \div 2) + 1 = idx + 1 /\ 2 * (idx \div 2) + 2 = (idx + 1) + 1
      BY <1>4, <2>1
    <3>2. current' = Merkle!Node(t[used][idx + 1], t[used][(idx + 1) + 1])
      BY <1>3, <1>7, <1>9, <2>1 DEF Merkle!Sibling
    <3>3. QED
      BY <1>14, <3>1, <3>2
  <2>2. CASE idx % 2 # 0
    <3>1. 2 * (idx \div 2) + 1 = (idx - 1) + 1 /\ 2 * (idx \div 2) + 2 = idx + 1
      BY <1>4, <2>2
    <3>2. current' = Merkle!Node(t[used][(idx - 1) + 1], t[used][idx + 1])
      BY <1>3, <1>7, <1>9, <2>2 DEF Merkle!Sibling
    <3>3. QED
      BY <1>14, <3>1, <3>2
  <2>3. QED
    BY <2>1, <2>2
<1>16. QED
  BY <1>3, <1>11, <1>12, <1>15 DEF P

LEMMA ClimbKeepsType ==
  ASSUME ClimbType, Merkle!Climb
  PROVE  ClimbType'
<1>1. Len(path) \in Nat
  BY LenProperties DEF ClimbType
<1>2. /\ UNCHANGED <<batch, path, index, place>> /\ place = "leaf"
      /\ used' = used + 1 /\ used < Len(path) /\ idx' = idx \div 2
  BY DEF Merkle!Climb
<1>3. used + 1 \in 0..Len(path) /\ idx \div 2 \in Nat
  BY <1>1, <1>2 DEF ClimbType
<1>4. QED
  BY <1>2, <1>3 DEF ClimbType, Range

LEMMA MerkleUnchanged ==
  ASSUME SoundInv, CompleteInv, UNCHANGED <<batch, path, index, current, idx, used>>
  PROVE  /\ SoundInv' /\ CompleteInv'
         /\ Merkle!Matches' <=> Merkle!Matches
<1>1. Merkle!Tree(batch)' = Merkle!Tree(batch) /\ Height' = Height /\ Span' = Span
  BY SameTree DEF Span
<1>2. SoundInv'
  BY <1>1 DEF SoundInv, NonceBelow
<1>3. Genuine' <=> Genuine
  BY SameGenuine
<1>4. CompleteInv'
  BY <1>1, <1>3 DEF CompleteInv
<1>5. Merkle!Matches' <=> Merkle!Matches
  BY <1>1 DEF Merkle!Matches, Merkle!Root, Height
<1>6. QED
  BY <1>2, <1>4, <1>5

LEMMA ClimbStep ==
  ASSUME ClimbType, SoundInv, CompleteInv, Merkle!Next
  PROVE  ClimbType' /\ SoundInv' /\ CompleteInv'
<1>1. CASE Merkle!Climb
  BY <1>1, ClimbKeepsType, ClimbSound, ClimbComplete
<1>2. CASE Merkle!Compare
  <2>1. UNCHANGED <<batch, path, index, current, idx, used>> /\ used = Len(path)
    BY <1>2 DEF Merkle!Compare
  <2>2. SoundInv' /\ CompleteInv' /\ (Merkle!Matches' <=> Merkle!Matches)
    BY <2>1, MerkleUnchanged
  <2>3. place' = IF Merkle!Matches THEN "accepted" ELSE "rejected"
    BY <1>2 DEF Merkle!Compare
  <2>4. ClimbType'
    BY <2>1, <2>2, <2>3 DEF ClimbType, Range
  <2>5. QED
    BY <2>2, <2>4
<1>3. CASE Merkle!Decided
  <2>1. UNCHANGED <<batch, path, index, place, current, idx, used>>
    BY <1>3 DEF Merkle!Decided, Merkle!vars
  <2>2. SoundInv' /\ CompleteInv' /\ (Merkle!Matches' <=> Merkle!Matches)
    BY <2>1, MerkleUnchanged
  <2>3. ClimbType'
    BY <2>1, <2>2 DEF ClimbType, Range
  <2>4. QED
    BY <2>2, <2>3
<1>4. QED
  BY <1>1, <1>2, <1>3 DEF Merkle!Next

LEMMA ClimbProves ==
  ASSUME ClimbType, SoundInv, CompleteInv
  PROVE  Merkle!PathProvesNonce
<1>1. /\ Height \in Nat /\ Len(batch) \in Nat /\ Merkle!Pow2[Height] = Len(batch)
      /\ Span \in Nat /\ Span >= 1
  BY Level
<1>2. index \in Nat /\ idx \in Nat
  BY DEF ClimbType
<1>3. Height - Height = 0 /\ Merkle!Pow2[0] = 1 /\ Height \in 0..Height
  BY <1>1, Pow2Type
<1>4. Merkle!Root(batch) = Merkle!Tree(batch)[Height][1]
  BY DEF Merkle!Root, Height
<1>5. ASSUME place = "accepted"
      PROVE  index < Len(batch) /\ batch[index + 1] = Nonce
  <2>1. current = Merkle!Tree(batch)[Height][1] /\ idx = 0
    BY <1>4, <1>5 DEF ClimbType, Merkle!Matches
  <2>2. 1 \in 1..(Merkle!Pow2[Height - Height])
    BY <1>3
  <2>3. NonceBelow(Height, 1)
    BY <1>3, <2>1, <2>2 DEF SoundInv
  <2>4. PICK r \in 0..(Span - 1) :
          index = idx * Span + r /\ batch[(1 - 1) * Span + r + 1] = Nonce
    BY <2>3 DEF NonceBelow
  <2>5. index = r /\ (1 - 1) * Span + r + 1 = r + 1 /\ r < Span
    BY <1>1, <2>1, <2>4
  <2>6. Span = Len(batch)
    BY <1>1, <2>3 DEF NonceBelow, Span
  <2>7. QED
    BY <2>4, <2>5, <2>6
<1>6. ASSUME place = "rejected", index < Len(batch), path = Merkle!PathFrom(batch, index),
             batch[index + 1] = Nonce
      PROVE  FALSE
  <2>1. Genuine
    BY <1>6 DEF Genuine
  <2>2. used = Height
    BY <1>6, <2>1, GenuineLength DEF ClimbType
  <2>3. idx < Merkle!Pow2[0] /\ current = Merkle!Tree(batch)[Height][idx + 1]
    BY <1>3, <2>1, <2>2 DEF CompleteInv
  <2>4. idx = 0
    BY <1>2, <1>3, <2>3
  <2>5. Merkle!Matches
    BY <1>4, <2>3, <2>4 DEF Merkle!Matches
  <2>6. QED
    BY <1>6, <2>5 DEF ClimbType
<1>7. QED
  BY <1>5, <1>6 DEF Merkle!PathProvesNonce

-----------------------------------------------------------------------------
(* PathProvesNonce: for a tree of any height, verify_roughtime_response    *)
(* accepts a path only for the client's nonce at the index of the response,*)
(* and accepts the path of the client's own leaf.                          *)
THEOREM PathsProveNonces == FormatsSpec => []PathProvesNonce
<1>1. FormatsInit => ClimbInv
  BY ClimbInit DEF FormatsInit, ClimbInv
<1>2. ClimbInv /\ [FormatsNext]_<<task, vars, merkle, calendar>> => ClimbInv'
  <2> SUFFICES ASSUME ClimbInv, [FormatsNext]_<<task, vars, merkle, calendar>>, task' = "climb"
               PROVE  ClimbType' /\ SoundInv' /\ CompleteInv'
    BY DEF ClimbInv
  <2>1. task = "climb"
    BY DEF FormatsNext
  <2>2. ClimbType /\ SoundInv /\ CompleteInv
    BY <2>1 DEF ClimbInv
  <2>3. CASE Merkle!Next
    BY <2>2, <2>3, ClimbStep
  <2>4. CASE UNCHANGED merkle
    <3>1. UNCHANGED <<batch, path, index, place, current, idx, used>>
      BY <2>4 DEF merkle
    <3>2. SoundInv' /\ CompleteInv' /\ (Merkle!Matches' <=> Merkle!Matches)
      BY <2>2, <3>1, MerkleUnchanged
    <3>3. ClimbType'
      BY <2>2, <3>1, <3>2 DEF ClimbType, Range
    <3>4. QED
      BY <3>2, <3>3
  <2>5. QED
    BY <2>1, <2>3, <2>4 DEF FormatsNext
<1>3. ClimbInv => PathProvesNonce
  BY ClimbProves DEF ClimbInv, PathProvesNonce
<1>4. QED
  BY <1>1, <1>2, <1>3, PTL DEF FormatsSpec

-----------------------------------------------------------------------------
(* Sums: the loops over the years and the months of a date.                *)

\* The equation of a sum of the values of a from lo on, up to n.
Sums(f, a, lo, n) == f = [k \in lo..n |-> IF k = lo THEN 0 ELSE f[k - 1] + a[k - 1]]

LEMMA SumsAt ==
  ASSUME NEW f, NEW a, NEW lo, NEW n, Sums(f, a, lo, n)
  PROVE  \A k \in lo..n : f[k] = IF k = lo THEN 0 ELSE f[k - 1] + a[k - 1]
<1> DEFINE g == [k \in lo..n |-> IF k = lo THEN 0 ELSE f[k - 1] + a[k - 1]]
<1>1. \A k \in lo..n : g[k] = IF k = lo THEN 0 ELSE f[k - 1] + a[k - 1]
  OBVIOUS
<1>2. f = g
  BY DEF Sums
<1> HIDE DEF g
<1>3. QED
  BY <1>1, <1>2

LEMMA SumsExist ==
  ASSUME NEW a, NEW lo \in Int
  PROVE  \A n \in Nat : \E f : Sums(f, a, lo, lo + n)
<1> DEFINE S == {n \in Nat : \E f : Sums(f, a, lo, lo + n)}
<1>1. 0 \in S
  <2> DEFINE f == [k \in lo..lo |-> 0]
  <2>1. f = [k \in lo..(lo + 0) |-> IF k = lo THEN 0 ELSE f[k - 1] + a[k - 1]]
    OBVIOUS
  <2> HIDE DEF f
  <2>2. Sums(f, a, lo, lo + 0)
    BY <2>1 DEF Sums
  <2>3. QED
    BY <2>2
<1>2. ASSUME NEW n \in Nat, n \in S PROVE n + 1 \in S
  <2> DEFINE m == lo + n
  <2>1. PICK f : Sums(f, a, lo, m)
    BY <1>2
  <2> DEFINE g == [k \in lo..(m + 1) |-> IF k <= m THEN f[k] ELSE f[m] + a[m]]
  <2>2. \A k \in lo..m : f[k] = IF k = lo THEN 0 ELSE f[k - 1] + a[k - 1]
    BY <2>1, SumsAt
  <2>3. m \in Int /\ lo <= m /\ m + 1 = lo + (n + 1)
    OBVIOUS
  <2> HIDE DEF m
  <2>4. ASSUME NEW k \in lo..(m + 1) PROVE g[k] = IF k = lo THEN 0 ELSE g[k - 1] + a[k - 1]
    <3>1. CASE k <= m
      <4>1. k \in lo..m /\ (k # lo => k - 1 \in lo..m)
        BY <2>3, <3>1
      <4>2. k # lo => g[k - 1] = f[k - 1]
        BY <2>3, <4>1
      <4>3. QED
        BY <2>2, <3>1, <4>1, <4>2
    <3>2. CASE k = m + 1
      <4>1. k # lo /\ k - 1 = m /\ m \in lo..(m + 1) /\ ~(k <= m)
        BY <2>3, <3>2
      <4>2. g[m] = f[m] /\ g[k] = f[m] + a[m]
        BY <2>3, <4>1
      <4> HIDE DEF g
      <4>3. QED
        BY <4>1, <4>2
    <3>3. QED
      BY <2>3, <3>1, <3>2
  <2>5. g = [k \in lo..(m + 1) |-> IF k = lo THEN 0 ELSE g[k - 1] + a[k - 1]]
    <3>1. g = [k \in lo..(m + 1) |-> g[k]]
      OBVIOUS
    <3> HIDE DEF g
    <3>2. QED
      BY <2>4, <3>1
  <2> HIDE DEF g
  <2>6. Sums(g, a, lo, lo + (n + 1))
    BY <2>3, <2>5 DEF Sums
  <2>7. QED
    BY <2>6
<1> HIDE DEF S
<1>3. Nat \subseteq S
  BY <1>1, <1>2, InductionSet
<1>4. QED
  BY <1>3 DEF S

\* Two such sums agree where both are defined.
LEMMA SumsAgree ==
  ASSUME NEW a, NEW lo \in Int, NEW m \in Int, NEW n \in Int, lo <= m, m <= n,
         NEW f, NEW g, Sums(f, a, lo, m), Sums(g, a, lo, n)
  PROVE  f[m] = g[m]
<1> DEFINE S == {d \in Nat : lo + d <= m => f[lo + d] = g[lo + d]}
<1>1. \A k \in lo..m : f[k] = IF k = lo THEN 0 ELSE f[k - 1] + a[k - 1]
  BY SumsAt
<1>2. \A k \in lo..n : g[k] = IF k = lo THEN 0 ELSE g[k - 1] + a[k - 1]
  BY SumsAt
<1>3. \A k \in lo..m : k \in lo..n
  OBVIOUS
<1>4. 0 \in S
  <2>1. lo \in lo..m /\ lo + 0 = lo
    OBVIOUS
  <2>2. QED
    BY <1>1, <1>2, <1>3, <2>1
<1>5. ASSUME NEW d \in Nat, d \in S PROVE d + 1 \in S
  <2> DEFINE k == lo + (d + 1)
  <2>1. SUFFICES ASSUME k <= m PROVE f[k] = g[k]
    OBVIOUS
  <2>2. k \in lo..m /\ k # lo /\ k - 1 = lo + d /\ lo + d <= m
    BY <2>1
  <2> HIDE DEF k
  <2>3. f[k] = f[k - 1] + a[k - 1] /\ g[k] = g[k - 1] + a[k - 1]
    BY <1>1, <1>2, <1>3, <2>2
  <2>4. f[lo + d] = g[lo + d]
    BY <1>5, <2>2
  <2>5. QED
    BY <2>2, <2>3, <2>4
<1> HIDE DEF S
<1>6. m - lo \in Nat /\ lo + (m - lo) = m
  OBVIOUS
<1>7. Nat \subseteq S
  BY <1>4, <1>5, InductionSet
<1>8. QED
  BY <1>6, <1>7 DEF S

-----------------------------------------------------------------------------
(* Years and months.                                                       *)

YearDays(y) == IF Date!is_leap_year(y) THEN 366 ELSE 365

LEMMA YearsSum ==
  ASSUME NEW y \in Int, y >= 1970
  PROVE  \E f : Sums(f, [k \in Int |-> YearDays(k)], 1970, y) /\ Date!DaysBefore(y) = f[y]
<1> DEFINE a == [k \in Int |-> YearDays(k)]
           c == IF y < 1970 THEN 1970 ELSE y
           P(f, n) == f = [k \in 1970..n |-> IF k = 1970 THEN 0
                        ELSE f[k - 1] + (IF Date!is_leap_year(k - 1) THEN 366 ELSE 365)]
           days(n) == CHOOSE f : P(f, n)
           q == days(y)
<1>1. c = y
  OBVIOUS
<1>2. Date!DaysBefore(y) = q[y]
  <2>1. Date!DaysBefore(y) = days(c)[c]
    BY DEF Date!DaysBefore
  <2> HIDE DEF c, days
  <2>2. QED
    BY <1>1, <2>1
<1>3. \A k \in 1970..y : a[k - 1] = IF Date!is_leap_year(k - 1) THEN 366 ELSE 365
  BY DEF YearDays
<1>4. PICK f : Sums(f, a, 1970, y)
  <2>1. y - 1970 \in Nat /\ 1970 + (y - 1970) = y
    OBVIOUS
  <2> HIDE DEF a
  <2>2. \A n \in Nat : \E f : Sums(f, a, 1970, 1970 + n)
    BY SumsExist
  <2>3. QED
    BY <2>1, <2>2
<1> HIDE DEF a
<1>5. P(f, y)
  BY <1>3, <1>4 DEF Sums
<1> HIDE DEF P
<1>6. P(q, y)
  BY <1>5
<1> HIDE DEF q
<1>7. Sums(q, a, 1970, y)
  BY <1>3, <1>6 DEF Sums, P
<1>8. QED
  BY <1>2, <1>7 DEF a

LEMMA DaysBeforeStep ==
  /\ Date!DaysBefore(1970) = 0
  /\ \A y \in Nat : y >= 1970 => Date!DaysBefore(y + 1) = Date!DaysBefore(y) + YearDays(y)
<1> DEFINE a == [k \in Int |-> YearDays(k)]
<1>1. \A k \in Int : a[k] = YearDays(k)
  OBVIOUS
<1>2. \A y \in Int : y >= 1970 => \E f : Sums(f, a, 1970, y) /\ Date!DaysBefore(y) = f[y]
  BY YearsSum
<1> HIDE DEF a
<1>3. Date!DaysBefore(1970) = 0
  <2>1. PICK f : Sums(f, a, 1970, 1970) /\ Date!DaysBefore(1970) = f[1970]
    BY <1>2
  <2>2. 1970 \in 1970..1970
    OBVIOUS
  <2>3. f[1970] = 0
    BY <2>1, <2>2, SumsAt
  <2>4. QED
    BY <2>1, <2>3
<1>4. ASSUME NEW y \in Nat, y >= 1970
      PROVE  Date!DaysBefore(y + 1) = Date!DaysBefore(y) + YearDays(y)
  <2>1. y + 1 \in Int /\ y \in Int /\ y + 1 >= 1970 /\ y + 1 # 1970 /\ (y + 1) - 1 = y
        /\ y + 1 \in 1970..(y + 1) /\ 1970 <= y /\ y <= y + 1
    BY <1>4
  <2>2. PICK f : Sums(f, a, 1970, y) /\ Date!DaysBefore(y) = f[y]
    BY <1>2, <1>4, <2>1
  <2>3. PICK g : Sums(g, a, 1970, y + 1) /\ Date!DaysBefore(y + 1) = g[y + 1]
    BY <1>2, <2>1
  <2>4. f[y] = g[y]
    BY <2>1, <2>2, <2>3, SumsAgree
  <2>5. \A k \in 1970..(y + 1) : g[k] = IF k = 1970 THEN 0 ELSE g[k - 1] + a[k - 1]
    BY <2>3, SumsAt
  <2>6. g[y + 1] = g[y] + a[y]
    <3>1. \A k \in 1970..(y + 1) : k # 1970 /\ k - 1 = y => g[k] = g[y] + a[y]
      BY <2>5
    <3>2. QED
      BY <2>1, <3>1
  <2>7. QED
    BY <1>1, <2>1, <2>2, <2>3, <2>4, <2>6
<1>5. QED
  BY <1>3, <1>4

\* Years before y have between 0 and 366 days each.
LEMMA DaysBeforeType ==
  \A y \in Nat : y >= 1970 =>
    Date!DaysBefore(y) \in Nat /\ Date!DaysBefore(y) <= 366 * (y - 1970)
<1> DEFINE B(y) == Date!DaysBefore(y) \in Nat /\ Date!DaysBefore(y) <= 366 * (y - 1970)
           S == {d \in Nat : B(1970 + d)}
<1>1. 0 \in S
  <2>1. 1970 + 0 = 1970 /\ 366 * (1970 - 1970) = 0
    OBVIOUS
  <2>2. QED
    BY <2>1, DaysBeforeStep
<1>2. ASSUME NEW d \in Nat, d \in S PROVE d + 1 \in S
  <2> DEFINE y == 1970 + d
  <2>1. y \in Nat /\ y >= 1970 /\ 1970 + (d + 1) = y + 1
    OBVIOUS
  <2>2. B(y)
    BY <1>2
  <2> HIDE DEF y
  <2>3. Date!DaysBefore(y + 1) = Date!DaysBefore(y) + YearDays(y)
    BY <2>1, DaysBeforeStep
  <2>4. YearDays(y) \in Nat /\ YearDays(y) <= 366
    BY DEF YearDays
  <2>5. B(y + 1)
    BY <2>1, <2>2, <2>3, <2>4
  <2>6. QED
    BY <2>1, <2>5
<1> HIDE DEF S
<1>3. Nat \subseteq S
  BY <1>1, <1>2, InductionSet
<1>4. ASSUME NEW y \in Nat, y >= 1970 PROVE B(y)
  <2>1. y - 1970 \in Nat /\ 1970 + (y - 1970) = y
    BY <1>4
  <2>2. QED
    BY <1>3, <2>1 DEF S
<1>5. QED
  BY <1>4

LEMMA DaysBeforeMonthStep ==
  ASSUME NEW y
  PROVE  /\ Date!DaysBeforeMonth(y, 1) = 0
         /\ \A m \in 1..11 : Date!DaysBeforeMonth(y, m + 1) =
                               Date!DaysBeforeMonth(y, m) + Date!month_days(y)[m]
<1> DEFINE a == Date!month_days(y)
<1>1. ASSUME NEW m \in 1..12
      PROVE  \E f : Sums(f, a, 1, m) /\ Date!DaysBeforeMonth(y, m) = f[m]
  <2> HIDE DEF a
  <2> DEFINE q == CHOOSE f : f = [k \in 1..m |-> IF k = 1 THEN 0 ELSE f[k - 1] + a[k - 1]]
  <2>1. Date!DaysBeforeMonth(y, m) = q[m]
    BY DEF Date!DaysBeforeMonth, a
  <2>2. \E f : Sums(f, a, 1, m)
    <3>1. m - 1 \in Nat /\ 1 + (m - 1) = m /\ 1 \in Int
      OBVIOUS
    <3>2. \A n \in Nat : \E f : Sums(f, a, 1, 1 + n)
      BY <3>1, SumsExist
    <3>3. QED
      BY <3>1, <3>2
  <2>3. Sums(q, a, 1, m)
    BY <2>2 DEF Sums
  <2>4. QED
    BY <2>1, <2>3
<1> HIDE DEF a
<1>2. Date!DaysBeforeMonth(y, 1) = 0
  <2>1. 1 \in 1..12 /\ 1 \in 1..1
    OBVIOUS
  <2>2. PICK f : Sums(f, a, 1, 1) /\ Date!DaysBeforeMonth(y, 1) = f[1]
    BY <1>1, <2>1
  <2>3. f[1] = 0
    BY <2>1, <2>2, SumsAt
  <2>4. QED
    BY <2>2, <2>3
<1>3. ASSUME NEW m \in 1..11
      PROVE  Date!DaysBeforeMonth(y, m + 1) = Date!DaysBeforeMonth(y, m) + a[m]
  <2>1. m \in 1..12 /\ m + 1 \in 1..12 /\ m + 1 # 1 /\ (m + 1) - 1 = m /\ m + 1 \in 1..(m + 1)
        /\ m \in Int /\ m + 1 \in Int /\ 1 \in Int /\ 1 <= m /\ m <= m + 1
    OBVIOUS
  <2>2. PICK f : Sums(f, a, 1, m) /\ Date!DaysBeforeMonth(y, m) = f[m]
    BY <1>1, <2>1
  <2>3. PICK g : Sums(g, a, 1, m + 1) /\ Date!DaysBeforeMonth(y, m + 1) = g[m + 1]
    BY <1>1, <2>1
  <2>4. f[m] = g[m]
    BY <2>1, <2>2, <2>3, SumsAgree
  <2>5. \A k \in 1..(m + 1) : g[k] = IF k = 1 THEN 0 ELSE g[k - 1] + a[k - 1]
    BY <2>3, SumsAt
  <2>6. g[m + 1] = g[m] + a[m]
    <3>1. \A k \in 1..(m + 1) : k # 1 /\ k - 1 = m => g[k] = g[m] + a[m]
      BY <2>5
    <3>2. QED
      BY <2>1, <3>1
  <2>7. QED
    BY <2>2, <2>3, <2>4, <2>6
<1>4. QED
  BY <1>2, <1>3 DEF a

\* The days of a year are those of its months.
LEMMA MonthSum ==
  ASSUME NEW y
  PROVE  /\ \A m \in 1..12 : /\ Date!DaysBeforeMonth(y, m) \in Nat
                             /\ Date!month_days(y)[m] \in 28..31
                             /\ Date!DaysBeforeMonth(y, m) + Date!month_days(y)[m] <= YearDays(y)
         /\ Date!DaysBeforeMonth(y, 12) + Date!month_days(y)[12] = YearDays(y)
<1> DEFINE B(m) == Date!DaysBeforeMonth(y, m)
           a == Date!month_days(y)
           feb == IF Date!is_leap_year(y) THEN 29 ELSE 28
<1>1. /\ a[1] = 31 /\ a[2] = feb /\ a[3] = 31 /\ a[4] = 30 /\ a[5] = 31 /\ a[6] = 30
      /\ a[7] = 31 /\ a[8] = 31 /\ a[9] = 30 /\ a[10] = 31 /\ a[11] = 30 /\ a[12] = 31
  BY DEF Date!month_days
<1>2. feb \in 28..29 /\ YearDays(y) = 337 + feb
  BY DEF YearDays
<1>3. B(1) = 0 /\ \A m \in 1..11 : B(m + 1) = B(m) + a[m]
  BY DaysBeforeMonthStep
<1> HIDE DEF B, a, feb
<1>4. /\ B(2) = B(1) + a[1] /\ B(3) = B(2) + a[2] /\ B(4) = B(3) + a[3] /\ B(5) = B(4) + a[4]
      /\ B(6) = B(5) + a[5] /\ B(7) = B(6) + a[6] /\ B(8) = B(7) + a[7] /\ B(9) = B(8) + a[8]
      /\ B(10) = B(9) + a[9] /\ B(11) = B(10) + a[10] /\ B(12) = B(11) + a[11]
  BY <1>3
<1>5. /\ B(1) = 0 /\ B(2) = 31 /\ B(3) = 31 + feb /\ B(4) = 62 + feb /\ B(5) = 92 + feb
      /\ B(6) = 123 + feb /\ B(7) = 153 + feb /\ B(8) = 184 + feb /\ B(9) = 215 + feb
      /\ B(10) = 245 + feb /\ B(11) = 276 + feb /\ B(12) = 306 + feb
  BY <1>1, <1>2, <1>3, <1>4
<1>6. ASSUME NEW m \in 1..12
      PROVE  B(m) \in Nat /\ a[m] \in 28..31 /\ B(m) + a[m] <= YearDays(y)
  <2>1. m \in {1, 2, 3, 4, 5, 6, 7, 8, 9, 10, 11, 12}
    OBVIOUS
  <2>2. QED
    BY <1>1, <1>2, <1>5, <2>1
<1>7. B(12) + a[12] = YearDays(y)
  BY <1>1, <1>2, <1>5
<1>8. QED
  BY <1>6, <1>7 DEF B, a

-----------------------------------------------------------------------------
(* The calendar.                                                           *)

DaysAt(d) ==
  Date!DaysBefore(d.year) + Date!DaysBeforeMonth(d.year, Date!MonthNumber(d)) + d.day - 1

Months == {Date!MonthNames[m] : m \in 1..12}

DateRecord == [year : Nat, month : Months, day : Nat, hour : Nat, minute : Nat, second : Nat]

ValidDate(d) ==
  /\ d \in DateRecord
  /\ d.year \in 1970..LastYear
  /\ d.day \in 1..Date!DaysIn(d)
  /\ d.hour < Day \div Hour /\ d.minute < Hour \div Minute /\ d.second < Minute

\* The date is a second of the calendar, and its days, hours, minutes and seconds are the
\* ones that have passed.
SecondsAt(d) == DaysAt(d) * Day + d.hour * Hour + d.minute * Minute + d.second

CalendarInv == task = "date" => ValidDate(date) /\ elapsed = SecondsAt(date)

LEMMA Units ==
  /\ Minute \in Nat /\ Minute >= 1 /\ Hour \in Nat /\ Hour >= 1 /\ Day \in Nat /\ Day >= 1
  /\ Day \div Hour \in Nat /\ Day \div Hour >= 1 /\ (Day \div Hour) * Hour = Day
  /\ Hour \div Minute \in Nat /\ Hour \div Minute >= 1 /\ (Hour \div Minute) * Minute = Hour
<1>1. /\ Minute \in Nat /\ Minute >= 1 /\ Hour \in Nat /\ Hour >= 1 /\ Day \in Nat /\ Day >= 1
  BY DateAssumption
<1>2. \A h \in Nat, n \in Nat : h >= 1 => (n * h) \div h = n
  OBVIOUS
<1>3. PICK n \in 1..Hour : Hour = n * Minute
  BY DateAssumption
<1>4. PICK k \in 1..Day : Day = k * Hour
  BY DateAssumption
<1>5. Hour \div Minute = n
  <2>1. (n * Minute) \div Minute = n
    BY <1>1, <1>2
  <2>2. QED
    BY <1>3, <2>1
<1>6. Day \div Hour = k
  <2>1. (k * Hour) \div Hour = k
    BY <1>1, <1>2
  <2>2. QED
    BY <1>4, <2>1
<1>7. n \in Nat /\ n >= 1 /\ k \in Nat /\ k >= 1
  OBVIOUS
<1>8. QED
  BY <1>1, <1>3, <1>4, <1>5, <1>6, <1>7

LEMMA MonthIs ==
  ASSUME NEW d, NEW m \in 1..12, d.month = Date!MonthNames[m]
  PROVE  /\ Date!MonthNumber(d) = m
         /\ d.month = "Dec" <=> m = 12
         /\ d.month = "Feb" <=> m = 2
         /\ d.month \in {"Apr", "Jun", "Sep", "Nov"} <=> m \in {4, 6, 9, 11}
<1> DEFINE M == Date!MonthNames
<1>1. /\ M[1] = "Jan" /\ M[2] = "Feb" /\ M[3] = "Mar" /\ M[4] = "Apr" /\ M[5] = "May"
      /\ M[6] = "Jun" /\ M[7] = "Jul" /\ M[8] = "Aug" /\ M[9] = "Sep" /\ M[10] = "Oct"
      /\ M[11] = "Nov" /\ M[12] = "Dec"
  BY DEF Date!MonthNames
<1> HIDE DEF M
<1>2. \A k \in 1..12 : k \in {1, 2, 3, 4, 5, 6, 7, 8, 9, 10, 11, 12}
  OBVIOUS
<1>3. \A j \in 1..12, k \in 1..12 : M[j] = M[k] => j = k
  BY <1>1, <1>2
<1>4. Date!MonthNumber(d) = m
  <2>1. Date!MonthNumber(d) = CHOOSE k \in 1..12 : M[k] = d.month
    BY DEF Date!MonthNumber, M
  <2>2. M[m] = d.month
    BY DEF M
  <2>3. QED
    BY <1>3, <2>1, <2>2
<1>5. d.month = M[m] /\ m \in {1, 2, 3, 4, 5, 6, 7, 8, 9, 10, 11, 12}
  BY <1>2 DEF M
<1>6. /\ d.month = "Dec" <=> m = 12
      /\ d.month = "Feb" <=> m = 2
      /\ d.month \in {"Apr", "Jun", "Sep", "Nov"} <=> m \in {4, 6, 9, 11}
  BY <1>1, <1>5
<1>7. QED
  BY <1>4, <1>6

\* is_leap_year is the rule of the calendar.
LEMMA LeapYearIs ==
  ASSUME NEW y \in 1970..LastYear
  PROVE  Date!is_leap_year(y) <=> y \in LeapYears
<1>1. y \in LeapYears <=> IF y % 100 = 0 THEN y % 400 = 0 ELSE y % 4 = 0
  BY DateAssumption
<1>2. y \in Int
  OBVIOUS
<1>3. ((y % 4 = 0 /\ y % 100 # 0) \/ y % 400 = 0)
        <=> IF y % 100 = 0 THEN y % 400 = 0 ELSE y % 4 = 0
  BY <1>2
<1>4. QED
  BY <1>1, <1>3 DEF Date!is_leap_year

LEMMA DaysInIs ==
  ASSUME NEW d, NEW m \in 1..12, d.month = Date!MonthNames[m], d.year \in 1970..LastYear
  PROVE  Date!DaysIn(d) = Date!month_days(d.year)[m]
<1> DEFINE a == Date!month_days(d.year)
           feb == IF Date!is_leap_year(d.year) THEN 29 ELSE 28
<1>1. /\ a[1] = 31 /\ a[2] = feb /\ a[3] = 31 /\ a[4] = 30 /\ a[5] = 31 /\ a[6] = 30
      /\ a[7] = 31 /\ a[8] = 31 /\ a[9] = 30 /\ a[10] = 31 /\ a[11] = 30 /\ a[12] = 31
  BY DEF Date!month_days
<1>2. feb = IF d.year \in LeapYears THEN 29 ELSE 28
  BY LeapYearIs
<1> HIDE DEF a, feb
<1>3. Date!DaysIn(d) = IF m \in {4, 6, 9, 11} THEN 30 ELSE IF m = 2 THEN feb ELSE 31
  <2>1. CASE m \in {4, 6, 9, 11}
    BY <2>1, MonthIs DEF Date!DaysIn
  <2>2. CASE m = 2
    <3>1. d.month = "Feb" /\ d.month \notin {"Apr", "Jun", "Sep", "Nov"}
      BY <2>2, MonthIs
    <3>2. QED
      BY <1>2, <2>2, <3>1 DEF Date!DaysIn
  <2>3. CASE m \notin {4, 6, 9, 11} /\ m # 2
    <3>1. d.month # "Feb" /\ d.month \notin {"Apr", "Jun", "Sep", "Nov"}
      BY <2>3, MonthIs
    <3>2. QED
      BY <2>3, <3>1 DEF Date!DaysIn
  <2>4. QED
    BY <2>1, <2>2, <2>3
<1>4. m \in {1, 2, 3, 4, 5, 6, 7, 8, 9, 10, 11, 12}
  OBVIOUS
<1>5. QED
  BY <1>1, <1>3, <1>4 DEF a

\* What is known of a valid date.
LEMMA DateFacts ==
  ASSUME NEW d, ValidDate(d)
  PROVE  LET m == Date!MonthNumber(d) IN
         /\ m \in 1..12 /\ d.month = Date!MonthNames[m]
         /\ d.year \in Nat /\ d.year >= 1970 /\ d.year <= LastYear /\ LastYear \in Nat
         /\ Date!DaysIn(d) = Date!month_days(d.year)[m] /\ Date!DaysIn(d) \in 28..31
         /\ d.day \in Nat /\ d.day >= 1 /\ d.day <= Date!DaysIn(d)
         /\ Date!DaysBefore(d.year) \in Nat
         /\ Date!DaysBeforeMonth(d.year, m) \in Nat
         /\ DaysAt(d) \in Nat /\ DaysAt(d) < 366 * (LastYear - 1969)
         /\ d.hour \in Nat /\ d.minute \in Nat /\ d.second \in Nat
<1> DEFINE m == Date!MonthNumber(d)
           y == d.year
<1>1. m \in 1..12 /\ d.month = Date!MonthNames[m]
  <2>1. PICK k \in 1..12 : d.month = Date!MonthNames[k]
    BY DEF ValidDate, DateRecord, Months
  <2>2. m = k
    BY <2>1, MonthIs
  <2>3. QED
    BY <2>1, <2>2
<1>2. y \in Nat /\ y >= 1970 /\ y <= LastYear /\ LastYear \in Nat /\ y \in 1970..LastYear
  BY DateAssumption DEF ValidDate
<1>3. /\ d.day \in Nat /\ d.day >= 1 /\ d.day <= Date!DaysIn(d)
      /\ d.hour \in Nat /\ d.minute \in Nat /\ d.second \in Nat
  <2>1. d.day \in 1..Date!DaysIn(d) /\ d.day \in Nat
    BY DEF ValidDate
  <2>2. d.day >= 1 /\ d.day <= Date!DaysIn(d)
    BY <2>1
  <2>3. QED
    BY <2>1, <2>2 DEF ValidDate, DateRecord
<1>4. Date!DaysIn(d) = Date!month_days(y)[m]
  BY <1>1, <1>2, DaysInIs
<1>5. /\ Date!DaysBeforeMonth(y, m) \in Nat /\ Date!month_days(y)[m] \in 28..31
      /\ Date!DaysBeforeMonth(y, m) + Date!month_days(y)[m] <= YearDays(y)
  BY <1>1, MonthSum
<1>6. Date!DaysBefore(y) \in Nat /\ Date!DaysBefore(y) <= 366 * (y - 1970)
  BY <1>2, DaysBeforeType
<1>7. YearDays(y) \in Nat /\ YearDays(y) <= 366
  BY DEF YearDays
<1>8. DaysAt(d) = Date!DaysBefore(y) + Date!DaysBeforeMonth(y, m) + d.day - 1
  BY DEF DaysAt
<1> HIDE DEF m, y
<1>9. DaysAt(d) \in Nat /\ DaysAt(d) < 366 * (LastYear - 1969)
  BY <1>2, <1>3, <1>4, <1>5, <1>6, <1>7, <1>8
<1>10. QED
  BY <1>1, <1>2, <1>3, <1>4, <1>5, <1>6, <1>9 DEF m, y

\* A date is valid, and its days are counted, by the number of its month.
LEMMA DateMade ==
  ASSUME NEW d \in DateRecord, NEW m \in 1..12, d.month = Date!MonthNames[m],
         d.year \in 1970..LastYear, d.day \in 1..Date!month_days(d.year)[m],
         d.hour < Day \div Hour, d.minute < Hour \div Minute, d.second < Minute
  PROVE  /\ ValidDate(d)
         /\ DaysAt(d) = Date!DaysBefore(d.year) + Date!DaysBeforeMonth(d.year, m) + d.day - 1
<1>1. Date!DaysIn(d) = Date!month_days(d.year)[m]
  BY DaysInIs
<1>2. Date!MonthNumber(d) = m
  BY MonthIs
<1>3. QED
  BY <1>1, <1>2 DEF ValidDate, DaysAt, DateRecord

LEMMA NextDayStep ==
  ASSUME NEW d, ValidDate(d)
  PROVE  LET e == Date!NextDay(d) IN
         /\ e \in DateRecord
         /\ e.hour = d.hour /\ e.minute = d.minute /\ e.second = d.second
         /\ e.year <= LastYear => ValidDate(e) /\ DaysAt(e) = DaysAt(d) + 1
<1> DEFINE e == Date!NextDay(d)
           m == Date!MonthNumber(d)
           y == d.year
           B(k) == Date!DaysBeforeMonth(y, k)
           a == Date!month_days(y)
<1>1. /\ m \in 1..12 /\ d.month = Date!MonthNames[m]
      /\ y \in Nat /\ y >= 1970 /\ y <= LastYear /\ LastYear \in Nat
      /\ Date!DaysIn(d) = a[m] /\ Date!DaysIn(d) \in 28..31
      /\ d.day \in Nat /\ d.day >= 1 /\ d.day <= Date!DaysIn(d)
      /\ Date!DaysBefore(y) \in Nat /\ B(m) \in Nat
  BY DateFacts
<1>2. d \in DateRecord /\ d.hour < Day \div Hour /\ d.minute < Hour \div Minute /\ d.second < Minute
  BY DEF ValidDate, DateRecord
<1>3. DaysAt(d) = Date!DaysBefore(y) + B(m) + d.day - 1
  BY DEF DaysAt
<1>4. CASE d.day < Date!DaysIn(d)
  <2>1. e = [d EXCEPT !.day = @ + 1]
    BY <1>4 DEF Date!NextDay
  <2>2. /\ e \in DateRecord /\ e.year = y /\ e.month = d.month /\ e.day = d.day + 1
        /\ e.hour = d.hour /\ e.minute = d.minute /\ e.second = d.second
    BY <1>1, <1>2, <2>1 DEF DateRecord
  <2> HIDE DEF e, m, a
  <2>3. e.year \in 1970..LastYear /\ e.day \in 1..Date!month_days(e.year)[m]
    <3>1. d.day + 1 \in 1..a[m]
      BY <1>1, <1>4
    <3>2. Date!month_days(e.year) = a
      BY <2>2 DEF a
    <3>3. QED
      BY <1>1, <2>2, <3>1, <3>2
  <2>4. ValidDate(e) /\ DaysAt(e) = Date!DaysBefore(y) + B(m) + e.day - 1
    BY <1>1, <1>2, <2>2, <2>3, DateMade
  <2>5. DaysAt(e) = DaysAt(d) + 1
    BY <1>1, <1>3, <2>2, <2>4
  <2>6. QED
    BY <2>2, <2>4, <2>5 DEF e
<1>5. CASE d.day = Date!DaysIn(d) /\ m < 12
  <2>1. m \in 1..11 /\ m + 1 \in 1..12 /\ m # 12
    BY <1>1, <1>5
  <2>2. d.month # "Dec"
    BY <1>1, <2>1, MonthIs
  <2>3. e = [Date!NextMonth(d) EXCEPT !.day = 1]
    <3>1. ~(d.day < Date!DaysIn(d))
      BY <1>1, <1>5
    <3>2. QED
      BY <3>1 DEF Date!NextDay
  <2>4. Date!MonthNames[m + 1] \in Months
    BY <2>1 DEF Months
  <2>5. /\ e \in DateRecord /\ e.year = y /\ e.month = Date!MonthNames[m + 1] /\ e.day = 1
        /\ e.hour = d.hour /\ e.minute = d.minute /\ e.second = d.second
    <3> DEFINE n == Date!NextMonth(d)
               name == Date!MonthNames[m + 1]
    <3>1. n = [d EXCEPT !.month = name]
      BY <2>2 DEF Date!NextMonth
    <3>2. name \in Months
      BY <2>4
    <3> HIDE DEF name, m, e
    <3>3. /\ n \in DateRecord /\ n.year = d.year /\ n.month = name
          /\ n.hour = d.hour /\ n.minute = d.minute /\ n.second = d.second
      BY <1>2, <3>1, <3>2 DEF DateRecord
    <3> HIDE DEF n
    <3>4. e = [n EXCEPT !.day = 1]
      BY <2>3 DEF n
    <3>5. QED
      BY <3>3, <3>4 DEF DateRecord, name
  <2>6. B(m + 1) = B(m) + a[m] /\ a[m + 1] \in 28..31
    BY <2>1, DaysBeforeMonthStep, MonthSum
  <2> HIDE DEF e, m, a
  <2>7. e.year \in 1970..LastYear /\ e.day \in 1..Date!month_days(e.year)[m + 1]
    <3>1. 1 \in 1..a[m + 1]
      BY <2>6
    <3>2. Date!month_days(e.year) = a
      BY <2>5 DEF a
    <3>3. QED
      BY <1>1, <2>5, <3>1, <3>2
  <2>8. ValidDate(e) /\ DaysAt(e) = Date!DaysBefore(y) + B(m + 1) + e.day - 1
    BY <1>2, <2>1, <2>5, <2>7, DateMade
  <2>9. DaysAt(e) = DaysAt(d) + 1
    <3> HIDE DEF B
    <3>1. QED
      BY <1>1, <1>3, <1>5, <2>5, <2>6, <2>8
  <2>10. QED
    BY <2>5, <2>8, <2>9 DEF e
<1>6. CASE d.day = Date!DaysIn(d) /\ m = 12
  <2>1. d.month = "Dec"
    BY <1>1, <1>6, MonthIs
  <2>2. e = [Date!NextMonth(d) EXCEPT !.day = 1]
    <3>1. ~(d.day < Date!DaysIn(d))
      BY <1>1, <1>6
    <3>2. QED
      BY <3>1 DEF Date!NextDay
  <2>3. /\ e \in DateRecord /\ e.year = y + 1 /\ e.month = "Jan" /\ e.day = 1
        /\ e.hour = d.hour /\ e.minute = d.minute /\ e.second = d.second
    <3> DEFINE n == Date!NextMonth(d)
    <3>1. n = [d EXCEPT !.month = "Jan", !.year = @ + 1]
      BY <2>1 DEF Date!NextMonth
    <3> HIDE DEF m, e
    <3>2. /\ n \in DateRecord /\ n.year = d.year + 1 /\ n.month = "Jan"
          /\ n.hour = d.hour /\ n.minute = d.minute /\ n.second = d.second
      <4>1. d.year + 1 \in Nat
        BY <1>1
      <4>2. n = [[d EXCEPT !.month = "Jan"] EXCEPT !.year = d.year + 1]
        BY <1>2, <3>1 DEF DateRecord
      <4>3. "Jan" \in Months
        <5>1. 1 \in 1..12 /\ "Jan" = Date!MonthNames[1]
          BY DEF Date!MonthNames
        <5>2. QED
          BY <5>1 DEF Months
      <4> HIDE DEF n, y
      <4>4. QED
        BY <1>2, <4>1, <4>2, <4>3 DEF DateRecord
    <3> HIDE DEF n
    <3>3. e = [n EXCEPT !.day = 1]
      BY <2>2 DEF n
    <3>4. QED
      BY <3>2, <3>3 DEF DateRecord
  <2>4. 1 \in 1..12 /\ e.month = Date!MonthNames[1]
    BY <2>3 DEF Date!MonthNames
  <2>6. /\ B(12) + a[12] = YearDays(y)
        /\ Date!month_days(y + 1)[1] \in 28..31
    BY <2>4, MonthSum
  <2>7. Date!DaysBefore(y + 1) = Date!DaysBefore(y) + YearDays(y) /\ YearDays(y) \in Nat
    BY <1>1, DaysBeforeStep DEF YearDays
  <2>8. Date!DaysBeforeMonth(y + 1, 1) = 0
    BY DaysBeforeMonthStep
  <2> HIDE DEF e, m, a
  <2>9. ASSUME e.year <= LastYear
        PROVE  ValidDate(e) /\ DaysAt(e) = DaysAt(d) + 1
    <3>1. e.year \in 1970..LastYear /\ e.day \in 1..Date!month_days(e.year)[1]
      <4>1. 1 \in 1..Date!month_days(y + 1)[1]
        BY <2>6
      <4>2. QED
        BY <1>1, <2>3, <2>9, <4>1
    <3>2. /\ ValidDate(e)
          /\ DaysAt(e) = Date!DaysBefore(y + 1) + Date!DaysBeforeMonth(y + 1, 1) + e.day - 1
      BY <1>2, <2>3, <2>4, <3>1, DateMade
    <3>3. B(12) = B(m) /\ a[12] = d.day
      BY <1>1, <1>6
    <3> HIDE DEF B
    <3>4. DaysAt(e) = DaysAt(d) + 1
      BY <1>1, <1>3, <2>3, <2>6, <2>7, <2>8, <3>2, <3>3
    <3>5. QED
      BY <3>2, <3>4
  <2>10. QED
    BY <2>3, <2>9 DEF e
<1>7. QED
  <2> HIDE DEF e, a, B
  <2>1. d.day < Date!DaysIn(d) \/ (d.day = Date!DaysIn(d) /\ m < 12) \/ (d.day = Date!DaysIn(d) /\ m = 12)
    BY <1>1
  <2>2. QED
    BY <1>4, <1>5, <1>6, <2>1 DEF e

LEMMA SameDay ==
  ASSUME NEW d, ValidDate(d), NEW e \in DateRecord,
         e.year = d.year, e.month = d.month, e.day = d.day,
         e.hour < Day \div Hour, e.minute < Hour \div Minute, e.second < Minute
  PROVE  ValidDate(e) /\ DaysAt(e) = DaysAt(d)
<1> DEFINE m == Date!MonthNumber(d)
<1>1. m \in 1..12 /\ d.month = Date!MonthNames[m]
  BY DateFacts
<1>2. d.year \in 1970..LastYear /\ d.day \in 1..Date!month_days(d.year)[m]
  BY DateFacts DEF ValidDate
<1>3. DaysAt(d) = Date!DaysBefore(d.year) + Date!DaysBeforeMonth(d.year, m) + d.day - 1
  BY DEF DaysAt
<1> HIDE DEF m
<1>4. ValidDate(e) /\ DaysAt(e) = Date!DaysBefore(e.year) + Date!DaysBeforeMonth(e.year, m) + e.day - 1
  BY <1>1, <1>2, DateMade
<1>5. QED
  BY <1>3, <1>4

LEMMA OneMore == \A a \in Nat, b \in Nat : (a + 1) * b = a * b + b /\ a * b \in Nat
OBVIOUS

LEMMA NextHourStep ==
  ASSUME NEW d, ValidDate(d)
  PROVE  LET e == Date!NextHour(d) IN
         /\ e \in DateRecord
         /\ e.minute = d.minute /\ e.second = d.second
         /\ e.year <= LastYear => ValidDate(e) /\ SecondsAt(e) = SecondsAt(d) + Hour
<1> DEFINE e == Date!NextHour(d)
<1>1. /\ DaysAt(d) \in Nat /\ d.hour \in Nat /\ d.minute \in Nat /\ d.second \in Nat
      /\ d.year <= LastYear
  BY DateFacts
<1>2. d \in DateRecord /\ d.hour < Day \div Hour /\ d.minute < Hour \div Minute /\ d.second < Minute
  BY DEF ValidDate
<1>3. /\ Minute \in Nat /\ Hour \in Nat /\ Day \in Nat
      /\ Day \div Hour \in Nat /\ Day \div Hour >= 1 /\ (Day \div Hour) * Hour = Day
  BY Units
<1>4. CASE d.hour + 1 < Day \div Hour
  <2>1. e = [d EXCEPT !.hour = d.hour + 1]
    BY <1>4 DEF Date!NextHour
  <2> HIDE DEF e
  <2>2. /\ e \in DateRecord /\ e.year = d.year /\ e.month = d.month /\ e.day = d.day
        /\ e.hour = d.hour + 1 /\ e.minute = d.minute /\ e.second = d.second
    BY <1>1, <1>2, <2>1 DEF DateRecord
  <2>3. ValidDate(e) /\ DaysAt(e) = DaysAt(d)
    BY <1>2, <1>4, <2>2, SameDay
  <2>4. (d.hour + 1) * Hour = d.hour * Hour + Hour /\ d.hour * Hour \in Nat /\ DaysAt(d) * Day \in Nat
        /\ d.minute * Minute \in Nat
    BY <1>1, <1>3, OneMore
  <2>5. SecondsAt(e) = SecondsAt(d) + Hour
    <3>1. /\ SecondsAt(e) = DaysAt(d) * Day + (d.hour + 1) * Hour + d.minute * Minute + d.second
          /\ SecondsAt(d) = DaysAt(d) * Day + d.hour * Hour + d.minute * Minute + d.second
      BY <2>2, <2>3 DEF SecondsAt
    <3>2. Hour \in Nat
      BY <1>3
    <3>3. QED
      BY <1>1, <2>4, <3>1, <3>2
  <2>6. QED
    BY <2>2, <2>3, <2>5 DEF e
<1>5. CASE ~(d.hour + 1 < Day \div Hour)
  <2> DEFINE n == Date!NextDay(d)
  <2>1. e = [n EXCEPT !.hour = 0]
    BY <1>5 DEF Date!NextHour
  <2>2. /\ n \in DateRecord /\ n.minute = d.minute /\ n.second = d.second
        /\ n.year <= LastYear => ValidDate(n) /\ DaysAt(n) = DaysAt(d) + 1
    BY NextDayStep
  <2> HIDE DEF e, n
  <2>3. /\ e \in DateRecord /\ e.year = n.year /\ e.month = n.month /\ e.day = n.day
        /\ e.hour = 0 /\ e.minute = d.minute /\ e.second = d.second
    BY <2>1, <2>2 DEF DateRecord
  <2>4. ASSUME e.year <= LastYear PROVE ValidDate(e) /\ SecondsAt(e) = SecondsAt(d) + Hour
    <3>1. ValidDate(n) /\ DaysAt(n) = DaysAt(d) + 1
      BY <2>2, <2>3, <2>4
    <3>2. e.hour < Day \div Hour
      BY <1>3, <2>3
    <3>3. ValidDate(e) /\ DaysAt(e) = DaysAt(d) + 1
      BY <1>2, <2>3, <3>1, <3>2, SameDay
    <3>4. d.hour + 1 = Day \div Hour
      BY <1>1, <1>2, <1>3, <1>5
    <3>5. /\ (d.hour + 1) * Hour = d.hour * Hour + Hour /\ d.hour * Hour \in Nat
          /\ (DaysAt(d) + 1) * Day = DaysAt(d) * Day + Day /\ DaysAt(d) * Day \in Nat
          /\ d.minute * Minute \in Nat /\ 0 * Hour = 0
      BY <1>1, <1>3, OneMore
    <3>6. d.hour * Hour + Hour = Day
      BY <1>3, <3>4, <3>5
    <3>7. SecondsAt(e) = DaysAt(d) * Day + Day + d.minute * Minute + d.second
      BY <1>1, <1>3, <2>3, <3>3, <3>5 DEF SecondsAt
    <3>8. SecondsAt(d) = DaysAt(d) * Day + d.hour * Hour + d.minute * Minute + d.second
      BY DEF SecondsAt
    <3>9. QED
      BY <1>1, <1>3, <3>3, <3>5, <3>6, <3>7, <3>8
  <2>5. QED
    BY <2>3, <2>4 DEF e
<1>6. QED
  BY <1>4, <1>5

LEMMA NextMinuteStep ==
  ASSUME NEW d, ValidDate(d)
  PROVE  LET e == Date!NextMinute(d) IN
         /\ e \in DateRecord
         /\ e.second = d.second
         /\ e.year <= LastYear => ValidDate(e) /\ SecondsAt(e) = SecondsAt(d) + Minute
<1> DEFINE e == Date!NextMinute(d)
<1>1. /\ DaysAt(d) \in Nat /\ d.hour \in Nat /\ d.minute \in Nat /\ d.second \in Nat
      /\ d.year <= LastYear
  BY DateFacts
<1>2. d \in DateRecord /\ d.hour < Day \div Hour /\ d.minute < Hour \div Minute /\ d.second < Minute
  BY DEF ValidDate
<1>3. /\ Minute \in Nat /\ Hour \in Nat /\ Day \in Nat
      /\ Hour \div Minute \in Nat /\ Hour \div Minute >= 1 /\ (Hour \div Minute) * Minute = Hour
  BY Units
<1>4. CASE d.minute + 1 < Hour \div Minute
  <2>1. e = [d EXCEPT !.minute = d.minute + 1]
    BY <1>4 DEF Date!NextMinute
  <2> HIDE DEF e
  <2>2. /\ e \in DateRecord /\ e.year = d.year /\ e.month = d.month /\ e.day = d.day
        /\ e.hour = d.hour /\ e.minute = d.minute + 1 /\ e.second = d.second
    BY <1>1, <1>2, <2>1 DEF DateRecord
  <2>3. ValidDate(e) /\ DaysAt(e) = DaysAt(d)
    BY <1>2, <1>4, <2>2, SameDay
  <2>4. /\ (d.minute + 1) * Minute = d.minute * Minute + Minute /\ d.hour * Hour \in Nat
        /\ DaysAt(d) * Day \in Nat /\ d.minute * Minute \in Nat
    BY <1>1, <1>3, OneMore
  <2>5. SecondsAt(e) = SecondsAt(d) + Minute
    <3>1. /\ SecondsAt(e) = DaysAt(d) * Day + d.hour * Hour + (d.minute + 1) * Minute + d.second
          /\ SecondsAt(d) = DaysAt(d) * Day + d.hour * Hour + d.minute * Minute + d.second
      BY <2>2, <2>3 DEF SecondsAt
    <3>2. Minute \in Nat
      BY <1>3
    <3>3. QED
      BY <1>1, <2>4, <3>1, <3>2
  <2>6. QED
    BY <2>2, <2>3, <2>5 DEF e
<1>5. CASE ~(d.minute + 1 < Hour \div Minute)
  <2> DEFINE n == Date!NextHour(d)
  <2>1. e = [n EXCEPT !.minute = 0]
    BY <1>5 DEF Date!NextMinute
  <2>2. /\ n \in DateRecord /\ n.minute = d.minute /\ n.second = d.second
        /\ n.year <= LastYear => ValidDate(n) /\ SecondsAt(n) = SecondsAt(d) + Hour
    BY NextHourStep
  <2> HIDE DEF e, n
  <2>3. /\ e \in DateRecord /\ e.year = n.year /\ e.month = n.month /\ e.day = n.day
        /\ e.hour = n.hour /\ e.minute = 0 /\ e.second = d.second
    BY <2>1, <2>2 DEF DateRecord
  <2>4. ASSUME e.year <= LastYear PROVE ValidDate(e) /\ SecondsAt(e) = SecondsAt(d) + Minute
    <3>1. ValidDate(n) /\ SecondsAt(n) = SecondsAt(d) + Hour
      BY <2>2, <2>3, <2>4
    <3>2. e.minute < Hour \div Minute /\ n.hour < Day \div Hour
      BY <1>3, <2>3, <3>1 DEF ValidDate
    <3>3. ValidDate(e) /\ DaysAt(e) = DaysAt(n)
      BY <1>2, <2>3, <3>1, <3>2, SameDay
    <3>4. d.minute + 1 = Hour \div Minute
      BY <1>1, <1>2, <1>3, <1>5
    <3>5. /\ (d.minute + 1) * Minute = d.minute * Minute + Minute /\ d.minute * Minute \in Nat
          /\ DaysAt(n) * Day \in Nat /\ n.hour * Hour \in Nat /\ 0 * Minute = 0
          /\ d.hour * Hour \in Nat /\ DaysAt(d) * Day \in Nat
      BY <1>1, <1>3, <3>1, OneMore, DateFacts
    <3>6. d.minute * Minute + Minute = Hour
      BY <1>3, <3>4, <3>5
    <3>7. SecondsAt(e) = DaysAt(n) * Day + n.hour * Hour + d.second
      BY <1>1, <1>3, <2>3, <3>3, <3>5 DEF SecondsAt
    <3>8. SecondsAt(n) = DaysAt(n) * Day + n.hour * Hour + d.minute * Minute + d.second
      BY <2>2 DEF SecondsAt
    <3>9. SecondsAt(d) \in Nat
      BY <1>1, <3>5 DEF SecondsAt
    <3>10. /\ SecondsAt(n) \in Nat /\ SecondsAt(e) \in Nat
           /\ SecondsAt(n) = SecondsAt(e) + d.minute * Minute
      BY <1>1, <3>5, <3>7, <3>8
    <3>11. SecondsAt(e) = SecondsAt(d) + Minute
      <4>1. Minute \in Nat /\ Hour \in Nat /\ d.minute * Minute \in Nat
        BY <1>3, <3>5
      <4>2. SecondsAt(n) = SecondsAt(d) + Hour
        BY <3>1
      <4>3. QED
        BY <3>6, <3>9, <3>10, <4>1, <4>2
    <3>12. QED
      BY <3>3, <3>11
  <2>5. QED
    BY <2>3, <2>4 DEF e
<1>6. QED
  BY <1>4, <1>5

LEMMA NextSecondStep ==
  ASSUME NEW d, ValidDate(d), Date!NextSecond(d).year <= LastYear
  PROVE  ValidDate(Date!NextSecond(d)) /\ SecondsAt(Date!NextSecond(d)) = SecondsAt(d) + 1
<1> DEFINE e == Date!NextSecond(d)
<1>1. /\ DaysAt(d) \in Nat /\ d.hour \in Nat /\ d.minute \in Nat /\ d.second \in Nat
      /\ d.year <= LastYear
  BY DateFacts
<1>2. d \in DateRecord /\ d.hour < Day \div Hour /\ d.minute < Hour \div Minute /\ d.second < Minute
  BY DEF ValidDate
<1>3. Minute \in Nat /\ Minute >= 1 /\ Hour \in Nat /\ Day \in Nat
  BY Units
<1>4. /\ d.hour * Hour \in Nat /\ DaysAt(d) * Day \in Nat /\ d.minute * Minute \in Nat
  BY <1>1, <1>3, OneMore
<1>5. CASE d.second + 1 < Minute
  <2>1. e = [d EXCEPT !.second = d.second + 1]
    BY <1>5 DEF Date!NextSecond
  <2> HIDE DEF e
  <2>2. /\ e \in DateRecord /\ e.year = d.year /\ e.month = d.month /\ e.day = d.day
        /\ e.hour = d.hour /\ e.minute = d.minute /\ e.second = d.second + 1
    BY <1>1, <1>2, <2>1 DEF DateRecord
  <2>3. ValidDate(e) /\ DaysAt(e) = DaysAt(d)
    BY <1>2, <1>5, <2>2, SameDay
  <2>4. SecondsAt(e) = SecondsAt(d) + 1
    BY <1>1, <1>4, <2>2, <2>3 DEF SecondsAt
  <2>5. QED
    BY <2>3, <2>4 DEF e
<1>6. CASE ~(d.second + 1 < Minute)
  <2> DEFINE n == Date!NextMinute(d)
  <2>1. e = [n EXCEPT !.second = 0]
    BY <1>6 DEF Date!NextSecond
  <2>2. /\ n \in DateRecord /\ n.second = d.second
        /\ n.year <= LastYear => ValidDate(n) /\ SecondsAt(n) = SecondsAt(d) + Minute
    BY NextMinuteStep
  <2>3. e.year <= LastYear
    OBVIOUS
  <2> HIDE DEF e, n
  <2>4. /\ e \in DateRecord /\ e.year = n.year /\ e.month = n.month /\ e.day = n.day
        /\ e.hour = n.hour /\ e.minute = n.minute /\ e.second = 0
    BY <2>1, <2>2 DEF DateRecord
  <2>5. ValidDate(n) /\ SecondsAt(n) = SecondsAt(d) + Minute
    BY <2>2, <2>3, <2>4
  <2>6. n.hour < Day \div Hour /\ n.minute < Hour \div Minute /\ e.second < Minute
    BY <1>3, <2>4, <2>5 DEF ValidDate
  <2>7. ValidDate(e) /\ DaysAt(e) = DaysAt(n)
    BY <2>4, <2>5, <2>6, SameDay
  <2>8. DaysAt(n) * Day \in Nat /\ n.hour * Hour \in Nat /\ n.minute * Minute \in Nat
    BY <1>3, <2>5, OneMore, DateFacts
  <2>9. d.second + 1 = Minute
    BY <1>1, <1>2, <1>3, <1>6
  <2>10. /\ SecondsAt(e) = DaysAt(n) * Day + n.hour * Hour + n.minute * Minute
         /\ SecondsAt(n) = DaysAt(n) * Day + n.hour * Hour + n.minute * Minute + d.second
         /\ SecondsAt(d) \in Nat
    BY <1>1, <1>4, <2>2, <2>4, <2>7, <2>8 DEF SecondsAt
  <2>11. SecondsAt(e) = SecondsAt(d) + 1
    BY <1>1, <1>3, <2>5, <2>8, <2>9, <2>10
  <2>12. QED
    BY <2>7, <2>11 DEF e
<1>7. QED
  BY <1>5, <1>6

LEMMA Monotone == \A a \in Nat, b \in Nat, c \in Nat : a <= b => a * c <= b * c
OBVIOUS

LEMMA WrapsAround ==
  /\ \A a \in Nat, n \in Nat : a < n => a % n = a
  /\ \A a \in Nat, n \in Nat : a < n => (a + n) % n = a
OBVIOUS

\* The seconds of a day are less than it, and those of the calendar fit in a u64.
LEMMA SecondsBound ==
  ASSUME NEW d, ValidDate(d)
  PROVE  /\ DaysAt(d) \in Nat /\ DaysAt(d) < U64 /\ U64 \in Nat
         /\ DaysAt(d) * Day \in Nat
         /\ d.hour * Hour + d.minute * Minute + d.second \in 0..(Day - 1)
         /\ SecondsAt(d) \in Nat /\ SecondsAt(d) < U64
<1> DEFINE N == 366 * (LastYear - 1969)
           time == d.hour * Hour + d.minute * Minute + d.second
<1>1. /\ DaysAt(d) \in Nat /\ DaysAt(d) < N
      /\ d.hour \in Nat /\ d.minute \in Nat /\ d.second \in Nat
  BY DateFacts
<1>2. d.hour < Day \div Hour /\ d.minute < Hour \div Minute /\ d.second < Minute
  BY DEF ValidDate
<1>3. /\ Minute \in Nat /\ Hour \in Nat /\ Day \in Nat /\ Day >= 1
      /\ Day \div Hour \in Nat /\ (Day \div Hour) * Hour = Day
      /\ Hour \div Minute \in Nat /\ (Hour \div Minute) * Minute = Hour
  BY Units
<1>4. N \in Nat /\ U64 \in Nat /\ N * Day < U64
  BY DateAssumption
<1> HIDE DEF N
<1>5. d.hour * Hour + Hour <= Day /\ d.hour * Hour \in Nat
  <2>1. d.hour + 1 <= Day \div Hour /\ d.hour + 1 \in Nat
    BY <1>1, <1>2, <1>3
  <2>2. (d.hour + 1) * Hour <= Day
    BY <1>3, <2>1, Monotone
  <2>3. QED
    BY <1>1, <1>3, <2>2, OneMore
<1>6. d.minute * Minute + Minute <= Hour /\ d.minute * Minute \in Nat
  <2>1. d.minute + 1 <= Hour \div Minute /\ d.minute + 1 \in Nat
    BY <1>1, <1>2, <1>3
  <2>2. (d.minute + 1) * Minute <= Hour
    BY <1>3, <2>1, Monotone
  <2>3. QED
    BY <1>1, <1>3, <2>2, OneMore
<1>7. time \in 0..(Day - 1)
  <2>1. Minute \in Nat /\ Hour \in Nat /\ Day \in Nat
    BY <1>3
  <2>2. QED
    BY <1>1, <1>2, <1>5, <1>6, <2>1
<1>8. DaysAt(d) * Day \in Nat /\ DaysAt(d) * Day + Day <= N * Day
  <2>1. DaysAt(d) + 1 <= N /\ DaysAt(d) + 1 \in Nat
    BY <1>1, <1>4
  <2>2. (DaysAt(d) + 1) * Day <= N * Day
    BY <1>3, <1>4, <2>1, Monotone
  <2>3. QED
    BY <1>1, <1>3, <2>2, OneMore
<1>9. DaysAt(d) < U64
  <2>1. N * 1 <= N * Day
    BY <1>3, <1>4
  <2>2. N * 1 = N /\ N * Day \in Nat
    BY <1>3, <1>4
  <2>3. QED
    BY <1>1, <1>4, <2>1, <2>2
<1>10. SecondsAt(d) = DaysAt(d) * Day + time
  <2>1. SecondsAt(d) = DaysAt(d) * Day + d.hour * Hour + d.minute * Minute + d.second
    BY DEF SecondsAt
  <2>2. QED
    BY <1>1, <1>5, <1>6, <1>8, <2>1
<1> HIDE DEF time
<1>11. SecondsAt(d) \in Nat /\ SecondsAt(d) < U64
  <2>1. Day \in Nat /\ N * Day \in Nat
    BY <1>3, <1>4
  <2>2. QED
    BY <1>4, <1>7, <1>8, <1>10, <2>1
<1>12. QED
  BY <1>1, <1>4, <1>7, <1>8, <1>9, <1>11 DEF time

\* The header is of one month.
LEMMA ParsesMonth ==
  ASSUME NEW d, NEW m \in 1..12, d.month = Date!MonthNames[m]
  PROVE  Date!parse_http_date(d) =
           {((((Date!DaysBefore(d.year) + Date!DaysBeforeMonth(d.year, m) + d.day + U64 - 1) % U64) * Day)
               + d.hour * Hour + d.minute * Minute + d.second) % U64}
<1>1. {k \in 1..12 : Date!MonthNames[k] = d.month} = {m}
  <2>1. ASSUME NEW k \in 1..12, Date!MonthNames[k] = d.month PROVE k = m
    <3>1. Date!MonthNumber(d) = m
      BY MonthIs
    <3>2. d.month = Date!MonthNames[k]
      BY <2>1
    <3>3. Date!MonthNumber(d) = k
      BY <3>2, MonthIs
    <3>4. QED
      BY <3>1, <3>3
  <2>2. QED
    BY <2>1
<1> DEFINE F(k) == ((((Date!DaysBefore(d.year) + Date!DaysBeforeMonth(d.year, k) + d.day + U64 - 1) % U64) * Day)
               + d.hour * Hour + d.minute * Minute + d.second) % U64
           K == {k \in 1..12 : Date!MonthNames[k] = d.month}
<1>2. Date!parse_http_date(d) = {F(k) : k \in K}
  BY DEF Date!parse_http_date
<1>3. K = {m}
  BY <1>1
<1> HIDE DEF F, K
<1>4. Date!parse_http_date(d) = {F(m)}
  BY <1>2, <1>3
<1>5. QED
  BY <1>4 DEF F

LEMMA ParsesDate ==
  ASSUME NEW d, ValidDate(d)
  PROVE  Date!parse_http_date(d) = {SecondsAt(d)}
<1> DEFINE m == Date!MonthNumber(d)
           D == Date!DaysBefore(d.year) + Date!DaysBeforeMonth(d.year, m) + d.day + U64 - 1
<1>1. /\ m \in 1..12 /\ d.month = Date!MonthNames[m]
      /\ Date!DaysBefore(d.year) \in Nat /\ Date!DaysBeforeMonth(d.year, m) \in Nat
      /\ d.day \in Nat
  BY DateFacts
<1>2. /\ DaysAt(d) \in Nat /\ DaysAt(d) < U64 /\ U64 \in Nat
      /\ SecondsAt(d) \in Nat /\ SecondsAt(d) < U64
  BY SecondsBound
<1>3. DaysAt(d) = Date!DaysBefore(d.year) + Date!DaysBeforeMonth(d.year, m) + d.day - 1
  BY DEF DaysAt
<1> HIDE DEF m
<1>4. D = DaysAt(d) + U64
  BY <1>1, <1>2, <1>3
<1>5. Date!parse_http_date(d) =
        {((D % U64) * Day + d.hour * Hour + d.minute * Minute + d.second) % U64}
  BY <1>1, ParsesMonth
<1> HIDE DEF D
<1>6. D % U64 = DaysAt(d)
  BY <1>2, <1>4, WrapsAround
<1>7. (D % U64) * Day + d.hour * Hour + d.minute * Minute + d.second = SecondsAt(d)
  BY <1>6 DEF SecondsAt
<1>8. SecondsAt(d) % U64 = SecondsAt(d)
  BY <1>2, WrapsAround
<1>9. QED
  BY <1>5, <1>7, <1>8

\* Day 0 of a month is the last day of the month before.
LEMMA ParsesDayZero ==
  ASSUME NEW d, ValidDate(d), d.day = 1, SecondsAt(d) >= Day
  PROVE  Date!parse_http_date([d EXCEPT !.day = 0]) = {SecondsAt(d) - Day}
<1> DEFINE m == Date!MonthNumber(d)
           e == [d EXCEPT !.day = 0]
           D == Date!DaysBefore(d.year) + Date!DaysBeforeMonth(d.year, m) + 0 + U64 - 1
           time == d.hour * Hour + d.minute * Minute + d.second
<1>1. /\ m \in 1..12 /\ d.month = Date!MonthNames[m]
      /\ Date!DaysBefore(d.year) \in Nat /\ Date!DaysBeforeMonth(d.year, m) \in Nat
      /\ d.hour \in Nat /\ d.minute \in Nat /\ d.second \in Nat
  BY DateFacts
<1>2. /\ DaysAt(d) \in Nat /\ DaysAt(d) < U64 /\ U64 \in Nat
      /\ DaysAt(d) * Day \in Nat /\ time \in 0..(Day - 1)
      /\ SecondsAt(d) \in Nat /\ SecondsAt(d) < U64
  BY SecondsBound
<1>3. DaysAt(d) = Date!DaysBefore(d.year) + Date!DaysBeforeMonth(d.year, m) + d.day - 1
  BY DEF DaysAt
<1>4. /\ e.year = d.year /\ e.month = d.month /\ e.day = 0
      /\ e.hour = d.hour /\ e.minute = d.minute /\ e.second = d.second
  BY DEF ValidDate, DateRecord
<1>5. Day \in Nat /\ Day >= 1 /\ Hour \in Nat /\ Minute \in Nat
  BY Units
<1>6. d.hour * Hour \in Nat /\ d.minute * Minute \in Nat
  BY <1>1, <1>5, OneMore
<1>7. SecondsAt(d) = DaysAt(d) * Day + time
  <2>1. SecondsAt(d) = DaysAt(d) * Day + d.hour * Hour + d.minute * Minute + d.second
    BY DEF SecondsAt
  <2>2. QED
    BY <1>1, <1>2, <1>6, <2>1
<1> HIDE DEF m
<1>8. DaysAt(d) >= 1
  <2>1. SUFFICES ASSUME DaysAt(d) = 0 PROVE FALSE
    BY <1>2
  <2>2. DaysAt(d) * Day = 0
    BY <1>5, <2>1
  <2> HIDE DEF time
  <2>3. QED
    BY <1>2, <1>5, <1>7, <2>2
<1>9. D = (DaysAt(d) - 1) + U64
  BY <1>1, <1>2, <1>3
<1>10. Date!parse_http_date(e) = {((D % U64) * Day + d.hour * Hour + d.minute * Minute + d.second) % U64}
  <2> HIDE DEF e
  <2>1. e.month = Date!MonthNames[m]
    BY <1>1, <1>4
  <2>2. Date!parse_http_date(e) =
           {((((Date!DaysBefore(e.year) + Date!DaysBeforeMonth(e.year, m) + e.day + U64 - 1) % U64) * Day)
               + e.hour * Hour + e.minute * Minute + e.second) % U64}
    BY <1>1, <2>1, ParsesMonth
  <2>3. QED
    BY <1>4, <2>2
<1> HIDE DEF D, e
<1>11. D % U64 = DaysAt(d) - 1
  <2>1. DaysAt(d) - 1 \in Nat /\ DaysAt(d) - 1 < U64
    BY <1>2, <1>8
  <2>2. QED
    BY <1>2, <1>9, <2>1, WrapsAround
<1>12. (DaysAt(d) - 1) * Day + Day = DaysAt(d) * Day /\ (DaysAt(d) - 1) * Day \in Nat
  <2>1. DaysAt(d) - 1 \in Nat /\ (DaysAt(d) - 1) + 1 = DaysAt(d)
    BY <1>2, <1>8
  <2>2. QED
    BY <1>5, <2>1, OneMore
<1>13. (D % U64) * Day + d.hour * Hour + d.minute * Minute + d.second = SecondsAt(d) - Day
  <2>1. (D % U64) * Day = (DaysAt(d) - 1) * Day
    BY <1>11
  <2>2. QED
    BY <1>1, <1>2, <1>5, <1>6, <1>7, <1>12, <2>1
<1>14. SecondsAt(d) - Day \in Nat /\ SecondsAt(d) - Day < U64
  BY <1>2, <1>5
<1>15. (SecondsAt(d) - Day) % U64 = SecondsAt(d) - Day
  BY <1>2, <1>14, WrapsAround
<1>16. QED
  BY <1>10, <1>13, <1>15 DEF e

LEMMA CalendarInit == FormatsInit => CalendarInv
<1> DEFINE d == [year |-> 1970, month |-> "Jan", day |-> 1, hour |-> 0, minute |-> 0, second |-> 0]
<1>1. SUFFICES ASSUME FormatsInit, task = "date" PROVE ValidDate(date) /\ elapsed = SecondsAt(date)
  BY DEF CalendarInv
<1>2. date = d /\ elapsed = 0
  BY <1>1 DEF FormatsInit, Date!Init
<1>3. /\ 1 \in 1..12 /\ "Jan" = Date!MonthNames[1] /\ "Jan" \in Months
  BY DEF Date!MonthNames, Months
<1>4. /\ d \in DateRecord /\ d.year = 1970 /\ d.month = "Jan" /\ d.day = 1
      /\ d.hour = 0 /\ d.minute = 0 /\ d.second = 0
  BY <1>3 DEF DateRecord
<1> HIDE DEF d
<1>5. 1 \in 1..Date!month_days(1970)[1]
  <2>1. Date!month_days(1970)[1] \in 28..31
    BY <1>3, MonthSum
  <2>2. QED
    BY <2>1
<1>6. d.hour < Day \div Hour /\ d.minute < Hour \div Minute /\ d.second < Minute
  BY <1>4, Units
<1>7. 1970 \in 1970..LastYear
  BY DateAssumption
<1>8. ValidDate(d) /\ DaysAt(d) = Date!DaysBefore(1970) + Date!DaysBeforeMonth(1970, 1) + 1 - 1
  BY <1>3, <1>4, <1>5, <1>6, <1>7, DateMade
<1>9. DaysAt(d) = 0
  BY <1>8, DaysBeforeStep, DaysBeforeMonthStep
<1>10. SecondsAt(d) = 0
  <2>1. 0 * Day = 0 /\ 0 * Hour = 0 /\ 0 * Minute = 0
    BY Units
  <2>2. QED
    BY <1>4, <1>9, <2>1 DEF SecondsAt
<1>11. QED
  BY <1>2, <1>8, <1>10

LEMMA CalendarStep ==
  CalendarInv /\ [FormatsNext]_<<task, vars, merkle, calendar>> => CalendarInv'
<1> SUFFICES ASSUME CalendarInv, [FormatsNext]_<<task, vars, merkle, calendar>>, task' = "date"
             PROVE  ValidDate(date') /\ elapsed' = SecondsAt(date')
  BY DEF CalendarInv, ValidDate, SecondsAt, DaysAt, DateRecord, Months
<1>1. CASE UNCHANGED <<task, calendar>>
  BY <1>1 DEF CalendarInv, calendar
<1>2. CASE task = "date" /\ Date!Next
  <2>1. ValidDate(date) /\ elapsed = SecondsAt(date)
    BY <1>2 DEF CalendarInv
  <2>2. CASE Date!Second
    <3>1. ValidDate(Date!NextSecond(date)) /\ SecondsAt(Date!NextSecond(date)) = SecondsAt(date) + 1
      BY <2>1, <2>2, NextSecondStep DEF Date!Second
    <3>2. QED
      BY <2>1, <2>2, <3>1 DEF Date!Second
  <2>3. CASE Date!Tomorrow
    <3> DEFINE e == Date!NextDay(date)
    <3>1. date' = e /\ elapsed' = elapsed + Day /\ e.year <= LastYear
      BY <2>3 DEF Date!Tomorrow
    <3>2. /\ ValidDate(e) /\ DaysAt(e) = DaysAt(date) + 1
          /\ e.hour = date.hour /\ e.minute = date.minute /\ e.second = date.second
      BY <2>1, <3>1, NextDayStep
    <3>3. DaysAt(date) \in Nat /\ date.hour \in Nat /\ date.minute \in Nat /\ date.second \in Nat
      BY <2>1, DateFacts
    <3>4. Minute \in Nat /\ Hour \in Nat /\ Day \in Nat
      BY Units
    <3>5. /\ (DaysAt(date) + 1) * Day = DaysAt(date) * Day + Day /\ DaysAt(date) * Day \in Nat
          /\ date.hour * Hour \in Nat /\ date.minute * Minute \in Nat
      BY <3>3, <3>4, OneMore
    <3> HIDE DEF e
    <3>6. /\ SecondsAt(e) = (DaysAt(date) + 1) * Day + date.hour * Hour + date.minute * Minute + date.second
          /\ SecondsAt(date) = DaysAt(date) * Day + date.hour * Hour + date.minute * Minute + date.second
      BY <3>2 DEF SecondsAt
    <3>7. SecondsAt(e) = SecondsAt(date) + Day
      BY <3>3, <3>4, <3>5, <3>6
    <3>8. QED
      BY <2>1, <3>1, <3>2, <3>7
  <2>4. CASE Date!CalendarEnds
    BY <2>1, <2>4 DEF Date!CalendarEnds, Date!vars
  <2>5. QED
    BY <1>2, <2>2, <2>3, <2>4 DEF Date!Next
<1>3. QED
  BY <1>1, <1>2 DEF FormatsNext, calendar

-----------------------------------------------------------------------------
(* DateIsElapsed: parse_http_date converts every Date header of a calendar *)
(* of any length to the seconds that have passed since 1970, and day 0 to  *)
(* the day before, over leap years and centuries.                          *)
THEOREM DatesAreElapsed == FormatsSpec => []DateIsElapsed
<1>1. CalendarInv => DateIsElapsed
  <2> SUFFICES ASSUME ValidDate(date), elapsed = SecondsAt(date) PROVE Date!DateIsElapsed
    BY DEF CalendarInv, DateIsElapsed
  <2>1. Date!parse_http_date(date) = {elapsed}
    BY ParsesDate
  <2>2. date.day = 1 /\ elapsed >= Day =>
          Date!parse_http_date([date EXCEPT !.day = 0]) = {elapsed - Day}
    BY ParsesDayZero
  <2>3. QED
    BY <2>1, <2>2 DEF Date!DateIsElapsed
<1>2. QED
  BY <1>1, CalendarInit, CalendarStep, PTL DEF FormatsSpec

=============================================================================
