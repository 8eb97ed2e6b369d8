----------------------------- MODULE DnsProofs ------------------------------
(***************************************************************************)
(* TLAPS proofs about the parsers of DnsMessage: they stay inside the      *)
(* packet, for every response and every point at which it was cut, and     *)
(* they return what the response says.  The bytes of a response are laid   *)
(* out first; the invariant then says at which of them the parser is, and  *)
(* what it has collected there.                                            *)
(***************************************************************************)
EXTENDS DnsMessage, SequenceLemmas

\* The bytes of the first j labels.
Encoded(ls) == [i \in DOMAIN ls |-> <<Len(ls[i]) % 256>> \o ls[i]]
LabelPos(ls, j) == Len(Upto(Encoded(ls), j))

\* Labels whose lengths fit into a byte.
ByteLabels(ls) == ls \in Seq(Seq(Byte)) /\ \A i \in DOMAIN ls : Len(ls[i]) \in Byte

-----------------------------------------------------------------------------
(* The encoding of names.                                                  *)

LEMMA OneByte ==
  ASSUME NEW b \in Byte
  PROVE  <<b>> \in Seq(Byte) /\ Len(<<b>>) = 1 /\ <<b>>[1] = b
OBVIOUS

LEMMA EncodedAt ==
  ASSUME NEW ls, ByteLabels(ls), NEW i \in 1..Len(ls)
  PROVE  /\ Encoded(ls)[i] \in Seq(Byte)
         /\ ls[i] \in Seq(Byte) /\ Len(ls[i]) \in Nat /\ Len(ls[i]) \in Byte
         /\ Len(Encoded(ls)[i]) = 1 + Len(ls[i]) /\ Encoded(ls)[i][1] = Len(ls[i])
         /\ \A j \in 1..Len(ls[i]) : Encoded(ls)[i][1 + j] = ls[i][j]
<1>0. ls \in Seq(Seq(Byte)) /\ Len(ls) \in Nat /\ DOMAIN ls = 1..Len(ls)
  BY LenProperties DEF ByteLabels
<1> DEFINE e == Encoded(ls)[i]
           s == ls[i]
           b == <<Len(s) % 256>>
<1>1. s \in Seq(Byte) /\ Len(s) \in Nat /\ Len(s) \in Byte
  <2>1. s \in Seq(Byte)
    BY <1>0, ElementOfSeq
  <2>2. Len(s) \in Byte
    BY <1>0 DEF ByteLabels
  <2>3. QED
    BY <2>1, <2>2, LenProperties
<1>2. Len(s) % 256 = Len(s) /\ Len(s) \in Byte
  <2>1. \A n \in Byte : n % 256 = n
    BY DEF Byte
  <2>2. QED
    BY <1>1, <2>1
<1>3. e = b \o s
  BY <1>0 DEF Encoded
<1> HIDE DEF e, s
<1>4. b \in Seq(Byte) /\ Len(b) = 1 /\ b[1] = Len(s)
  BY <1>2, OneByte
<1> HIDE DEF b
<1>5. /\ b \o s \in Seq(Byte) /\ Len(b \o s) = Len(b) + Len(s)
      /\ \A j \in 1..Len(b) : (b \o s)[j] = b[j]
      /\ \A k \in 1..Len(s) : (b \o s)[Len(b) + k] = s[k]
  <2>1. b \in Seq(Byte) /\ s \in Seq(Byte)
    BY <1>1, <1>4
  <2>2. QED
    BY <2>1, ConcatParts
<1>6. e \in Seq(Byte) /\ Len(e) = 1 + Len(s) /\ e[1] = Len(s)
  BY <1>3, <1>4, <1>5
<1>7. \A j \in 1..Len(s) : e[1 + j] = s[j]
  BY <1>3, <1>4, <1>5
<1>8. QED
  BY <1>1, <1>6, <1>7 DEF e, s

LEMMA EncodedType ==
  ASSUME NEW ls, ByteLabels(ls)
  PROVE  /\ ls \in Seq(Seq(Byte)) /\ Len(ls) \in Nat
         /\ Encoded(ls) \in Seq(Seq(Byte)) /\ Len(Encoded(ls)) = Len(ls)
<1>1. ls \in Seq(Seq(Byte)) /\ Len(ls) \in Nat /\ DOMAIN ls = 1..Len(ls)
  BY LenProperties DEF ByteLabels
<1>2. \A i \in 1..Len(ls) : Encoded(ls)[i] \in Seq(Byte)
  BY EncodedAt
<1>3. Encoded(ls) \in [1..Len(ls) -> Seq(Byte)]
  <2>1. Encoded(ls) = [i \in 1..Len(ls) |-> Encoded(ls)[i]]
    BY <1>1 DEF Encoded
  <2>2. QED
    BY <1>2, <2>1
<1>4. Encoded(ls) \in Seq(Seq(Byte)) /\ Len(Encoded(ls)) = Len(ls)
  BY <1>1, <1>3, FunctionIsSeq
<1>5. QED
  BY <1>1, <1>4

\* Where the labels are.
LEMMA LabelsAt ==
  ASSUME NEW ls, ByteLabels(ls)
  PROVE  /\ Labels(ls) \in Seq(Byte) /\ Len(Labels(ls)) \in Nat
         /\ LabelPos(ls, 0) = 0 /\ LabelPos(ls, Len(ls)) = Len(Labels(ls))
         /\ \A j \in 0..Len(ls) : LabelPos(ls, j) \in Nat /\ LabelPos(ls, j) <= Len(Labels(ls))
         /\ \A j \in 1..Len(ls) :
              /\ LabelPos(ls, j) = LabelPos(ls, j - 1) + 1 + Len(ls[j])
              /\ Labels(ls)[LabelPos(ls, j - 1) + 1] = Len(ls[j])
              /\ \A i \in 1..Len(ls[j]) : Labels(ls)[LabelPos(ls, j - 1) + 1 + i] = ls[j][i]
<1> DEFINE E == Encoded(ls)
           L == Labels(ls)
<1>1. /\ Len(ls) \in Nat /\ E \in Seq(Seq(Byte)) /\ Len(E) = Len(ls)
      /\ \A i \in 1..Len(ls) :
           /\ Len(ls[i]) \in Nat
           /\ Len(E[i]) = 1 + Len(ls[i]) /\ E[i][1] = Len(ls[i])
           /\ \A j \in 1..Len(ls[i]) : E[i][1 + j] = ls[i][j]
  <2>1. /\ Len(ls) \in Nat /\ E \in Seq(Seq(Byte)) /\ Len(E) = Len(ls)
    BY EncodedType
  <2>2. ASSUME NEW i \in 1..Len(ls)
        PROVE  /\ Len(ls[i]) \in Nat
               /\ Len(E[i]) = 1 + Len(ls[i]) /\ E[i][1] = Len(ls[i])
               /\ \A j \in 1..Len(ls[i]) : E[i][1 + j] = ls[i][j]
    <3>1. /\ Len(ls[i]) \in Nat
          /\ Len(Encoded(ls)[i]) = 1 + Len(ls[i]) /\ Encoded(ls)[i][1] = Len(ls[i])
          /\ \A j \in 1..Len(ls[i]) : Encoded(ls)[i][1 + j] = ls[i][j]
      BY EncodedAt
    <3>2. QED
      BY <3>1
  <2>3. QED
    BY <2>1, <2>2
<1>2. L = FlattenSeq(E)
  BY DEF Labels, Encoded
<1> HIDE DEF E, L
<1>3. \A j \in 0..Len(ls) : Upto(E, j) \in Seq(Byte) /\ LabelPos(ls, j) = Len(Upto(E, j))
  BY <1>1, UptoType DEF LabelPos, E
<1>4. L = Upto(E, Len(ls))
  <2>1. SubSeq(E, 1, Len(E)) = E
    BY <1>1, SubSeqFull
  <2>2. QED
    BY <1>1, <1>2, <2>1 DEF Upto
<1>5. L \in Seq(Byte) /\ Len(L) \in Nat /\ LabelPos(ls, Len(ls)) = Len(L)
  <2>1. Len(ls) \in 0..Len(ls)
    BY <1>1
  <2>2. QED
    BY <1>3, <1>4, <2>1, LenProperties
<1>6. LabelPos(ls, 0) = 0
  <2>1. 0 \in 0..Len(ls) /\ Upto(E, 0) = << >>
    BY <1>1, UptoEmpty
  <2>2. QED
    BY <1>3, <2>1, EmptySeq
<1>7. ASSUME NEW j \in 1..Len(ls)
      PROVE  /\ LabelPos(ls, j) = LabelPos(ls, j - 1) + 1 + Len(ls[j])
             /\ LabelPos(ls, j) <= Len(L)
             /\ L[LabelPos(ls, j - 1) + 1] = Len(ls[j])
             /\ \A i \in 1..Len(ls[j]) : L[LabelPos(ls, j - 1) + 1 + i] = ls[j][i]
  <2> DEFINE p == Len(Upto(E, j - 1))
  <2>1. j - 1 \in 0..Len(ls) /\ j \in 0..Len(ls) /\ j \in 1..Len(E)
    BY <1>1
  <2>2. /\ Len(Upto(E, j)) = p + Len(E[j]) /\ Len(Upto(E, j)) <= Len(L)
        /\ \A i \in 1..Len(E[j]) : L[p + i] = E[j][i]
    <3>1. /\ Len(Upto(E, j)) = Len(Upto(E, j - 1)) + Len(E[j])
          /\ Len(Upto(E, j)) <= Len(FlattenSeq(E))
          /\ \A i \in 1..Len(E[j]) : FlattenSeq(E)[Len(Upto(E, j - 1)) + i] = E[j][i]
      <4>1. E \in Seq(Seq(Byte)) /\ j \in 1..Len(E)
        BY <1>1, <2>1
      <4> HIDE DEF p
      <4>2. QED
        BY <4>1, FlattenedAt
    <3>2. QED
      BY <1>2, <3>1
  <2>3. p \in Nat /\ LabelPos(ls, j - 1) = p /\ LabelPos(ls, j) = Len(Upto(E, j))
    BY <1>3, <2>1, LenProperties
  <2> HIDE DEF p
  <2>4. /\ Len(ls[j]) \in Nat /\ Len(E[j]) = 1 + Len(ls[j]) /\ E[j][1] = Len(ls[j])
        /\ \A i \in 1..Len(ls[j]) : E[j][1 + i] = ls[j][i]
    BY <1>1
  <2>5. L[p + 1] = Len(ls[j])
    BY <2>2, <2>4
  <2>6. ASSUME NEW i \in 1..Len(ls[j]) PROVE L[p + 1 + i] = ls[j][i]
    <3>1. 1 + i \in 1..Len(E[j]) /\ p + (1 + i) = p + 1 + i
      <4>1. Len(ls[j]) \in Nat /\ Len(E[j]) = 1 + Len(ls[j])
        BY <2>4
      <4>2. \A n \in Nat, q \in Nat : \A m \in 1..n : 1 + m \in 1..(1 + n) /\ q + (1 + m) = q + 1 + m
        OBVIOUS
      <4>3. QED
        BY <2>3, <4>1, <4>2
    <3>2. L[p + (1 + i)] = E[j][1 + i]
      BY <2>2, <3>1
    <3>3. QED
      BY <2>4, <3>1, <3>2
  <2>7. LabelPos(ls, j) = p + 1 + Len(ls[j])
    <3>1. LabelPos(ls, j) = p + (1 + Len(ls[j]))
      BY <2>2, <2>3, <2>4
    <3>2. \A a \in Nat, b \in Nat : a + (1 + b) = a + 1 + b
      OBVIOUS
    <3>3. p + (1 + Len(ls[j])) = p + 1 + Len(ls[j])
      BY <2>3, <2>4, <3>2
    <3>4. QED
      BY <3>1, <3>3
  <2>8. QED
    BY <2>2, <2>3, <2>5, <2>6, <2>7
<1>8. ASSUME NEW j \in 0..Len(ls)
      PROVE  LabelPos(ls, j) \in Nat /\ LabelPos(ls, j) <= Len(L)
  <2>1. CASE j = 0
    BY <1>5, <1>6, <2>1
  <2>2. CASE j # 0
    <3>1. j \in 1..Len(ls)
      BY <1>1, <2>2
    <3>2. QED
      BY <1>3, <1>7, <3>1, LenProperties
  <2>3. QED
    BY <2>1, <2>2
<1>9. QED
  BY <1>5, <1>6, <1>7, <1>8 DEF L

LEMMA NameAt ==
  ASSUME NEW name, IsName(name)
  PROVE  /\ ByteLabels(name.labels) /\ Len(Labels(name.labels)) \in Nat
         /\ NameBytes(name) \in Seq(Byte)
         /\ Len(NameBytes(name)) = Len(Labels(name.labels)) + Len(name.end)
         /\ \/ name.end = <<0>> /\ Len(name.end) = 1 /\ name.end[1] = 0
            \/ Len(name.end) = 2 /\ name.end[1] \in 192..255
         /\ \A i \in 1..Len(Labels(name.labels)) : NameBytes(name)[i] = Labels(name.labels)[i]
         /\ NameBytes(name)[Len(Labels(name.labels)) + 1] = name.end[1]
         /\ \A i \in 1..Len(name.labels) :
              Len(name.labels[i]) # 0 /\ ~IsPointer(Len(name.labels[i]))
<1> DEFINE s == Labels(name.labels)
           t == name.end
<1>1. AreLabels(name.labels, 63) /\ (t = <<0>> \/ t \in (192..255) \X Byte)
  BY DEF IsName
<1>8. /\ ByteLabels(name.labels)
      /\ \A i \in 1..Len(name.labels) :
           Len(name.labels[i]) # 0 /\ ~IsPointer(Len(name.labels[i]))
  <2>1. /\ name.labels \in Seq(Seq(Byte)) /\ DOMAIN name.labels = 1..Len(name.labels)
        /\ \A i \in DOMAIN name.labels : name.labels[i] # <<>> /\ Len(name.labels[i]) <= 63
    BY <1>1, LenProperties DEF IsName, AreLabels
  <2>2. \A n \in Nat : n <= 63 => n \in Byte /\ ~IsPointer(n)
    BY DEF Byte, IsPointer
  <2>3. ASSUME NEW i \in 1..Len(name.labels)
        PROVE  Len(name.labels[i]) \in Byte /\ Len(name.labels[i]) # 0
                 /\ ~IsPointer(Len(name.labels[i]))
    <3>1. name.labels[i] \in Seq(Byte)
      BY <2>1, ElementOfSeq
    <3>2. Len(name.labels[i]) \in Nat /\ Len(name.labels[i]) # 0
      BY <2>1, <3>1, EmptySeq, LenProperties
    <3>3. QED
      BY <2>1, <2>2, <3>2
  <2>4. QED
    BY <2>1, <2>3 DEF ByteLabels
<1>2. s \in Seq(Byte) /\ Len(s) \in Nat
  BY <1>8, LabelsAt
<1>3. /\ t \in Seq(Byte)
      /\ \/ t = <<0>> /\ Len(t) = 1 /\ t[1] = 0
         \/ Len(t) = 2 /\ t[1] \in 192..255
  <2>1. CASE t = <<0>>
    <3>1. 0 \in Byte
      BY DEF Byte
    <3>2. QED
      BY <2>1, <3>1, OneByte
  <2>2. CASE t \in (192..255) \X Byte
    <3>1. PICK p \in 192..255, q \in Byte : t = <<p, q>>
      BY <2>2
    <3>2. p \in Byte
      BY DEF Byte
    <3> HIDE DEF t
    <3>3. QED
      BY <3>1, <3>2
  <2>3. QED
    BY <1>1, <2>1, <2>2
<1>4. NameBytes(name) = s \o t
  BY DEF NameBytes
<1> HIDE DEF s, t
<1>5. /\ s \o t \in Seq(Byte) /\ Len(s \o t) = Len(s) + Len(t)
      /\ \A j \in 1..Len(s) : (s \o t)[j] = s[j]
      /\ \A k \in 1..Len(t) : (s \o t)[Len(s) + k] = t[k]
  BY <1>2, <1>3, ConcatParts
<1>6. 1 \in 1..Len(t)
  BY <1>3
<1>7. QED
  BY <1>2, <1>3, <1>4, <1>5, <1>6, <1>8 DEF s, t

LEMMA U16BytesAt ==
  ASSUME NEW n \in Word
  PROVE  /\ U16Bytes(n) \in Seq(Byte) /\ Len(U16Bytes(n)) = 2
         /\ U16Bytes(n)[1] * 256 + U16Bytes(n)[2] = n
<1> DEFINE a == n \div 256
           b == n % 256
<1>1. a \in Byte /\ b \in Byte /\ a * 256 + b = n
  BY SMTT(40) DEF Byte, Word
<1>2. U16Bytes(n) = <<a, b>>
  BY DEF U16Bytes
<1> HIDE DEF a, b
<1>3. QED
  BY <1>1, <1>2

-----------------------------------------------------------------------------
(* The layout of a response.                                               *)

LEMMA ListOfBytes ==
  /\ QueryHeader \in Seq(Byte) /\ Len(QueryHeader) = 12
  /\ <<0, 0, 1, 0, 1>> \in Seq(Byte) /\ Len(<<0, 0, 1, 0, 1>>) = 5 /\ <<0, 0, 1, 0, 1>>[1] = 0
  /\ <<0, 0, 16, 0, 1>> \in Seq(Byte) /\ Len(<<0, 0, 16, 0, 1>>) = 5 /\ <<0, 0, 16, 0, 1>>[1] = 0
  /\ <<0, 1, 0, 0, 0, 60>> \in Seq(Byte) /\ Len(<<0, 1, 0, 0, 0, 60>>) = 6
  /\ <<171, 205, 129, 128, 0, 1>> \in Seq(Byte) /\ Len(<<171, 205, 129, 128, 0, 1>>) = 6
  /\ <<0, 0, 0, 0>> \in Seq(Byte) /\ Len(<<0, 0, 0, 0>>) = 4
  /\ <<0>> \in Seq(Byte) /\ Len(<<0>>) = 1 /\ <<0>>[1] = 0
<1>1. /\ 0 \in Byte /\ 1 \in Byte /\ 16 \in Byte /\ 60 \in Byte /\ 128 \in Byte /\ 129 \in Byte
      /\ 171 \in Byte /\ 205 \in Byte
  BY DEF Byte
<1>2. QueryHeader \in Seq(Byte) /\ Len(QueryHeader) = 12
  BY <1>1 DEF QueryHeader
<1>3. QED
  BY <1>1, <1>2

\* A record: its owner, its type, the length of its data and its data.
LEMMA RecordAt ==
  ASSUME NEW r, IsRecord(r)
  PROVE  /\ IsName(r.owner) /\ Len(NameBytes(r.owner)) \in Nat /\ Len(NameBytes(r.owner)) >= 1
         /\ NameBytes(r.owner) \in Seq(Byte)
         /\ r.rdata \in Seq(Byte) /\ Len(r.rdata) \in Nat
         /\ RecordBytes(r) \in Seq(Byte)
         /\ Len(RecordBytes(r)) = Len(NameBytes(r.owner)) + 10 + Len(r.rdata)
         /\ LiesAt(RecordBytes(r), 0, NameBytes(r.owner))
         /\ LiesAt(RecordBytes(r), Len(NameBytes(r.owner)), U16Bytes(r.type))
         /\ LiesAt(RecordBytes(r), Len(NameBytes(r.owner)) + 8, U16Bytes(Len(r.rdata)))
         /\ LiesAt(RecordBytes(r), Len(NameBytes(r.owner)) + 10, r.rdata)
<1>0. /\ IsName(r.owner) /\ r.type \in Word
      /\ r.rdata \in Seq(Byte) /\ Len(r.rdata) \in Word
  BY DEF IsRecord
<1> DEFINE a == NameBytes(r.owner)
           b == U16Bytes(r.type)
           c == <<0, 1, 0, 0, 0, 60>>
           d == U16Bytes(Len(r.rdata))
           e == r.rdata
<1>1. IsName(r.owner) /\ a \in Seq(Byte) /\ Len(a) \in Nat /\ Len(a) >= 1
  <2>1. IsName(r.owner)
    BY <1>0
  <2>2. /\ a \in Seq(Byte) /\ Len(a) = Len(Labels(r.owner.labels)) + Len(r.owner.end)
        /\ Len(Labels(r.owner.labels)) \in Nat /\ Len(r.owner.end) \in {1, 2}
    BY <2>1, NameAt
  <2>3. \A n \in Nat : \A k \in {1, 2} : n + k \in Nat /\ n + k >= 1
    OBVIOUS
  <2> HIDE DEF a, b, c, d, e
  <2>4. QED
    BY <2>1, <2>2, <2>3
<1>2. e \in Seq(Byte) /\ Len(e) \in Word /\ Len(e) \in Nat
  BY <1>0, LenProperties
<1>3. b \in Seq(Byte) /\ Len(b) = 2 /\ d \in Seq(Byte) /\ Len(d) = 2
  BY <1>0, <1>2, U16BytesAt
<1>4. c \in Seq(Byte) /\ Len(c) = 6
  BY ListOfBytes
<1> DEFINE s == RecordBytes(r)
<1>5. s = a \o b \o c \o d \o e
  BY DEF RecordBytes
<1> HIDE DEF a, b, c, d, e, s
<1>6. /\ s \in Seq(Byte) /\ Len(s) = Len(a) + Len(b) + Len(c) + Len(d) + Len(e)
      /\ LiesAt(s, 0, a) /\ LiesAt(s, Len(a), b)
      /\ LiesAt(s, Len(a) + Len(b) + Len(c), d)
      /\ LiesAt(s, Len(a) + Len(b) + Len(c) + Len(d), e)
  <2>1. FiveParts(Byte, s, a, b, c, d, e)
    BY <1>1, <1>2, <1>3, <1>4, <1>5 DEF FiveParts
  <2>2. QED
    BY <2>1, FiveLie
<1>7. /\ Len(a) + Len(b) + Len(c) = Len(a) + 8 /\ Len(a) + Len(b) + Len(c) + Len(d) = Len(a) + 10
      /\ Len(a) + Len(b) + Len(c) + Len(d) + Len(e) = Len(a) + 10 + Len(e)
  BY <1>1, <1>2, <1>3, <1>4
<1>8. QED
  BY <1>1, <1>2, <1>6, <1>7 DEF a, b, d, e, s

\* The question of a response: the name that was asked for and five more bytes.
Question(m) == SubSeq(Query(m), 13, Len(Query(m)))

LEMMA QuestionAt ==
  ASSUME NEW m, IsName([labels |-> m.domain, end |-> << 0 >>])
  PROVE  /\ ByteLabels(m.domain) /\ Labels(m.domain) \in Seq(Byte) /\ Len(Labels(m.domain)) \in Nat
         /\ Question(m) \in Seq(Byte) /\ Len(Question(m)) = Len(Labels(m.domain)) + 5
         /\ LiesAt(Question(m), 0, Labels(m.domain))
         /\ LiesAt(Question(m), Len(Labels(m.domain)), <<0>>)
<1> DEFINE q == Query(m)
           L == Labels(m.domain)
           t == IF m.kind = "A" THEN <<0, 0, 1, 0, 1>> ELSE <<0, 0, 16, 0, 1>>
           h == QueryHeader
           x == Question(m)
<1>1. ByteLabels(m.domain) /\ L \in Seq(Byte) /\ Len(L) \in Nat
  <2> DEFINE nm == [labels |-> m.domain, end |-> <<0>>]
  <2>1. nm.labels = m.domain
    OBVIOUS
  <2> HIDE DEF nm
  <2>2. ByteLabels(nm.labels)
    BY NameAt DEF nm
  <2>3. QED
    BY <2>1, <2>2, LabelsAt
<1>2. t \in Seq(Byte) /\ Len(t) = 5 /\ t[1] = 0
  BY ListOfBytes
<1>3. q = h \o L \o t
  BY DEF Query, build_a_record_query, build_txt_record_query
<1>4. h \in Seq(Byte) /\ Len(h) = 12
  BY ListOfBytes
<1>5. x = SubSeq(q, 13, Len(q))
  BY DEF Question
<1> HIDE DEF q, L, t, h, x
<1> DEFINE hL == h \o L
<1>6. hL \in Seq(Byte) /\ Len(hL) = 12 + Len(L) /\ LiesAt(hL, 12, L)
  <2>1. hL \in Seq(Byte) /\ Len(hL) = Len(h) + Len(L) /\ LiesAt(hL, Len(h), L)
    BY ZenonT(60), <1>1, <1>4, ConcatParts, ConcatLies
  <2>2. QED
    BY <1>4, <2>1
<1>7. q = hL \o t
  BY <1>3
<1> HIDE DEF hL
<1>8. /\ q \in Seq(Byte) /\ Len(q) = Len(hL) + Len(t)
      /\ LiesAt(q, 0, hL) /\ LiesAt(q, Len(hL), t)
  BY <1>2, <1>6, <1>7, ConcatParts, ConcatLies
<1>9. Len(q) = 17 + Len(L) /\ Len(q) \in Nat /\ LiesAt(q, 12, L) /\ q[13 + Len(L)] = 0
  <2>1. LiesAt(q, 0 + 12, L)
    BY <1>1, <1>6, <1>8, LiesWithin
  <2>2. q[Len(hL) + 1] = t[1]
    BY <1>2, <1>8 DEF LiesAt
  <2>3. Len(hL) + 1 = 13 + Len(L) /\ Len(q) = 17 + Len(L)
    BY <1>1, <1>2, <1>6, <1>8
  <2>4. QED
    BY <1>1, <1>2, <2>1, <2>2, <2>3
<1>10. /\ x \in Seq(Byte) /\ Len(x) = Len(L) + 5
       /\ \A i \in 1..(Len(L) + 5) : x[i] = q[12 + i]
  <2>1. \A i \in 13..Len(q) : q[i] \in Byte
    <3>1. \A i \in 13..Len(q) : i \in 1..Len(q)
      BY <1>9
    <3>2. QED
      BY <1>8, <3>1, ElementOfSeq
  <2>2. 13 \in Int /\ Len(q) \in Int /\ ~(Len(q) < 13) /\ Len(q) - 13 + 1 = Len(L) + 5
    BY <1>1, <1>9
  <2>3. /\ x \in Seq(Byte) /\ Len(x) = Len(q) - 13 + 1
        /\ \A i \in 1..(Len(q) - 13 + 1) : x[i] = q[13 + i - 1]
    BY <1>5, <2>1, <2>2, SubSeqProperties
  <2>4. \A i \in 1..(Len(L) + 5) : 13 + i - 1 = 12 + i
    OBVIOUS
  <2>5. QED
    BY <2>2, <2>3, <2>4
<1>11. LiesAt(x, 0, L)
  <2>1. \A i \in 1..Len(L) : /\ i \in 1..(Len(L) + 5) /\ 0 + i = i
    BY <1>1
  <2>2. \A i \in 1..Len(L) : q[12 + i] = L[i]
    BY <1>9 DEF LiesAt
  <2>3. 0 + Len(L) <= Len(L) + 5
    BY <1>1
  <2>4. QED
    BY <1>10, <2>1, <2>2, <2>3 DEF LiesAt
<1>12. LiesAt(x, Len(L), <<0>>)
  <2>1. Len(L) + 1 \in 1..(Len(L) + 5) /\ 12 + (Len(L) + 1) = 13 + Len(L)
    BY <1>1
  <2>2. x[Len(L) + 1] = 0
    BY <1>9, <1>10, <2>1
  <2>3. Len(<<0>>) = 1 /\ <<0>>[1] = 0
    OBVIOUS
  <2>4. Len(L) + 1 <= Len(L) + 5
    BY <1>1
  <2>5. QED
    BY <1>10, <2>2, <2>3, <2>4 DEF LiesAt
<1>13. QED
  BY <1>1, <1>10, <1>11, <1>12 DEF L, x

\* The encodings of the records.
RecBytes(m) == [i \in DOMAIN m.records |-> RecordBytes(m.records[i])]

\* Where record k starts, and where its type and its data are.
Start(m, k) == 17 + Len(Labels(m.domain)) + Len(Upto(RecBytes(m), k - 1))
TypeAt(m, k) == Start(m, k) + Len(NameBytes(m.records[k].owner))
DataAt(m, k) == TypeAt(m, k) + 10

LEMMA MessageType ==
  ASSUME NEW m \in Messages
  PROVE  /\ m.kind \in {"A", "TXT"} /\ IsName([labels |-> m.domain, end |-> <<0>>])
         /\ Len(m.records) \in Nat /\ Len(m.records) \in Word /\ DOMAIN m.records = 1..Len(m.records)
         /\ \A k \in 1..Len(m.records) : IsRecord(m.records[k])
<1>1. /\ m.kind \in {"A", "TXT"} /\ IsName([labels |-> m.domain, end |-> <<0>>])
      /\ m.records \in Seq(Range(m.records)) /\ Len(m.records) \in Word
      /\ \A i \in DOMAIN m.records : IsRecord(m.records[i])
  BY DnsAssumption
<1>2. Len(m.records) \in Nat /\ DOMAIN m.records = 1..Len(m.records)
  BY <1>1, LenProperties
<1>3. QED
  BY <1>1, <1>2

LEMMA RecBytesType ==
  ASSUME NEW m \in Messages
  PROVE  /\ RecBytes(m) \in Seq(Seq(Byte)) /\ Len(RecBytes(m)) = Len(m.records)
         /\ \A k \in 1..Len(m.records) : RecBytes(m)[k] = RecordBytes(m.records[k])
<1>1. Len(m.records) \in Nat /\ DOMAIN m.records = 1..Len(m.records)
  BY MessageType
<1>2. \A k \in 1..Len(m.records) : RecBytes(m)[k] = RecordBytes(m.records[k])
  BY <1>1 DEF RecBytes
<1>3. \A k \in 1..Len(m.records) : RecBytes(m)[k] \in Seq(Byte)
  BY <1>2, MessageType, RecordAt
<1>4. RecBytes(m) = [k \in 1..Len(m.records) |-> RecBytes(m)[k]]
  BY <1>1 DEF RecBytes
<1>5. RecBytes(m) \in [1..Len(m.records) -> Seq(Byte)]
  BY <1>3, <1>4
<1>6. QED
  BY <1>1, <1>2, <1>5, FunctionIsSeq

LEMMA ResponseAt ==
  ASSUME NEW m \in Messages
  PROVE  /\ Response(m) \in Seq(Byte) /\ Len(Response(m)) \in Nat
         /\ ByteLabels(m.domain) /\ Labels(m.domain) \in Seq(Byte)
         /\ Len(Labels(m.domain)) \in Nat /\ Len(Response(m)) >= 17 + Len(Labels(m.domain))
         /\ LiesAt(Response(m), 6, U16Bytes(Len(m.records)))
         /\ LiesAt(Response(m), 12, Labels(m.domain))
         /\ Response(m)[12 + Len(Labels(m.domain)) + 1] = 0
         /\ Start(m, 1) = 17 + Len(Labels(m.domain))
         /\ Start(m, Len(m.records) + 1) = Len(Response(m))
         /\ \A k \in 1..(Len(m.records) + 1) :
              Start(m, k) \in Nat /\ Start(m, k) <= Len(Response(m))
         /\ \A k \in 1..Len(m.records) :
              /\ Start(m, k + 1) = Start(m, k) + Len(RecordBytes(m.records[k]))
              /\ LiesAt(Response(m), Start(m, k), RecordBytes(m.records[k]))
<1> DEFINE a == <<171, 205, 129, 128, 0, 1>>
           b == U16Bytes(Len(m.records))
           c == <<0, 0, 0, 0>>
           d == Question(m)
           e == FlattenSeq(RecBytes(m))
           s == Response(m)
           R == RecBytes(m)
           L == Labels(m.domain)
           n == Len(m.records)
<1>1. /\ R \in Seq(Seq(Byte)) /\ Len(R) = n /\ n \in Nat
      /\ \A k \in 1..n : R[k] = RecordBytes(m.records[k])
  BY RecBytesType, MessageType
<1>2. ByteLabels(m.domain) /\ L \in Seq(Byte) /\ Len(L) \in Nat
  BY MessageType, QuestionAt
<1>3. d \in Seq(Byte) /\ Len(d) = Len(L) + 5 /\ LiesAt(d, 0, L) /\ LiesAt(d, Len(L), <<0>>)
  BY MessageType, QuestionAt
<1>4. a \in Seq(Byte) /\ Len(a) = 6 /\ c \in Seq(Byte) /\ Len(c) = 4
  BY ListOfBytes
<1>5. b \in Seq(Byte) /\ Len(b) = 2
  BY ZenonT(60), MessageType, U16BytesAt
<1>6. s = a \o b \o c \o d \o e
  BY DEF Response, Question, RecBytes
<1>7. /\ \A k \in 0..n : Upto(R, k) \in Seq(Byte) /\ Len(Upto(R, k)) \in Nat
      /\ e = Upto(R, n)
  <2>1. SubSeq(R, 1, Len(R)) = R
    BY <1>1, SubSeqFull
  <2>2. \A k \in 0..n : Upto(R, k) \in Seq(Byte)
    <3> HIDE DEF R, n
    <3>1. QED
      BY <1>1, UptoType
  <2>3. e = Upto(R, n)
    BY <1>1, <2>1 DEF Upto
  <2>4. QED
    BY <2>2, <2>3, LenProperties
<1>8. \A k \in 1..n : /\ Len(Upto(R, k)) = Len(Upto(R, k - 1)) + Len(R[k])
                      /\ Len(Upto(R, k)) <= Len(e)
                      /\ LiesAt(e, Len(Upto(R, k - 1)), R[k])
  BY <1>1, FlattenedAt, FlattenedLies
<1>9. /\ \A k \in 1..(n + 1) : Start(m, k) = 17 + Len(L) + Len(Upto(R, k - 1))
      /\ Len(Upto(R, 0)) = 0
  <2>1. Len(Upto(R, 0)) = 0
    BY UptoEmpty, EmptySeq
  <2>2. QED
    BY <2>1 DEF Start
<1> HIDE DEF a, b, c, d, e, s, R, L, n
<1>10. e \in Seq(Byte) /\ Len(e) \in Nat
  <2>1. n \in 0..n
    BY <1>1
  <2>2. QED
    BY <1>7, <2>1, LenProperties
<1>11. /\ s \in Seq(Byte) /\ Len(s) = Len(a) + Len(b) + Len(c) + Len(d) + Len(e)
       /\ LiesAt(s, 0, a) /\ LiesAt(s, Len(a), b)
       /\ LiesAt(s, Len(a) + Len(b) + Len(c), d)
       /\ LiesAt(s, Len(a) + Len(b) + Len(c) + Len(d), e)
  <2>1. FiveParts(Byte, s, a, b, c, d, e)
    BY <1>3, <1>4, <1>5, <1>6, <1>10 DEF FiveParts
  <2>2. QED
    BY <2>1, FiveLie
<1>12. /\ Len(s) = 17 + Len(L) + Len(e) /\ Len(s) \in Nat /\ Len(s) >= 17 + Len(L)
       /\ LiesAt(s, 6, b) /\ LiesAt(s, 12, d) /\ LiesAt(s, 17 + Len(L), e)
  <2>1. /\ Len(a) = 6 /\ Len(a) + Len(b) + Len(c) = 12
        /\ Len(a) + Len(b) + Len(c) + Len(d) = 17 + Len(L)
        /\ Len(a) + Len(b) + Len(c) + Len(d) + Len(e) = 17 + Len(L) + Len(e)
    BY <1>2, <1>3, <1>4, <1>5, <1>10
  <2>2. /\ Len(s) = 17 + Len(L) + Len(e)
        /\ LiesAt(s, 6, b) /\ LiesAt(s, 12, d) /\ LiesAt(s, 17 + Len(L), e)
    BY <1>11, <2>1
  <2>3. QED
    BY <1>2, <1>10, <2>2
<1>13. LiesAt(s, 12, L) /\ s[12 + Len(L) + 1] = 0
  <2>1. LiesAt(s, 12 + 0, L)
    BY <1>2, <1>3, <1>11, <1>12, LiesWithin
  <2>2. LiesAt(s, 12 + Len(L), <<0>>)
    <3>1. <<0>> \in Seq(Byte)
      BY ListOfBytes
    <3>2. QED
      BY <1>2, <1>3, <1>11, <1>12, <3>1, LiesWithin
  <2>3. Len(<<0>>) = 1 /\ <<0>>[1] = 0
    OBVIOUS
  <2>4. QED
    BY <2>1, <2>2, <2>3 DEF LiesAt
<1>14. Start(m, 1) = 17 + Len(L) /\ Start(m, n + 1) = Len(s)
  <2>1. 1 \in 1..(n + 1) /\ n + 1 \in 1..(n + 1) /\ 1 - 1 = 0 /\ n + 1 - 1 = n
    BY <1>1
  <2>2. Start(m, 1) = 17 + Len(L) + Len(Upto(R, 0)) /\ Start(m, n + 1) = 17 + Len(L) + Len(Upto(R, n))
    <3>1. ASSUME NEW k \in 1..(n + 1), NEW j, k - 1 = j
          PROVE  Start(m, k) = 17 + Len(L) + Len(Upto(R, j))
      BY <1>9, <3>1
    <3>2. Start(m, 1) = 17 + Len(L) + Len(Upto(R, 0))
      BY <2>1, <3>1
    <3>3. Start(m, n + 1) = 17 + Len(L) + Len(Upto(R, n))
      <4> DEFINE p == n + 1
      <4>1. p \in 1..(n + 1) /\ p - 1 = n
        BY <1>1
      <4> HIDE DEF p
      <4>2. Start(m, p) = 17 + Len(L) + Len(Upto(R, n))
        BY <3>1, <4>1
      <4>3. QED
        BY <4>2 DEF p
    <3>4. QED
      BY <3>2, <3>3
  <2>3. QED
    BY <1>2, <1>7, <1>9, <1>12, <2>2
<1>15. ASSUME NEW k \in 1..(n + 1)
       PROVE  Start(m, k) \in Nat /\ Start(m, k) <= Len(s)
  <2> DEFINE j == k - 1
  <2>1. j \in 0..n /\ Start(m, k) = 17 + Len(L) + Len(Upto(R, j))
    BY <1>1, <1>9
  <2> HIDE DEF j
  <2>2. Len(Upto(R, j)) \in Nat /\ Len(Upto(R, j)) <= Len(e)
    <3>1. CASE j = 0
      BY <1>9, <1>10, <3>1
    <3>2. CASE j # 0
      <4>1. j \in 1..n
        BY <1>1, <2>1, <3>2
      <4>2. QED
        BY <1>7, <1>8, <2>1, <4>1
    <3>3. QED
      BY <3>1, <3>2
  <2>3. QED
    BY <1>2, <1>10, <1>12, <2>1, <2>2
<1>16. ASSUME NEW k \in 1..n
       PROVE  /\ Start(m, k + 1) = Start(m, k) + Len(RecordBytes(m.records[k]))
              /\ LiesAt(s, Start(m, k), RecordBytes(m.records[k]))
  <2> DEFINE r == RecordBytes(m.records[k])
             u == Len(Upto(R, k - 1))
  <2>1. R[k] = r /\ R[k] \in Seq(Byte)
    BY <1>1, ElementOfSeq
  <2>2. /\ k \in 1..(n + 1) /\ k + 1 \in 1..(n + 1) /\ k + 1 - 1 = k /\ k - 1 \in 0..n
        /\ k \in 0..n
    BY <1>1
  <2>3. u \in Nat /\ Len(Upto(R, k)) = u + Len(r) /\ LiesAt(e, u, r)
    BY <1>7, <1>8, <2>1, <2>2
  <2>4. Start(m, k) = 17 + Len(L) + u /\ Start(m, k + 1) = 17 + Len(L) + Len(Upto(R, k))
    BY <1>9, <2>2
  <2> HIDE DEF r, u
  <2>5. Len(r) \in Nat
    BY <2>1, LenProperties
  <2>6. Start(m, k + 1) = Start(m, k) + Len(r)
    BY <1>2, <2>3, <2>4, <2>5
  <2>7. LiesAt(s, (17 + Len(L)) + u, r)
    <3>1. 17 + Len(L) \in Nat
      BY <1>2
    <3>2. QED
      BY <1>10, <1>11, <1>12, <2>1, <2>3, <3>1, LiesWithin
  <2>8. QED
    BY <2>4, <2>6, <2>7 DEF r
<1>17. QED
  BY <1>2, <1>11, <1>12, <1>13, <1>14, <1>15, <1>16 DEF s, L, n, b

-----------------------------------------------------------------------------
(* The padding.                                                            *)

LEMMA RoundedUp ==
  ASSUME NEW t \in Nat, NEW b \in Nat \ {0}
  PROVE  (t \div b + 1) * b \in Nat /\ (t \div b + 1) * b >= t
OBVIOUS

\* A padded message: the message, the mark and zeros.
LEMMA PaddedAt ==
  ASSUME NEW s \in Seq(Byte), Block \in Nat \ {0}, MinLen \in Nat
  PROVE  LET w == pad_query(s, MinLen) IN
         /\ w \in Seq(Byte) /\ Len(w) \in Nat /\ Len(w) >= Len(s) + 1
         /\ \A i \in 1..Len(s) : w[i] = s[i]
         /\ w[Len(s) + 1] = 128
         /\ \A i \in (Len(s) + 2)..Len(w) : w[i] = 0
<1> DEFINE marked == Append(s, 128)
           target == IF Len(marked) < MinLen THEN MinLen ELSE Len(marked)
           rounded == IF target % Block # 0 THEN (target \div Block + 1) * Block ELSE target
           w == pad_query(s, MinLen)
<1>1. Len(s) \in Nat /\ 128 \in Byte /\ 0 \in Byte
  BY LenProperties DEF Byte
<1>2. /\ marked \in Seq(Byte) /\ Len(marked) = Len(s) + 1
      /\ \A i \in 1..Len(s) : marked[i] = s[i]
      /\ marked[Len(s) + 1] = 128
  BY <1>1, AppendProperties
<1>3. w = [i \in 1..rounded |-> IF i <= Len(marked) THEN marked[i] ELSE 0]
  BY DEF pad_query
<1> HIDE DEF marked, w
<1>4. target \in Nat /\ target >= Len(s) + 1
  BY <1>1, <1>2
<1> HIDE DEF target
<1>5. rounded \in Nat /\ rounded >= Len(s) + 1
  <2>1. (target \div Block + 1) * Block \in Nat /\ (target \div Block + 1) * Block >= target
    BY <1>4, RoundedUp
  <2> DEFINE up == (target \div Block + 1) * Block
  <2>2. rounded = up \/ rounded = target
    OBVIOUS
  <2> HIDE DEF up, rounded
  <2>3. up \in Nat /\ up >= target
    BY <2>1 DEF up
  <2>4. QED
    BY <1>1, <1>4, <2>2, <2>3
<1> HIDE DEF rounded
<1>6. \A i \in 1..rounded : w[i] = IF i <= Len(s) + 1 THEN marked[i] ELSE 0
  BY <1>2, <1>3
<1>7. w \in Seq(Byte) /\ Len(w) = rounded
  <2>1. \A i \in 1..rounded : w[i] \in Byte
    <3>1. \A i \in 1..rounded : i <= Len(s) + 1 => i \in 1..Len(marked)
      BY <1>1, <1>2
    <3>2. QED
      BY <1>1, <1>2, <1>6, <3>1, ElementOfSeq
  <2>2. w \in [1..rounded -> Byte]
    BY <1>3, <2>1
  <2>3. QED
    BY <1>5, <2>2, FunctionIsSeq
<1>8. /\ \A i \in 1..Len(s) : w[i] = s[i]
      /\ w[Len(s) + 1] = 128
      /\ \A i \in (Len(s) + 2)..Len(w) : w[i] = 0
  <2>1. \A i \in 1..Len(s) : i \in 1..rounded /\ i <= Len(s) + 1
    BY <1>1, <1>5
  <2>2. Len(s) + 1 \in 1..rounded /\ Len(s) + 1 <= Len(s) + 1
    BY <1>1, <1>5
  <2>3. \A i \in (Len(s) + 2)..rounded : i \in 1..rounded /\ ~(i <= Len(s) + 1)
    BY <1>1, <1>5
  <2>4. QED
    BY <1>2, <1>6, <1>7, <2>1, <2>2, <2>3
<1>9. QED
  BY <1>5, <1>7, <1>8 DEF w

\* The mark found in a padded message, or in the front of one, is that of the padding or
\* lies before it.
LEMMA MarkAt ==
  ASSUME NEW s \in Seq(Byte), NEW w \in Seq(Byte), NEW d \in Seq(Byte),
         \A i \in 1..Len(s) : w[i] = s[i],
         w[Len(s) + 1] = 128,
         \A i \in (Len(s) + 2)..Len(w) : w[i] = 0,
         Len(d) <= Len(w), \A i \in 1..Len(d) : d[i] = w[i]
  PROVE  /\ PaddingMark(d) # 0 => /\ PaddingMark(d) \in 1..Len(d)
                                  /\ PaddingMark(d) <= Len(s) + 1
         /\ Len(d) > Len(s) => PaddingMark(d) = Len(s) + 1
<1> DEFINE Z == NonZero(d)
           IsLast(i) == i \in Z /\ \A j \in Z : j <= i
           k == PaddingMark(d)
<1>1. Len(s) \in Nat /\ Len(w) \in Nat /\ Len(d) \in Nat /\ DOMAIN d = 1..Len(d)
  BY LenProperties
<1>2. Z = {i \in 1..Len(d) : d[i] # 0}
  BY <1>1 DEF NonZero
<1>3. ASSUME NEW i \in Z PROVE i \in 1..Len(d) /\ i <= Len(s) + 1
  <2>1. i \in 1..Len(d) /\ d[i] # 0
    BY <1>2
  <2>2. ~(i > Len(s) + 1)
    <3>1. i > Len(s) + 1 => i \in (Len(s) + 2)..Len(w)
      BY <1>1, <2>1
    <3>2. QED
      BY <2>1, <3>1
  <2>3. QED
    BY <1>1, <2>1, <2>2
<1>4. k # 0 => IsLast(k)
  <2>1. k # 0 => \E i \in Z : IsLast(i)
    BY DEF PaddingMark
  <2>2. k # 0 => k = CHOOSE i \in Z : \A j \in Z : j <= i
    BY DEF PaddingMark
  <2>3. QED
    BY <2>1, <2>2
<1>5. ASSUME Len(d) > Len(s)
      PROVE  k = Len(s) + 1
  <2> DEFINE p == Len(s) + 1
  <2>1. p \in Z /\ d[p] = 128
    <3>1. p \in 1..Len(d)
      BY <1>1, <1>5
    <3>2. d[p] = 128
      BY <3>1
    <3>3. QED
      BY <1>2, <3>1, <3>2
  <2>2. IsLast(p)
    BY <1>3, <2>1
  <2>3. k = CHOOSE i \in Z : \A j \in Z : j <= i
    BY <2>1, <2>2 DEF PaddingMark
  <2>4. IsLast(k)
    BY <2>2, <2>3
  <2>5. k <= p /\ p <= k /\ k \in Int
    BY <1>3, <2>1, <2>4
  <2> HIDE DEF k
  <2>6. QED
    BY <1>1, <2>5
<1> HIDE DEF Z
<1>6. QED
  BY <1>3, <1>4, <1>5

\* What is sent: the response, and in an encrypted answer its padding.
LEMMA WireAt ==
  ASSUME NEW m \in Messages
  PROVE  /\ Wire(m) \in Seq(Byte) /\ Len(Wire(m)) \in Nat /\ Len(Response(m)) <= Len(Wire(m))
         /\ m.kind # "A" => Wire(m) = Response(m)
         /\ m.kind = "A" =>
              /\ Len(Wire(m)) > Len(Response(m))
              /\ \A i \in 1..Len(Response(m)) : Wire(m)[i] = Response(m)[i]
              /\ Wire(m)[Len(Response(m)) + 1] = 128
              /\ \A i \in (Len(Response(m)) + 2)..Len(Wire(m)) : Wire(m)[i] = 0
<1> DEFINE s == Response(m)
           w == pad_query(s, MinLen)
<1>1. s \in Seq(Byte) /\ Len(s) \in Nat /\ Block \in Nat \ {0} /\ MinLen \in Nat
  BY ResponseAt, DnsAssumption
<1>2. Wire(m) = IF m.kind = "A" THEN w ELSE s
  BY DEF Wire
<1> HIDE DEF s
<1>3. /\ w \in Seq(Byte) /\ Len(w) \in Nat /\ Len(w) >= Len(s) + 1
      /\ \A i \in 1..Len(s) : w[i] = s[i]
      /\ w[Len(s) + 1] = 128
      /\ \A i \in (Len(s) + 2)..Len(w) : w[i] = 0
  BY <1>1, PaddedAt
<1> HIDE DEF w
<1>4. Len(s) <= Len(w) /\ Len(w) > Len(s) /\ Len(s) <= Len(s)
  BY <1>1, <1>3
<1>5. QED
  BY <1>1, <1>2, <1>3, <1>4 DEF s

-----------------------------------------------------------------------------
(* What a response says.                                                   *)

\* The content of every record.
ContentSeq(m) == [i \in DOMAIN m.records |-> Content(m, m.records[i])]

LEMMA TextAt ==
  ASSUME NEW r, IsRecord(r), r.type = 16
  PROVE  /\ ByteLabels(r.strings) /\ r.rdata = Labels(r.strings)
         /\ r.strings \in Seq(Seq(Byte)) /\ Len(r.strings) \in Nat
         /\ Upto(r.strings, 0) = <<>>
         /\ FlattenSeq(r.strings) = Upto(r.strings, Len(r.strings))
         /\ \A j \in 0..Len(r.strings) : Upto(r.strings, j) \in Seq(Byte)
         /\ \A j \in 1..Len(r.strings) :
              Upto(r.strings, j) = Upto(r.strings, j - 1) \o r.strings[j]
<1> DEFINE ss == r.strings
<1>1. AreLabels(ss, 255) /\ r.rdata = Labels(ss)
  BY DEF IsRecord
<1> HIDE DEF ss
<1>2. /\ ss \in Seq(Seq(Byte)) /\ DOMAIN ss = 1..Len(ss) /\ Len(ss) \in Nat
      /\ \A i \in 1..Len(ss) : Len(ss[i]) <= 255
  BY <1>1, LenProperties DEF AreLabels
<1>3. \A n \in Nat : n <= 255 => n \in Byte
  BY DEF Byte
<1>4. \A i \in 1..Len(ss) : Len(ss[i]) \in Byte
  <2>1. \A i \in 1..Len(ss) : ss[i] \in Seq(Byte)
    BY <1>2, ElementOfSeq
  <2>2. QED
    BY <1>2, <1>3, <2>1, LenProperties
<1>5. ByteLabels(ss)
  BY <1>2, <1>4 DEF ByteLabels
<1>6. FlattenSeq(ss) = Upto(ss, Len(ss)) /\ Upto(ss, 0) = <<>>
  <2>1. SubSeq(ss, 1, Len(ss)) = ss
    BY <1>2, SubSeqFull
  <2>2. QED
    BY <2>1, UptoEmpty DEF Upto
<1>7. \A j \in 0..Len(ss) : Upto(ss, j) \in Seq(Byte)
  BY <1>2, UptoType
<1>8. \A j \in 1..Len(ss) : Upto(ss, j) = Upto(ss, j - 1) \o ss[j]
  BY <1>2, UptoStep
<1>9. QED
  BY <1>1, <1>2, <1>5, <1>6, <1>7, <1>8 DEF ss

LEMMA ContentType ==
  ASSUME NEW m \in Messages, NEW k \in 1..Len(m.records)
  PROVE  /\ ContentSeq(m)[k] = Content(m, m.records[k])
         /\ Content(m, m.records[k]) \in Seq(Seq(Byte))
<1> DEFINE r == m.records[k]
<1>1. k \in DOMAIN m.records /\ IsRecord(r)
  BY MessageType
<1>2. ContentSeq(m)[k] = Content(m, r)
  BY <1>1 DEF ContentSeq
<1> HIDE DEF r
<1>3. r.rdata \in Seq(Byte)
  BY <1>1, RecordAt
<1>4. r.type = 16 => FlattenSeq(r.strings) \in Seq(Byte)
  <2>1. SUFFICES ASSUME r.type = 16 PROVE FlattenSeq(r.strings) \in Seq(Byte)
    OBVIOUS
  <2>2. /\ FlattenSeq(r.strings) = Upto(r.strings, Len(r.strings)) /\ Len(r.strings) \in Nat
        /\ \A j \in 0..Len(r.strings) : Upto(r.strings, j) \in Seq(Byte)
    BY <1>1, <2>1, TextAt
  <2>3. Len(r.strings) \in 0..Len(r.strings)
    BY <2>2
  <2>4. QED
    BY <2>2, <2>3
<1>5. \A x \in Seq(Byte) : <<x>> \in Seq(Seq(Byte))
  OBVIOUS
<1>6. << >> \in Seq(Seq(Byte))
  OBVIOUS
<1>7. \/ Content(m, r) = <<>> \/ Content(m, r) = <<r.rdata>>
      \/ r.type = 16 /\ Content(m, r) = <<FlattenSeq(r.strings)>>
  BY DEF Content
<1>8. QED
  BY <1>2, <1>3, <1>4, <1>5, <1>6, <1>7 DEF r

LEMMA ContentsAt ==
  ASSUME NEW m \in Messages
  PROVE  /\ Upto(ContentSeq(m), 0) = <<>>
         /\ Contents(m) = Upto(ContentSeq(m), Len(m.records))
         /\ \A k \in 0..Len(m.records) :
              /\ Upto(ContentSeq(m), k) \in Seq(Seq(Byte))
              /\ Len(Upto(ContentSeq(m), k)) <= Len(Contents(m))
              /\ \A i \in 1..Len(Upto(ContentSeq(m), k)) :
                   Contents(m)[i] = Upto(ContentSeq(m), k)[i]
         /\ \A k \in 1..Len(m.records) :
              Upto(ContentSeq(m), k) = Upto(ContentSeq(m), k - 1) \o Content(m, m.records[k])
<1> DEFINE C == ContentSeq(m)
           n == Len(m.records)
<1>1. n \in Nat /\ DOMAIN m.records = 1..n
  BY MessageType
<1>2. \A k \in 1..n : C[k] = Content(m, m.records[k]) /\ C[k] \in Seq(Seq(Byte))
  BY ContentType
<1>3. C = [k \in 1..n |-> C[k]]
  BY <1>1 DEF ContentSeq
<1>4. Contents(m) = FlattenSeq(C)
  BY DEF Contents, ContentSeq
<1> HIDE DEF C, n
<1>5. C \in Seq(Seq(Seq(Byte))) /\ Len(C) = n
  <2>1. C \in [1..n -> Seq(Seq(Byte))]
    BY <1>2, <1>3
  <2>2. QED
    BY <1>1, <2>1, FunctionIsSeq
<1>6. Contents(m) = Upto(C, n) /\ Upto(C, 0) = <<>>
  <2>1. SubSeq(C, 1, Len(C)) = C
    BY <1>5, SubSeqFull
  <2>2. QED
    BY <1>4, <1>5, <2>1, UptoEmpty DEF Upto
<1>7. \A k \in 0..n : Upto(C, k) \in Seq(Seq(Byte))
  BY <1>5, UptoType
<1>8. \A k \in 0..n : /\ Len(Upto(C, k)) <= Len(Upto(C, n))
                      /\ \A i \in 1..Len(Upto(C, k)) : Upto(C, n)[i] = Upto(C, k)[i]
  <2>1. \A k \in 0..n : k \in 0..Len(C) /\ n \in k..Len(C)
    BY <1>1, <1>5
  <2>2. QED
    BY <1>5, <2>1, UptoPrefix
<1>9. \A k \in 1..n : Upto(C, k) = Upto(C, k - 1) \o C[k]
  BY <1>5, UptoStep
<1>10. QED
  BY <1>2, <1>6, <1>7, <1>8, <1>9 DEF C, n

-----------------------------------------------------------------------------
(* The parsers stay inside the packet.                                     *)

\* A packet is bytes, and every position is a number.
PacketInv ==
  /\ data \in Seq(Byte)
  /\ offset \in Nat /\ index \in Nat
  /\ fixed.length \in Nat

\* The data of a text is a slice that lies inside the packet.
RangeInv == pc = "strings" => offset + fixed.length <= End

IInv == PacketInv /\ RangeInv /\ NeverPastEnd

\* A byte of the packet, or zero behind its end.
LEMMA Reading ==
  ASSUME data \in Seq(Byte)
  PROVE  /\ End \in Nat
         /\ \A i \in Nat : At(i) \in Nat /\ U16(i) \in Nat
<1>1. End \in Nat /\ \A i \in 1..End : data[i] \in Byte
  BY ElementOfSeq DEF End
<1>2. ASSUME NEW i \in Nat
      PROVE  At(i) \in Nat
  <2>1. CASE i < End
    <3>1. i + 1 \in 1..End
      BY <1>1, <2>1
    <3>2. data[i + 1] \in 0..255
      BY <1>1, <3>1 DEF Byte
    <3>3. At(i) = data[i + 1]
      BY <2>1 DEF At
    <3>4. \A b \in 0..255 : b \in Nat
      OBVIOUS
    <3>5. data[i + 1] \in Nat
      BY <3>2, <3>4, Zenon
    <3> QED
      BY <3>3, <3>5, Zenon
  <2>2. CASE ~(i < End)
    BY <2>2 DEF At
  <2> QED
    BY <2>1, <2>2
<1>3. ASSUME NEW i \in Nat
      PROVE  U16(i) \in Nat
  <2>1. At(i) \in Nat /\ At(i + 1) \in Nat
    BY <1>2, SMTT(30)
  <2> QED
    BY <2>1 DEF U16
<1> QED
  BY <1>1, <1>2, <1>3

\* A prefix of bytes is bytes.
LEMMA PrefixIsBytes ==
  ASSUME NEW s \in Seq(Byte), NEW n \in 0..Len(s)
  PROVE  SubSeq(s, 1, n) \in Seq(Byte)
<1>1. Len(s) \in Nat /\ \A i \in 1..Len(s) : s[i] \in Byte
  BY ElementOfSeq
<1>2. \A i \in 1..n : s[i] \in Byte
  BY <1>1
<1>3. 1 \in Int /\ n \in Int
  BY <1>1
<1> QED
  BY <1>2, <1>3, SubSeqProperties

LEMMA InitInvariant == Init => IInv
<1> SUFFICES ASSUME Init PROVE IInv
  OBVIOUS
<1>1. data \in Seq(Byte)
  <2>1. CASE msg \in Strays /\ data = msg.bytes
    BY <2>1, DnsAssumption
  <2>2. CASE msg \in Messages /\ \E n \in 0..Len(Wire(msg)) : data = SubSeq(Wire(msg), 1, n)
    <3>1. PICK n \in 0..Len(Wire(msg)) : data = SubSeq(Wire(msg), 1, n)
      BY <2>2
    <3>2. Wire(msg) \in Seq(Byte)
      BY <2>2, WireAt
    <3> QED
      BY <3>1, <3>2, PrefixIsBytes
  <2> QED
    BY <2>1, <2>2 DEF Init
<1>2. ~panicked /\ pc # "strings"
  BY DEF Init
<1> QED
  BY <1>1, <1>2 DEF Init, IInv, PacketInv, RangeInv, NeverPastEnd

\* Reading up to a position inside the slice is no panic.
LEMMA ReadsInside ==
  ASSUME NeverPastEnd, NEW n \in Nat, NEW len \in Nat, n <= len, Reads(n, len)
  PROVE  ~panicked'
<1>1. ~panicked /\ ~(n > len)
  BY DEF NeverPastEnd
<1> QED
  BY <1>1, Zenon DEF Reads

LEMMA ParseStep ==
  ASSUME IInv, UNCHANGED <<msg, whole, data>>,
         offset' \in Nat, index' \in Nat, fixed'.length \in Nat,
         ~panicked',
         pc' = "strings" => offset' + fixed'.length <= End
  PROVE  IInv'
BY DEF IInv, PacketInv, RangeInv, NeverPastEnd, End

LEMMA ReturnStep ==
  ASSUME IInv, NEW r, Return(r), UNCHANGED <<msg, whole, data>>
  PROVE  IInv'
BY DEF IInv, PacketInv, RangeInv, NeverPastEnd, End, Return, Goes, record

LEMMA UnpadInvariant ==
  ASSUME IInv, unpad_response
  PROVE  IInv'
<1>1. CASE PaddingMark(data) = 0
  BY <1>1, ReturnStep DEF unpad_response
<1>2. CASE PaddingMark(data) # 0
  <2> DEFINE k == PaddingMark(data)
  <2>1. data \in Seq(Byte)
    BY DEF IInv, PacketInv
  <2>2. k \in DOMAIN data
    BY <1>2 DEF PaddingMark, NonZero
  <2>3. k \in 1..Len(data)
    BY <2>1, <2>2, LenProperties
  <2>4. /\ data' = SubSeq(data, 1, k - 1) /\ pc' = "header" /\ offset' = 0
        /\ UNCHANGED <<record, panicked>>
    BY <1>2 DEF unpad_response, Goes
  <2> HIDE DEF k
  <2>5. Len(data) \in Nat
    BY <2>1
  <2>6. data' \in Seq(Byte)
    <3>1. k - 1 \in 0..Len(data)
      BY <2>3, <2>5
    <3> QED
      BY <2>1, <2>4, <3>1, PrefixIsBytes
  <2> QED
    BY <2>1, <2>4, <2>6 DEF IInv, PacketInv, RangeInv, NeverPastEnd, record
<1> QED
  BY <1>1, <1>2

LEMMA ParseInvariant ==
  ASSUME IInv, UNCHANGED <<msg, whole, data>>,
         \/ Header \/ SkipLabel \/ NameEnds \/ Answer \/ Fixed
         \/ Address \/ Text \/ TextChunk \/ TextEnds
  PROVE  IInv'
<1> USE DEF Goes, record
<1>1. /\ data \in Seq(Byte) /\ offset \in Nat /\ index \in Nat
      /\ fixed.length \in Nat /\ NeverPastEnd
  BY DEF IInv, PacketInv, NeverPastEnd
<1>2. End \in Nat /\ At(offset) \in Nat /\ At(offset + index) \in Nat /\ U16(offset + 8) \in Nat
  <2>1. offset + index \in Nat /\ offset + 8 \in Nat
    BY <1>1
  <2> QED
    BY <1>1, <2>1, Reading
<1>3. CASE Header
  <2>1. CASE End < 12
    BY <1>3, <2>1, ReturnStep DEF Header
  <2>2. CASE ~(End < 12)
    <3>1. Reads(8, End) /\ offset' = 12 /\ pc' = "question" /\ UNCHANGED record
      BY <1>3, <2>2 DEF Header
    <3>2. ~panicked'
      BY <1>1, <1>2, <2>2, <3>1, ReadsInside
    <3> QED
      BY <1>1, <3>1, <3>2, ParseStep
  <2> QED
    BY <2>1, <2>2
<1>4. CASE SkipLabel
  <2>1. /\ offset < End /\ Reads(offset + 1, End) /\ offset' = offset + At(offset) + 1
        /\ pc' = pc /\ pc \in {"question", "owner"} /\ UNCHANGED record
    BY <1>4 DEF SkipLabel, InName
  <2>2. ~panicked'
    BY <1>1, <1>2, <2>1, ReadsInside
  <2> QED
    BY <1>1, <1>2, <2>1, <2>2, ParseStep
<1>5. CASE NameEnds
  <2> DEFINE o == IF InName THEN offset + 2 ELSE offset
             n == IF o < End THEN o + 1 ELSE IF InName THEN offset + 1 ELSE 0
  <2>1. /\ pc' \in {"answers", "fixed"} /\ offset' \in {PastRoot(o) + 4, PastRoot(o)}
        /\ Reads(n, End) /\ UNCHANGED record
    BY <1>5 DEF NameEnds
  <2>2. o \in Nat /\ n \in Nat /\ n <= End
    BY <1>1, <1>2 DEF InName
  <2>3. PastRoot(o) \in Nat
    BY <2>2 DEF PastRoot
  <2> HIDE DEF o, n
  <2>4. ~panicked'
    BY <1>1, <1>2, <2>1, <2>2, ReadsInside
  <2> QED
    BY <1>1, <2>1, <2>3, <2>4, ParseStep
<1>6. CASE Answer
  <2>1. CASE left = 0 \/ TooShort
    BY <1>6, <2>1, ReturnStep DEF Answer
  <2>2. CASE ~(left = 0 \/ TooShort)
    <3>1. /\ offset' \in {offset + 2, offset} /\ pc' \in {"fixed", "owner"}
          /\ Reads(offset + 1, End) /\ UNCHANGED record
      BY <1>6, <2>2 DEF Answer
    <3>2. offset + 1 <= End
      BY <1>1, <1>2, <2>2 DEF TooShort
    <3>3. ~panicked'
      BY <1>1, <1>2, <3>1, <3>2, ReadsInside
    <3> QED
      BY <1>1, <3>1, <3>3, ParseStep
  <2> QED
    BY <2>1, <2>2
<1>7. CASE Fixed
  <2>1. CASE offset + 10 > End
    BY <1>7, <2>1, ReturnStep DEF Fixed
  <2>2. CASE ~(offset + 10 > End)
    <3>1. /\ fixed' = [type |-> Type, length |-> RdLength] /\ index' = index
          /\ offset' = offset + 10 /\ pc' = "rdata" /\ Reads(offset + 10, End)
      BY <1>7, <2>2 DEF Fixed
    <3>2. ~panicked'
      BY <1>1, <1>2, <2>2, <3>1, ReadsInside
    <3>3. fixed'.length \in Nat
      BY <1>2, <3>1 DEF RdLength
    <3> QED
      BY <1>1, <3>1, <3>2, <3>3, ParseStep
  <2> QED
    BY <2>1, <2>2
<1>8. CASE Address
  <2>1. CASE fixed.type = 1 /\ fixed.length = 4 /\ offset + 4 <= End
    <3>1. Reads(offset + 4, End) /\ offset' = offset /\ pc' = "done" /\ UNCHANGED record
      BY <1>8, <2>1 DEF Address
    <3>2. ~panicked'
      BY <1>1, <1>2, <2>1, <3>1, ReadsInside
    <3> QED
      BY <1>1, <3>1, <3>2, ParseStep
  <2>2. CASE ~(fixed.type = 1 /\ fixed.length = 4 /\ offset + 4 <= End)
    <3>1. /\ panicked' = panicked /\ offset' = offset + fixed.length /\ pc' = "answers"
          /\ UNCHANGED record
      BY <1>8, <2>2 DEF Address
    <3>2. ~panicked'
      BY <1>1, <3>1 DEF NeverPastEnd
    <3> QED
      BY <1>1, <3>1, <3>2, ParseStep
  <2> QED
    BY <2>1, <2>2
<1>9. CASE Text
  <2>1. CASE offset + fixed.length > End
    BY <1>9, <2>1, ReturnStep DEF Text
  <2>2. CASE ~(offset + fixed.length > End) /\ fixed.type = 16
    <3>1. /\ Reads(offset + fixed.length, End) /\ offset' = offset /\ pc' = "strings"
          /\ index' = 0 /\ fixed' = fixed
      BY <1>9, <2>2 DEF Text
    <3>2. offset + fixed.length \in Nat /\ offset + fixed.length <= End
      BY <1>1, <1>2, <2>2
    <3>3. ~panicked'
      BY <1>1, <1>2, <3>1, <3>2, ReadsInside
    <3> QED
      BY <1>1, <3>1, <3>2, <3>3, ParseStep
  <2>3. CASE ~(offset + fixed.length > End) /\ fixed.type # 16
    <3>1. /\ panicked' = panicked /\ offset' = offset + fixed.length /\ pc' = "answers"
          /\ UNCHANGED record
      BY <1>9, <2>3 DEF Text
    <3>2. ~panicked'
      BY <1>1, <3>1 DEF NeverPastEnd
    <3> QED
      BY <1>1, <3>1, <3>2, ParseStep
  <2> QED
    BY <2>1, <2>2, <2>3
<1>10. CASE TextChunk
  <2>1. /\ pc = "strings" /\ index + 1 + ChunkLen <= fixed.length /\ pc' = pc
        /\ index' = index + 1 + ChunkLen /\ UNCHANGED <<offset, fixed>>
        /\ Reads(index + 1 + ChunkLen, fixed.length)
    BY <1>10 DEF TextChunk, ChunkFits
  <2>2. ChunkLen \in Nat
    BY <1>2 DEF ChunkLen
  <2>3. offset + fixed.length <= End
    BY <2>1 DEF IInv, RangeInv
  <2>4. index + 1 + ChunkLen \in Nat
    BY <1>1, <2>2
  <2>5. ~panicked'
    BY <1>1, <2>1, <2>4, ReadsInside
  <2> QED
    BY <1>1, <2>1, <2>2, <2>3, <2>5, ParseStep
<1>11. CASE TextEnds
  <2>1. /\ panicked' = panicked /\ offset' = offset + fixed.length /\ pc' = "answers"
        /\ UNCHANGED record
    BY <1>11 DEF TextEnds
  <2>2. ~panicked'
    BY <1>1, <2>1 DEF NeverPastEnd
  <2> QED
    BY <1>1, <2>1, <2>2, ParseStep
<1> QED
  BY <1>3, <1>4, <1>5, <1>6, <1>7, <1>8, <1>9, <1>10, <1>11

LEMMA NextInvariant == IInv /\ [Next]_vars => IInv'
<1> SUFFICES ASSUME IInv, [Next]_vars PROVE IInv'
  OBVIOUS
<1>1. CASE UNCHANGED vars
  BY <1>1 DEF vars, record, IInv, PacketInv, RangeInv, NeverPastEnd, End
<1> QED
  BY <1>1, UnpadInvariant, ParseInvariant DEF Next, Parse, Returned

THEOREM InvariantHolds == Spec => []IInv
BY InitInvariant, NextInvariant, PTL DEF Spec

\* parse_dns_response and parse_txt_response never index past the end of the packet or of
\* the data of a record, for every response wherever it was cut and for any other bytes:
\* no datagram can make PID 1 panic there.
THEOREM ParsersStayInside == Spec => []NeverPastEnd
<1>1. IInv => NeverPastEnd
  BY DEF IInv
<1> QED
  BY <1>1, InvariantHolds, PTL

-----------------------------------------------------------------------------
(* Reading what has arrived of a response.                                 *)

Arrived ==
  /\ msg \in Messages /\ data \in Seq(Byte)
  /\ End <= Len(Response(msg)) /\ \A i \in 1..End : data[i] = Response(msg)[i]

LEMMA AtIs ==
  ASSUME Arrived
  PROVE  /\ End \in Nat
         /\ \A i \in Nat : i < End => At(i) = Response(msg)[i + 1]
<1>1. End \in Nat
  BY LenProperties DEF Arrived, End
<1>2. \A i \in Nat : i < End => i + 1 \in 1..End
  BY <1>1
<1>3. QED
  BY <1>1, <1>2 DEF Arrived, At

LEMMA U16Is ==
  ASSUME Arrived, NEW p \in Nat, NEW n \in Word, LiesAt(Response(msg), p, U16Bytes(n)),
         p + 2 <= End
  PROVE  U16(p) = n
<1> DEFINE b == U16Bytes(n)
<1>1. Len(b) = 2 /\ b[1] * 256 + b[2] = n
  BY U16BytesAt
<1>2. Response(msg)[p + 1] = b[1] /\ Response(msg)[p + 2] = b[2]
  <2> HIDE DEF b
  <2>1. 1 \in 1..Len(b) /\ 2 \in 1..Len(b)
    BY <1>1
  <2>2. QED
    BY <2>1 DEF LiesAt, b
<1> HIDE DEF b
<1>3. p < End /\ p + 1 \in Nat /\ p + 1 < End /\ (p + 1) + 1 = p + 2
  BY AtIs
<1>4. At(p) = b[1] /\ At(p + 1) = b[2]
  <2>1. At(p) = Response(msg)[p + 1] /\ At(p + 1) = Response(msg)[(p + 1) + 1]
    BY <1>3, AtIs
  <2>2. QED
    BY <1>2, <1>3, <2>1
<1>5. QED
  BY <1>1, <1>4 DEF U16

\* No label is empty, or as long as a byte that would be taken for a pointer.
PlainLabels(ls) ==
  /\ ByteLabels(ls)
  /\ \A i \in 1..Len(ls) : Len(ls[i]) # 0 /\ ~IsPointer(Len(ls[i]))

\* A name is written out in a response from p on, up to the root label.
Written(m, p, ls) ==
  /\ p \in Nat /\ PlainLabels(ls)
  /\ LiesAt(Response(m), p, Labels(ls))
  /\ p + Len(Labels(ls)) < Len(Response(m))
  /\ Response(m)[p + Len(Labels(ls)) + 1] = 0

\* The parser is behind the first j labels of such a name.
Walks(p, ls, j) ==
  Written(msg, p, ls) /\ j \in 0..Len(ls) /\ offset = p + LabelPos(ls, j)

\* Where a record is found in the response.
LEMMA RecordIn ==
  ASSUME NEW m \in Messages, NEW k \in 1..Len(m.records)
  PROVE  LET r == m.records[k] IN
         /\ IsRecord(r) /\ r.type \in Word /\ Len(r.rdata) \in Word
         /\ r.rdata \in Seq(Byte) /\ Len(r.rdata) \in Nat
         /\ Start(m, k) \in Nat /\ TypeAt(m, k) \in Nat /\ DataAt(m, k) \in Nat
         /\ TypeAt(m, k) >= Start(m, k) + 1 /\ DataAt(m, k) = TypeAt(m, k) + 10
         /\ Start(m, k + 1) = DataAt(m, k) + Len(r.rdata)
         /\ Start(m, k + 1) \in Nat /\ Start(m, k + 1) <= Len(Response(m))
         /\ LiesAt(Response(m), Start(m, k), NameBytes(r.owner))
         /\ LiesAt(Response(m), TypeAt(m, k), U16Bytes(r.type))
         /\ LiesAt(Response(m), TypeAt(m, k) + 8, U16Bytes(Len(r.rdata)))
         /\ LiesAt(Response(m), DataAt(m, k), r.rdata)
<1> DEFINE r == m.records[k]
           s == Response(m)
           b == RecordBytes(r)
           a == NameBytes(r.owner)
           p == Start(m, k)
<1>1. IsRecord(r) /\ r.type \in Word /\ Len(r.rdata) \in Word
  BY MessageType DEF IsRecord
<1>2. /\ s \in Seq(Byte) /\ p \in Nat /\ Start(m, k + 1) = p + Len(b) /\ LiesAt(s, p, b)
      /\ Start(m, k + 1) \in Nat /\ Start(m, k + 1) <= Len(s)
  <2>1. k \in 1..(Len(m.records) + 1) /\ k + 1 \in 1..(Len(m.records) + 1)
    BY MessageType
  <2>2. QED
    BY <2>1, ResponseAt
<1>3. TypeAt(m, k) = p + Len(a) /\ DataAt(m, k) = TypeAt(m, k) + 10
  BY DEF TypeAt, DataAt
<1> HIDE DEF r, s, b, a, p
<1>4. /\ Len(a) \in Nat /\ Len(a) >= 1 /\ a \in Seq(Byte)
      /\ r.rdata \in Seq(Byte) /\ Len(r.rdata) \in Nat
      /\ b \in Seq(Byte) /\ Len(b) = Len(a) + 10 + Len(r.rdata)
      /\ LiesAt(b, 0, a) /\ LiesAt(b, Len(a), U16Bytes(r.type))
      /\ LiesAt(b, Len(a) + 8, U16Bytes(Len(r.rdata)))
      /\ LiesAt(b, Len(a) + 10, r.rdata)
  BY <1>1, RecordAt DEF a, b
<1>5. U16Bytes(r.type) \in Seq(Byte) /\ U16Bytes(Len(r.rdata)) \in Seq(Byte)
  BY <1>1, U16BytesAt
<1>6. LiesAt(s, p + 0, a) /\ LiesAt(s, p + Len(a), U16Bytes(r.type))
  BY <1>2, <1>4, <1>5, LiesWithin
<1>7. LiesAt(s, p + (Len(a) + 8), U16Bytes(Len(r.rdata)))
  <2>1. Len(a) + 8 \in Nat
    BY <1>4
  <2>2. QED
    BY <1>2, <1>4, <1>5, <2>1, LiesWithin
<1>8. LiesAt(s, p + (Len(a) + 10), r.rdata)
  <2>1. Len(a) + 10 \in Nat
    BY <1>4
  <2>2. QED
    BY <1>2, <1>4, <2>1, LiesWithin
<1>9. /\ p + 0 = p /\ p + (Len(a) + 8) = TypeAt(m, k) + 8 /\ p + (Len(a) + 10) = DataAt(m, k)
      /\ TypeAt(m, k) \in Nat /\ DataAt(m, k) \in Nat /\ TypeAt(m, k) >= p + 1
      /\ Start(m, k + 1) = DataAt(m, k) + Len(r.rdata)
  <2>1. /\ p \in Nat /\ Len(a) \in Nat /\ Len(r.rdata) \in Nat /\ Len(a) >= 1
        /\ TypeAt(m, k) = p + Len(a) /\ DataAt(m, k) = (p + Len(a)) + 10
        /\ Start(m, k + 1) = p + (Len(a) + 10 + Len(r.rdata))
    BY <1>2, <1>3, <1>4
  <2>2. \A x \in Nat, y \in Nat, z \in Nat : y >= 1 =>
          /\ x + 0 = x /\ x + (y + 8) = (x + y) + 8 /\ x + (y + 10) = (x + y) + 10
          /\ x + y \in Nat /\ (x + y) + 10 \in Nat /\ x + y >= x + 1
          /\ x + (y + 10 + z) = ((x + y) + 10) + z
    OBVIOUS
  <2> DEFINE x == Len(a)
             z == Len(r.rdata)
  <2> HIDE DEF x, z
  <2>3. /\ p + 0 = p /\ p + (x + 8) = (p + x) + 8 /\ p + (x + 10) = (p + x) + 10
        /\ p + x \in Nat /\ (p + x) + 10 \in Nat /\ p + x >= p + 1
        /\ p + (x + 10 + z) = ((p + x) + 10) + z
    <3>1. p \in Nat /\ x \in Nat /\ z \in Nat /\ x >= 1
      BY <2>1 DEF x, z
    <3>2. QED
      BY <2>2, <3>1
  <2>4. QED
    BY <2>1, <2>3 DEF x, z
<1>10. QED
  BY <1>1, <1>2, <1>3, <1>4, <1>6, <1>7, <1>8, <1>9 DEF r, s, a, p

LEMMA QuestionWritten ==
  ASSUME NEW m \in Messages
  PROVE  Written(m, 12, m.domain) /\ Len(m.domain) \in Nat /\ LabelPos(m.domain, 0) = 0
<1> DEFINE name == [labels |-> m.domain, end |-> <<0>>]
           R == Response(m)
           L == Labels(m.domain)
<1>1. PlainLabels(m.domain)
  <2>1. name.labels = m.domain /\ IsName(name)
    BY MessageType
  <2> HIDE DEF name
  <2>2. PlainLabels(name.labels)
    BY <2>1, NameAt DEF PlainLabels
  <2>3. QED
    BY <2>1, <2>2
<1>2. /\ Len(R) \in Nat /\ Len(L) \in Nat /\ Len(R) >= 17 + Len(L)
      /\ LiesAt(R, 12, L) /\ R[12 + Len(L) + 1] = 0
  BY ResponseAt
<1>3. Len(m.domain) \in Nat /\ LabelPos(m.domain, 0) = 0
  BY <1>1, EncodedType, LabelsAt DEF PlainLabels
<1> HIDE DEF R, L
<1>4. 12 + Len(L) < Len(R) /\ 12 \in Nat
  BY <1>2
<1>5. QED
  BY <1>1, <1>2, <1>3, <1>4 DEF Written, R, L

LEMMA OwnerWritten ==
  ASSUME NEW m \in Messages, NEW k \in 1..Len(m.records),
         m.records[k].owner.end = << 0 >>
  PROVE  LET ls == m.records[k].owner.labels IN
         /\ Written(m, Start(m, k), ls) /\ Len(ls) \in Nat /\ LabelPos(ls, 0) = 0
         /\ Start(m, k) + Len(Labels(ls)) + 1 = TypeAt(m, k)
<1> DEFINE name == m.records[k].owner
           ls == name.labels
           R == Response(m)
           L == Labels(ls)
           p == Start(m, k)
           a == NameBytes(name)
<1>1. IsName(name)
  BY MessageType DEF IsRecord
<1>2. /\ p \in Nat /\ TypeAt(m, k) = p + Len(a) /\ LiesAt(R, p, a)
      /\ DataAt(m, k) = TypeAt(m, k) + 10 /\ Start(m, k + 1) = DataAt(m, k) + Len(m.records[k].rdata)
      /\ Start(m, k + 1) <= Len(R) /\ Len(m.records[k].rdata) \in Nat /\ TypeAt(m, k) \in Nat
  BY RecordIn DEF TypeAt
<1>3. /\ PlainLabels(ls) /\ Len(L) \in Nat /\ Len(a) = Len(L) + Len(name.end)
      /\ \A i \in 1..Len(L) : a[i] = L[i]
      /\ a[Len(L) + 1] = name.end[1]
  BY <1>1, NameAt DEF PlainLabels
<1>4. Len(name.end) = 1 /\ name.end[1] = 0
  OBVIOUS
<1>5. Len(ls) \in Nat /\ LabelPos(ls, 0) = 0
  BY <1>3, EncodedType, LabelsAt DEF PlainLabels
<1>6. Len(R) \in Nat
  BY ResponseAt
<1> HIDE DEF R, L, p, a, ls
<1>7. Len(a) = Len(L) + 1 /\ a[Len(L) + 1] = 0
  BY <1>3, <1>4
<1>8. p + Len(a) <= Len(R) /\ \A i \in 1..Len(a) : R[p + i] = a[i]
  BY <1>2 DEF LiesAt
<1>9. p + Len(L) < Len(R) /\ p + Len(L) <= Len(R) /\ p + Len(L) + 1 = TypeAt(m, k)
  BY <1>2, <1>3, <1>6, <1>7, <1>8
<1>10. \A i \in 1..Len(L) : R[p + i] = L[i]
  <2>1. \A i \in 1..Len(L) : i \in 1..Len(a)
    BY <1>3, <1>7
  <2>2. QED
    BY <1>3, <1>8, <2>1
<1>11. R[p + Len(L) + 1] = 0
  <2>1. Len(L) + 1 \in 1..Len(a) /\ p + (Len(L) + 1) = p + Len(L) + 1
    BY <1>2, <1>3, <1>7
  <2>2. QED
    BY <1>7, <1>8, <2>1
<1>12. LiesAt(R, p, L)
  BY <1>9, <1>10 DEF LiesAt
<1>13. QED
  BY <1>2, <1>3, <1>5, <1>9, <1>11, <1>12 DEF Written, R, L, p, ls

LEMMA Walk ==
  ASSUME Arrived, NEW p, NEW ls, NEW j, Walks(p, ls, j)
  PROVE  /\ offset \in Nat /\ offset < Len(Response(msg))
         /\ InName => /\ j + 1 \in 0..Len(ls) /\ ~IsPointer(At(offset))
                      /\ offset + At(offset) + 1 = p + LabelPos(ls, j + 1)
         /\ ~InName => offset >= End \/ PastRoot(offset) = p + Len(Labels(ls)) + 1
<1> DEFINE R == Response(msg)
           L == Labels(ls)
<1>1. /\ p \in Nat /\ ByteLabels(ls) /\ j \in 0..Len(ls) /\ offset = p + LabelPos(ls, j)
      /\ \A i \in 1..Len(L) : R[p + i] = L[i]
      /\ p + Len(L) < Len(R) /\ R[p + Len(L) + 1] = 0
      /\ \A i \in 1..Len(ls) : Len(ls[i]) # 0 /\ ~IsPointer(Len(ls[i]))
  BY DEF Walks, Written, PlainLabels, LiesAt
<1>2. /\ Len(ls) \in Nat /\ Len(L) \in Nat /\ LabelPos(ls, Len(ls)) = Len(L)
      /\ \A i \in 0..Len(ls) : LabelPos(ls, i) \in Nat /\ LabelPos(ls, i) <= Len(L)
      /\ \A i \in 1..Len(ls) : /\ LabelPos(ls, i) = LabelPos(ls, i - 1) + 1 + Len(ls[i])
                               /\ L[LabelPos(ls, i - 1) + 1] = Len(ls[i])
                               /\ Len(ls[i]) \in Nat
  <2>1. Len(ls) \in Nat
    BY <1>1, EncodedType
  <2>2. \A i \in 1..Len(ls) : Len(ls[i]) \in Nat
    BY <1>1, EncodedAt
  <2>3. QED
    BY <1>1, <2>1, <2>2, LabelsAt
<1>3. End \in Nat /\ Len(R) \in Nat /\ \A i \in Nat : i < End => At(i) = R[i + 1]
  BY AtIs, ResponseAt DEF Arrived
<1> HIDE DEF R, L
<1>4. offset \in Nat /\ offset < Len(R) /\ LabelPos(ls, j) \in Nat
  <2>1. LabelPos(ls, j) \in Nat /\ LabelPos(ls, j) <= Len(L)
    BY <1>1, <1>2
  <2>2. QED
    BY <1>1, <1>2, <1>3, <2>1
<1>5. CASE j = Len(ls)
  <2>1. offset = p + Len(L)
    BY <1>1, <1>2, <1>5
  <2>2. offset < End => At(offset) = 0
    BY <1>1, <1>3, <1>4, <2>1
  <2>3. ~InName
    BY <2>2 DEF InName
  <2>4. offset >= End \/ PastRoot(offset) = offset + 1
    BY <1>3, <1>4, <2>2 DEF PastRoot
  <2>5. QED
    BY <1>4, <2>1, <2>3, <2>4 DEF R, L
<1>6. CASE j # Len(ls)
  <2> DEFINE i == j + 1
             q == LabelPos(ls, j)
  <2>1. i \in 1..Len(ls) /\ i \in 0..Len(ls) /\ i - 1 = j
    BY <1>1, <1>2, <1>6
  <2>2. /\ LabelPos(ls, i) = q + 1 + Len(ls[i]) /\ L[q + 1] = Len(ls[i])
        /\ Len(ls[i]) \in Nat /\ LabelPos(ls, i) <= Len(L) /\ LabelPos(ls, i) \in Nat
    <3>1. /\ LabelPos(ls, i) = LabelPos(ls, i - 1) + 1 + Len(ls[i])
          /\ L[LabelPos(ls, i - 1) + 1] = Len(ls[i])
          /\ Len(ls[i]) \in Nat /\ LabelPos(ls, i) <= Len(L) /\ LabelPos(ls, i) \in Nat
      <4> HIDE DEF i
      <4>1. QED
        BY <1>2, <2>1
    <3>2. QED
      BY <2>1, <3>1
  <2> HIDE DEF i, q
  <2>3. q \in Nat /\ offset = p + q
    BY <1>1, <1>4 DEF q
  <2>4. R[p + (q + 1)] = Len(ls[i]) /\ p + (q + 1) = offset + 1
    <3>1. q + 1 \in 1..Len(L) /\ p + (q + 1) = offset + 1
      <4>1. \A a \in Nat, b \in Nat, c \in Nat, l \in Nat :
              b + 1 + c <= l => b + 1 \in 1..l /\ a + (b + 1) = a + b + 1
        OBVIOUS
      <4>2. p \in Nat /\ q \in Nat /\ Len(ls[i]) \in Nat /\ Len(L) \in Nat
        BY <1>1, <1>2, <2>2, <2>3
      <4>3. q + 1 + Len(ls[i]) <= Len(L)
        BY <2>2
      <4>4. QED
        BY <2>3, <4>1, <4>2, <4>3
    <3>2. QED
      BY <1>1, <2>2, <3>1
  <2>5. offset < End => At(offset) = Len(ls[i])
    BY <1>3, <1>4, <2>4
  <2>6. ~InName => offset >= End
    BY <1>1, <1>3, <1>4, <2>1, <2>5 DEF InName
  <2>7. InName => /\ ~IsPointer(At(offset))
                  /\ offset + At(offset) + 1 = p + LabelPos(ls, i)
    <3>1. SUFFICES ASSUME InName
                   PROVE  /\ ~IsPointer(At(offset))
                          /\ offset + At(offset) + 1 = p + LabelPos(ls, i)
      OBVIOUS
    <3>2. At(offset) = Len(ls[i])
      BY <2>5, <3>1 DEF InName
    <3>3. ~IsPointer(At(offset))
      BY <1>1, <2>1, <3>2
    <3>4. offset + Len(ls[i]) + 1 = p + LabelPos(ls, i)
      <4>1. \A a \in Nat, b \in Nat, c \in Nat : (a + b) + c + 1 = a + (b + 1 + c)
        OBVIOUS
      <4>2. p \in Nat /\ q \in Nat /\ Len(ls[i]) \in Nat
        BY <1>1, <2>2, <2>3
      <4>3. (p + q) + Len(ls[i]) + 1 = p + (q + 1 + Len(ls[i]))
        BY <4>1, <4>2
      <4>4. QED
        BY <2>2, <2>3, <4>3
    <3>5. QED
      BY <3>2, <3>3, <3>4
  <2>8. QED
    BY <1>4, <2>1, <2>6, <2>7 DEF R, i
<1>7. QED
  BY <1>5, <1>6

-----------------------------------------------------------------------------
(* What the parsers decode.                                                *)

\* What has arrived is what was sent, up to a point; it is padded until unpad_response.
Received ==
  /\ pc # "unpad" => Arrived /\ (whole => End = Len(Response(msg)))
  /\ pc = "unpad" =>
       /\ msg \in Messages /\ msg.kind = "A"
       /\ End <= Len(Wire(msg)) /\ \A i \in 1..End : data[i] = Wire(msg)[i]
       /\ whole => End = Len(Wire(msg))

Count == Len(msg.records)
Rec(c) == msg.records[c]

InQuestion ==
  /\ left = Count /\ result = <<>>
  /\ \E j \in 0..Len(msg.domain) : Walks(12, msg.domain, j)

\* The parser is in front of record c, and has collected what the ones before it say.
AtAnswer(c) ==
  /\ left = Count + 1 - c /\ offset = Start(msg, c)
  /\ result = Upto(ContentSeq(msg), c - 1)

\* The parser is in record c: at its name, its type, its data, or the strings of a text.
InRecord(c) == left = Count - c /\ result = Upto(ContentSeq(msg), c - 1)

InOwner(c) ==
  /\ InRecord(c) /\ Rec(c).owner.end = <<0>>
  /\ \E j \in 0..Len(Rec(c).owner.labels) : Walks(Start(msg, c), Rec(c).owner.labels, j)

AtFixed(c) == InRecord(c) /\ offset = TypeAt(msg, c)

InData(c) ==
  /\ InRecord(c) /\ offset = DataAt(msg, c)
  /\ fixed = [type |-> Rec(c).type, length |-> Len(Rec(c).rdata)]

InText(c) ==
  /\ InData(c) /\ Rec(c).type = 16 /\ msg.kind = "TXT"
  /\ \E j \in 0..Len(Rec(c).strings) :
       index = LabelPos(Rec(c).strings, j) /\ txt = Upto(Rec(c).strings, j)

\* The parser has left the packet, at the end of which the response was cut.
Lost == pc \in {"answers", "fixed"} /\ ~whole /\ offset >= End

Decoded ==
  \/ pc \in {"unpad", "header"} /\ result = <<>>
  \/ pc = "question" /\ InQuestion
  \/ pc = "answers" /\ \E c \in 1..(Count + 1) : AtAnswer(c)
  \/ pc = "owner" /\ \E c \in 1..Count : InOwner(c)
  \/ pc = "fixed" /\ \E c \in 1..Count : AtFixed(c)
  \/ pc = "rdata" /\ \E c \in 1..Count : InData(c)
  \/ pc = "strings" /\ \E c \in 1..Count : InText(c)
  \/ pc = "done" /\ (whole => result = Expected(msg))
  \/ Lost

DecodeInv ==
  /\ Received
  /\ msg.kind = "A" /\ pc # "done" => result = <<>>
  /\ pc = "strings" => msg.kind = "TXT"
  /\ PlainNames => Decoded
  /\ OnlyRealData

-----------------------------------------------------------------------------
(* Every step keeps to the response.                                       *)

LEMMA Places ==
  ASSUME Decoded
  PROVE  /\ pc \in {"unpad", "header"} => result = <<>>
         /\ pc = "question" => InQuestion
         /\ pc = "answers" => Lost \/ \E c \in 1..(Count + 1) : AtAnswer(c)
         /\ pc = "owner" => \E c \in 1..Count : InOwner(c)
         /\ pc = "fixed" => Lost \/ \E c \in 1..Count : AtFixed(c)
         /\ pc = "rdata" => \E c \in 1..Count : InData(c)
         /\ pc = "strings" => \E c \in 1..Count : InText(c)
         /\ pc = "done" => (whole => result = Expected(msg))
BY DEF Decoded, Lost

LEMMA Parsing ==
  ASSUME Received, pc # "unpad"
  PROVE  /\ Arrived /\ msg \in Messages /\ Count \in Nat
         /\ End \in Nat /\ Len(Response(msg)) \in Nat /\ End <= Len(Response(msg))
         /\ whole => End = Len(Response(msg))
<1>1. Arrived /\ msg \in Messages /\ (whole => End = Len(Response(msg)))
  BY DEF Received, Arrived
<1>2. Count \in Nat
  BY <1>1, MessageType DEF Count
<1>3. End \in Nat /\ Len(Response(msg)) \in Nat
  BY <1>1, AtIs, ResponseAt
<1>4. End <= Len(Response(msg))
  BY <1>1 DEF Arrived
<1>5. QED
  BY <1>1, <1>2, <1>3, <1>4

\* A response that was cut short may be answered with anything.
LEMMA CutShort ==
  ASSUME pc' = "done", whole' = whole, ~whole
  PROVE  Decoded'
BY DEF Decoded

LEMMA HeaderDecodes ==
  ASSUME Received, Decoded, Header, UNCHANGED <<msg, whole, data>>
  PROVE  Decoded'
<1>1. /\ pc = "header" /\ result = <<>>
  BY Places DEF Header
<1>2. /\ Arrived /\ msg \in Messages /\ Count \in Nat
      /\ End \in Nat /\ Len(Response(msg)) \in Nat
      /\ whole => End = Len(Response(msg))
  BY <1>1, Parsing
<1>3. CASE End < 12
  <2>1. ~whole
    <3>1. Len(Labels(msg.domain)) \in Nat /\ Len(Response(msg)) >= 17 + Len(Labels(msg.domain))
      BY <1>2, ResponseAt
    <3>2. QED
      BY <1>2, <1>3, <3>1
  <2>2. pc' = "done" /\ whole' = whole
    BY <1>3 DEF Header, Return, Goes
  <2>3. QED
    BY <2>1, <2>2, CutShort
<1>4. CASE ~(End < 12)
  <2>1. left' = U16(6) /\ offset' = 12 /\ pc' = "question" /\ result' = <<>> /\ msg' = msg
    BY <1>1, <1>4 DEF Header, Goes
  <2>2. U16(6) = Count
    <3>1. LiesAt(Response(msg), 6, U16Bytes(Count)) /\ Count \in Word
      BY <1>2, ResponseAt, MessageType DEF Count
    <3>2. 6 \in Nat /\ 6 + 2 <= End
      BY <1>2, <1>4
    <3>3. QED
      BY <1>2, <3>1, <3>2, U16Is
  <2>3. /\ Written(msg, 12, msg.domain) /\ Len(msg.domain) \in Nat
        /\ LabelPos(msg.domain, 0) = 0
    BY <1>2, QuestionWritten
  <2>4. 12 = 12 + LabelPos(msg.domain, 0) /\ 0 \in 0..Len(msg.domain)
    BY <2>3
  <2>5. Walks(12, msg.domain, 0)'
    BY <2>1, <2>3, <2>4 DEF Walks
  <2>6. InQuestion'
    <3>1. left' = Count'
      BY <2>1, <2>2 DEF Count
    <3>2. \E j \in 0..Len(msg'.domain) : Walks(12, msg.domain, j)'
      BY <2>1, <2>4, <2>5
    <3>3. QED
      BY <2>1, <3>1, <3>2 DEF InQuestion
  <2>7. QED
    BY <2>1, <2>6 DEF Decoded
<1>5. QED
  BY <1>3, <1>4

LEMMA SkipLabelDecodes ==
  ASSUME Received, Decoded, SkipLabel, UNCHANGED <<msg, whole, data>>
  PROVE  Decoded'
<1>1. /\ pc \in {"question", "owner"} /\ pc' = pc /\ InName
      /\ offset' = offset + At(offset) + 1 /\ left' = left /\ result' = result /\ msg' = msg
  BY DEF SkipLabel, Goes
<1>2. Arrived
  BY <1>1, Parsing
<1>3. ASSUME NEW p, NEW ls, NEW j, Walks(p, ls, j)
      PROVE  j + 1 \in 0..Len(ls) /\ (Written(msg, p, ls) => Written(msg', p, ls))
             /\ Written(msg, p, ls) /\ offset' = p + LabelPos(ls, j + 1)
  BY <1>1, <1>2, <1>3, Walk DEF Walks
<1>4. CASE pc = "question"
  <2>1. /\ left = Count /\ result = <<>>
    BY <1>4, Places DEF InQuestion
  <2>2. PICK j \in 0..Len(msg.domain) : Walks(12, msg.domain, j)
    BY <1>4, Places DEF InQuestion
  <2>3. j + 1 \in 0..Len(msg.domain) /\ Walks(12, msg.domain, j + 1)'
    BY <1>1, <1>3, <2>2 DEF Walks
  <2>4. InQuestion'
    BY <1>1, <2>1, <2>3 DEF InQuestion, Count
  <2>5. QED
    BY <1>1, <1>4, <2>4 DEF Decoded
<1>5. CASE pc = "owner"
  <2>1. PICK c \in 1..Count : InOwner(c)
    BY <1>5, Places
  <2> DEFINE ls == Rec(c).owner.labels
             p == Start(msg, c)
  <2>2. PICK j \in 0..Len(ls) : Walks(p, ls, j)
    BY <2>1 DEF InOwner
  <2>3. j + 1 \in 0..Len(ls) /\ Written(msg, p, ls) /\ offset' = p + LabelPos(ls, j + 1)
    <3> HIDE DEF ls, p
    <3>1. QED
      BY <1>3, <2>2
  <2>4. Walks(Start(msg, c), Rec(c).owner.labels, j + 1)'
    BY <1>1, <2>3 DEF Walks, Rec
  <2>5. InRecord(c)' /\ Rec(c)' = Rec(c) /\ Count' = Count /\ Rec(c).owner.end = <<0>>
    BY <1>1, <2>1 DEF InOwner, InRecord, Count, Rec
  <2>6. InOwner(c)'
    <3>1. \E i \in 0..Len(Rec(c)'.owner.labels) :
            Walks(Start(msg, c), Rec(c).owner.labels, i)'
      BY <2>3, <2>4, <2>5
    <3>2. QED
      BY <2>5, <3>1 DEF InOwner
  <2>7. QED
    BY <1>1, <1>5, <2>5, <2>6 DEF Decoded
<1>6. QED
  BY <1>1, <1>4, <1>5

LEMMA NameEndsDecodes ==
  ASSUME Received, Decoded, NameEnds, UNCHANGED <<msg, whole, data>>
  PROVE  Decoded'
<1> DEFINE o == IF InName THEN offset + 2 ELSE offset
<1>1. /\ pc \in {"question", "owner"} /\ (~InName \/ IsPointer(At(offset)))
      /\ IF pc = "question" THEN pc' = "answers" /\ offset' = PastRoot(o) + 4
                            ELSE pc' = "fixed" /\ offset' = PastRoot(o)
      /\ left' = left /\ result' = result /\ msg' = msg /\ whole' = whole /\ data' = data
  BY DEF NameEnds, Goes
<1>2. /\ Arrived /\ msg \in Messages /\ Count \in Nat
      /\ End \in Nat /\ Len(Response(msg)) \in Nat
      /\ whole => End = Len(Response(msg))
  BY <1>1, Parsing
<1>3. End' = End
  BY <1>1 DEF End
\* At the end of the labels, or behind the end of what arrived.
<1>4. ASSUME NEW p, NEW ls, NEW j, Walks(p, ls, j)
      PROVE  /\ o = offset /\ offset \in Nat
             /\ \/ PastRoot(o) = p + Len(Labels(ls)) + 1
                \/ PastRoot(o) = offset /\ offset >= End /\ ~whole
  <2>1. /\ offset \in Nat /\ offset < Len(Response(msg)) /\ ~InName
        /\ offset >= End \/ PastRoot(offset) = p + Len(Labels(ls)) + 1
    BY <1>1, <1>2, <1>4, Walk
  <2>2. o = offset
    BY <2>1
  <2>3. offset >= End => PastRoot(offset) = offset /\ ~whole
    BY <1>2, <2>1 DEF PastRoot
  <2>4. QED
    BY <2>1, <2>2, <2>3
<1> HIDE DEF o
<1>5. CASE pc = "question"
  <2>1. left = Count /\ result = <<>>
    BY <1>5, Places DEF InQuestion
  <2>2. PICK j \in 0..Len(msg.domain) : Walks(12, msg.domain, j)
    BY <1>5, Places DEF InQuestion
  <2>3. pc' = "answers" /\ offset' = PastRoot(o) + 4
    BY <1>1, <1>5
  <2>4. CASE PastRoot(o) = 12 + Len(Labels(msg.domain)) + 1
    <3>1. Len(Labels(msg.domain)) \in Nat /\ Start(msg, 1) = 17 + Len(Labels(msg.domain))
      BY <1>2, ResponseAt
    <3>2. offset' = Start(msg, 1)
      BY <2>3, <2>4, <3>1
    <3>3. Upto(ContentSeq(msg), 0) = <<>>
      BY <1>2, ContentsAt
    <3>4. left' = Count + 1 - 1 /\ 1 \in 1..(Count + 1) /\ 1 - 1 = 0
      BY <1>1, <1>2, <2>1
    <3>5. AtAnswer(1)' /\ Count' = Count
      BY <1>1, <2>1, <3>2, <3>3, <3>4 DEF AtAnswer, Count
    <3>6. QED
      BY <2>3, <3>4, <3>5 DEF Decoded
  <2>5. CASE PastRoot(o) = offset /\ offset >= End /\ ~whole
    <3>1. offset' >= End' /\ ~whole'
      BY <1>1, <1>2, <1>3, <1>4, <2>2, <2>3, <2>5
    <3>2. QED
      BY <2>3, <3>1 DEF Decoded, Lost
  <2>6. QED
    BY <1>4, <2>2, <2>4, <2>5
<1>6. CASE pc = "owner"
  <2>1. PICK c \in 1..Count : InOwner(c)
    BY <1>6, Places
  <2> DEFINE ls == Rec(c).owner.labels
             p == Start(msg, c)
  <2>2. PICK j \in 0..Len(ls) : Walks(p, ls, j)
    BY <2>1 DEF InOwner
  <2>3. pc' = "fixed" /\ offset' = PastRoot(o)
    BY <1>1, <1>6
  <2>4. p + Len(Labels(ls)) + 1 = TypeAt(msg, c)
    BY <1>2, <2>1, OwnerWritten DEF InOwner, Count, Rec
  <2> HIDE DEF ls, p
  <2>5. CASE PastRoot(o) = p + Len(Labels(ls)) + 1
    <3>1. AtFixed(c)' /\ Count' = Count
      BY <1>1, <2>1, <2>3, <2>4, <2>5 DEF AtFixed, InOwner, InRecord, Count
    <3>2. QED
      BY <2>3, <3>1 DEF Decoded
  <2>6. CASE PastRoot(o) = offset /\ offset >= End /\ ~whole
    <3>1. offset' >= End' /\ ~whole'
      BY <1>1, <1>3, <2>3, <2>6
    <3>2. QED
      BY <2>3, <3>1 DEF Decoded, Lost
  <2>7. QED
    BY <1>4, <2>2, <2>5, <2>6
<1>7. QED
  BY <1>1, <1>5, <1>6

\* Where the parser goes at the first byte of an owner name.
LEMMA FirstByte ==
  ASSUME NEW name, IsName(name), ~LabelsThenPointer(name)
  PROVE  IF IsPointer(NameBytes(name)[1]) THEN Len(NameBytes(name)) = 2 ELSE name.end = <<0>>
<1> DEFINE ls == name.labels
           L == Labels(ls)
           a == NameBytes(name)
           t == name.end
<1>1. /\ ByteLabels(ls) /\ Len(L) \in Nat /\ Len(a) = Len(L) + Len(t)
      /\ \/ t = <<0>> /\ Len(t) = 1 /\ t[1] = 0
         \/ Len(t) = 2 /\ t[1] \in 192..255
      /\ \A i \in 1..Len(L) : a[i] = L[i]
      /\ a[Len(L) + 1] = t[1]
      /\ \A i \in 1..Len(ls) : Len(ls[i]) # 0 /\ ~IsPointer(Len(ls[i]))
  BY NameAt
<1>2. ls \in Seq(Seq(Byte)) /\ Len(ls) \in Nat
  BY <1>1, EncodedType
<1>3. CASE ls = <<>>
  <2>1. Len(ls) = 0
    BY <1>3
  <2>2. Len(L) = 0
    <3>1. LabelPos(ls, 0) = 0 /\ LabelPos(ls, Len(ls)) = Len(L)
      BY <1>1, LabelsAt
    <3>2. QED
      BY <2>1, <3>1
  <2> HIDE DEF ls, L, a, t
  <2>3. a[1] = t[1] /\ Len(a) = Len(t)
    BY <1>1, <2>2
  <2>4. ~IsPointer(0) /\ \A b \in 192..255 : IsPointer(b)
    BY DEF IsPointer
  <2>5. QED
    BY ZenonT(60), <1>1, <2>3, <2>4 DEF a, t
<1>4. CASE ls # <<>>
  <2>1. t = <<0>>
    BY <1>1, <1>4 DEF LabelsThenPointer
  <2>2. Len(ls) # 0
    BY <1>2, <1>4, EmptySeq
  <2>3. 1 \in 1..Len(ls) /\ 1 - 1 = 0
    BY <1>2, <2>2
  <2>4. a[1] = Len(ls[1]) /\ ~IsPointer(Len(ls[1]))
    <3>1. /\ LabelPos(ls, 0) = 0 /\ LabelPos(ls, 1) <= Len(L) /\ Len(ls[1]) \in Nat
          /\ LabelPos(ls, 1) = LabelPos(ls, 0) + 1 + Len(ls[1])
          /\ L[LabelPos(ls, 0) + 1] = Len(ls[1])
      <4>1. Len(ls[1]) \in Nat
        BY <1>1, <2>3, EncodedAt
      <4>2. \A j \in 1..Len(ls) : \A i : i = j - 1 =>
              /\ LabelPos(ls, j) = LabelPos(ls, i) + 1 + Len(ls[j])
              /\ L[LabelPos(ls, i) + 1] = Len(ls[j])
        BY <1>1, LabelsAt
      <4>3. LabelPos(ls, 0) = 0 /\ \A j \in 0..Len(ls) : LabelPos(ls, j) <= Len(L)
        BY <1>1, LabelsAt
      <4>4. 1 \in 0..Len(ls)
        BY <2>3
      <4> HIDE DEF L, ls
      <4>5. QED
        BY <2>3, <4>1, <4>2, <4>3, <4>4
    <3> HIDE DEF L, ls, a
    <3>2. 1 \in 1..Len(L) /\ L[1] = Len(ls[1])
      BY <1>1, <3>1
    <3>3. QED
      BY <1>1, <2>3, <3>2
  <2>5. QED
    BY <2>1, <2>4
<1>5. QED
  BY <1>3, <1>4

\* Nothing more is said by a record that does not fit into twelve bytes.
LEMMA NothingMore ==
  ASSUME NEW m \in Messages, NEW c \in 1..Len(m.records), m.kind = "A",
         Start(m, c) + 12 > Len(Response(m)), Upto(ContentSeq(m), c - 1) = <<>>
  PROVE  Contents(m) = <<>>
<1> DEFINE n == Len(m.records)
           R == Response(m)
           r == m.records[c]
<1>1. n \in Nat /\ Len(R) \in Nat
  BY MessageType, ResponseAt
<1>2. \A k \in 1..n :
        /\ Start(m, k) \in Nat /\ Start(m, k + 1) \in Nat /\ Start(m, k + 1) <= Len(R)
        /\ Len(m.records[k].rdata) \in Nat
        /\ Start(m, k) + 11 + Len(m.records[k].rdata) <= Start(m, k + 1)
  <2>1. ASSUME NEW k \in 1..n
        PROVE  /\ Start(m, k) \in Nat /\ Start(m, k + 1) \in Nat /\ Start(m, k + 1) <= Len(R)
               /\ Len(m.records[k].rdata) \in Nat
               /\ Start(m, k) + 11 + Len(m.records[k].rdata) <= Start(m, k + 1)
    <3>1. /\ Start(m, k) \in Nat /\ TypeAt(m, k) \in Nat /\ DataAt(m, k) \in Nat
          /\ TypeAt(m, k) >= Start(m, k) + 1 /\ DataAt(m, k) = TypeAt(m, k) + 10
          /\ Len(m.records[k].rdata) \in Nat
          /\ Start(m, k + 1) = DataAt(m, k) + Len(m.records[k].rdata)
          /\ Start(m, k + 1) \in Nat /\ Start(m, k + 1) <= Len(Response(m))
      BY RecordIn
    <3>2. \A s \in Nat, t \in Nat, l \in Nat : t >= s + 1 => s + 11 + l <= (t + 10) + l
      OBVIOUS
    <3>3. QED
      BY <3>1, <3>2
  <2>2. QED
    BY <2>1
<1> HIDE DEF n, R
<1>3. c = n
  <2>1. SUFFICES ASSUME c # n PROVE FALSE
    OBVIOUS
  <2>2. c \in 1..n /\ c + 1 \in 1..n
    BY <1>1, <2>1 DEF n
  <2> DEFINE d == c + 1
             e == d + 1
             s == Start(m, c)
             t == Start(m, d)
             u == Start(m, e)
  <2>3. /\ s \in Nat /\ t \in Nat /\ Len(r.rdata) \in Nat /\ s + 11 + Len(r.rdata) <= t
    BY <1>2, <2>2
  <2>4. /\ u \in Nat /\ Len(m.records[d].rdata) \in Nat /\ u <= Len(R)
        /\ t + 11 + Len(m.records[d].rdata) <= u
    <3>1. d \in 1..n
      BY <2>2
    <3> HIDE DEF d
    <3>2. QED
      BY <1>2, <3>1
  <2>5. s + 12 > Len(R)
    BY DEF R
  <2> DEFINE x == Len(r.rdata)
             y == Len(m.records[d].rdata)
             z == Len(R)
  <2>6. /\ s \in Nat /\ t \in Nat /\ u \in Nat /\ x \in Nat /\ y \in Nat /\ z \in Nat
        /\ s + 11 + x <= t /\ t + 11 + y <= u /\ u <= z /\ s + 12 > z
    BY <1>1, <2>3, <2>4, <2>5
  <2> HIDE DEF s, t, u, x, y, z
  <2>7. QED
    BY <2>6
<1>4. Len(r.rdata) # 4
  <2>1. /\ Start(m, c) \in Nat /\ Start(m, c + 1) \in Nat /\ Start(m, c + 1) <= Len(R)
        /\ Len(r.rdata) \in Nat /\ Start(m, c) + 11 + Len(r.rdata) <= Start(m, c + 1)
    BY <1>2 DEF n
  <2>2. Start(m, c) + 12 > Len(R)
    BY DEF R
  <2> DEFINE s == Start(m, c)
             t == Start(m, c + 1)
             x == Len(r.rdata)
             z == Len(R)
  <2>3. /\ s \in Nat /\ t \in Nat /\ x \in Nat /\ z \in Nat
        /\ s + 11 + x <= t /\ t <= z /\ s + 12 > z
    BY <1>1, <2>1, <2>2
  <2> HIDE DEF s, t, x, z
  <2>4. x # 4
    BY <2>3
  <2>5. QED
    BY <2>4 DEF x
<1>5. Content(m, r) = <<>>
  BY <1>4 DEF Content
<1>6. Upto(ContentSeq(m), c) = Upto(ContentSeq(m), c - 1) \o Content(m, r)
  BY ContentsAt
<1>7. <<>> \o <<>> = <<>>
  OBVIOUS
<1>8. Contents(m) = Upto(ContentSeq(m), c)
  BY <1>3, ContentsAt DEF n
<1>9. QED
  BY <1>5, <1>6, <1>7, <1>8

LEMMA AnswerDecodes ==
  ASSUME Received, Decoded, PlainNames, msg.kind = "A" /\ pc # "done" => result = <<>>,
         offset \in Nat, Answer, UNCHANGED <<msg, whole, data>>
  PROVE  Decoded'
<1>1. pc = "answers" /\ msg' = msg /\ whole' = whole
  BY DEF Answer
<1>2. /\ Arrived /\ msg \in Messages /\ Count \in Nat
      /\ End \in Nat /\ Len(Response(msg)) \in Nat
      /\ whole => End = Len(Response(msg))
  BY <1>1, Parsing
<1>3. left = 0 \/ TooShort => pc' = "done" /\ result' = result
  BY DEF Answer, Return, Goes
\* Where the parser stops, all that is said has been collected.
<1>4. ASSUME left = 0 \/ TooShort, whole => result = Contents(msg)
      PROVE  Decoded'
  <2>1. whole => result = Expected(msg)
    BY <1>1, <1>4 DEF Expected
  <2>2. QED
    BY <1>1, <1>3, <1>4, <2>1 DEF Decoded
<1>5. CASE Lost
  <2>1. ~whole /\ offset >= End
    BY <1>5 DEF Lost
  <2>2. CASE offset + 12 > End /\ offset + 2 > End
    <3>1. TooShort
      BY <2>2 DEF TooShort
    <3>2. QED
      BY <1>4, <2>1, <3>1
  <2>3. CASE ~(offset + 12 > End /\ offset + 2 > End)
    BY <1>2, <2>1, <2>3
  <2>4. QED
    BY <2>2, <2>3
<1>6. ASSUME NEW c \in 1..(Count + 1), AtAnswer(c)
      PROVE  Decoded'
  <2>1. left = Count + 1 - c /\ offset = Start(msg, c) /\ result = Upto(ContentSeq(msg), c - 1)
    BY <1>6 DEF AtAnswer
  <2>2. CASE c = Count + 1
    <3>1. left = 0 /\ c - 1 = Count
      BY <1>2, <2>1, <2>2
    <3>2. result = Contents(msg)
      BY <1>2, <2>1, <3>1, ContentsAt DEF Count
    <3>3. QED
      BY <1>4, <3>1, <3>2
  <2>3. CASE c # Count + 1 /\ TooShort
    <3>1. c \in 1..Len(msg.records)
      BY <1>2, <2>3 DEF Count
    <3>2. CASE msg.kind = "A"
      <4>1. whole => Start(msg, c) + 12 > Len(Response(msg))
        BY <1>2, <2>1, <2>3, <3>2 DEF TooShort
      <4>2. Upto(ContentSeq(msg), c - 1) = <<>> /\ result = <<>>
        BY <1>1, <2>1, <3>2
      <4>3. whole => Contents(msg) = <<>>
        BY <1>2, <3>1, <3>2, <4>1, <4>2, NothingMore
      <4>4. QED
        BY <1>4, <2>3, <4>2, <4>3
    <3>3. CASE msg.kind # "A"
      <4>1. offset + 2 > End
        BY <2>3, <3>3 DEF TooShort
      <4>2. /\ Start(msg, c) \in Nat /\ TypeAt(msg, c) \in Nat /\ DataAt(msg, c) \in Nat
            /\ TypeAt(msg, c) >= Start(msg, c) + 1 /\ DataAt(msg, c) = TypeAt(msg, c) + 10
            /\ Len(Rec(c).rdata) \in Nat
            /\ Start(msg, c + 1) = DataAt(msg, c) + Len(Rec(c).rdata)
            /\ Start(msg, c + 1) <= Len(Response(msg))
        BY <1>2, <3>1, RecordIn DEF Rec
      <4>3. ~whole
        BY SMTT(40), <1>2, <2>1, <4>1, <4>2
      <4>4. QED
        BY <1>4, <2>3, <4>3
    <3>4. QED
      BY <3>2, <3>3
  <2>4. CASE c # Count + 1 /\ ~TooShort
    <3>1. c \in 1..Count /\ left # 0 /\ left - 1 = Count - c
      BY <1>2, <2>1, <2>4
    <3>2. /\ left' = Count - c /\ result' = result
          /\ IF IsPointer(At(offset)) THEN pc' = "fixed" /\ offset' = offset + 2
                                      ELSE pc' = "owner" /\ offset' = offset
      BY <2>4, <3>1 DEF Answer, Goes
    <3>3. InRecord(c)' /\ Count' = Count /\ Rec(c)' = Rec(c)
      BY <1>1, <2>1, <3>2 DEF InRecord, Count, Rec
    <3> DEFINE name == Rec(c).owner
    <3>4. IsName(name) /\ ~LabelsThenPointer(name)
      <4>1. IsRecord(Rec(c)) /\ c \in DOMAIN msg.records
        BY <1>2, <3>1, MessageType DEF Rec, Count
      <4>2. QED
        BY <4>1 DEF IsRecord, PlainNames, Rec
    <3>5. At(offset) = NameBytes(name)[1]
      <4>1. /\ Start(msg, c) \in Nat /\ LiesAt(Response(msg), Start(msg, c), NameBytes(name))
            /\ TypeAt(msg, c) >= Start(msg, c) + 1 /\ TypeAt(msg, c) \in Nat
            /\ TypeAt(msg, c) = Start(msg, c) + Len(NameBytes(name))
        BY <1>2, <3>1, RecordIn DEF Rec, Count, TypeAt
      <4>2. Len(NameBytes(name)) \in Nat
        BY <3>4, NameAt, LenProperties
      <4> HIDE DEF name
      <4>3. 1 \in 1..Len(NameBytes(name))
        BY <4>1, <4>2
      <4>4. Response(msg)[offset + 1] = NameBytes(name)[1]
        BY <2>1, <4>1, <4>3 DEF LiesAt
      <4>5. offset \in Nat /\ offset < End
        <5>1. offset + 12 <= End \/ offset + 2 <= End
          BY SMTT(40), <1>2, <2>1, <2>4, <4>1 DEF TooShort
        <5>2. QED
          BY <1>2, <2>1, <4>1, <5>1
      <4>6. QED
        BY <1>2, <4>4, <4>5, AtIs
    <3> HIDE DEF name
    <3>6. CASE IsPointer(At(offset))
      <4>1. Len(NameBytes(name)) = 2
        BY <3>4, <3>5, <3>6, FirstByte
      <4>2. pc' = "fixed" /\ offset' = TypeAt(msg, c)
        BY <2>1, <3>2, <3>6, <4>1 DEF TypeAt, Rec, name
      <4>3. AtFixed(c)'
        BY <1>1, <3>3, <4>2 DEF AtFixed
      <4>4. QED
        BY <3>1, <3>3, <4>2, <4>3 DEF Decoded
    <3>7. CASE ~IsPointer(At(offset))
      <4>1. name.end = <<0>>
        BY <3>4, <3>5, <3>7, FirstByte
      <4>2. /\ Written(msg, Start(msg, c), name.labels) /\ Len(name.labels) \in Nat
            /\ LabelPos(name.labels, 0) = 0
        BY <1>2, <3>1, <4>1, OwnerWritten DEF name, Rec, Count
      <4>3. pc' = "owner" /\ offset' = Start(msg, c)
        BY <2>1, <3>2, <3>7
      <4>4. Start(msg, c) \in Nat /\ Start(msg, c) = Start(msg, c) + LabelPos(name.labels, 0)
        BY <4>2 DEF Written
      <4>5. 0 \in 0..Len(name.labels) /\ Walks(Start(msg, c), Rec(c).owner.labels, 0)'
        BY <1>1, <3>3, <4>2, <4>3, <4>4 DEF Walks, name
      <4>6. InOwner(c)'
        <5>1. \E i \in 0..Len(Rec(c)'.owner.labels) :
                Walks(Start(msg, c), Rec(c).owner.labels, i)'
          BY <3>3, <4>5 DEF name
        <5>2. QED
          BY <3>3, <4>1, <5>1 DEF InOwner, name
      <4>7. QED
        BY <3>1, <3>3, <4>3, <4>6 DEF Decoded
    <3>8. QED
      BY <3>6, <3>7
  <2>5. QED
    BY <2>2, <2>3, <2>4
<1>7. QED
  BY <1>1, <1>5, <1>6, Places

LEMMA FixedDecodes ==
  ASSUME Received, Decoded, offset \in Nat, Fixed, UNCHANGED <<msg, whole, data>>
  PROVE  Decoded'
<1>1. pc = "fixed" /\ msg' = msg /\ whole' = whole
  BY DEF Fixed
<1>2. /\ Arrived /\ msg \in Messages /\ Count \in Nat
      /\ End \in Nat /\ Len(Response(msg)) \in Nat
      /\ whole => End = Len(Response(msg))
  BY <1>1, Parsing
<1>3. ASSUME offset + 10 > End, ~whole
      PROVE  Decoded'
  BY <1>1, <1>3, CutShort DEF Fixed, Return, Goes
<1>4. CASE Lost
  BY <1>2, <1>3, <1>4 DEF Lost
<1>5. ASSUME NEW c \in 1..Count, AtFixed(c)
      PROVE  Decoded'
  <2> DEFINE r == Rec(c)
             p == TypeAt(msg, c)
  <2>1. InRecord(c) /\ offset = p
    BY <1>5 DEF AtFixed
  <2>2. /\ r.type \in Word /\ Len(r.rdata) \in Word /\ Len(r.rdata) \in Nat
        /\ p \in Nat /\ DataAt(msg, c) = p + 10
        /\ Start(msg, c + 1) = DataAt(msg, c) + Len(r.rdata)
        /\ Start(msg, c + 1) <= Len(Response(msg))
        /\ LiesAt(Response(msg), p, U16Bytes(r.type))
        /\ LiesAt(Response(msg), p + 8, U16Bytes(Len(r.rdata)))
    BY <1>2, RecordIn DEF Rec, Count
  <2>3. CASE offset + 10 > End
    <3> HIDE DEF r, p
    <3> DEFINE l == Len(r.rdata)
               n == Len(Response(msg))
    <3>1. /\ p \in Nat /\ l \in Nat /\ n \in Nat /\ End \in Nat
          /\ (p + 10) + l <= n /\ p + 10 > End
      BY <1>2, <2>1, <2>2, <2>3
    <3>2. End # n
      <4> HIDE DEF l, n
      <4>1. QED
        BY <3>1
    <3>3. ~whole
      BY <1>2, <3>2
    <3>4. QED
      BY <1>3, <2>3, <3>3
  <2>4. CASE ~(offset + 10 > End)
    <3>1. /\ fixed' = [type |-> Type, length |-> RdLength] /\ pc' = "rdata"
          /\ offset' = offset + 10 /\ left' = left /\ result' = result
      BY <2>4 DEF Fixed, Goes
    <3>2. U16(p) = r.type /\ U16(p + 8) = Len(r.rdata)
      <4> HIDE DEF r, p
      <4>1. p + 2 <= End /\ p + 8 \in Nat /\ (p + 8) + 2 <= End
        BY <1>2, <2>1, <2>2, <2>4
      <4>2. QED
        BY <1>2, <2>2, <4>1, U16Is
    <3>3. Type = r.type /\ RdLength = Len(r.rdata)
      BY <2>1, <3>2 DEF Type, RdLength
    <3>4. InRecord(c)' /\ Count' = Count /\ Rec(c)' = Rec(c)
      BY <1>1, <2>1, <3>1 DEF InRecord, Count, Rec
    <3>5. InData(c)'
      BY <1>1, <2>1, <2>2, <3>1, <3>3, <3>4 DEF InData
    <3>6. QED
      BY <3>1, <3>4, <3>5 DEF Decoded
  <2>5. QED
    BY <2>3, <2>4
<1>6. QED
  BY <1>1, <1>4, <1>5, Places

\* Behind the data of a record is the next one.
LEMMA NextRecord ==
  ASSUME msg \in Messages, NEW c \in 1..Count, InData(c),
         pc' = "answers", offset' = offset + fixed.length,
         result' = result \o Content(msg, Rec(c)), left' = left, msg' = msg
  PROVE  Decoded'
<1>1. /\ Count \in Nat /\ c \in 1..Len(msg.records) /\ left = Count - c
      /\ result = Upto(ContentSeq(msg), c - 1)
      /\ offset = DataAt(msg, c) /\ fixed.length = Len(Rec(c).rdata)
  BY MessageType DEF InData, InRecord, Count
<1>2. offset' = Start(msg, c + 1)
  BY <1>1, RecordIn DEF Rec
<1>3. result' = Upto(ContentSeq(msg), c)
  BY <1>1, ContentsAt DEF Rec
<1>4. Count' = Count /\ c + 1 \in 1..(Count + 1) /\ c + 1 - 1 = c /\ left' = Count + 1 - (c + 1)
  <2>1. Count' = Count
    BY DEF Count
  <2>2. \A n \in Nat : \A k \in 1..n :
          k + 1 \in 1..(n + 1) /\ k + 1 - 1 = k /\ n - k = n + 1 - (k + 1)
    OBVIOUS
  <2>3. QED
    BY <1>1, <2>1, <2>2
<1>5. AtAnswer(c + 1)'
  BY <1>2, <1>3, <1>4 DEF AtAnswer
<1>6. QED
  BY <1>4, <1>5 DEF Decoded

LEMMA NoContent ==
  ASSUME msg \in Messages, NEW c \in 1..Count, InRecord(c), Content(msg, Rec(c)) = <<>>
  PROVE  result \o Content(msg, Rec(c)) = result
<1>1. c - 1 \in 0..Len(msg.records) /\ result = Upto(ContentSeq(msg), c - 1)
  BY MessageType DEF InRecord, Count
<1>2. result \in Seq(Seq(Byte))
  BY <1>1, ContentsAt
<1>3. QED
  BY <1>2, ConcatEmptySeq

\* The four bytes that are returned are the data of the record.
LEMMA AddressIs ==
  ASSUME Received, pc = "rdata", NEW c \in 1..Count, InData(c), fixed.length = 4, offset + 4 <= End
  PROVE  <<At(offset), At(offset + 1), At(offset + 2), At(offset + 3)>> = Rec(c).rdata
<1> DEFINE d == Rec(c).rdata
<1>1. Arrived /\ msg \in Messages /\ End \in Nat
  BY Parsing
<1>2. /\ d \in Seq(Byte) /\ Len(d) = 4 /\ offset \in Nat /\ LiesAt(Response(msg), offset, d)
  BY <1>1, RecordIn DEF InData, Rec, Count
<1> HIDE DEF d
<1>3. /\ Response(msg)[offset + 1] = d[1] /\ Response(msg)[offset + 2] = d[2]
      /\ Response(msg)[offset + 3] = d[3] /\ Response(msg)[offset + 4] = d[4]
  <2>1. 1 \in 1..Len(d) /\ 2 \in 1..Len(d) /\ 3 \in 1..Len(d) /\ 4 \in 1..Len(d)
    BY <1>2
  <2>2. QED
    BY <1>2, <2>1 DEF LiesAt
<1>4. /\ offset < End /\ offset + 1 < End /\ offset + 2 < End /\ offset + 3 < End
      /\ offset + 1 \in Nat /\ offset + 2 \in Nat /\ offset + 3 \in Nat
      /\ (offset + 1) + 1 = offset + 2 /\ (offset + 2) + 1 = offset + 3
      /\ (offset + 3) + 1 = offset + 4
  BY <1>1, <1>2
<1>5. \A i \in Nat : i < End => At(i) = Response(msg)[i + 1]
  BY <1>1, AtIs
<1>6. /\ At(offset) = d[1] /\ At(offset + 1) = d[2] /\ At(offset + 2) = d[3]
      /\ At(offset + 3) = d[4]
  <2>1. At(offset) = d[1]
    BY <1>2, <1>3, <1>4, <1>5
  <2>2. At(offset + 1) = d[2]
    BY <1>3, <1>4, <1>5
  <2>3. At(offset + 2) = d[3]
    BY <1>3, <1>4, <1>5
  <2>4. At(offset + 3) = d[4]
    BY <1>3, <1>4, <1>5
  <2>5. QED
    BY <2>1, <2>2, <2>3, <2>4
<1>7. d = <<d[1], d[2], d[3], d[4]>>
  BY <1>2
<1>8. QED
  BY <1>6, <1>7 DEF d

\* Address returns the first A record, or goes on to the next record.
LEMMA AddressDecodes ==
  ASSUME Received, Decoded, result = <<>>, Address, UNCHANGED <<msg, whole, data>>
  PROVE  /\ Decoded'
         /\ pc' # "done" => result' = <<>>
         /\ result' # <<>> => \E c \in 1..Count : Rec(c).type = 1 /\ result' = <<Rec(c).rdata>>
<1>1. /\ pc = "rdata" /\ msg.kind = "A" /\ msg' = msg /\ whole' = whole /\ data' = data
      /\ left' = left
  BY DEF Address
<1>2. /\ Arrived /\ msg \in Messages /\ Count \in Nat
      /\ End \in Nat /\ Len(Response(msg)) \in Nat
      /\ whole => End = Len(Response(msg))
  BY <1>1, Parsing
<1>3. PICK c \in 1..Count : InData(c)
  BY <1>1, Places
<1> DEFINE r == Rec(c)
<1>4. /\ InRecord(c) /\ fixed.type = r.type /\ fixed.length = Len(r.rdata)
      /\ offset = DataAt(msg, c) /\ c \in 1..Len(msg.records)
  BY <1>3 DEF InData, Count
<1>5. /\ r.rdata \in Seq(Byte) /\ Len(r.rdata) \in Nat /\ offset \in Nat
      /\ offset + Len(r.rdata) <= Len(Response(msg))
  BY <1>2, <1>4, RecordIn DEF Rec
<1> HIDE DEF r
<1>6. CASE r.type = 1 /\ Len(r.rdata) = 4 /\ offset + 4 <= End
  <2>1. /\ result' = << <<At(offset), At(offset + 1), At(offset + 2), At(offset + 3)>> >>
        /\ pc' = "done"
    BY <1>4, <1>6 DEF Address, Goes
  <2>2. result' = <<r.rdata>>
    BY <1>1, <1>3, <1>4, <1>6, <2>1, AddressIs DEF r
  <2>3. Content(msg, r) = <<r.rdata>>
    BY <1>1, <1>6 DEF Content
  <2>4. Upto(ContentSeq(msg), c) = <<r.rdata>>
    <3>1. Upto(ContentSeq(msg), c) = <<>> \o Content(msg, r)
      BY <1>2, <1>4, ContentsAt DEF InRecord, Rec, r
    <3>2. <<r.rdata>> \in Seq(Seq(Byte))
      BY <1>5
    <3>3. QED
      BY <2>3, <3>1, <3>2, ConcatEmptySeq
  <2>5. Contents(msg) # <<>> /\ Contents(msg)[1] = r.rdata
    <3>1. c \in 0..Len(msg.records) /\ Len(msg.records) \in Nat
      BY <1>2, <1>4 DEF Count
    <3> DEFINE u == Upto(ContentSeq(msg), c)
    <3>2. Len(u) <= Len(Contents(msg)) /\ \A i \in 1..Len(u) : Contents(msg)[i] = u[i]
      BY <1>2, <3>1, ContentsAt
    <3>3. Len(u) = 1 /\ u[1] = r.rdata
      BY <2>4
    <3> HIDE DEF u
    <3>4. 1 \in 1..Len(u)
      BY <3>3
    <3>5. Contents(msg)[1] = r.rdata /\ Len(Contents(msg)) >= 1
      BY <3>2, <3>3, <3>4
    <3>6. Len(<<>>) = 0
      OBVIOUS
    <3>7. QED
      BY <3>5, <3>6
  <2>6. Expected(msg) = result'
    BY <1>1, <2>2, <2>5 DEF Expected
  <2>7. Decoded'
    BY <1>1, <2>1, <2>6 DEF Decoded
  <2>8. QED
    BY <1>4, <1>6, <2>1, <2>2, <2>7 DEF r
<1>7. CASE ~(r.type = 1 /\ Len(r.rdata) = 4 /\ offset + 4 <= End)
  <2>1. pc' = "answers" /\ offset' = offset + fixed.length /\ result' = <<>>
    BY <1>4, <1>7 DEF Address, Goes
  <2>2. CASE r.type = 1 /\ Len(r.rdata) = 4
    <3>1. offset' = offset + 4
      BY <1>4, <2>1, <2>2
    <3>2. End' = End
      BY <1>1 DEF End
    <3>3. offset' >= End' /\ ~whole
      BY <1>2, <1>5, <1>7, <2>2, <3>1, <3>2
    <3>4. Decoded'
      BY <1>1, <2>1, <3>3 DEF Decoded, Lost
    <3>5. QED
      BY <2>1, <3>4
  <2>3. CASE ~(r.type = 1 /\ Len(r.rdata) = 4)
    <3>1. Content(msg, Rec(c)) = <<>>
      BY <1>1, <2>3 DEF Content, r
    <3>2. result \o Content(msg, Rec(c)) = result
      BY <1>2, <1>4, <3>1, NoContent
    <3>3. Decoded'
      BY <1>1, <1>2, <1>3, <2>1, <3>2, NextRecord
    <3>4. QED
      BY <2>1, <3>3
  <2>4. QED
    BY <2>2, <2>3
<1>8. QED
  BY <1>6, <1>7

LEMMA TextDecodes ==
  ASSUME Received, Decoded, Text, UNCHANGED <<msg, whole, data>>
  PROVE  Decoded'
<1>1. /\ pc = "rdata" /\ msg.kind = "TXT" /\ msg' = msg /\ whole' = whole
  BY DEF Text
<1>2. /\ Arrived /\ msg \in Messages /\ Count \in Nat
      /\ End \in Nat /\ Len(Response(msg)) \in Nat
      /\ whole => End = Len(Response(msg))
  BY <1>1, Parsing
<1>3. PICK c \in 1..Count : InData(c)
  BY <1>1, Places
<1> DEFINE r == Rec(c)
<1>4. /\ InRecord(c) /\ fixed.type = r.type /\ fixed.length = Len(r.rdata)
      /\ offset = DataAt(msg, c) /\ c \in 1..Len(msg.records)
  BY <1>3 DEF InData, Count
<1>5. /\ IsRecord(r) /\ Len(r.rdata) \in Nat /\ offset \in Nat
      /\ offset + Len(r.rdata) <= Len(Response(msg))
  BY <1>2, <1>4, RecordIn DEF Rec
<1> HIDE DEF r
<1>6. CASE offset + fixed.length > End
  <2>1. ~whole
    BY <1>2, <1>4, <1>5, <1>6
  <2>2. QED
    BY <1>1, <1>6, <2>1, CutShort DEF Text, Return, Goes
<1>7. CASE ~(offset + fixed.length > End) /\ fixed.type = 16
  <2>1. /\ pc' = "strings" /\ offset' = offset /\ index' = 0 /\ txt' = <<>>
        /\ left' = left /\ fixed' = fixed /\ result' = result
    BY <1>7 DEF Text, Goes
  <2>2. InData(c)' /\ Count' = Count /\ Rec(c)' = Rec(c)
    BY <1>1, <1>3, <2>1 DEF InData, InRecord, Count, Rec
  <2>3. /\ 0 \in 0..Len(r.strings) /\ LabelPos(r.strings, 0) = 0 /\ Upto(r.strings, 0) = <<>>
    <3>1. /\ ByteLabels(r.strings) /\ Len(r.strings) \in Nat /\ Upto(r.strings, 0) = <<>>
      BY <1>4, <1>5, <1>7, TextAt
    <3>2. QED
      BY <3>1, LabelsAt
  <2>4. InText(c)'
    <3>1. \E j \in 0..Len(r.strings) :
            index' = LabelPos(r.strings, j) /\ txt' = Upto(r.strings, j)
      BY <2>1, <2>3
    <3>2. r.type = 16
      BY <1>4, <1>7
    <3>3. QED
      BY <1>1, <2>2, <3>1, <3>2 DEF InText, r
  <2>5. QED
    BY <2>1, <2>2, <2>4 DEF Decoded
<1>8. CASE ~(offset + fixed.length > End) /\ fixed.type # 16
  <2>1. pc' = "answers" /\ offset' = offset + fixed.length /\ left' = left /\ result' = result
    BY <1>8 DEF Text, Goes
  <2>2. Content(msg, Rec(c)) = <<>>
    BY <1>1, <1>4, <1>8 DEF Content, r
  <2>3. result \o Content(msg, Rec(c)) = result
    BY <1>2, <1>4, <2>2, NoContent
  <2>4. QED
    BY <1>1, <1>2, <1>3, <2>1, <2>3, NextRecord
<1>9. QED
  BY <1>6, <1>7, <1>8

\* The parser is behind the first j strings of a text.
LEMMA StringAt ==
  ASSUME Arrived, NEW c \in 1..Count, InText(c), offset + fixed.length <= End,
         NEW j \in 0..Len(Rec(c).strings), index = LabelPos(Rec(c).strings, j)
  PROVE  LET ss == Rec(c).strings IN
         /\ index \in Nat /\ index <= fixed.length /\ Len(ss) \in Nat
         /\ j = Len(ss) => index = fixed.length
         /\ j # Len(ss) =>
              /\ j + 1 \in 1..Len(ss) /\ ChunkLen = Len(ss[j + 1]) /\ ss[j + 1] \in Seq(Byte)
              /\ index + 1 + ChunkLen = LabelPos(ss, j + 1)
              /\ index + 1 + ChunkLen <= fixed.length /\ index < fixed.length
              /\ \A i \in 1..ChunkLen : At(offset + index + i) = ss[j + 1][i]
<1> DEFINE r == Rec(c)
           ss == r.strings
           L == Labels(ss)
           R == Response(msg)
<1>1. msg \in Messages /\ c \in 1..Len(msg.records) /\ End \in Nat
  BY AtIs DEF Arrived, Count
<1>2. /\ r.type = 16 /\ offset = DataAt(msg, c) /\ fixed.length = Len(r.rdata)
  BY DEF InText, InData
<1>3. IsRecord(r) /\ LiesAt(R, offset, r.rdata) /\ offset \in Nat
  BY <1>1, <1>2, RecordIn DEF Rec
<1>4. ByteLabels(ss) /\ r.rdata = L /\ Len(ss) \in Nat
  <2> HIDE DEF r
  <2>1. QED
    BY <1>2, <1>3, TextAt
<1>5. fixed.length = Len(L) /\ Len(L) \in Nat /\ \A i \in 1..Len(L) : R[offset + i] = L[i]
  <2>1. Len(L) \in Nat
    BY <1>4, LabelsAt
  <2>2. QED
    BY <1>2, <1>3, <1>4, <2>1 DEF LiesAt
<1>6. /\ LabelPos(ss, Len(ss)) = Len(L)
      /\ \A i \in 0..Len(ss) : LabelPos(ss, i) \in Nat /\ LabelPos(ss, i) <= Len(L)
      /\ \A i \in 1..Len(ss) :
           /\ LabelPos(ss, i) = LabelPos(ss, i - 1) + 1 + Len(ss[i])
           /\ L[LabelPos(ss, i - 1) + 1] = Len(ss[i])
           /\ \A k \in 1..Len(ss[i]) : L[LabelPos(ss, i - 1) + 1 + k] = ss[i][k]
  BY <1>4, LabelsAt
<1>7. index \in Nat /\ index <= Len(L) /\ index = LabelPos(ss, j)
  BY <1>6
<1>8. CASE j = Len(ss)
  BY <1>4, <1>5, <1>6, <1>7, <1>8
<1>9. CASE j # Len(ss)
  <2> DEFINE d == j + 1
             s == ss[d]
  <2>1. d \in 1..Len(ss) /\ d \in 0..Len(ss) /\ d - 1 = j
    BY <1>4, <1>9
  <2> HIDE DEF d
  <2>2. s \in Seq(Byte) /\ Len(s) \in Nat
    BY <1>4, <2>1, EncodedAt
  <2>3. /\ LabelPos(ss, d) = index + 1 + Len(s) /\ LabelPos(ss, d) <= Len(L)
        /\ L[index + 1] = Len(s)
        /\ \A k \in 1..Len(s) : L[index + 1 + k] = s[k]
    BY <1>6, <1>7, <2>1
  <2> HIDE DEF s, ss, L, R, r
  <2>4. \A k \in 0..Len(s) : /\ index + 1 + k \in 1..Len(L)
                             /\ offset + (index + 1 + k) = offset + index + k + 1
                             /\ offset + index + k \in Nat /\ offset + index + k < End
    <3> DEFINE n == Len(s)
               l == Len(L)
    <3>2. /\ offset \in Nat /\ index \in Nat /\ n \in Nat /\ l \in Nat /\ End \in Nat
          /\ index + 1 + n <= l /\ offset + l <= End
      BY <1>1, <1>3, <1>5, <1>7, <2>2, <2>3
    <3> HIDE DEF n, l
    <3>3. ASSUME NEW k \in 0..n
          PROVE  /\ index + 1 + k \in 1..l
                 /\ offset + (index + 1 + k) = offset + index + k + 1
                 /\ offset + index + k \in Nat /\ offset + index + k < End
      <4>1. k \in Nat /\ k <= n
        BY <3>2
      <4>2. index + 1 + k \in 1..l
        BY SMTT(40), <3>2, <4>1
      <4>3. offset + (index + 1 + k) = offset + index + k + 1
        BY <3>2, <4>1
      <4>4. offset + index + k \in Nat /\ offset + index + k < End
        BY SMTT(40), <3>2, <4>1
      <4>5. QED
        BY <4>2, <4>3, <4>4
    <3>4. QED
      BY <3>3 DEF n, l
  <2>5. \A k \in 0..Len(s) : At(offset + index + k) = L[index + 1 + k]
    <3>1. ASSUME NEW k \in 0..Len(s)
          PROVE  At(offset + index + k) = L[index + 1 + k]
      <4>1. At(offset + index + k) = R[offset + index + k + 1]
        BY <2>4, AtIs DEF R
      <4>2. R[offset + (index + 1 + k)] = L[index + 1 + k]
        BY <1>5, <2>4
      <4>3. QED
        BY <2>4, <4>1, <4>2
    <3>2. QED
      BY <3>1
  <2>6. ChunkLen = Len(s)
    <3>1. 0 \in 0..Len(s) /\ index + 1 + 0 = index + 1 /\ offset + index + 0 = offset + index
      BY <1>3, <1>7, <2>2
    <3>2. At(offset + index + 0) = L[index + 1 + 0]
      BY <2>5, <3>1
    <3>3. QED
      BY <2>3, <3>1, <3>2 DEF ChunkLen
  <2>7. \A k \in 1..Len(s) : At(offset + index + k) = s[k]
    BY <2>2, <2>3, <2>5
  <2>8. index < Len(L)
    BY <1>5, <1>7, <2>2, <2>3
  <2>9. QED
    BY <1>4, <1>5, <1>7, <1>9, <2>1, <2>2, <2>3, <2>6, <2>7, <2>8 DEF s, d, ss, r
<1>10. QED
  BY <1>8, <1>9

LEMMA TextChunkDecodes ==
  ASSUME Received, Decoded, TextChunk, offset + fixed.length <= End,
         UNCHANGED <<msg, whole, data>>
  PROVE  Decoded'
<1>1. /\ pc = "strings" /\ ChunkFits /\ pc' = pc /\ offset' = offset /\ left' = left
      /\ fixed' = fixed /\ result' = result /\ msg' = msg
      /\ index' = index + 1 + ChunkLen
      /\ txt' = txt \o [i \in 1..ChunkLen |-> At(offset + index + i)]
  BY DEF TextChunk
<1>2. Arrived /\ msg \in Messages /\ Count \in Nat
  BY <1>1, Parsing
<1>3. PICK c \in 1..Count : InText(c)
  BY <1>1, Places
<1> DEFINE ss == Rec(c).strings
<1>4. PICK j \in 0..Len(ss) : index = LabelPos(ss, j) /\ txt = Upto(ss, j)
  BY <1>3 DEF InText
<1>5. InData(c) /\ Rec(c).type = 16 /\ msg.kind = "TXT" /\ IsRecord(Rec(c))
  BY <1>2, <1>3, MessageType DEF InText, Count, Rec
<1>6. j # Len(ss)
  <2>1. index \in Nat /\ fixed.length \in Nat /\ (j = Len(ss) => index = fixed.length)
    <3>1. fixed.length \in Nat
      BY <1>2, <1>5, RecordIn DEF InData, Rec, Count
    <3>2. QED
      BY <1>2, <1>3, <1>4, <3>1, StringAt
  <2>2. index < fixed.length
    BY <1>1 DEF ChunkFits
  <2>3. QED
    BY <2>1, <2>2
<1>7. /\ j + 1 \in 1..Len(ss) /\ ChunkLen = Len(ss[j + 1]) /\ ss[j + 1] \in Seq(Byte)
      /\ index + 1 + ChunkLen = LabelPos(ss, j + 1)
      /\ \A i \in 1..ChunkLen : At(offset + index + i) = ss[j + 1][i]
  BY <1>2, <1>3, <1>4, <1>6, StringAt
<1>8. [i \in 1..ChunkLen |-> At(offset + index + i)] = ss[j + 1]
  <2> DEFINE s == ss[j + 1]
  <2>1. s = [i \in 1..Len(s) |-> s[i]]
    <3> HIDE DEF s
    <3>1. s \in Seq(Byte)
      BY <1>7 DEF s
    <3>2. QED
      BY <3>1
  <2>2. ChunkLen = Len(s) /\ \A i \in 1..ChunkLen : At(offset + index + i) = s[i]
    BY <1>7
  <2> HIDE DEF s
  <2>3. [i \in 1..ChunkLen |-> At(offset + index + i)] = s
    BY <2>1, <2>2
  <2>4. QED
    BY <2>3 DEF s
<1>9. Upto(ss, j + 1) = Upto(ss, j) \o ss[j + 1]
  <2>1. j + 1 - 1 = j
    BY <1>4
  <2> HIDE DEF ss
  <2>2. \A i \in 1..Len(ss) : i - 1 = j => Upto(ss, i) = Upto(ss, j) \o ss[i]
    BY <1>5, TextAt DEF ss
  <2>3. QED
    BY <1>7, <2>1, <2>2
<1>10. txt' = Upto(ss, j + 1) /\ index' = LabelPos(ss, j + 1) /\ j + 1 \in 0..Len(ss)
  <2> HIDE DEF ss
  <2>1. j + 1 \in 0..Len(ss)
    BY <1>7
  <2>2. index' = LabelPos(ss, j + 1)
    BY <1>1, <1>7
  <2>3. txt' = Upto(ss, j + 1)
    BY <1>1, <1>4, <1>8, <1>9
  <2>4. QED
    BY <2>1, <2>2, <2>3
<1>11. InData(c)' /\ Count' = Count /\ Rec(c)' = Rec(c)
  BY <1>1, <1>5 DEF InData, InRecord, Count, Rec
<1>12. InText(c)'
  <2>1. \E i \in 0..Len(ss) : index' = LabelPos(ss, i) /\ txt' = Upto(ss, i)
    BY <1>10
  <2>2. QED
    BY <1>1, <1>5, <1>11, <2>1 DEF InText
<1>13. QED
  BY <1>1, <1>11, <1>12 DEF Decoded

LEMMA TextEndsDecodes ==
  ASSUME Received, Decoded, TextEnds, offset + fixed.length <= End,
         UNCHANGED <<msg, whole, data>>
  PROVE  /\ Decoded'
         /\ result \in Seq(Seq(Byte))
         /\ \/ result' = result
            \/ \E c \in 1..Count :
                 /\ Rec(c).type = 16 /\ FlattenSeq(Rec(c).strings) \in Seq(Byte)
                 /\ result' = Append(result, FlattenSeq(Rec(c).strings))
<1>1. /\ pc = "strings" /\ ~ChunkFits /\ pc' = "answers" /\ offset' = offset + fixed.length
      /\ left' = left /\ msg' = msg
      /\ result' = IF txt = <<>> THEN result ELSE Append(result, txt)
  BY DEF TextEnds, Goes
<1>2. Arrived /\ msg \in Messages /\ Count \in Nat
  BY <1>1, Parsing
<1>3. PICK c \in 1..Count : InText(c)
  BY <1>1, Places
<1> DEFINE ss == Rec(c).strings
<1>4. PICK j \in 0..Len(ss) : index = LabelPos(ss, j) /\ txt = Upto(ss, j)
  BY <1>3 DEF InText
<1>5. InData(c) /\ Rec(c).type = 16 /\ msg.kind = "TXT" /\ IsRecord(Rec(c)) /\ InRecord(c)
  BY <1>2, <1>3, MessageType DEF InText, InData, Count, Rec
<1>6. j = Len(ss)
  <2>1. j # Len(ss) => index < fixed.length /\ index + 1 + ChunkLen <= fixed.length
    BY <1>2, <1>3, <1>4, StringAt
  <2>2. QED
    BY <1>1, <2>1 DEF ChunkFits
<1>7. txt = FlattenSeq(ss) /\ txt \in Seq(Byte)
  <2>1. /\ FlattenSeq(ss) = Upto(ss, Len(ss))
        /\ \A i \in 0..Len(ss) : Upto(ss, i) \in Seq(Byte)
    <3> DEFINE r == Rec(c)
    <3>1. IsRecord(r) /\ r.type = 16
      BY <1>5
    <3> HIDE DEF r
    <3>2. /\ FlattenSeq(r.strings) = Upto(r.strings, Len(r.strings))
          /\ \A i \in 0..Len(r.strings) : Upto(r.strings, i) \in Seq(Byte)
      BY <3>1, TextAt
    <3>3. QED
      BY <3>2 DEF r
  <2>2. QED
    BY <1>4, <1>6, <2>1
<1>8. Content(msg, Rec(c)) = IF txt = <<>> THEN <<>> ELSE <<txt>>
  BY <1>5, <1>7 DEF Content
<1>9. result \in Seq(Seq(Byte))
  <2>1. c - 1 \in 0..Len(msg.records) /\ result = Upto(ContentSeq(msg), c - 1)
    BY <1>2, <1>5 DEF InRecord, Count
  <2>2. QED
    BY <1>2, <2>1, ContentsAt
<1>10. result' = result \o Content(msg, Rec(c))
  <2>1. CASE txt = <<>>
    BY <1>1, <1>2, <1>5, <1>8, <2>1, NoContent
  <2>2. CASE txt # <<>>
    BY <1>1, <1>7, <1>8, <1>9, <2>2, AppendIsConcat
  <2>3. QED
    BY <2>1, <2>2
<1>11. Decoded'
  BY <1>1, <1>2, <1>5, <1>10, NextRecord
<1>12. QED
  BY <1>1, <1>5, <1>7, <1>9, <1>11

-----------------------------------------------------------------------------
(* The invariant.                                                          *)

LEMMA InitDecodes ==
  ASSUME Init, msg \in Messages
  PROVE  DecodeInv
<1> DEFINE w == Wire(msg)
           R == Response(msg)
<1>1. /\ msg \in Messages /\ pc = (IF msg.kind = "A" THEN "unpad" ELSE "header") /\ result = <<>>
  BY DEF Init
<1>2. PICK n \in 0..Len(w) : whole = (n = Len(w)) /\ data = SubSeq(w, 1, n)
  <2>1. msg \notin Strays
    BY DnsAssumption
  <2>2. QED
    BY <2>1, Zenon DEF Init
<1>3. /\ w \in Seq(Byte) /\ Len(w) \in Nat
      /\ msg.kind # "A" => w = R
  BY <1>1, WireAt
<1> HIDE DEF w, R
<1>4. /\ data \in Seq(Byte) /\ End = n /\ \A i \in 1..End : data[i] = w[i]
  <2>1. 1 \in Int /\ n \in Int /\ (1 <= n \/ n = 0)
    BY <1>3
  <2>2. \A i \in 1..n : w[i] \in Byte
    BY <1>3, ElementOfSeq
  <2>3. /\ data \in Seq(Byte) /\ Len(data) = (IF 1 <= n THEN n - 1 + 1 ELSE 0)
        /\ \A i \in 1..(n - 1 + 1) : data[i] = w[1 + i - 1]
    BY <1>2, <2>1, <2>2, SubSeqProperties
  <2>4. Len(data) = n /\ \A i \in 1..n : i \in 1..(n - 1 + 1) /\ 1 + i - 1 = i
    BY <2>1, <2>3
  <2>5. QED
    BY <2>3, <2>4 DEF End
<1>5. End <= Len(w) /\ (whole => End = Len(w))
  <2>1. n <= Len(w)
    BY <1>3
  <2>2. whole => n = Len(w)
    BY <1>2, Zenon
  <2>3. End = n
    BY <1>4
  <2>4. QED
    BY <2>1, <2>2, <2>3
<1>6. Received
  <2>1. CASE msg.kind = "A"
    BY <1>1, <1>4, <1>5, <2>1 DEF Received, w
  <2>2. CASE msg.kind # "A"
    BY <1>1, <1>3, <1>4, <1>5, <2>2 DEF Received, Arrived, R
  <2>3. QED
    BY <2>1, <2>2
<1>7. Decoded
  BY <1>1 DEF Decoded
<1>8. OnlyRealData
  BY <1>1 DEF OnlyRealData
<1>9. QED
  BY <1>1, <1>6, <1>7, <1>8 DEF DecodeInv

LEMMA UnpadDecodes ==
  ASSUME data \in Seq(Byte), DecodeInv, unpad_response
  PROVE  DecodeInv'
<1> DEFINE w == Wire(msg)
           s == Response(msg)
           k == PaddingMark(data)
<1>1. /\ pc = "unpad" /\ msg \in Messages /\ msg.kind = "A" /\ result = <<>>
      /\ msg' = msg /\ whole' = whole
      /\ Len(data) <= Len(w) /\ \A i \in 1..Len(data) : data[i] = w[i]
      /\ whole => Len(data) = Len(w)
  BY DEF unpad_response, DecodeInv, Received, End
<1>2. /\ w \in Seq(Byte) /\ Len(w) > Len(s) /\ Len(w) \in Nat
      /\ \A i \in 1..Len(s) : w[i] = s[i]
      /\ w[Len(s) + 1] = 128
      /\ \A i \in (Len(s) + 2)..Len(w) : w[i] = 0
  BY <1>1, WireAt
<1>3. s \in Seq(Byte) /\ Len(s) \in Nat /\ Len(data) \in Nat
  BY <1>1, ResponseAt, LenProperties
<1>4. /\ k # 0 => k \in 1..Len(data) /\ k <= Len(s) + 1
      /\ Len(data) > Len(s) => k = Len(s) + 1
  <2> HIDE DEF w, s
  <2>1. QED
    BY <1>1, <1>2, <1>3, MarkAt
<1>5. result' = <<>> /\ pc' \in {"done", "header"}
  BY <1>1 DEF unpad_response, Return, Goes
\* What is left is the front of the response, or all of it.
<1>6. ASSUME data' \in Seq(Byte), Len(data') <= Len(s), Len(data') <= Len(data),
             \A i \in 1..Len(data') : data'[i] = data[i],
             whole => Len(data') = Len(s), pc' = "done" => ~whole
      PROVE  DecodeInv'
  <2>1. \A i \in 1..Len(data') : data'[i] = s[i]
    <3>1. Len(data') \in Nat
      BY <1>6, LenProperties
    <3>2. \A i \in 1..Len(data') : i \in 1..Len(data) /\ i \in 1..Len(s)
      BY <1>3, <1>6, <3>1
    <3>3. QED
      BY <1>1, <1>2, <1>6, <3>2
  <2>2. Received'
    BY <1>1, <1>5, <1>6, <2>1 DEF Received, Arrived, End
  <2>3. Decoded'
    BY <1>1, <1>5, <1>6 DEF Decoded
  <2>4. OnlyRealData'
    BY <1>5 DEF OnlyRealData
  <2>5. QED
    BY <1>5, <2>2, <2>3, <2>4 DEF DecodeInv
<1> HIDE DEF w, s, k
<1>7. CASE k = 0
  <2>1. data' = data /\ pc' = "done"
    BY <1>1, <1>7 DEF unpad_response, Return, Goes, k
  <2>2. Len(data) <= Len(s) /\ ~whole
    BY <1>1, <1>2, <1>3, <1>4, <1>7
  <2>3. Len(data) <= Len(data)
    BY <1>3
  <2>4. QED
    BY <1>6, <2>1, <2>2, <2>3
<1>8. CASE k # 0
  <2>1. data' = SubSeq(data, 1, k - 1) /\ pc' = "header"
    BY <1>1, <1>8 DEF unpad_response, Goes, k
  <2>2. k \in 1..Len(data) /\ k <= Len(s) + 1 /\ 1 \in Int /\ k - 1 \in Int
    BY <1>3, <1>4, <1>8
  <2>3. \A i \in 1..(k - 1) : i \in 1..Len(data) /\ data[i] \in Byte /\ 1 + i - 1 = i
    BY <1>3, <2>2, ElementOfSeq
  <2>4. /\ data' \in Seq(Byte) /\ Len(data') = (IF 1 <= k - 1 THEN k - 1 - 1 + 1 ELSE 0)
        /\ \A i \in 1..(k - 1 - 1 + 1) : data'[i] = data[1 + i - 1]
    BY <2>1, <2>2, <2>3, SubSeqProperties
  <2>5. Len(data') = k - 1 /\ 1..(k - 1 - 1 + 1) = 1..(k - 1)
    BY <1>3, <2>2, <2>4
  <2>6. \A i \in 1..Len(data') : data'[i] = data[i]
    BY <2>3, <2>4, <2>5
  <2>7. Len(data') <= Len(s) /\ Len(data') <= Len(data)
    BY <1>3, <2>2, <2>5
  <2>8. whole => Len(data') = Len(s)
    <3>1. whole => k = Len(s) + 1
      BY <1>1, <1>2, <1>3, <1>4
    <3>2. QED
      BY <1>3, <2>5, <3>1
  <2>9. QED
    BY <1>6, <2>1, <2>4, <2>6, <2>7, <2>8
<1>9. QED
  BY <1>7, <1>8

LEMMA ReceivedStep ==
  ASSUME Received, pc # "unpad", pc' # "unpad", UNCHANGED <<msg, whole, data>>
  PROVE  Received'
BY DEF Received, Arrived, End

\* Steps that collect nothing.
LEMMA KeepsResult ==
  ASSUME DecodeInv, pc \notin {"unpad", "done"}, pc' # "unpad", UNCHANGED <<msg, whole, data>>,
         result' = result \/ result' = <<>>, pc' = "strings" => msg.kind = "TXT",
         PlainNames => Decoded'
  PROVE  DecodeInv'
<1>1. Received'
  BY ReceivedStep DEF DecodeInv
<1>2. OnlyRealData'
  BY DEF DecodeInv, OnlyRealData, PlainNames
<1>3. QED
  BY <1>1, <1>2 DEF DecodeInv, PlainNames

LEMMA AddressInvariant ==
  ASSUME DecodeInv, Address, UNCHANGED <<msg, whole, data>>
  PROVE  DecodeInv'
<1>1. /\ pc = "rdata" /\ pc' \in {"done", "answers"} /\ (pc' = "done" \/ result' = result)
      /\ msg.kind = "A" /\ msg' = msg
  BY DEF Address, Goes
<1>2. result = <<>> /\ Received
  BY <1>1 DEF DecodeInv
<1>3. Received'
  BY <1>1, <1>2, ReceivedStep
<1>4. PlainNames =>
        /\ Decoded'
        /\ result' # <<>> => \E c \in 1..Count : Rec(c).type = 1 /\ result' = <<Rec(c).rdata>>
  BY <1>2, AddressDecodes DEF DecodeInv
<1>5. OnlyRealData'
  <2>1. SUFFICES ASSUME PlainNames, NEW i \in DOMAIN result'
                 PROVE  \E k \in DOMAIN msg.records :
                          msg.records[k].type = 1 /\ result'[i] = msg.records[k].rdata
    BY <1>1 DEF OnlyRealData, PlainNames
  <2>2. result' # <<>>
    BY <2>1
  <2>3. PICK c \in 1..Count : Rec(c).type = 1 /\ result' = <<Rec(c).rdata>>
    BY <1>4, <2>1, <2>2
  <2>4. c \in DOMAIN msg.records
    <3>1. msg \in Messages
      BY <1>1, <1>2 DEF Received, Arrived
    <3>2. QED
      BY <3>1, MessageType DEF Count
  <2>5. result'[i] = Rec(c).rdata
    BY <2>1, <2>3
  <2>6. QED
    BY <2>3, <2>4, <2>5 DEF Rec
<1>6. QED
  BY <1>1, <1>2, <1>3, <1>4, <1>5 DEF DecodeInv, PlainNames

LEMMA TextEndsInvariant ==
  ASSUME DecodeInv, TextEnds, offset + fixed.length <= End, UNCHANGED <<msg, whole, data>>
  PROVE  DecodeInv'
<1>1. /\ pc = "strings" /\ pc' = "answers" /\ msg.kind = "TXT" /\ msg' = msg /\ Received
  BY DEF TextEnds, Goes, DecodeInv
<1>2. Received'
  BY <1>1, ReceivedStep
<1>3. PlainNames =>
        /\ Decoded' /\ result \in Seq(Seq(Byte))
        /\ \/ result' = result
           \/ \E c \in 1..Count :
                /\ Rec(c).type = 16 /\ FlattenSeq(Rec(c).strings) \in Seq(Byte)
                /\ result' = Append(result, FlattenSeq(Rec(c).strings))
  BY <1>1, TextEndsDecodes DEF DecodeInv
<1>4. OnlyRealData'
  <2> DEFINE Real(x) == \E k \in DOMAIN msg.records :
                          msg.records[k].type = 16 /\ x = FlattenSeq(msg.records[k].strings)
  <2>1. SUFFICES ASSUME PlainNames, NEW i \in DOMAIN result'
                 PROVE  Real(result'[i])
    BY <1>1 DEF OnlyRealData, PlainNames
  <2>2. \A j \in DOMAIN result : Real(result[j])
    BY <1>1, <2>1 DEF DecodeInv, OnlyRealData, Received, Arrived
  <2>3. CASE result' = result
    BY <2>1, <2>2, <2>3
  <2>4. ASSUME NEW c \in 1..Count, Rec(c).type = 16, FlattenSeq(Rec(c).strings) \in Seq(Byte),
               result' = Append(result, FlattenSeq(Rec(c).strings))
        PROVE  Real(result'[i])
    <3> DEFINE x == FlattenSeq(Rec(c).strings)
    <3>1. Real(x)
      <4>1. c \in DOMAIN msg.records
        <5>1. msg \in Messages
          BY <1>1 DEF Received, Arrived
        <5>2. QED
          BY <5>1, MessageType DEF Count
      <4>2. QED
        BY <2>4, <4>1 DEF Rec
    <3> HIDE DEF x, Real
    <3>2. result \in Seq(Seq(Byte)) /\ x \in Seq(Byte) /\ result' = Append(result, x)
      BY <1>3, <2>1, <2>4 DEF x
    <3>3. /\ Len(result) \in Nat /\ DOMAIN result = 1..Len(result)
          /\ DOMAIN result' = 1..(Len(result) + 1)
          /\ \A j \in 1..Len(result) : result'[j] = result[j]
          /\ result'[Len(result) + 1] = x
      <4>1. result' \in Seq(Seq(Byte)) /\ Len(result') = Len(result) + 1
        BY <3>2, AppendProperties
      <4>2. QED
        BY <3>2, <4>1, AppendProperties, LenProperties
    <3>4. i \in 1..Len(result) \/ i = Len(result) + 1
      BY <2>1, <3>3
    <3>5. QED
      BY <2>2, <3>1, <3>3, <3>4
  <2>5. QED
    BY <1>3, <2>1, <2>3, <2>4
<1>5. QED
  BY <1>1, <1>2, <1>3, <1>4 DEF DecodeInv, PlainNames

LEMMA StepDecodes ==
  ASSUME PacketInv, RangeInv, DecodeInv, UNCHANGED <<msg, whole, data>>,
         \/ Header \/ SkipLabel \/ NameEnds \/ Answer \/ Fixed
         \/ Address \/ Text \/ TextChunk \/ TextEnds
  PROVE  DecodeInv'
<1>1. /\ offset \in Nat /\ Received /\ (PlainNames => Decoded)
      /\ (msg.kind = "A" /\ pc # "done" => result = <<>>)
      /\ (pc = "strings" => offset + fixed.length <= End)
  BY DEF PacketInv, RangeInv, DecodeInv
<1>2. CASE Header
  <2>1. /\ pc = "header" /\ pc' \in {"done", "question"} /\ (result' = result \/ result' = <<>>)
    BY <1>2 DEF Header, Return, Goes
  <2>2. QED
    BY <1>1, <1>2, <2>1, HeaderDecodes, KeepsResult
<1>3. CASE SkipLabel
  <2>1. pc \in {"question", "owner"} /\ pc' = pc /\ result' = result
    BY <1>3 DEF SkipLabel, Goes
  <2>2. QED
    BY <1>1, <1>3, <2>1, SkipLabelDecodes, KeepsResult
<1>4. CASE NameEnds
  <2>1. pc \in {"question", "owner"} /\ pc' \in {"answers", "fixed"} /\ result' = result
    BY <1>4 DEF NameEnds, Goes
  <2>2. QED
    BY <1>1, <1>4, <2>1, NameEndsDecodes, KeepsResult
<1>5. CASE Answer
  <2>1. pc = "answers" /\ pc' \in {"done", "fixed", "owner"} /\ result' = result
    BY <1>5 DEF Answer, Return, Goes
  <2>2. QED
    BY <1>1, <1>5, <2>1, AnswerDecodes, KeepsResult
<1>6. CASE Fixed
  <2>1. pc = "fixed" /\ pc' \in {"done", "rdata"} /\ result' = result
    BY <1>6 DEF Fixed, Return, Goes
  <2>2. QED
    BY <1>1, <1>6, <2>1, FixedDecodes, KeepsResult
<1>7. CASE Address
  BY <1>7, AddressInvariant
<1>8. CASE Text
  <2>1. pc = "rdata" /\ pc' \in {"done", "strings", "answers"} /\ result' = result
        /\ msg.kind = "TXT"
    BY <1>8 DEF Text, Return, Goes
  <2>2. QED
    BY <1>1, <1>8, <2>1, TextDecodes, KeepsResult
<1>9. CASE TextChunk
  <2>1. pc = "strings" /\ pc' = "strings" /\ result' = result
    BY <1>9 DEF TextChunk
  <2>2. msg.kind = "TXT"
    BY <2>1 DEF DecodeInv
  <2>3. QED
    BY <1>1, <1>9, <2>1, <2>2, TextChunkDecodes, KeepsResult
<1>10. CASE TextEnds
  <2>1. pc = "strings"
    BY <1>10 DEF TextEnds
  <2>2. QED
    BY <1>1, <1>10, <2>1, TextEndsInvariant
<1>11. QED
  BY <1>2, <1>3, <1>4, <1>5, <1>6, <1>7, <1>8, <1>9, <1>10

LEMMA NextDecodes == IInv /\ DecodeInv /\ [Next]_vars => DecodeInv'
<1> SUFFICES ASSUME IInv, DecodeInv, [Next]_vars PROVE DecodeInv'
  OBVIOUS
<1>1. PacketInv /\ RangeInv /\ data \in Seq(Byte)
  BY DEF IInv, PacketInv
<1>2. CASE UNCHANGED vars
  <2>1. /\ msg' = msg /\ whole' = whole /\ data' = data /\ pc' = pc /\ offset' = offset
        /\ left' = left /\ fixed' = fixed /\ index' = index /\ txt' = txt /\ result' = result
    BY <1>2 DEF vars, record
  <2>2. Received'
    BY <2>1 DEF DecodeInv, Received, Arrived, End
  <2>3. OnlyRealData' /\ PlainNames' = PlainNames
    BY <2>1 DEF DecodeInv, OnlyRealData, PlainNames
  <2>4. Decoded => Decoded'
    BY <2>1 DEF Decoded, InQuestion, Walks, AtAnswer, InRecord, InOwner, AtFixed, InData,
                InText, Lost, Count, Rec, End
  <2>5. QED
    BY <2>1, <2>2, <2>3, <2>4 DEF DecodeInv
<1>3. CASE unpad_response
  BY <1>1, <1>3, UnpadDecodes
<1>4. CASE Next /\ ~unpad_response /\ ~UNCHANGED vars
  <2>1. /\ UNCHANGED <<msg, whole, data>>
        /\ \/ Header \/ SkipLabel \/ NameEnds \/ Answer \/ Fixed
           \/ Address \/ Text \/ TextChunk \/ TextEnds
    BY <1>4 DEF Next, Parse, Returned
  <2>2. QED
    BY <1>1, <2>1, StepDecodes
<1>5. QED
  BY <1>2, <1>3, <1>4

\* A response is decoded as the invariant says; a stray packet is no response.
ResponseInv == IF msg \in Messages THEN DecodeInv ELSE ~whole

THEOREM DecodingHolds == Spec => []ResponseInv
<1>1. Init => ResponseInv
  <2>1. Init /\ msg \notin Messages => ~whole
    BY DEF Init
  <2>2. QED
    BY <2>1, InitDecodes DEF ResponseInv
<1>2. IInv /\ ResponseInv /\ [Next]_vars => ResponseInv'
  <2>1. SUFFICES ASSUME IInv, ResponseInv, [Next]_vars PROVE ResponseInv'
    OBVIOUS
  <2>2. msg' = msg /\ whole' = whole
    BY <2>1 DEF Next, vars, unpad_response, Parse, Returned
  <2>3. msg \in Messages => DecodeInv'
    BY <2>1, NextDecodes DEF ResponseInv
  <2>4. QED
    BY <2>1, <2>2, <2>3 DEF ResponseInv
<1>3. QED
  BY <1>1, <1>2, InvariantHolds, PTL DEF Spec

\* parse_dns_response and parse_txt_response return what the response says, for every
\* response that arrived whole and whose owner names are plain: the first A record, or the
\* texts in their order.
THEOREM ResponsesAreDecoded == Spec => []DecodesResponse
<1>1. ResponseInv => DecodesResponse
  BY Places DEF ResponseInv, DecodeInv, DecodesResponse
<1>2. QED
  BY <1>1, DecodingHolds, PTL

\* Wherever the response was cut, an address or a text that is returned is the data of one
\* of its records of that type.
THEOREM NothingIsMadeUp == Spec => []OnlyRealData
<1>1. ResponseInv => OnlyRealData
  BY DEF ResponseInv, DecodeInv, OnlyRealData
<1>2. QED
  BY <1>1, DecodingHolds, PTL

=============================================================================
