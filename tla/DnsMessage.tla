----------------------------- MODULE DnsMessage -----------------------------
(***************************************************************************)
(* The DNS wire format of dns.rs: the two queries the loader builds, the   *)
(* padding of encrypted messages, and the two parsers of responses, which  *)
(* walk names, compression pointers and records by an offset into the      *)
(* packet.  parse_dns_response (kind "A") reads what came out of the       *)
(* decryption, parse_txt_response (kind "TXT") the first datagram on the   *)
(* socket: a response, cut anywhere, or whatever else somebody has sent.   *)
(*                                                                         *)
(* Offsets count from zero, as in the code.  Rust checks every index       *)
(* against the slice it is used on, and a panic aborts PID 1.              *)
(***************************************************************************)
EXTENDS Integers, SequencesExt

CONSTANTS
  Messages,  \* responses: the question and the records a resolver answers with
  Strays,    \* packets that are no resolver's response: any bytes
  Block,     \* 64, the block of the padding
  MinLen     \* 1024, the least length of a padded query

Byte == 0..255
Word == 0..65535

-----------------------------------------------------------------------------
(* Queries and padding.                                                    *)

U16Bytes(n) == <<n \div 256, n % 256>>

\* A length is written as one byte (part.len() as u8).
Labels(domain) ==
  FlattenSeq([i \in DOMAIN domain |-> <<Len(domain[i]) % 256>> \o domain[i]])

QueryHeader == <<171, 205, 1, 0, 0, 1, 0, 0, 0, 0, 0, 0>>

build_txt_record_query(domain) == QueryHeader \o Labels(domain) \o <<0, 0, 16, 0, 1>>
build_a_record_query(domain)   == QueryHeader \o Labels(domain) \o <<0, 0, 1, 0, 1>>

pad_query(query, min_len) ==
  LET marked == Append(query, 128)
      target == IF Len(marked) < min_len THEN min_len ELSE Len(marked)
      rounded == IF target % Block # 0 THEN (target \div Block + 1) * Block ELSE target
  IN [i \in 1..rounded |-> IF i <= Len(marked) THEN marked[i] ELSE 0]

NonZero(d) == {i \in DOMAIN d : d[i] # 0}

\* Where the mark of the padding is, 0 if there is none.
PaddingMark(d) ==
  IF \E i \in NonZero(d) : d[i] = 128 /\ \A j \in NonZero(d) : j <= i
    THEN CHOOSE i \in NonZero(d) : \A j \in NonZero(d) : j <= i
    ELSE 0

-----------------------------------------------------------------------------
(* A resolver's response (RFC 1035): the question is the query's, a record *)
(* has an owner name in some encoding, a type, and its data.  A name is    *)
(* labels, ended by the root label or by a pointer to the rest of it; the  *)
(* strings of a TXT record are encoded as labels are.                      *)

Query(m) == IF m.kind = "A" THEN build_a_record_query(m.domain)
                            ELSE build_txt_record_query(m.domain)

NameBytes(name) == Labels(name.labels) \o name.end

RecordBytes(r) ==
  NameBytes(r.owner) \o U16Bytes(r.type) \o <<0, 1, 0, 0, 0, 60>> \o U16Bytes(Len(r.rdata)) \o r.rdata

Response(m) ==
  <<171, 205, 129, 128, 0, 1>> \o U16Bytes(Len(m.records)) \o <<0, 0, 0, 0>>
    \o SubSeq(Query(m), 13, Len(Query(m)))
    \o FlattenSeq([i \in DOMAIN m.records |-> RecordBytes(m.records[i])])

\* Encrypted responses are padded, by the scheme of the queries.
Wire(m) == IF m.kind = "A" THEN pad_query(Response(m), MinLen) ELSE Response(m)

AreLabels(labels, max) ==
  labels \in Seq(Seq(Byte)) /\ \A i \in DOMAIN labels : Len(labels[i]) <= max

IsName(name) ==
  /\ AreLabels(name.labels, 63) /\ \A i \in DOMAIN name.labels : name.labels[i] # <<>>
  /\ name.end = <<0>> \/ name.end \in (192..255) \X Byte

IsRecord(r) ==
  /\ IsName(r.owner)
  /\ r.type \in Word /\ r.rdata \in Seq(Byte) /\ Len(r.rdata) \in Word
  /\ r.type = 16 => AreLabels(r.strings, 255) /\ r.rdata = Labels(r.strings)

ASSUME DnsAssumption ==
  /\ Block \in Nat \ {0} /\ MinLen \in Nat
  /\ \A m \in Messages :
       /\ m.kind \in {"A", "TXT"} /\ IsName([labels |-> m.domain, end |-> <<0>>])
       /\ m.records \in Seq(Range(m.records)) /\ Len(m.records) \in Word
       /\ \A i \in DOMAIN m.records : IsRecord(m.records[i])
  /\ Strays \cap Messages = {}
  /\ \A s \in Strays : s.kind \in {"A", "TXT"} /\ s.bytes \in Seq(Byte)

VARIABLES
  msg,      \* the response that was sent, or the stray packet
  whole,    \* whether all of a response arrived
  data,     \* what arrived, and after unpad_response without its padding
  pc,       \* where the parser is
  offset,
  left,     \* iterations left of the loop over ancount
  fixed,    \* type and length of the record whose data is read
  index,    \* i, into that data
  txt,      \* txt_data
  result,   \* what the parser returns: addresses (one at most) or texts
  panicked  \* history: an index was past the end of its slice

record == <<fixed, index, txt>>
vars == <<msg, whole, data, pc, offset, left, record, result, panicked>>

-----------------------------------------------------------------------------
(* Reading.                                                                *)

End == Len(data)
At(i) == IF i < End THEN data[i + 1] ELSE 0
U16(i) == At(i) * 256 + At(i + 1)
IsPointer(b) == b >= 192

\* The step reads a slice of len bytes up to, not including, index n.
Reads(n, len) == panicked' = (panicked \/ n > len)

Goes(place, o) == pc' = place /\ offset' = o

Return(r) ==
  /\ Goes("done", offset)
  /\ result' = r
  /\ UNCHANGED <<left, record, panicked>>

unpad_response ==
  /\ pc = "unpad"
  /\ IF PaddingMark(data) = 0
       THEN Return(<<>>) /\ UNCHANGED data
       ELSE /\ data' = SubSeq(data, 1, PaddingMark(data) - 1)
            /\ Goes("header", 0)
            /\ UNCHANGED <<left, record, result, panicked>>
  /\ UNCHANGED <<msg, whole>>

\* From here on the packet stays as it is.
Parse(step) == step /\ UNCHANGED <<msg, whole, data>>

Header ==
  /\ pc = "header"
  /\ IF End < 12
       THEN Return(<<>>)
       ELSE /\ left' = U16(6)
            /\ Goes("question", 12)
            /\ Reads(8, End)
            /\ UNCHANGED <<record, result>>

InName == offset < End /\ At(offset) # 0

\* MUTANT: the length byte itself is not skipped.
SkipLabel_OffByOne ==
  /\ pc \in {"question", "owner"}
  /\ InName /\ ~IsPointer(At(offset))
  /\ Goes(pc, offset + At(offset))
  /\ Reads(offset + 1, End)
  /\ UNCHANGED <<left, record, result>>

SkipLabel ==
  /\ pc \in {"question", "owner"}
  /\ InName /\ ~IsPointer(At(offset))
  /\ Goes(pc, offset + At(offset) + 1)
  /\ Reads(offset + 1, End)
  /\ UNCHANGED <<left, record, result>>

\* After the loop over the labels: the root label, if that is the byte found here.
PastRoot(o) == IF o < End /\ At(o) = 0 THEN o + 1 ELSE o

\* The loop ends at a zero byte, past a pointer or at the end of the packet.
NameEnds ==
  /\ pc \in {"question", "owner"}
  /\ ~InName \/ IsPointer(At(offset))
  /\ LET o == IF InName THEN offset + 2 ELSE offset IN
     /\ IF pc = "question" THEN Goes("answers", PastRoot(o) + 4)
                           ELSE Goes("fixed", PastRoot(o))
     /\ Reads(IF o < End THEN o + 1 ELSE IF InName THEN offset + 1 ELSE 0, End)
  /\ UNCHANGED <<left, record, result>>

\* The checks at the head of the loop over the records.
TooShort == IF msg.kind = "A" THEN offset + 12 > End ELSE offset + 2 > End

Answer ==
  /\ pc = "answers"
  /\ IF left = 0 \/ TooShort
       THEN Return(result)
       ELSE /\ left' = left - 1
            /\ IF IsPointer(At(offset)) THEN Goes("fixed", offset + 2)
                                        ELSE Goes("owner", offset)
            /\ Reads(offset + 1, End)
            /\ UNCHANGED <<record, result>>

Type == U16(offset)
RdLength == U16(offset + 8)

Fixed ==
  /\ pc = "fixed"
  /\ IF offset + 10 > End
       THEN Return(result)
       ELSE /\ fixed' = [type |-> Type, length |-> RdLength]
            /\ Goes("rdata", offset + 10)
            /\ Reads(offset + 10, End)
            /\ UNCHANGED <<left, index, txt, result>>

\* MUTANT: an alias is read like an address, whatever its length.
Address_AnyLength ==
  /\ pc = "rdata" /\ msg.kind = "A"
  /\ IF fixed.type \in {1, 5} /\ offset + 4 <= End
       THEN /\ result' = << <<At(offset), At(offset + 1), At(offset + 2), At(offset + 3)>> >>
            /\ Goes("done", offset)
            /\ Reads(offset + 4, End)
       ELSE /\ Goes("answers", offset + fixed.length)
            /\ UNCHANGED <<result, panicked>>
  /\ UNCHANGED <<left, record>>

\* parse_dns_response: the first IPv4 address is the result.
Address ==
  /\ pc = "rdata" /\ msg.kind = "A"
  /\ IF fixed.type = 1 /\ fixed.length = 4 /\ offset + 4 <= End
       THEN /\ result' = << <<At(offset), At(offset + 1), At(offset + 2), At(offset + 3)>> >>
            /\ Goes("done", offset)
            /\ Reads(offset + 4, End)
       ELSE /\ Goes("answers", offset + fixed.length)
            /\ UNCHANGED <<result, panicked>>
  /\ UNCHANGED <<left, record>>

\* parse_txt_response: the data of a TXT record is a slice of the packet.
Text ==
  /\ pc = "rdata" /\ msg.kind = "TXT"
  /\ IF offset + fixed.length > End
       THEN Return(result)
       ELSE /\ IF fixed.type = 16
                 THEN /\ Goes("strings", offset) /\ index' = 0 /\ txt' = <<>>
                      /\ Reads(offset + fixed.length, End)
                 ELSE /\ Goes("answers", offset + fixed.length)
                      /\ UNCHANGED <<index, txt, panicked>>
            /\ UNCHANGED <<left, fixed, result>>

\* A byte of the record's data, which is the slice rdata of the packet.
ChunkLen == At(offset + index)

\* MUTANT: a string is not asked to lie within the data of its record.
ChunkFits_Unbounded == index < fixed.length

ChunkFits == index < fixed.length /\ index + 1 + ChunkLen <= fixed.length

TextChunk ==
  /\ pc = "strings" /\ ChunkFits
  /\ txt' = txt \o [i \in 1..ChunkLen |-> At(offset + index + i)]
  /\ index' = index + 1 + ChunkLen
  /\ Reads(index + 1 + ChunkLen, fixed.length)
  /\ UNCHANGED <<pc, offset, left, fixed, result>>

TextEnds ==
  /\ pc = "strings" /\ ~ChunkFits
  /\ result' = IF txt = <<>> THEN result ELSE Append(result, txt)
  /\ Goes("answers", offset + fixed.length)
  /\ UNCHANGED <<left, record, panicked>>

Init ==
  /\ \/ /\ msg \in Messages
        /\ \E n \in 0..Len(Wire(msg)) :
             whole = (n = Len(Wire(msg))) /\ data = SubSeq(Wire(msg), 1, n)
     \/ msg \in Strays /\ whole = FALSE /\ data = msg.bytes
  /\ pc = IF msg.kind = "A" THEN "unpad" ELSE "header"
  /\ offset = 0 /\ left = 0 /\ index = 0 /\ panicked = FALSE
  /\ fixed = [type |-> 0, length |-> 0]
  /\ txt = <<>> /\ result = <<>>

Returned == pc = "done" /\ UNCHANGED vars

Next ==
  \/ unpad_response
  \/ Parse(Header)
  \/ Parse(SkipLabel) \/ Parse(NameEnds)
  \/ Parse(Answer) \/ Parse(Fixed)
  \/ Parse(Address)
  \/ Parse(Text) \/ Parse(TextChunk) \/ Parse(TextEnds)
  \/ Returned

Spec == Init /\ [][Next]_vars

-----------------------------------------------------------------------------
(* Properties.                                                             *)

\* Whatever the bytes are - a response cut anywhere, a damaged or an invented packet - no
\* index lies past the end of the packet, nor past the end of a record's data where a
\* parser reads a slice of that.
NeverPastEnd == ~panicked

\* What the response says (reference): the first A record, or every text in order.
Content(m, r) ==
  IF m.kind = "A" THEN IF r.type = 1 /\ Len(r.rdata) = 4 THEN <<r.rdata>> ELSE <<>>
  ELSE IF r.type = 16 /\ FlattenSeq(r.strings) # <<>> THEN <<FlattenSeq(r.strings)>> ELSE <<>>

Contents(m) == FlattenSeq([i \in DOMAIN m.records |-> Content(m, m.records[i])])

Expected(m) ==
  IF m.kind = "A" /\ Contents(m) # <<>> THEN <<Contents(m)[1]>> ELSE Contents(m)

\* No record's name is labels that end in a compression pointer.
LabelsThenPointer(name) == name.labels # <<>> /\ Len(name.end) = 2
PlainNames == \A i \in DOMAIN msg.records : ~LabelsThenPointer(msg.records[i].owner)

\* A response that arrived whole is read as what it says, with owner names that are
\* pointers or are written out, records of other types and texts of several strings.
DecodesResponse == whole /\ pc = "done" /\ PlainNames => result = Expected(msg)

\* dns.rs:759: "Should parse valid DNS response".
DecodesEveryResponse == whole /\ pc = "done" => result = Expected(msg)

\* Of a response no address or text is made up: each is the data of a record of that type
\* in the response, even if the response was cut short.  After a name of labels and a pointer
\* the parser is one byte off, and what it reads from there on need not be a record.
OnlyRealData ==
  msg \in Messages /\ PlainNames =>
    \A i \in DOMAIN result : \E k \in DOMAIN msg.records :
      LET r == msg.records[k] IN
      IF msg.kind = "A" THEN r.type = 1 /\ result[i] = r.rdata
                        ELSE r.type = 16 /\ result[i] = FlattenSeq(r.strings)

=============================================================================
