---------------------------- MODULE MCDnsMessage ----------------------------
(* The responses for which TLC checks DnsMessage.                          *)
EXTENDS DnsMessage, TLC

CONSTANTS Owners, Addresses, Texts

\* Owner names: a pointer, written out, the root, labels that end in a pointer.
Ptr == [labels |-> <<>>, end |-> <<192, 12>>]
Labelled == [labels |-> << <<97>> >>, end |-> <<0>>]
Root == [labels |-> <<>>, end |-> <<0>>]
Mixed == [labels |-> << <<97>> >>, end |-> <<192, 12>>]
AllOwners == {Ptr, Labelled, Root, Mixed}

\* Data that ends in zeros or in the byte that marks the padding.
SomeAddresses == {<<10, 0, 0, 0>>, <<1, 16, 0, 128>>}
OneAddress == {<<10, 0, 0, 0>>}
SomeTexts == {<<>>, << <<0, 16>> >>, << <<68>>, <<>>, <<83, 0>> >>}

A(o, ip) == [owner |-> o, type |-> 1, rdata |-> ip, strings |-> <<>>]
Cname(o) == [owner |-> o, type |-> 5, rdata |-> <<1, 98, 192, 12>>, strings |-> <<>>]
Txt(o, strings) ==
  [owner |-> o, type |-> 16, rdata |-> Labels(strings), strings |-> strings]

ARecords == {A(o, ip) : o \in Owners, ip \in Addresses} \cup {Cname(o) : o \in Owners}
TxtRecords == {Txt(o, t) : o \in Owners, t \in Texts} \cup {Cname(o) : o \in Owners}

Records(set) == {<<>>} \cup {<<r>> : r \in set} \cup {<<r, s>> : r \in set, s \in set}

MCMessages ==
  [kind : {"A"}, domain : {<< <<97>>, <<98>> >>}, records : Records(ARecords)]
    \cup [kind : {"TXT"}, domain : {<< <<97>> >>}, records : Records(TxtRecords)]

\* Damage to a response: one byte of it replaced, by those that matter to a parser - the
\* end of a name, the record types, small and large lengths, the first byte of a pointer,
\* the mark of the padding - and the packet whole or short of its last byte.
SomeBytes == {0, 1, 3, 16, 63, 128, 192, 255}
Damaged(w) ==
  {SubSeq([w EXCEPT ![i] = b], 1, n) : i \in DOMAIN w, b \in SomeBytes,
                                       n \in {Len(w) - 1, Len(w)}}

\* One record, or two whose owner names are pointers.
Likely ==
  {m \in MCMessages : /\ m.records # <<>> /\ m.records[1].type # 5
                      /\ Len(m.records) = 2 => {r.owner : r \in Range(m.records)} = {Ptr}}

MCStrays == UNION {[kind : {m.kind}, bytes : Damaged(Wire(m))] : m \in Likely}
=============================================================================
