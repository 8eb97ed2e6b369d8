----------------------------- MODULE RtMessage ------------------------------
(***************************************************************************)
(* RtMessage::parse and RtMessage::get of time.rs: the tag-value format of *)
(* Roughtime.  A message is a count of tags, the offsets of all values but *)
(* the first, the tags, and the values.  The parser is run on a datagram   *)
(* and again on the values nested in it, before and after their signatures *)
(* are checked, so that every byte of its input may be anything.           *)
(*                                                                         *)
(* The header is read in words of four bytes; a packet is its whole words  *)
(* and the bytes left over.  An index or a range outside of the packet     *)
(* panics, and a panic aborts PID 1.                                       *)
(***************************************************************************)
EXTENDS Integers, SequencesExt

CONSTANTS
  Messages,  \* messages a server encodes: tags, and a sequence of words for each
  Words,     \* what damage puts in the place of a word
  MaxTail    \* bytes after the last whole word: 3

\* The encoding (Roughtime draft): counts and offsets in bytes.
Offset(m, i) == 4 * Len(FlattenSeq(SubSeq(m.values, 1, i)))
Encode(m) ==
  LET n == Len(m.tags) IN
  <<n>> \o [i \in 1..(n - 1) |-> Offset(m, i)] \o m.tags \o FlattenSeq(m.values)

ASSUME RtAssumption ==
  /\ Words \subseteq Nat
  /\ MaxTail \in 0..3
  /\ \A m \in Messages :
       /\ m.tags \in Seq(Nat) /\ m.values \in Seq(Seq(Nat))
       /\ Len(m.tags) = Len(m.values) /\ Len(m.tags) >= 1

VARIABLES
  msg,       \* the message that was encoded
  intact,    \* whether it arrived as it was sent
  words,     \* the whole words that arrived
  tail,      \* and the number of bytes after them
  pc,
  num_tags,
  i,         \* the loop variable
  offsets, tags, values,
  panicked   \* history: an index or a range was outside of the packet

packet == <<msg, intact, words, tail>>
vars == <<packet, pc, num_tags, i, offsets, tags, values, panicked>>

DataLen == 4 * Len(words) + tail
ValuesStart == 2 * num_tags
ValuesLen == DataLen - 8 * num_tags

Word(n) == IF n \in DOMAIN words THEN words[n] ELSE 0
Reads(n) == panicked' = (panicked \/ n \notin DOMAIN words)

None == pc' = "none" /\ UNCHANGED <<num_tags, i, offsets, tags, values, panicked>>

-----------------------------------------------------------------------------

\* The count, and whether the header it announces is there.
Count ==
  /\ pc = "count"
  /\ IF DataLen < 4 \/ Word(1) = 0 \/ DataLen < 8 * Word(1)
       THEN None
       ELSE /\ num_tags' = Word(1)
            /\ offsets' = <<0>>
            /\ pc' = "offsets" /\ i' = 1
            /\ Reads(1)
            /\ UNCHANGED <<tags, values>>

ReadOffset ==
  /\ pc = "offsets" /\ i < num_tags
  /\ offsets' = Append(offsets, Word(1 + i))
  /\ i' = i + 1
  /\ Reads(1 + i)
  /\ UNCHANGED <<pc, num_tags, tags, values>>

OffsetsRead ==
  /\ pc = "offsets" /\ i = num_tags
  /\ pc' = "tags" /\ i' = 1
  /\ UNCHANGED <<num_tags, offsets, tags, values, panicked>>

ReadTag ==
  /\ pc = "tags"
  /\ tags' = Append(tags, Word(num_tags + i))
  /\ IF i < num_tags THEN i' = i + 1 /\ UNCHANGED pc ELSE i' = 1 /\ pc' = "check"
  /\ Reads(num_tags + i)
  /\ UNCHANGED <<num_tags, offsets, values>>

From == offsets[i]
To == IF i < num_tags THEN offsets[i + 1] ELSE ValuesLen

\* MUTANT: offsets are compared with the end only.
InOrder_EndOnly == To <= ValuesLen

InOrder == From <= To /\ To <= ValuesLen
Aligned == From % 4 = 0 /\ To % 4 = 0

Check ==
  /\ pc = "check"
  /\ IF InOrder /\ Aligned
       THEN /\ IF i < num_tags THEN i' = i + 1 /\ UNCHANGED pc ELSE i' = 1 /\ pc' = "values"
            /\ UNCHANGED <<num_tags, offsets, tags, values, panicked>>
       ELSE None

\* values_data[start..end]
ReadValue ==
  /\ pc = "values"
  /\ panicked' = (panicked \/ ~(0 <= From /\ From <= To /\ To <= ValuesLen))
  /\ values' = Append(values, SubSeq(words, ValuesStart + From \div 4 + 1,
                                            ValuesStart + To \div 4))
  /\ IF i < num_tags THEN i' = i + 1 /\ UNCHANGED pc ELSE i' = i /\ pc' = "some"
  /\ UNCHANGED <<num_tags, offsets, tags>>

\* MUTANT: the last value of a tag that occurs twice.
get_Last(tag) ==
  LET at == {k \in DOMAIN tags : tags[k] = tag} IN
  IF at = {} THEN {} ELSE {values[CHOOSE k \in at : \A j \in at : j <= k]}

\* The value of the first occurrence of the tag, if any.
get(tag) ==
  LET at == {k \in DOMAIN tags : tags[k] = tag} IN
  IF at = {} THEN {} ELSE {values[CHOOSE k \in at : \A j \in at : k <= j]}

\* The packet arrives as it was sent, cut short, with bytes added, or with a word changed.
Init ==
  /\ msg \in Messages
  /\ \E n \in 0..Len(Encode(msg)), k \in 0..Len(Encode(msg)), w \in Words :
       words = SubSeq(IF k = 0 THEN Encode(msg) ELSE [Encode(msg) EXCEPT ![k] = w], 1, n)
  /\ tail \in 0..MaxTail
  /\ intact = (words = Encode(msg) /\ tail = 0)
  /\ pc = "count" /\ num_tags = 0 /\ i = 0
  /\ offsets = <<>> /\ tags = <<>> /\ values = <<>>
  /\ panicked = FALSE

Returned == pc \in {"some", "none"} /\ UNCHANGED vars

Parse ==
  \/ Count
  \/ ReadOffset \/ OffsetsRead
  \/ ReadTag
  \/ Check
  \/ ReadValue

Next == (Parse /\ UNCHANGED packet) \/ Returned

Spec == Init /\ [][Next]_vars

-----------------------------------------------------------------------------
(* Properties.                                                             *)

\* No index and no range lies outside of the packet, whatever count and offsets it has.
NeverPanics == ~panicked

\* What a server encodes is found again under its tag; of a tag that occurs twice, the
\* first value, at every place where verify_roughtime_response looks a tag up.
DecodesMessage ==
  intact /\ pc \in {"some", "none"} =>
    /\ pc = "some"
    /\ \A k \in DOMAIN msg.tags :
         (\A j \in 1..(k - 1) : msg.tags[j] # msg.tags[k]) => get(msg.tags[k]) = {msg.values[k]}

=============================================================================
