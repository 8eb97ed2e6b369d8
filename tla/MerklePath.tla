----------------------------- MODULE MerklePath -----------------------------
(***************************************************************************)
(* The Merkle path of a Roughtime response, in verify_roughtime_response.  *)
(* A server answers many requests with one signature, over the root of a   *)
(* tree whose leaves are the nonces of the requests.  INDX and PATH, which *)
(* are not signed, lead from the client's nonce to that root: whoever      *)
(* sends them may choose them freely.                                      *)
(*                                                                         *)
(* Hashes are symbolic terms, so that different contents have different    *)
(* hashes; the prefix bytes 0 and 1 keep leaves and inner nodes apart.     *)
(***************************************************************************)
EXTENDS Integers, Sequences

CONSTANTS
  Nonce,      \* the nonce of the client
  Batches,    \* the batches a server signs: sequences of 2^d nonces
  MaxPath,    \* bound: hashes in PATH
  MaxIndex    \* bound: INDX

Leaf(n) == <<0, n>>
Node(a, b) == <<1, a, b>>

-----------------------------------------------------------------------------
(* The server's tree.                                                      *)

Pow2[d \in Nat] == IF d = 0 THEN 1 ELSE 2 * Pow2[d - 1]

Depth(b) == CHOOSE d \in 0..Len(b) : Pow2[d] = Len(b)

\* The hashes of the tree, level by level from the leaves.
Tree(b) ==
  LET level[d \in 0..Depth(b)] ==
        IF d = 0 THEN [i \in 1..Len(b) |-> Leaf(b[i])]
        ELSE [i \in 1..(Pow2[Depth(b) - d]) |-> Node(level[d - 1][2 * i - 1], level[d - 1][2 * i])]
  IN level

Root(b) == Tree(b)[Depth(b)][1]
Hashes(b) == UNION {{Tree(b)[d][i] : i \in DOMAIN Tree(b)[d]} : d \in 0..Depth(b)}

\* The position of a neighbour, and the path from the leaf at position p.
Sibling(p) == IF p % 2 = 0 THEN p + 1 ELSE p - 1
PathFrom(b, p) == [d \in 1..Depth(b) |-> Tree(b)[d - 1][Sibling(p \div Pow2[d - 1]) + 1]]

-----------------------------------------------------------------------------

VARIABLES
  batch,    \* the batch whose root the server signed
  path,     \* PATH
  index,    \* INDX
  pc,
  current,  \* current_hash
  idx,
  used      \* hashes of the path used so far

vars == <<batch, path, index, pc, current, idx, used>>

Init ==
  /\ batch \in Batches
  /\ path \in UNION {[1..n -> Hashes(batch) \cup {Leaf(Nonce)}] : n \in 0..MaxPath}
  /\ index \in 0..MaxIndex
  /\ pc = "leaf"
  /\ current = Leaf(Nonce) /\ idx = index /\ used = 0

\* The parity of what is left of the index says on which side the sibling is.
Climb ==
  /\ pc = "leaf" /\ used < Len(path)
  /\ current' = IF idx % 2 = 0 THEN Node(current, path[used + 1])
                               ELSE Node(path[used + 1], current)
  /\ idx' = idx \div 2
  /\ used' = used + 1
  /\ UNCHANGED <<batch, path, index, pc>>

\* MUTANT: an index that the path does not use up is accepted.
Matches_AnyIndex == current = Root(batch)

Matches == current = Root(batch) /\ idx = 0

Compare ==
  /\ pc = "leaf" /\ used = Len(path)
  /\ pc' = IF Matches THEN "accepted" ELSE "rejected"
  /\ UNCHANGED <<batch, path, index, current, idx, used>>

Decided == pc # "leaf" /\ UNCHANGED vars

Next == Climb \/ Compare \/ Decided

Spec == Init /\ [][Next]_vars

-----------------------------------------------------------------------------
(* Properties.                                                             *)

\* Whatever index and path are sent, an accepted response is one whose signed batch has
\* the client's nonce at exactly that index, so that it was signed after the nonce was
\* chosen; and the path of the client's own leaf is accepted wherever it stands.
PathProvesNonce ==
  /\ pc = "accepted" => index < Len(batch) /\ batch[index + 1] = Nonce
  /\ pc = "rejected" /\ index < Len(batch) /\ path = PathFrom(batch, index)
     => batch[index + 1] # Nonce

=============================================================================
