------------------------------ MODULE Download ------------------------------
(***************************************************************************)
(* download_with_retry: attempts to fetch one file, each reading the body  *)
(* chunk by chunk.  The server may send a different body at every attempt  *)
(* (a release may have been published in between), and the connection may  *)
(* break at any point.                                                     *)
(*                                                                         *)
(* A byte is named by the attempt whose response it belongs to and by its  *)
(* position there.                                                         *)
(***************************************************************************)
EXTENDS Integers, Sequences

CONSTANTS
  MaxAttempts,  \* MAX_DOWNLOAD_RETRIES
  Limit,        \* 100 MB
  MaxBody       \* bound: bytes a server sends

ASSUME DownloadAssumption ==
  MaxAttempts \in Nat \ {0} /\ Limit \in Nat /\ MaxBody \in Nat

VARIABLES
  pc,       \* where the loop is
  attempt,
  size,     \* bytes the server sends in this attempt
  sent,     \* bytes of them that have arrived
  bytes,    \* the local vector
  causes    \* history: why each attempt so far has failed

vars == <<pc, attempt, size, sent, bytes, causes>>

\* The bytes of the body of attempt a after the first k, up to the first n.
Slice(a, k, n) == [i \in 1..(n - k) |-> [attempt |-> a, at |-> k + i]]
Body(a, n) == Slice(a, 0, n)

-----------------------------------------------------------------------------

\* MUTANT: the last attempt is never made.
NextAttempt_OneLess(why) ==
  /\ causes' = causes \cup {[attempt |-> attempt, why |-> why]}
  /\ IF attempt + 1 < MaxAttempts
       THEN pc' = "send" /\ attempt' = attempt + 1
       ELSE pc' = "shutdown" /\ UNCHANGED attempt
  /\ UNCHANGED <<size, sent, bytes>>

\* continue: after a pause the next attempt, or panic_shutdown after the last.
NextAttempt(why) ==
  /\ causes' = causes \cup {[attempt |-> attempt, why |-> why]}
  /\ IF attempt < MaxAttempts
       THEN pc' = "send" /\ attempt' = attempt + 1
       ELSE pc' = "shutdown" /\ UNCHANGED attempt
  /\ UNCHANGED <<size, sent, bytes>>

\* No name, no connection, no TLS, or no response head within the timeout.
SendFails == pc = "send" /\ NextAttempt("connection")

BadStatus == pc = "send" /\ NextAttempt("status")

\* A successful status, and a new vector for its body.
ResponseHead ==
  /\ pc = "send"
  /\ pc' = "body"
  /\ size' \in 0..MaxBody
  /\ sent' = 0
  /\ bytes' = <<>>
  /\ UNCHANGED <<attempt, causes>>

\* The next chunk: the bytes up to the n-th.
Chunk(n) ==
  /\ pc = "body" /\ sent < n /\ n <= size
  /\ sent' = n
  /\ IF Len(bytes) + (n - sent) > Limit
       THEN pc' = "oversized" /\ UNCHANGED bytes
       ELSE pc' = pc /\ bytes' = bytes \o Slice(attempt, sent, n)
  /\ UNCHANGED <<attempt, size, causes>>

Oversized == pc = "oversized" /\ NextAttempt("limit")

\* MUTANT: a read error ends the loop like the end of the body.
ReadFails_AsEnd ==
  /\ pc = "body"
  /\ pc' = IF bytes = <<>> THEN "send" ELSE "returned"
  /\ UNCHANGED <<attempt, size, sent, bytes, causes>>

\* The connection breaks, or the timeout of the whole request ends it.
ReadFails == pc = "body" /\ NextAttempt("read")

Empty == pc = "body" /\ sent = size /\ bytes = <<>> /\ NextAttempt("empty")

Complete ==
  /\ pc = "body" /\ sent = size
  /\ bytes # <<>>
  /\ pc' = "returned"
  /\ UNCHANGED <<attempt, size, sent, bytes, causes>>

Init ==
  /\ pc = "send"
  /\ attempt = 1
  /\ size = 0 /\ sent = 0
  /\ bytes = <<>>
  /\ causes = {}

\* The caller goes on with the bytes, or the VM is off.
Finished == pc \in {"returned", "shutdown"} /\ UNCHANGED vars

Next ==
  \/ SendFails \/ BadStatus \/ ResponseHead
  \/ \E n \in 1..MaxBody : Chunk(n)
  \/ Oversized \/ ReadFails \/ Empty \/ Complete
  \/ Finished

Spec == Init /\ [][Next]_vars

-----------------------------------------------------------------------------
(* Properties.                                                             *)

Why == {"connection", "status", "read", "limit", "empty"}

TypeOK ==
  /\ pc \in {"send", "body", "oversized", "returned", "shutdown"}
  /\ attempt \in 1..MaxAttempts
  /\ size \in 0..MaxBody /\ sent \in 0..size
  /\ bytes \in Seq([attempt : 1..MaxAttempts, at : 1..MaxBody])
  /\ causes \subseteq [attempt : 1..MaxAttempts, why : Why]

\* The vector never outgrows the limit, whatever the server sends, and what is returned is
\* the whole body of one response, the last one, and is not empty: no bytes of an attempt
\* that broke off, none missing at the end.
ReturnedWhole ==
  /\ Len(bytes) <= Limit
  /\ pc = "returned" => bytes = Body(attempt, size) /\ size > 0

\* The VM is shut down for a download only after every attempt has failed.
GivesUpAfterAll ==
  pc = "shutdown" => \A a \in 1..MaxAttempts : \E c \in causes : c.attempt = a

=============================================================================
