------------------------------ MODULE TimeSync ------------------------------
(***************************************************************************)
(* Secure time during boot: main() resolves the Roughtime servers one by   *)
(* one, query_roughtime asks them all at once over UDP, the median of the  *)
(* verified midpoints becomes the clock, and the Date header of a TLS      *)
(* server stands in when no server gave one.                               *)
(*                                                                         *)
(* Signatures and the Merkle proof are symbolic: a datagram says under     *)
(* which long-term key its delegation was signed, for which interval, and  *)
(* whether its signed root covers the nonce of the query.                  *)
(***************************************************************************)
EXTENDS Integers, FiniteSets

CONSTANTS
  NumServers,    \* length of ROUGHTIME_SERVERS
  WithFallback,  \* servers with a hard-coded fallback address
  Honest,        \* servers that sign nothing but the true time
  MaxSends,      \* requests per query
  Floor,         \* LAST_KNOWN_GOOD_TIME_MICROS
  Second,        \* units of time per second
  Leaked,        \* last instant of delegations whose online key has leaked
  MaxTime,       \* bound: the true time is at most MaxTime
  Word           \* u64 is 0..Word - 1

Server == 1..NumServers
U64 == 0..(Word - 1)

\* The true time is after the build, and far from the end of u64; delegations whose
\* keys were given up had ended before the build.
ASSUME TimeAssumption ==
  /\ NumServers \in Nat \ {0}
  /\ WithFallback \subseteq Server
  /\ Honest \subseteq Server
  /\ MaxSends \in Nat \ {0}
  /\ Second \in Nat \ {0}
  /\ Leaked \in Nat /\ Floor \in Nat /\ MaxTime \in Nat /\ Word \in Nat
  /\ Leaked < Floor /\ Floor <= MaxTime
  /\ 2 * MaxTime < Word

VARIABLES
  now,       \* the true time
  pc,        \* where main() is
  next,      \* index of the server being resolved
  target,    \* resolved_servers
  begun,     \* history: when query_roughtime, or else the fallback, began
  task,      \* where each query_single_roughtime is
  attempt,   \* its attempt
  answers,   \* instants at which its server signed an answer to its nonce
  asked,     \* servers to which a request is on its way
  vote,      \* the midpoint it returned, NoVote for an error
  midpoint,  \* the time main() is about to set
  source,    \* history: where that time came from
  clock,     \* what clock_settime set
  halt       \* why panic_shutdown was called

main  == <<pc, next, target, begun, midpoint, source, clock, halt>>
tasks == <<task, attempt, asked, answers, vote>>
vars  == <<now, main, tasks>>

NoVote == -1
Unset == -1

Voters == {s \in Server : vote[s] # NoVote}

-----------------------------------------------------------------------------
(* Resolution of the servers, in the order of the table.                   *)

Resolving(chosen) ==
  /\ target' = chosen
  /\ IF next < NumServers
       THEN next' = next + 1 /\ UNCHANGED pc
       ELSE next' = next /\ pc' = "spawn"
  /\ UNCHANGED <<now, begun, midpoint, source, clock, halt, tasks>>

\* A resolver answered.  It never brings a time: its second result is always None.
Resolved ==
  /\ pc = "resolve"
  /\ Resolving(target \cup {next})

\* No resolver answered: the hard-coded address, or the server is left out.
ResolveFails ==
  /\ pc = "resolve"
  /\ Resolving(IF next \in WithFallback THEN target \cup {next} ELSE target)

\* The TCP read of send_dns_query_tcp that has no timeout.
ResolverStalls ==
  /\ pc \in {"resolve", "fallback"}
  /\ pc' = "stalled"
  /\ UNCHANGED <<now, next, target, begun, midpoint, source, clock, halt, tasks>>

-----------------------------------------------------------------------------
(* query_single_roughtime: one task per server, all running at once.       *)

Spawn ==
  /\ pc = "spawn"
  /\ pc' = "join"
  /\ begun' = now
  /\ task' = [s \in Server |-> IF s \in target THEN "send" ELSE "done"]
  /\ UNCHANGED <<now, next, target, midpoint, source, clock, halt,
                 attempt, asked, answers, vote>>

Moves(s, from, to) ==
  /\ task[s] = from
  /\ task' = [task EXCEPT ![s] = to]
  /\ UNCHANGED <<now, main>>

\* No socket or no entropy for the nonce.
BindFails(s) ==
  /\ attempt[s] = 1
  /\ Moves(s, "send", "done")
  /\ UNCHANGED <<attempt, asked, answers, vote>>

Send(s) ==
  /\ Moves(s, "send", "recv")
  /\ asked' = asked \cup {s}
  /\ UNCHANGED <<attempt, answers, vote>>

SendFails(s) ==
  /\ Moves(s, "send", "pause")
  /\ UNCHANGED <<attempt, asked, answers, vote>>

\* A response as verify_roughtime_response takes it apart: the long-term key that
\* signed the delegation, the delegation's interval, whether the Merkle path leads
\* from this query's nonce to the signed root, and the signed midpoint.
NoKey == 0
Unlimited == [mint |-> 0, maxt |-> Word - 1]
Expired == [mint |-> 0, maxt |-> Leaked]

\* What may arrive at the socket of s: an answer its server signed, however late and
\* however often; a recorded answer to another nonce; whatever an online key that
\* leaked, or a server that lies, can sign; and anything under no key of s.
Arriving(s) ==
  [key : {s}, dele : {Unlimited}, fresh : {TRUE}, midp : answers[s]]
    \cup [key : {s}, dele : {Unlimited}, fresh : {FALSE}, midp : 0..now]
    \cup [key : {s}, dele : {Expired}, fresh : {TRUE}, midp : U64]
    \cup [key : {s} \ Honest, dele : {Unlimited}, fresh : {TRUE}, midp : U64]
    \cup [key : {NoKey}, dele : {Unlimited}, fresh : {TRUE}, midp : U64]

\* MUTANT: the Merkle path is not compared with the signed root.
verify_roughtime_response_AnyNonce(m, s) ==
  /\ m.key = s
  /\ m.dele.mint <= m.midp /\ m.midp <= m.dele.maxt

verify_roughtime_response(m, s) ==
  /\ m.key = s
  /\ m.dele.mint <= m.midp /\ m.midp <= m.dele.maxt
  /\ m.fresh

\* The first datagram that arrives ends the query, whoever sent it.
Receive(s) ==
  /\ Moves(s, "recv", "done")
  /\ \E m \in Arriving(s) :
       vote' = IF verify_roughtime_response(m, s)
                 THEN [vote EXCEPT ![s] = m.midp] ELSE vote
  /\ UNCHANGED <<attempt, asked, answers>>

\* MUTANT: only a receive error ends the wait, and none occurs.
ReceiveFails_NoTimeout(s) ==
  /\ FALSE
  /\ Moves(s, "recv", "pause")
  /\ UNCHANGED <<attempt, asked, answers, vote>>

\* The timeout, or an error of recv_from.
ReceiveFails(s) ==
  /\ Moves(s, "recv", "pause")
  /\ UNCHANGED <<attempt, asked, answers, vote>>

\* MUTANT: one attempt more than the loop allows.
Retry_OneMore(s) ==
  /\ Moves(s, "pause", IF attempt[s] <= MaxSends THEN "send" ELSE "done")
  /\ attempt' = IF attempt[s] <= MaxSends
                  THEN [attempt EXCEPT ![s] = @ + 1] ELSE attempt
  /\ UNCHANGED <<asked, answers, vote>>

\* The sleep is over: the next attempt, with the same socket and nonce, or the end.
Retry(s) ==
  /\ Moves(s, "pause", IF attempt[s] < MaxSends THEN "send" ELSE "done")
  /\ attempt' = IF attempt[s] < MaxSends
                  THEN [attempt EXCEPT ![s] = @ + 1] ELSE attempt
  /\ UNCHANGED <<asked, answers, vote>>

\* The steps that need nobody else: calls that return, timeouts and sleeps.
OwnStep(s) ==
  BindFails(s) \/ Send(s) \/ SendFails(s) \/ ReceiveFails(s) \/ Retry(s)

Query(s) == OwnStep(s) \/ Receive(s)

\* A server that a request has reached, once or again, signs the true time.
ServerAnswers(s) ==
  /\ s \in Honest \cap asked /\ task[s] # "done"
  /\ answers' = [answers EXCEPT ![s] = @ \cup {now}]
  /\ UNCHANGED <<now, main, task, attempt, asked, vote>>

-----------------------------------------------------------------------------
(* query_roughtime once all tasks are joined, and what main() makes of it. *)

\* MUTANT: the midpoints are taken in the order of the servers' tasks.
Sorted_Unsorted ==
  {order \in [1..Cardinality(Voters) -> Voters] :
     \A i, j \in DOMAIN order : i # j => order[i] # order[j]}

\* sort_unstable: any order of the voters in which midpoints do not decrease.
Sorted ==
  {order \in [1..Cardinality(Voters) -> Voters] :
     \A i, j \in DOMAIN order :
       /\ i # j => order[i] # order[j]
       /\ i < j => vote[order[i]] <= vote[order[j]]}

\* Positions count from 1; the sum of two u64 wraps in the release build.
Median(order) ==
  LET n   == Cardinality(Voters)
      mid == n \div 2
      v(i) == vote[order[i]]
  IN  IF n % 2 = 1 THEN v(mid + 1) ELSE ((v(mid) + v(mid + 1)) % Word) \div 2

AllJoined == pc = "join" /\ \A s \in Server : task[s] = "done"

Establish(t, from) ==
  /\ midpoint' = t
  /\ source' = from
  /\ pc' = "check"
  /\ UNCHANGED <<now, next, target, clock, halt, tasks>>

Consensus ==
  /\ AllJoined /\ Voters # {}
  /\ \E order \in Sorted : Establish(Median(order), "roughtime")
  /\ UNCHANGED begun

NoConsensus ==
  /\ AllJoined /\ Voters = {}
  /\ pc' = "fallback"
  /\ begun' = now
  /\ UNCHANGED <<now, next, target, midpoint, source, clock, halt, tasks>>

\* The Date header of am.i.mullvad.net over TLS, in whole seconds.
query_mullvad_secure_date ==
  /\ pc = "fallback"
  /\ Establish((now \div Second) * Second, "tls")
  /\ UNCHANGED begun

panic_shutdown(reason) ==
  /\ halt' = reason
  /\ pc' = "halted"
  /\ UNCHANGED <<now, next, target, begun, midpoint, source, clock, tasks>>

NoTime ==
  /\ pc = "fallback"
  /\ panic_shutdown("no_time")

\* MUTANT: the floor itself is refused as well.
TimeBeforeFloor_Inclusive ==
  /\ pc = "check"
  /\ midpoint <= Floor
  /\ panic_shutdown("time_before_floor")

TimeBeforeFloor ==
  /\ pc = "check"
  /\ midpoint < Floor
  /\ panic_shutdown("time_before_floor")

SetClock ==
  /\ pc = "check"
  /\ midpoint >= Floor
  /\ clock' = midpoint
  /\ pc' = "set"
  /\ UNCHANGED <<now, next, target, begun, midpoint, source, halt, tasks>>

\* MUTANT: a failing clock_settime is only a warning, as in enforce_time_floor.
SetClockFails_Warns ==
  /\ pc = "check"
  /\ midpoint >= Floor
  /\ pc' = "set"
  /\ UNCHANGED <<now, next, target, begun, midpoint, source, clock, halt, tasks>>

SetClockFails ==
  /\ pc = "check"
  /\ midpoint >= Floor
  /\ panic_shutdown("clock_settime")

Main ==
  \/ Resolved \/ ResolveFails \/ ResolverStalls \/ Spawn
  \/ Consensus \/ NoConsensus \/ query_mullvad_secure_date \/ NoTime
  \/ TimeBeforeFloor \/ SetClock \/ SetClockFails

-----------------------------------------------------------------------------
Final == {"set", "halted", "stalled"}

\* Time passes between any two steps.
Tick ==
  /\ pc \notin Final
  /\ now < MaxTime
  /\ now' = now + 1
  /\ UNCHANGED <<main, tasks>>

Finished ==
  /\ pc \in Final
  /\ UNCHANGED vars

Init ==
  /\ now \in Floor..MaxTime
  /\ pc = "resolve" /\ next = 1 /\ target = {}
  /\ begun = now
  /\ task = [s \in Server |-> "idle"]
  /\ attempt = [s \in Server |-> 1]
  /\ asked = {}
  /\ answers = [s \in Server |-> {}]
  /\ vote = [s \in Server |-> NoVote]
  /\ midpoint = Unset /\ source = "none" /\ clock = Unset /\ halt = "none"

Next ==
  \/ Main
  \/ \E s \in Server : Query(s) \/ ServerAnswers(s)
  \/ Tick \/ Finished

\* The runtime polls main() and every task; sleeps and timeouts end.  That a datagram
\* ever arrives is not assumed.
Fairness == WF_vars(Main) /\ \A s \in Server : WF_vars(OwnStep(s))

Spec == Init /\ [][Next]_vars /\ Fairness

-----------------------------------------------------------------------------
(* Properties.                                                             *)

\* Every variable keeps its type; no query makes more than its two attempts.
TypeOK ==
  /\ now \in Floor..MaxTime
  /\ pc \in {"resolve", "spawn", "join", "fallback", "check"} \cup Final
  /\ next \in Server
  /\ target \subseteq Server
  /\ begun \in Floor..MaxTime
  /\ task \in [Server -> {"idle", "send", "recv", "pause", "done"}]
  /\ attempt \in [Server -> 1..MaxSends]
  /\ asked \subseteq Server
  /\ answers \in [Server -> SUBSET (Floor..MaxTime)]
  /\ vote \in [Server -> U64 \cup {NoVote}]
  /\ midpoint \in U64 \cup {Unset}
  /\ source \in {"none", "roughtime", "tls"}
  /\ clock \in U64 \cup {Unset}
  /\ halt \in {"none", "no_time", "time_before_floor", "clock_settime"}

\* Although datagrams of the first attempt may answer the second, and anybody may send
\* recorded, foreign or leaked-key responses: a midpoint accepted from a server that
\* does not lie was signed during this query, unless it dates itself before the end of
\* a delegation that had ended before this build.
VotesAuthentic ==
  \A s \in Voters \cap Honest :
    vote[s] <= Leaked \/ vote[s] \in begun..now

\* More than half of the accepted midpoints are true ones.
Truthful == {s \in Voters \cap Honest : vote[s] > Leaked}
Majority == source = "roughtime" /\ 2 * Cardinality(Truthful) > Cardinality(Voters)

\* As long as most accepted midpoints are true, the time main() takes over is no older
\* than the queries and not in the future, whatever the others claim and however their
\* sum wraps; the fallback is off by less than a second; and the clock is never set
\* before the floor.
ClockCurrent ==
  /\ Majority => midpoint \in begun..now
  /\ source = "tls" => midpoint \in (begun - Second + 1)..now
  /\ pc = "set" => clock = midpoint /\ clock >= Floor

\* A boot is refused for lack of time only when no server gave an acceptable answer,
\* and for time before the floor only when most accepted midpoints were not true, or
\* the fallback lost the fraction of the very second of the floor.
ShutdownHasCause ==
  /\ halt = "no_time" => Voters = {}
  /\ halt = "time_before_floor" => ~Majority
  /\ halt = "time_before_floor" /\ source = "tls" => begun < Floor + Second - 1

\* Synchronisation ends: with the clock set, with a shutdown, or in the resolver read
\* that has no timeout.
SyncEnds == <>(pc \in Final)

-----------------------------------------------------------------------------
(* The time step of the boot pipeline.  What Loader does in one step while *)
(* it is at "time", this module does in many.                              *)

Boot == INSTANCE Loader WITH
  vm <- IF pc = "halted" THEN "off" ELSE "up",
  pc <- CASE pc = "set" -> "get_binary" [] pc = "stalled" -> "stalled" [] OTHER -> "time",
  clock <- IF pc = "set" THEN clock ELSE 0,
  MaxTime <- Word - 1,
  Binary <- {}, Signed <- {}, Release <- {}, NoBinary <- 0, MaxAttempts <- 1, MaxOrphans <- 0,
  step <- 1, attempt <- 1, mounted <- {}, flags <- << >>, file <- 0, mode <- 0,
  app_bytes <- 0, expected_hash <- 0, sig_bytes <- 0, hash_hex <- 0, origin <- << >>,
  latest <- 0, server <- "none", image <- 0, attest <- "none", attest_hash <- 0,
  port <- "free", zombies <- 0, orphans <- 0

\* Every way synchronisation can go is a step that Loader has for it: nothing, until the
\* boot goes on with a clock at or after the floor, stops for one of the reasons Loader
\* knows, or stalls; and nothing after that.
ImplementsTimeStep ==
  /\ Boot!At("time")
  /\ [][Boot!SetClock \/ Boot!TimeFails \/ Boot!ResolverStalls]_(Boot!vars)
=============================================================================
