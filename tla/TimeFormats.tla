----------------------------- MODULE TimeFormats ----------------------------
(***************************************************************************)
(* The computations of time.rs on data from the network: parsing a         *)
(* message, climbing a Merkle path, converting a date.  A behaviour runs   *)
(* one of them; the variables of the others stay idle.                     *)
(***************************************************************************)
EXTENDS RtMessage

CONSTANTS
  Nonce, Batches, MaxPath, MaxIndex,                \* of MerklePath
  Minute, Hour, Day, U64, LeapYears, LastYear       \* of HttpDate

VARIABLES
  task,
  batch, path, index, place, current, idx, used,    \* of MerklePath
  date, elapsed                                     \* of HttpDate

Merkle == INSTANCE MerklePath WITH pc <- place
Date == INSTANCE HttpDate

\* The batches are those of trees.
ASSUME MerkleAssumption ==
  /\ \A b \in Batches : /\ b \in Seq(Range(b))
                         /\ \E d \in 0..Len(b) : Len(b) = Merkle!Pow2[d]
  /\ MaxPath \in Nat /\ MaxIndex \in Nat

\* An hour is whole minutes and a day whole hours, u64 is larger than the seconds of the
\* calendar, and the calendar is Gregorian: of the centuries, every fourth is a leap year.
ASSUME DateAssumption ==
  /\ {Minute, Hour, Day} \subseteq Nat \ {0}
  /\ \E n \in 1..Hour : Hour = n * Minute
  /\ \E n \in 1..Day : Day = n * Hour
  /\ LastYear \in Nat /\ LastYear >= 1970
  /\ U64 \in Nat /\ U64 > 366 * (LastYear - 1969) * Day
  /\ \A y \in 1970..LastYear :
       y \in LeapYears <=> IF y % 100 = 0 THEN y % 400 = 0 ELSE y % 4 = 0

merkle == <<batch, path, index, place, current, idx, used>>
calendar == <<date, elapsed>>

MessageIdle ==
  /\ msg = (CHOOSE m \in Messages : TRUE) /\ intact = FALSE
  /\ words = <<>> /\ tail = 0
  /\ pc = "none" /\ num_tags = 0 /\ i = 0
  /\ offsets = <<>> /\ tags = <<>> /\ values = <<>> /\ panicked = FALSE

MerkleIdle ==
  /\ batch = <<>> /\ path = <<>> /\ index = 0
  /\ place = "idle" /\ current = <<>> /\ idx = 0 /\ used = 0

FormatsInit ==
  /\ task \in {"parse", "climb", "date"}
  /\ IF task = "parse" THEN Init ELSE MessageIdle
  /\ IF task = "climb" THEN Merkle!Init ELSE MerkleIdle
  /\ IF task = "date" THEN Date!Init ELSE date = 0 /\ elapsed = 0

FormatsNext ==
  \/ task = "parse" /\ Next /\ UNCHANGED <<task, merkle, calendar>>
  \/ task = "climb" /\ Merkle!Next /\ UNCHANGED <<task, vars, calendar>>
  \/ task = "date" /\ Date!Next /\ UNCHANGED <<task, vars, merkle>>

FormatsSpec == FormatsInit /\ [][FormatsNext]_<<task, vars, merkle, calendar>>

\* Of verify_roughtime_response: whatever index and path are sent, a response is accepted
\* only if the signed batch has the client's nonce at that index, and the genuine path is.
PathProvesNonce == task = "climb" => Merkle!PathProvesNonce

\* Of parse_http_date: every second of the calendar is the seconds that have passed.
DateIsElapsed == task = "date" => Date!DateIsElapsed

=============================================================================
