---------------------------- MODULE MCTimeFormats ---------------------------
(* Values of the constants of TimeFormats. *)
EXTENDS TimeFormats

Values == {<<>>, <<7>>, <<8, 9>>}
Encoded(tag_lists) ==
  {[tags |-> t, values |-> v] : t \in tag_lists, v \in UNION {[1..n -> Values] : n \in 1..3}}

\* One to three tags, the same tag twice included.
MCMessages ==
  {m \in Encoded({<<5>>, <<5, 6>>, <<5, 5>>, <<6, 5, 6>>}) : Len(m.tags) = Len(m.values)}

\* Batches of one, two and four nonces, the client's among them or not.
Nonces == {"n", "m"}
MCBatches == UNION {[1..k -> Nonces] : k \in {1, 2, 4}}

\* The leap years from 1970 to 2103.
MCLeapYears == {1968 + 4 * n : n \in 1..33} \ {2100}
=============================================================================
