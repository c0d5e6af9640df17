------------------------- MODULE MCAssotiativeCache -------------------------
(***************************************************************************)
(* Two sets of two ways.  Three payloads compete for the first set, two of *)
(* them with the same tag; the second set is where the first one spills.   *)
(***************************************************************************)
EXTENDS AssotiativeCache

MCTags == {"a", "b", "z"}

MCPayloads == {"a1", "a2", "b1", "z1"}

MCTagFunc == [a1 |-> "a", a2 |-> "a", b1 |-> "b", z1 |-> "z"]

MCHashFunc == [a |-> 0, b |-> 0, z |-> 1]
=============================================================================
