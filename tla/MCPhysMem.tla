----------------------------- MODULE MCPhysMem -----------------------------
(***************************************************************************)
(* Memories of at most eight bytes with words of two bytes and pages of    *)
(* four; a chunk has room for two pages, and the host for two chunks.      *)
(***************************************************************************)
EXTENDS PhysMemFlat

G(l, r) == [left |-> l, right |-> r]

-----------------------------------------------------------------------------
(* The left half of the second range lies on the first one.                *)
OverlapConfigs == {<<G(0, 4), G(2, 6)>>}

OneConfig == {<<G(0, 8)>>}

OneArea == {[addr |-> 1, data |-> <<1, 1, 1, 1>>]}
=============================================================================
