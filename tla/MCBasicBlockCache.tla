------------------------- MODULE MCBasicBlockCache -------------------------
(***************************************************************************)
(* A small block cache: three program counters compete for the two ways of *)
(* set 0, a fourth one lives in set 1, and blocks hold up to two           *)
(* instructions.                                                           *)
(***************************************************************************)
EXTENDS BasicBlockCacheFifo

MCInstrs == {[op |-> "ADDI"], [op |-> "JAL"]}

MCPCs == {0, 4, 16, 8}
=============================================================================
