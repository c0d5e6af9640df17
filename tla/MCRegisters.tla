---------------------------- MODULE MCRegisters ----------------------------
(***************************************************************************)
(* X0 and two registers of four bits, with words of two bits: every value, *)
(* every shift amount and the undefined shifts are met.                    *)
(***************************************************************************)
EXTENDS Registers

Of(ops, rd, rs1, rs2, imm) == [op : ops, rd : rd, rs1 : rs1, rs2 : rs2, imm : imm]

(* Every operation on registers 1 and 2 with its result in 1, and          *)
(* instructions that move results to 2, write to X0 and read it.           *)
MCInstrs ==
  Of(ImmOps \cup {"ADDIW"}, {1}, {1, 2}, {0}, {-8, -1, 3})
    \cup Of(ShiftOps, {1}, {1, 2}, {0}, 0 .. XLEN - 1)
    \cup Of(WordImmOps, {1}, {1, 2}, {0}, 0 .. WLEN - 1)
    \cup Of(RegOps \cup WordOps, {1}, {1, 2}, {1, 2}, {0})
    \cup Of({"ADDI"}, {2}, {0, 1}, {0}, {0, 3})
    \cup Of({"ADD", "SUBW"}, {2}, {0, 1}, {0, 2}, {0})
    \cup Of({"ADDI", "SUBW"}, {0}, {0}, {0}, {3})
=============================================================================
