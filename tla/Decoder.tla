------------------------------ MODULE Decoder ------------------------------
(***************************************************************************)
(* Decoder::parse (src/decoder/decoder.cpp) with its table INSTR_WHO       *)
(* (autogen/operations-matrix.hpp), and the immediate as the handlers of   *)
(* the hart then read it (src/sim/hart.cpp).                               *)
(*                                                                         *)
(* A word is given by the six bit fields at which the decoder cuts it:     *)
(*                                                                         *)
(*    31      25 24   20 19   15 14   12 11    7 6       0                 *)
(*   [  func7   |  rs2  |  rs1  | func3 |  rd   |  opcode ]                *)
(***************************************************************************)
EXTENDS Integers, Sequences

CONSTANT Words    (* the words that are decoded *)

AllWords == [func7 : 0 .. 127, rs2 : 0 .. 31, rs1 : 0 .. 31, func3 : 0 .. 7,
             rd : 0 .. 31, opcode : 0 .. 127]

ASSUME DecoderConstants == Words \subseteq AllWords

VARIABLES
  word,   (* the argument of the call  *)
  instr   (* what it returned          *)

decoderVars == <<word, instr>>

INV_OP == "INV_OP"

(* Instruction::IMMIDIATE_POISON *)
IMMIDIATE_POISON == -1

Instr(rd, rs1, rs2, immidiate, operation) ==
  [rd |-> rd, rs1 |-> rs1, rs2 |-> rs2, immidiate |-> immidiate, operation |-> operation]

(* No call has returned yet. *)
NotParsed == Instr(0, 0, 0, 0, "none")

-----------------------------------------------------------------------------
(* INSTR_WHO: the rows of an opcode, by func3.  Every row that is not      *)
(* written out is ILLEGAL.                                                 *)
LOAD == 3
MISC_MEM == 15
OP_IMM == 19
AUIPC == 23
OPP_IMM32 == 27
STORE == 35
OP == 51
LUI == 55
OP32 == 59
BRANCH == 99
JALR == 103
JAL == 111
SYSTEM == 115

Format(opcode) ==
  CASE opcode \in {LOAD, MISC_MEM, OP_IMM, OPP_IMM32, JALR, SYSTEM} -> "I"
    [] opcode \in {OP, OP32}   -> "R"
    [] opcode \in {AUIPC, LUI} -> "U"
    [] opcode = STORE          -> "S"
    [] opcode = BRANCH         -> "B"
    [] opcode = JAL            -> "J"
    [] OTHER                   -> "ILLEGAL"

Row(opcode) ==
  CASE opcode = LOAD     -> <<"LB", "LH", "LW", "LD", "LBU", "LHU", "LWU">>
    [] opcode = MISC_MEM -> <<"PAUSE">>
    [] opcode = OP_IMM   -> <<"ADDI", "SLLI", "SLTI", "SLTIU", "XORI", "SRAI", "ORI", "ANDI">>
    [] opcode = OPP_IMM32 -> <<"ADDIW", "SLLIW">>
    [] opcode = STORE    -> <<"SB", "SH", "SW", "SD">>
    [] opcode = BRANCH   -> <<"BEQ", "BNE", INV_OP, INV_OP, "BLT", "BGE", "BLTU", "BGEU">>
    [] opcode = JALR     -> <<"JALR">>
    [] opcode = SYSTEM   -> <<INV_OP, "CSRRW", "CSRRS", "CSRRC", INV_OP, "CSRRWI", "CSRRSI", "CSRRCI">>
    [] OTHER             -> <<>>

(* The operation of a cell.  The rows of AUIPC, LUI and JAL do not depend  *)
(* on func3; the others are INV_OP where Row has no entry.                 *)
INSTR_WHO(opcode, func3) ==
  CASE opcode = AUIPC -> "AUIPC"
    [] opcode = LUI   -> "LUI"
    [] opcode = JAL   -> "JAL"
    [] OTHER          -> IF func3 < Len(Row(opcode)) THEN Row(opcode)[func3 + 1] ELSE INV_OP

-----------------------------------------------------------------------------
(* The switches of parse_R over func10, the pair of func7 and func3.       *)
Func10(w) ==
  LET plain == IF w.opcode = OP
               THEN <<"ADD", "SLL", "SLT", "SLTU", "XOR", "SRL", "OR", "AND">>
               ELSE <<"ADDW", "SLLW", INV_OP, INV_OP, INV_OP, "SRLW", INV_OP, INV_OP>>
      minus == IF w.opcode = OP THEN "SUB" ELSE "SUBW"
      arith == IF w.opcode = OP THEN "SRA" ELSE "SRAW"
  IN CASE w.func7 = 0                  -> plain[w.func3 + 1]
       [] w.func7 = 32 /\ w.func3 = 0  -> minus
       [] w.func7 = 32 /\ w.func3 = 5  -> arith
       [] OTHER                        -> INV_OP

parse_R(w) == Instr(w.rd, w.rs1, w.rs2, IMMIDIATE_POISON, Func10(w))

(* The immediate stays at bits 31:12; it is counted in units of 2^12 here. *)
parse_U(w) ==
  Instr(w.rd, 0, 0, w.func3 + 8 * w.rs1 + 256 * w.rs2 + 8192 * w.func7,
        INSTR_WHO(w.opcode, w.func3))

Imm12(w) == w.rs2 + 32 * w.func7

(* Mutant of PrivilegedOp: registers and func3 are not looked at.          *)
PrivilegedOpAnyRegs(w) ==
  CASE Imm12(w) = 0   -> "ECALL"
    [] Imm12(w) = 1   -> "EBREAK"
    [] Imm12(w) = 258 -> "SRET"
    [] Imm12(w) = 770 -> "MRET"
    [] OTHER          -> INV_OP

(* The SYSTEM case of parse_I. *)
PrivilegedOp(w) ==
  IF w.rd # 0 \/ w.rs1 # 0 \/ w.func3 # 0 THEN INV_OP
  ELSE CASE Imm12(w) = 0   -> "ECALL"
         [] Imm12(w) = 1   -> "EBREAK"
         [] Imm12(w) = 258 -> "SRET"
         [] Imm12(w) = 770 -> "MRET"
         [] OTHER          -> INV_OP

(* The rest of parse_I, for a cell without an operation.                   *)
UntabledOp(w) ==
  CASE w.opcode = MISC_MEM                    -> "FENCE"
    [] w.opcode = SYSTEM                      -> PrivilegedOp(w)
    [] w.opcode = OPP_IMM32 /\ w.func7 = 0     -> "SRLIW"
    [] w.opcode = OPP_IMM32 /\ w.func7 = 32    -> "SRAIW"
    [] OTHER                                  -> INV_OP

parse_I(w) ==
  LET operation == INSTR_WHO(w.opcode, w.func3) IN
  Instr(w.rd, w.rs1, 0, Imm12(w), IF operation # INV_OP THEN operation ELSE UntabledOp(w))

parse_S(w) ==
  Instr(0, w.rs1, w.rs2, w.rd + 32 * w.func7, INSTR_WHO(w.opcode, w.func3))

(* Mutant of parse_B: bit 7 of the word becomes bit 0 of the offset.       *)
parse_BPlain(w) ==
  LET imm12   == w.func7 \div 64
      imm5_10 == w.func7 % 64
  IN Instr(0, w.rs1, w.rs2, w.rd + 32 * imm5_10 + 4096 * imm12, INSTR_WHO(w.opcode, w.func3))

parse_B(w) ==
  LET imm12   == w.func7 \div 64
      imm5_10 == w.func7 % 64
      imm1_4  == w.rd \div 2
      imm11   == w.rd % 2
  IN Instr(0, w.rs1, w.rs2, 2 * imm1_4 + 32 * imm5_10 + 2048 * imm11 + 4096 * imm12,
           INSTR_WHO(w.opcode, w.func3))

(* Mutant of parse_J: the two single bits 20 and 11 change places.         *)
parse_JSwapped(w) ==
  LET bit20    == w.rs2 % 2
      bit1_10  == w.rs2 \div 2 + 16 * (w.func7 % 64)
      bit11    == w.func7 \div 64
      bit12_19 == w.func3 + 8 * w.rs1
  IN Instr(w.rd, 0, 0, 2 * bit1_10 + 2048 * bit11 + 4096 * bit12_19 + 1048576 * bit20,
           INSTR_WHO(w.opcode, w.func3))

parse_J(w) ==
  LET bit20    == w.func7 \div 64
      bit1_10  == w.rs2 \div 2 + 16 * (w.func7 % 64)
      bit11    == w.rs2 % 2
      bit12_19 == w.func3 + 8 * w.rs1
  IN Instr(w.rd, 0, 0, 2 * bit1_10 + 2048 * bit11 + 4096 * bit12_19 + 1048576 * bit20,
           INSTR_WHO(w.opcode, w.func3))

parse(w) ==
  CASE Format(w.opcode) = "R" -> parse_R(w)
    [] Format(w.opcode) = "I" -> parse_I(w)
    [] Format(w.opcode) = "S" -> parse_S(w)
    [] Format(w.opcode) = "B" -> parse_B(w)
    [] Format(w.opcode) = "U" -> parse_U(w)
    [] Format(w.opcode) = "J" -> parse_J(w)
    [] OTHER                  -> Instr(0, 0, 0, 0, INV_OP)

-----------------------------------------------------------------------------
(* util::SignExtend: `span' is 2^SignBits; inverting the sign bit of a     *)
(* number below span is adding half of it modulo span.                     *)
SignExtend(value, span) == (((value % span) + (span \div 2)) % span) - (span \div 2)

Branches == {"BEQ", "BNE", "BLT", "BGE", "BLTU", "BGEU"}

(* exec_JAL *)
JumpOffset(i) == SignExtend(i.immidiate, 1048576)

(* exec_LUI and exec_AUIPC take 20 bits, of which 8 are above 2^12.        *)
UpperImmediate(i) == i.immidiate % 256

(* exec_SLLI, exec_SRLI and exec_SRAI *)
ShiftAmount(i) == i.immidiate % 32

(* exec_CSRRW and the like *)
CSRNumber(i) == i.immidiate

(* All others: exec_ADDI, exec_BEQ, exec_LB, exec_SB, exec_ADDIW...        *)
Immediate12(i) == SignExtend(i.immidiate, 4096)

(* The immediate as the handler of the operation reads it.                 *)
Operand(i) ==
  CASE i.operation = "JAL"                      -> JumpOffset(i)
    [] i.operation \in {"LUI", "AUIPC"}         -> UpperImmediate(i)
    [] i.operation \in {"SLLI", "SRLI", "SRAI"} -> ShiftAmount(i)
    [] i.operation \in {"CSRRW", "CSRRS", "CSRRC", "CSRRWI", "CSRRSI", "CSRRCI"} -> CSRNumber(i)
    [] OTHER                                    -> Immediate12(i)

-----------------------------------------------------------------------------
DecoderInit == word \in Words /\ instr = NotParsed

(* One call of the decoder. *)
decode == instr' = parse(word) /\ UNCHANGED word

DecoderNext == decode

DecoderSpec == DecoderInit /\ [][DecoderNext]_decoderVars

Decoded == instr # NotParsed

-----------------------------------------------------------------------------
(* What the hart relies on for ANY word, code or not: a decoded block      *)
(* never contains the BB_END marker of the block cache, and the offsets    *)
(* that jumps and branches add to the program counter are even, so that    *)
(* the program counter stays even (parse_B, parse_J and the handlers).     *)
DecodesForHart ==
  /\ instr.operation # "BB_END"
  /\ instr.operation \in Branches \cup {"JAL"} => Operand(instr) % 2 = 0
=============================================================================
