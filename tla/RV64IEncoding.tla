--------------------------- MODULE RV64IEncoding ---------------------------
(***************************************************************************)
(* The encoding of RV64I as the assembler of the end-to-end tests writes   *)
(* it: external to the simulator, and the reference for its decoder.       *)
(* An assembler statement has the registers of its format (0 elsewhere)    *)
(* and the immediate the programmer wrote.                                 *)
(***************************************************************************)
EXTENDS Decoder

(* <<operation, format, opcode, func3, func7>>.  "I" has a 12 bit          *)
(* immediate, "H" a shift amount of 6 bits, "W" one of 5 bits; "P" is a    *)
(* privileged instruction, whose last component is its immediate.          *)
Encodings ==
  {<<"LUI", "U", 55, 0, 0>>, <<"AUIPC", "U", 23, 0, 0>>, <<"JAL", "J", 111, 0, 0>>,
   <<"JALR", "I", 103, 0, 0>>, <<"FENCE", "I", 15, 0, 0>>,
   <<"BEQ", "B", 99, 0, 0>>, <<"BNE", "B", 99, 1, 0>>, <<"BLT", "B", 99, 4, 0>>,
   <<"BGE", "B", 99, 5, 0>>, <<"BLTU", "B", 99, 6, 0>>, <<"BGEU", "B", 99, 7, 0>>,
   <<"LB", "I", 3, 0, 0>>, <<"LH", "I", 3, 1, 0>>, <<"LW", "I", 3, 2, 0>>, <<"LD", "I", 3, 3, 0>>,
   <<"LBU", "I", 3, 4, 0>>, <<"LHU", "I", 3, 5, 0>>, <<"LWU", "I", 3, 6, 0>>,
   <<"SB", "S", 35, 0, 0>>, <<"SH", "S", 35, 1, 0>>, <<"SW", "S", 35, 2, 0>>, <<"SD", "S", 35, 3, 0>>,
   <<"ADDI", "I", 19, 0, 0>>, <<"SLTI", "I", 19, 2, 0>>, <<"SLTIU", "I", 19, 3, 0>>,
   <<"XORI", "I", 19, 4, 0>>, <<"ORI", "I", 19, 6, 0>>, <<"ANDI", "I", 19, 7, 0>>,
   <<"SLLI", "H", 19, 1, 0>>, <<"SRLI", "H", 19, 5, 0>>, <<"SRAI", "H", 19, 5, 32>>,
   <<"ADD", "R", 51, 0, 0>>, <<"SUB", "R", 51, 0, 32>>, <<"SLL", "R", 51, 1, 0>>,
   <<"SLT", "R", 51, 2, 0>>, <<"SLTU", "R", 51, 3, 0>>, <<"XOR", "R", 51, 4, 0>>,
   <<"SRL", "R", 51, 5, 0>>, <<"SRA", "R", 51, 5, 32>>, <<"OR", "R", 51, 6, 0>>, <<"AND", "R", 51, 7, 0>>,
   <<"ADDIW", "I", 27, 0, 0>>, <<"SLLIW", "W", 27, 1, 0>>, <<"SRLIW", "W", 27, 5, 0>>,
   <<"SRAIW", "W", 27, 5, 32>>, <<"ADDW", "R", 59, 0, 0>>, <<"SUBW", "R", 59, 0, 32>>,
   <<"SLLW", "R", 59, 1, 0>>, <<"SRLW", "R", 59, 5, 0>>, <<"SRAW", "R", 59, 5, 32>>,
   <<"CSRRW", "I", 115, 1, 0>>, <<"CSRRS", "I", 115, 2, 0>>, <<"CSRRC", "I", 115, 3, 0>>,
   <<"CSRRWI", "I", 115, 5, 0>>, <<"CSRRSI", "I", 115, 6, 0>>, <<"CSRRCI", "I", 115, 7, 0>>,
   <<"ECALL", "P", 115, 0, 0>>, <<"EBREAK", "P", 115, 0, 1>>, <<"SRET", "P", 115, 0, 258>>,
   <<"MRET", "P", 115, 0, 770>>}

EncodingOf(op) == CHOOSE e \in Encodings : e[1] = op

(* The word of statement s. *)
Assemble(s) ==
  LET e == EncodingOf(s.operation)
      I == s.immidiate % 4096
      B == s.immidiate % 8192
      U == s.immidiate % 1048576
      J == s.immidiate % 2097152
      H == s.immidiate % 64
      Bits(f7, r2, r1, f3, d) ==
        [func7 |-> f7, rs2 |-> r2, rs1 |-> r1, func3 |-> f3, rd |-> d, opcode |-> e[3]]
  IN CASE e[2] = "R" -> Bits(e[5], s.rs2, s.rs1, e[4], s.rd)
       [] e[2] = "I" -> Bits(I \div 32, I % 32, s.rs1, e[4], s.rd)
       [] e[2] = "P" -> Bits(e[5] \div 32, e[5] % 32, 0, e[4], 0)
       [] e[2] = "H" -> Bits(e[5] + H \div 32, H % 32, s.rs1, e[4], s.rd)
       [] e[2] = "W" -> Bits(e[5], H % 32, s.rs1, e[4], s.rd)
       [] e[2] = "S" -> Bits(I \div 32, s.rs2, s.rs1, e[4], I % 32)
       [] e[2] = "B" -> Bits(64 * (B \div 4096) + ((B \div 32) % 64), s.rs2, s.rs1, e[4],
                             2 * ((B \div 2) % 16) + ((B \div 2048) % 2))
       [] e[2] = "U" -> Bits(U \div 8192, (U \div 256) % 32, (U \div 8) % 32, U % 8, s.rd)
       [] e[2] = "J" -> Bits(64 * (J \div 1048576) + ((J \div 32) % 64),
                             2 * ((J \div 2) % 16) + ((J \div 2048) % 2),
                             (J \div 32768) % 32, (J \div 4096) % 8, s.rd)

-----------------------------------------------------------------------------
(* Apart from FENCE and the shifts by an immediate, whose func7 and func3  *)
(* the decoder does not look at, a word is decoded to an operation only if *)
(* it is the encoding of that operation with those registers and that      *)
(* immediate; every other word is left to exec_INV_OP (parse and INSTR_WHO *)
(* against the tests that expect INV_OP).                                  *)
Lenient == {"FENCE", "PAUSE", "SLLI", "SRLI", "SRAI", "SLLIW", "SRLIW", "SRAIW"}

AcceptsOnlyEncodings ==
  Decoded /\ instr.operation \notin Lenient \cup {INV_OP} => Assemble(instr) = word
=============================================================================
