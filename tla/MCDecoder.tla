----------------------------- MODULE MCDecoder -----------------------------
(***************************************************************************)
(* Statements of every format, with immediates at and around the places    *)
(* where an encoding splits them and at the ends of the range that the     *)
(* handlers can represent; and words with every opcode and func3 and, in   *)
(* the other fields, the values the decoder compares with, their           *)
(* neighbours, and single bits at the ends of the parts of an immediate.   *)
(***************************************************************************)
EXTENDS Assembled

Format12 == {-2048, -2047, -33, -32, -1, 0, 1, 31, 32, 33, 1023, 1024, 2046, 2047}

Offsets13 == {-2048, -2046, -34, -32, -2, 0, 2, 30, 32, 1024, 2046}

Offsets21 == {-524288, -4096, -2050, -2048, -32, -2, 0, 2, 30, 32, 2046, 2048, 4094, 4096,
              32768, 65536, 524286}

Regs == {0, 1, 21, 31}

Immediates(e) ==
  CASE e[2] \in {"R", "P"}                   -> {0}
    [] e[2] = "I" /\ e[3] = SYSTEM          -> {0, 1, 768, 773, 4095}
    [] e[2] \in {"I", "S"} /\ e[3] # SYSTEM -> Format12
    [] e[2] \in {"H", "W"}                  -> {0, 1, 16, 31}
    [] e[2] = "B"                           -> Offsets13
    [] e[2] = "J"                           -> Offsets21
    [] e[2] = "U"                           -> {0, 1, 8, 127, 255}

Only(ops, imm) == UNION {StatementsOf(e, Regs, imm) : e \in {x \in Encodings : x[1] \in ops}}

-----------------------------------------------------------------------------
(* Without SRLI, FENCE and SRAIW and without immediates beyond the         *)
(* handlers' reach.                                                        *)
NearStatements ==
  UNION {StatementsOf(e, Regs, Immediates(e)) :
           e \in {x \in Encodings : x[1] \notin {"SRLI", "FENCE", "SRAIW"}}}

(* All of them are in reach.                                               *)
ASSUME MCNearInReach == \A s \in NearStatements : InReach(s)

UpperStatements == Only({"LUI", "AUIPC"}, {255, 256})

SampledWords ==
  [func7 : {0, 1, 8, 24, 32, 64, 127}, rs2 : {0, 1, 2, 31}, rs1 : {0, 17}, func3 : 0 .. 7,
   rd : {0, 1, 26}, opcode : 0 .. 127]
=============================================================================
