------------------------------- MODULE MCHart -------------------------------
(***************************************************************************)
(* A small hart: 13 bit addresses, eight words of memory, blocks of up to  *)
(* two instructions in two sets of one way.  A memory word is the number   *)
(* of its decoded instruction in a table.                                  *)
(***************************************************************************)
EXTENDS Hart, Sequences
LOCAL INSTANCE Bitwise

I(op, rs1, imm) == [op |-> op, rs1 |-> rs1, imm |-> imm]

MCPCs == {a \in 0 .. 8191 : a % 2 = 0}

MCMapped == {0, 4, 8, 12, 16, 20, 24, 28}

(* Room for the vectors of all exceptions. *)
TrapMapped == {a \in 0 .. 47 : a % 4 = 0}

MCBitOr(a, b) == a | b

MCBitClear(a, b) == a - (a & b)

(* The image with the words w at addresses 0, 4, ...; the rest is `fill'.  *)
Image(w, fill) == [a \in Mapped |-> IF a \div 4 < Len(w) THEN w[a \div 4 + 1] ELSE fill]

-----------------------------------------------------------------------------
(* Traps, privilege changes and CSR instructions. *)
TrapTable == <<
  I("ADDI", 1, 0), I("ECALL", 0, 0), I("MRET", 0, 0), I("EBREAK", 0, 1),
  I("CSRRW", 1, MTVEC), I("CSRRW", 1, MSTATUS), I("CSRRW", 1, MEPC),
  I("INV_OP", 0, 0), I("PAUSE", 0, 0), I("SRET", 0, 0),
  I("CSRRS", 0, MHARTID), I("CSRRS", 1, MSTATUS), I("CSRRC", 1, MEPC),
  I("CSRRWI", 18, MTVEC), I("CSRRSI", 8, MSTATUS), I("CSRRCI", 8, MSTATUS),
  I("CSRRSI", 0, MHARTID), I("CSRRW", 1, MCAUSE), I("SW", 1, 0),
  I("JALR", 1, 2) >>

TrapInstrs == {TrapTable[i] : i \in 1 .. Len(TrapTable)}

TrapWords == 1 .. Len(TrapTable)

(* As mtvec: 1 (vectored at 0) and 16; as mstatus: MPP 1, MPP 2, and MPP 3 *)
(* with MPIE; as mepc: 1 is misaligned, 12 is where the guest goes on.     *)
TrapVals == {1, 12, 16, 2048, 4096, 6272}

TrapOperands == TrapVals \cup {0, 8, 18}

(* Boot code sets mtvec, mstatus or mepc and drops to a lower mode, where  *)
(* anything may follow, a jump to a halfword address included; a handler   *)
(* sits at address 16.  In the last program a vectored handler traps.      *)
TrapPrograms ==
  {Image(<<a, b, 3, c, d, e>>, 4) :
     a \in {5, 7}, b \in {6}, c \in TrapWords, d \in {1, 2}, e \in {1, 3, 19}}
  \cup {Image(<<5, 9, 1, 2>>, 3)}

-----------------------------------------------------------------------------
(* Jumps, loops, memory accesses and code that overwrites itself.          *)
CodeTable == <<
  I("ADDI", 1, 0), I("JAL", 0, 8), I("JALR", 1, 0), I("BEQ", 1, -4),
  I("SW", 1, 0), I("SD", 1, 0), I("LW", 1, 0), I("EBREAK", 0, 1),
  I("SB", 0, 3), I("LD", 1, 0) >>

CodeInstrs == {CodeTable[i] : i \in 1 .. Len(CodeTable)}

CodeWords == 1 .. Len(CodeTable)

(* Jumps go to 0, 8, a halfword address and past the memory; 4 is          *)
(* misaligned for LD and SD.                                               *)
CodeVals == {0, 1, 3, 4, 8, 32}

(* Each loops through JALR or BEQ; most store over themselves on the way.  *)
CodePrograms ==
  {Image(w, 8) : w \in {<<5, 3, 2>>, <<6, 4, 3>>, <<9, 7, 3>>, <<5, 10, 3>>, <<1, 3, 2>>}}

(* What may come back for a halfword address besides the word there.       *)
CodeGarbled == {CodeTable[3]}
=============================================================================
