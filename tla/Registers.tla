----------------------------- MODULE Registers -----------------------------
(***************************************************************************)
(* The arithmetic handlers of the hart (src/sim/hart.cpp) over the general *)
(* purpose registers (exec/gprf.hpp), in lockstep with the registers of a  *)
(* hart that follows the RISC-V ISA.                                       *)
(*                                                                         *)
(* Registers have XLEN bits and the W instructions work on the low WLEN of *)
(* them.  A shift by XLEN bits or more is undefined in C++: its result is  *)
(* one of those that processors give.                                      *)
(***************************************************************************)
EXTENDS Integers

CONSTANTS
  XLEN, WLEN,   (* code: 64 and 32                                         *)
  Regs,         (* general purpose registers, X0 = 0 among them            *)
  InitVals,     (* what the registers may hold at the start                *)
  Instrs        (* instructions of the program                             *)

Pow2[n \in Nat] == IF n = 0 THEN 1 ELSE 2 * Pow2[n - 1]

Values == 0 .. Pow2[XLEN] - 1

ImmOps     == {"ADDI", "SLTI", "SLTIU", "ORI", "ANDI", "XORI"}
ShiftOps   == {"SLLI", "SRLI", "SRAI"}
RegOps     == {"ADD", "SUB", "SLT", "SLTU", "OR", "AND", "XOR", "SLL", "SRL", "SRA"}
WordImmOps == {"ADDIW", "SLLIW", "SRLIW", "SRAIW"}
WordOps    == {"ADDW", "SUBW", "SLLW", "SRLW", "SRAW"}

(* The low half of a register tells its shift amount, as 32 bits tell the  *)
(* six lowest.  An immediate is sign extended; a shift amount is what was  *)
(* written.                                                                *)
ASSUME RegisterConstants ==
  /\ WLEN \in Nat \ {0} /\ XLEN = 2 * WLEN
  /\ Pow2[WLEN] % XLEN = 0
  /\ 0 \in Regs
  /\ InitVals \subseteq Values
  /\ \A i \in Instrs :
       /\ i.op \in ImmOps \cup ShiftOps \cup RegOps \cup WordImmOps \cup WordOps
       /\ {i.rd, i.rs1, i.rs2} \subseteq Regs
       /\ i.imm \in Int /\ -Pow2[XLEN - 1] <= i.imm /\ i.imm < Pow2[XLEN - 1]
       /\ i.op \in ShiftOps => i.imm \in 0 .. XLEN - 1
       /\ i.op \in WordImmOps \ {"ADDIW"} => i.imm \in 0 .. WLEN - 1

VARIABLES
  registers,  (* GPRF::registers_                                          *)
  isa,        (* the registers of the reference                            *)
  level       (* history: how far a register follows the reference         *)

regVars == <<registers, isa, level>>

-----------------------------------------------------------------------------
(* util::Signify, util::Unsignify and util::ExtractBits<.., 32>.           *)
Signify(v) == IF v < Pow2[XLEN - 1] THEN v ELSE v - Pow2[XLEN]

Unsignify(v) == v % Pow2[XLEN]

Low(v) == v % Pow2[WLEN]

Flag(b) == IF b THEN 1 ELSE 0

(* The operators of C++ that combine a and b bit by bit, t telling what    *)
(* becomes of two bits.                                                    *)
Bit(v, n) == (v \div Pow2[n]) % 2

Bitwise(t, a, b) ==
  LET sum[n \in Nat] ==
        IF n = 0 THEN 0
        ELSE sum[n - 1] + Pow2[n - 1] * t[Bit(a, n - 1)][Bit(b, n - 1)]
  IN  sum[XLEN]

And(a, b) == Bitwise([x \in {0, 1} |-> [y \in {0, 1} |-> x * y]], a, b)
Or(a, b)  == Bitwise([x \in {0, 1} |-> [y \in {0, 1} |-> x + y - x * y]], a, b)
Xor(a, b) == Bitwise([x \in {0, 1} |-> [y \in {0, 1} |-> IF x = y THEN 0 ELSE 1]], a, b)

(* How far a shift by n really goes: hosts take an amount that is too      *)
(* large modulo XLEN or shift all bits out.                                *)
Amounts(n) == IF n < XLEN THEN {n} ELSE {n % XLEN, XLEN}

Left(a, n) == {Unsignify(a * Pow2[m]) : m \in Amounts(n)}

Right(a, n) == {a \div Pow2[m] : m \in Amounts(n)}

(* Mutant of Arithmetic: the operand is not signified.                      *)
ArithmeticUnsigned(a, n) == Right(a, n)

Arithmetic(a, n) == {Unsignify(Signify(a) \div Pow2[m]) : m \in Amounts(n)}

(* GPRF::read and GPRF::write *)
GPRF_read(r) == IF r = 0 THEN 0 ELSE registers[r]

GPRF_write(r, v) == registers' = [registers EXCEPT ![r] = v]

(* Mutant of Sum: the result is not cut to the width of a register.        *)
SumUncut(a, b) == a + b

Sum(a, b) == Unsignify(a + b)

(* Mutant of Less: operands are compared without their signs.              *)
LessUnsigned(a, b) == Flag(a < b)

Less(a, b) == Flag(Signify(a) < Signify(b))

(* The results of the handlers from exec_ADDI to exec_SRAI and from        *)
(* exec_ADD to exec_SRA for the operands a and b, *)
Result64(op, a, b) ==
  CASE op \in {"ADDI", "ADD"}   -> {Sum(a, b)}
    [] op = "SUB"               -> {Unsignify(a - b)}
    [] op \in {"SLTI", "SLT"}   -> {Less(a, b)}
    [] op \in {"SLTIU", "SLTU"} -> {Flag(a < b)}
    [] op \in {"ORI", "OR"}     -> {Or(a, b)}
    [] op \in {"ANDI", "AND"}   -> {And(a, b)}
    [] op \in {"XORI", "XOR"}   -> {Xor(a, b)}
    [] op \in {"SLLI", "SLL"}   -> Left(a, b)
    [] op \in {"SRLI", "SRL"}   -> Right(a, b)
    [] op \in {"SRAI", "SRA"}   -> Arithmetic(a, b)

(* and from exec_ADDIW to exec_SRAW: whole registers are combined, and the *)
(* upper half of the result is cleared.                                    *)
Result32(op, a, b) ==
  LET whole == CASE op \in {"ADDIW", "ADDW"} -> {Sum(a, b)}
                 [] op = "SUBW"              -> {Unsignify(a - b)}
                 [] op \in {"SLLIW", "SLLW"} -> Left(a, b)
                 [] op \in {"SRLIW", "SRLW"} -> Right(a, b)
                 [] op \in {"SRAIW", "SRAW"} -> Arithmetic(a, b)
  IN  {Low(v) : v \in whole}

-----------------------------------------------------------------------------
(* The reference: shift amounts are taken modulo the width, and a word     *)
(* operation extends the sign of its result.                               *)
SignWord(v) ==
  LET w == Low(v) IN IF w < Pow2[WLEN - 1] THEN w ELSE w + Pow2[XLEN] - Pow2[WLEN]

Reference(op, a, b) ==
  LET n == b % XLEN
      m == b % WLEN
      w == Low(a)
  IN CASE op \in {"ADDI", "ADD"}   -> (a + b) % Pow2[XLEN]
       [] op = "SUB"               -> (a - b) % Pow2[XLEN]
       [] op \in {"SLTI", "SLT"}   -> Flag((a + Pow2[XLEN - 1]) % Pow2[XLEN]
                                             < (b + Pow2[XLEN - 1]) % Pow2[XLEN])
       [] op \in {"SLTIU", "SLTU"} -> Flag(a < b)
       [] op \in {"ORI", "OR"}     -> Or(a, b)
       [] op \in {"ANDI", "AND"}   -> And(a, b)
       [] op \in {"XORI", "XOR"}   -> Or(a, b) - And(a, b)
       [] op \in {"SLLI", "SLL"}   -> (a * Pow2[n]) % Pow2[XLEN]
       [] op \in {"SRLI", "SRL"}   -> a \div Pow2[n]
       [] op \in {"SRAI", "SRA"}   -> IF a < Pow2[XLEN - 1] THEN a \div Pow2[n]
                                      ELSE (a \div Pow2[n]) + Pow2[XLEN] - Pow2[XLEN - n]
       [] op \in {"ADDIW", "ADDW"} -> SignWord(a + b)
       [] op = "SUBW"              -> SignWord(a - b)
       [] op \in {"SLLIW", "SLLW"} -> SignWord(a * Pow2[m])
       [] op \in {"SRLIW", "SRLW"} -> SignWord(w \div Pow2[m])
       [] op \in {"SRAIW", "SRAW"} -> LET s == SignWord(a) IN
                                      IF s < Pow2[XLEN - 1] THEN s \div Pow2[m]
                                      ELSE (s \div Pow2[m]) + Pow2[XLEN] - Pow2[XLEN - m]

(* How far a result follows the reference: in all bits, in its low half or *)
(* not at all.                                                             *)
None  == 0
Half  == 1
Exact == 2

Weaker(l, k) == IF l < k THEN l ELSE k

(* With operands a and b of level l and k, where b is the shift amount     *)
(* that the handler uses and n the one in the instruction.                 *)
Level64(op, a, b, n, l, k) ==
  CASE op \in {"ADDI", "ADD", "SUB", "ORI", "OR", "ANDI", "AND", "XORI", "XOR"} -> Weaker(l, k)
    [] op \in {"SLTI", "SLTIU", "SLT", "SLTU"} -> IF Weaker(l, k) = Exact THEN Exact ELSE None
    [] op \in {"SLLI", "SLL"} -> IF b = n /\ b < XLEN THEN l ELSE None
    [] OTHER -> IF b = n /\ b < XLEN /\ l = Exact THEN Exact ELSE None

(* A word operation that is right in the low half is right altogether when *)
(* its result is not negative.  Right shifts pull the upper half of a down:*)
(* it must be zero, or the sign for the arithmetic ones.                   *)
Level32(op, a, b, res) ==
  LET right == CASE op \in {"ADDIW", "ADDW", "SUBW"} -> TRUE
                 [] op \in {"SLLIW", "SLLW"} -> b < WLEN
                 [] op \in {"SRLIW", "SRLW"} -> b < WLEN /\ (b = 0 \/ a = Low(a))
                 [] op \in {"SRAIW", "SRAW"} -> b < WLEN /\ (b = 0 \/ a = SignWord(a))
  IN  IF ~right THEN None ELSE IF res < Pow2[WLEN - 1] THEN Exact ELSE Half

-----------------------------------------------------------------------------
(* The reference follows with its own value, or starts again from that of  *)
(* the simulator where the instruction departs from the ISA; X0 stays zero.*)
Follow(rd, res, value, l) ==
  IF rd = 0 THEN UNCHANGED <<isa, level>>
  ELSE /\ isa' = [isa EXCEPT ![rd] = IF l = None THEN res ELSE value]
       /\ level' = [level EXCEPT ![rd] = IF l = None THEN Exact ELSE l]

exec_IMM(i) ==
  LET a == GPRF_read(i.rs1)
      b == Unsignify(i.imm)
  IN  /\ i.op \in ImmOps
      /\ \E res \in Result64(i.op, a, b) :
           /\ GPRF_write(i.rd, res)
           /\ Follow(i.rd, res, Reference(i.op, isa[i.rs1], b),
                     Level64(i.op, a, b, b, level[i.rs1], Exact))

(* The shift amount has 5 bits in the handlers and 6 in the instruction.   *)
ImmAmount(i) == i.imm % WLEN

exec_SHIFT(i) ==
  LET a == GPRF_read(i.rs1)
      b == ImmAmount(i)
  IN  /\ i.op \in ShiftOps
      /\ \E res \in Result64(i.op, a, b) :
           /\ GPRF_write(i.rd, res)
           /\ Follow(i.rd, res, Reference(i.op, isa[i.rs1], i.imm),
                     Level64(i.op, a, b, i.imm, level[i.rs1], Exact))

exec_REG(i) ==
  LET a == GPRF_read(i.rs1)
      b == GPRF_read(i.rs2)
  IN  /\ i.op \in RegOps
      /\ \E res \in Result64(i.op, a, b) :
           /\ GPRF_write(i.rd, res)
           /\ Follow(i.rd, res, Reference(i.op, isa[i.rs1], isa[i.rs2]),
                     Level64(i.op, a, b, b, level[i.rs1], level[i.rs2]))

(* exec_SLLIW, exec_SRLIW and exec_SRAIW shift by the whole immediate; in  *)
(* that of SRAIW bit 10 is set.                                            *)
WordImmediate(i) == IF i.op = "SRAIW" THEN i.imm + XLEN ELSE Unsignify(i.imm)

exec_WORDIMM(i) ==
  LET a == GPRF_read(i.rs1)
      b == WordImmediate(i)
  IN  /\ i.op \in WordImmOps
      /\ \E res \in Result32(i.op, a, b) :
           /\ GPRF_write(i.rd, res)
           /\ Follow(i.rd, res, Reference(i.op, isa[i.rs1], Unsignify(i.imm)),
                     Level32(i.op, a, b, res))

exec_WORD(i) ==
  LET a == GPRF_read(i.rs1)
      b == GPRF_read(i.rs2)
  IN  /\ i.op \in WordOps
      /\ \E res \in Result32(i.op, a, b) :
           /\ GPRF_write(i.rd, res)
           /\ Follow(i.rd, res, Reference(i.op, isa[i.rs1], isa[i.rs2]),
                     Level32(i.op, a, b, res))

(* No constructor initialises the general purpose registers. *)
RegInit ==
  /\ registers \in [Regs -> InitVals]
  /\ isa = [r \in Regs |-> IF r = 0 THEN 0 ELSE registers[r]]
  /\ level = [r \in Regs |-> Exact]

RegNext ==
  \E i \in Instrs :
    exec_IMM(i) \/ exec_SHIFT(i) \/ exec_REG(i) \/ exec_WORDIMM(i) \/ exec_WORD(i)

RegSpec == RegInit /\ [][RegNext]_regVars

-----------------------------------------------------------------------------
(* Type invariant. *)
RegTypeOK ==
  /\ registers \in [Regs -> Values]
  /\ isa \in [Regs -> Values]
  /\ level \in [Regs -> {Half, Exact}]

(* Along any program of arithmetic instructions the registers follow the   *)
(* ISA as far as their history promises: in all bits through the 64 bit    *)
(* instructions with shift amounts below 32, in the low half after a word  *)
(* instruction whose result is negative, and X0 reads as zero although     *)
(* handlers write to it.                                                   *)
FollowsISA ==
  \A r \in Regs :
    /\ level[r] = Exact => GPRF_read(r) = isa[r]
    /\ level[r] = Half => Low(GPRF_read(r)) = Low(isa[r])

(* The instruction without W, and a value all of whose bits are shifted    *)
(* out by it.                                                              *)
Wide(op) ==
  CASE op = "ADDIW" -> "ADDI" [] op = "ADDW" -> "ADD" [] op = "SUBW" -> "SUB"
    [] op = "SLLIW" -> "SLLI" [] op = "SLLW" -> "SLL"
    [] op = "SRLIW" -> "SRLI" [] op = "SRLW" -> "SRL"
    [] op = "SRAIW" -> "SRAI" [] op = "SRAW" -> "SRA"
    [] OTHER -> op

ShiftedOut(op, a) ==
  IF op \in {"SRAI", "SRA"} /\ a >= Pow2[XLEN - 1] THEN Pow2[XLEN] - 1 ELSE 0

(* What the handler of i would write now.                                  *)
Results(i) ==
  LET a == GPRF_read(i.rs1) IN
  CASE i.op \in ImmOps     -> Result64(i.op, a, Unsignify(i.imm))
    [] i.op \in ShiftOps   -> Result64(i.op, a, ImmAmount(i))
    [] i.op \in RegOps     -> Result64(i.op, a, GPRF_read(i.rs2))
    [] i.op \in WordImmOps -> Result32(i.op, a, WordImmediate(i))
    [] i.op \in WordOps    -> Result32(i.op, a, GPRF_read(i.rs2))

TooFar(i) ==
  \/ i.op = "SRAIW"
  \/ i.op \in {"SLL", "SRL", "SRA", "SLLW", "SRLW", "SRAW"} /\ GPRF_read(i.rs2) >= XLEN

(* Each instruction by itself departs from the ISA in these ways only: an  *)
(* immediate amount loses its sixth bit, an amount that reaches XLEN (that *)
(* of SRAIW always does) may shift everything out, and a W instruction     *)
(* leaves the low half of what the one without W gives for the registers.  *)
KnownDepartures ==
  \A i \in Instrs :
    LET op == Wide(i.op)
        a  == GPRF_read(i.rs1)
        b  == CASE i.op \in RegOps \cup WordOps -> GPRF_read(i.rs2)
                [] i.op \in ShiftOps            -> i.imm % WLEN
                [] OTHER                        -> Unsignify(i.imm)
    IN  \A res \in Results(i) :
          \E v \in {Reference(op, a, b)} \cup (IF TooFar(i) THEN {ShiftedOut(op, a)} ELSE {}) :
            res = IF i.op \in WordImmOps \cup WordOps THEN Low(v) ELSE v
=============================================================================
