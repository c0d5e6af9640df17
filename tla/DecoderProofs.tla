--------------------------- MODULE DecoderProofs ---------------------------
(***************************************************************************)
(* The decoder on all 2^32 words, not only on the sampled ones of          *)
(* MCDecoder: what the hart relies on, what is accepted, and what becomes  *)
(* of a statement between the assembler and the handler.                   *)
(***************************************************************************)
EXTENDS Assembled, TLAPS

(* No cell of a row has the marker or, outside its own row, a branch.      *)
LEMMA RowOps ==
  ASSUME NEW o \in 0 .. 127, NEW f \in 0 .. 7
  PROVE  /\ INSTR_WHO(o, f) # "BB_END"
         /\ INSTR_WHO(o, f) \in Branches => o = BRANCH
         /\ INSTR_WHO(o, f) = "JAL" => o = JAL
<1> DEFINE opcodes == {LOAD, MISC_MEM, OP_IMM, OPP_IMM32, STORE, BRANCH, JALR, SYSTEM}
<1>1. f \in {0, 1, 2, 3, 4, 5, 6, 7}
  OBVIOUS
<1>2. CASE o \in {AUIPC, LUI, JAL}
  BY <1>2 DEF INSTR_WHO, AUIPC, LUI, JAL, Branches
<1>3. CASE o \notin {AUIPC, LUI, JAL}
  <2>1. INSTR_WHO(o, f) = IF f < Len(Row(o)) THEN Row(o)[f + 1] ELSE INV_OP
    BY <1>3 DEF INSTR_WHO
  <2>2. CASE o = LOAD
    BY <1>1, <2>1, <2>2 DEF Row, LOAD, Branches, INV_OP
  <2>3. CASE o = MISC_MEM
    BY <1>1, <2>1, <2>3 DEF Row, LOAD, MISC_MEM, Branches, INV_OP
  <2>4. CASE o = OP_IMM
    BY <1>1, <2>1, <2>4 DEF Row, LOAD, MISC_MEM, OP_IMM, Branches, INV_OP
  <2>5. CASE o = OPP_IMM32
    BY <1>1, <2>1, <2>5 DEF Row, LOAD, MISC_MEM, OP_IMM, OPP_IMM32, Branches, INV_OP
  <2>6. CASE o = STORE
    BY <1>1, <2>1, <2>6 DEF Row, LOAD, MISC_MEM, OP_IMM, OPP_IMM32, STORE, Branches, INV_OP
  <2>7. CASE o = BRANCH
    BY <1>1, <2>1, <2>7
    DEF Row, LOAD, MISC_MEM, OP_IMM, OPP_IMM32, STORE, BRANCH, Branches, INV_OP
  <2>8. CASE o = JALR
    BY <1>1, <2>1, <2>8
    DEF Row, LOAD, MISC_MEM, OP_IMM, OPP_IMM32, STORE, BRANCH, JALR, Branches, INV_OP
  <2>9. CASE o = SYSTEM
    BY <1>1, <2>1, <2>9
    DEF Row, LOAD, MISC_MEM, OP_IMM, OPP_IMM32, STORE, BRANCH, JALR, SYSTEM, Branches, INV_OP
  <2>10. CASE o \notin opcodes
    BY <1>1, <2>1, <2>10 DEF Row, Branches, INV_OP
  <2> QED
    BY <2>2, <2>3, <2>4, <2>5, <2>6, <2>7, <2>8, <2>9, <2>10
<1> QED
  BY <1>2, <1>3

(* parse_R and the untabled cells of parse_I have neither.                 *)
LEMMA OtherOps ==
  ASSUME NEW w \in AllWords
  PROVE  /\ Func10(w) \notin Branches \cup {"JAL", "BB_END"}
         /\ UntabledOp(w) \notin Branches \cup {"JAL", "BB_END"}
<1>1. w.func3 \in {0, 1, 2, 3, 4, 5, 6, 7}
  BY DEF AllWords
<1>2. Func10(w) \notin Branches \cup {"JAL", "BB_END"}
  BY <1>1 DEF Func10, Branches, INV_OP
<1>3. UntabledOp(w) \notin Branches \cup {"JAL", "BB_END"}
  BY DEF UntabledOp, PrivilegedOp, Branches, INV_OP
<1> QED
  BY <1>2, <1>3

(* SignExtend keeps the parity of an offset that fits its handler or not.  *)
LEMMA EvenSignExtend ==
  ASSUME NEW n \in Nat
  PROVE  /\ SignExtend(2 * n, 4096) % 2 = 0
         /\ SignExtend(2 * n, 1048576) % 2 = 0
BY SMT DEF SignExtend

(* The parts into which the offsets cut a field.                           *)
LEMMA FieldParts ==
  ASSUME NEW n \in Nat
  PROVE  /\ n % 2 \in Nat /\ n \div 2 \in Nat
         /\ n % 64 \in Nat /\ n \div 64 \in Nat
<1>1. n % 2 \in Nat /\ n % 64 \in Nat
  OBVIOUS
<1>2. n \div 2 \in Nat
  OBVIOUS
<1>3. n \div 64 \in Nat
  OBVIOUS
<1> QED
  BY <1>1, <1>2, <1>3

(* The offset of a branch and of a jump is twice a natural number.         *)
LEMMA EvenOffset ==
  ASSUME NEW w \in AllWords
  PROVE  /\ \E n \in Nat : parse_B(w).immidiate = 2 * n
         /\ \E n \in Nat : parse_J(w).immidiate = 2 * n
<1>1. /\ w.func7 \in 0 .. 127 /\ w.rs2 \in 0 .. 31 /\ w.rs1 \in 0 .. 31
      /\ w.func3 \in 0 .. 7 /\ w.rd \in 0 .. 31
  BY DEF AllWords
<1>2. \E n \in Nat : parse_B(w).immidiate = 2 * n
  <2> DEFINE p == w.rd \div 2
             q == w.func7 % 64
             r == w.rd % 2
             s == w.func7 \div 64
             half == p + 16 * q + 1024 * r + 2048 * s
  <2>1. p \in Nat /\ q \in Nat /\ r \in Nat /\ s \in Nat
    BY <1>1, FieldParts
  <2>2. parse_B(w).immidiate = 2 * p + 32 * q + 2048 * r + 4096 * s
    BY SMT DEF parse_B, Instr
  <2> HIDE DEF p, q, r, s
  <2>3. half \in Nat /\ parse_B(w).immidiate = 2 * half
    BY <2>1, <2>2, SMT
  <2> QED
    BY <2>3, SMT
<1>3. \E n \in Nat : parse_J(w).immidiate = 2 * n
  <2> DEFINE low  == (w.rs2 \div 2) + 16 * (w.func7 % 64)
             high == w.func3 + 8 * w.rs1
             half == low + 1024 * (w.rs2 % 2) + 2048 * high + 524288 * (w.func7 \div 64)
  <2>1. /\ low \in Nat /\ high \in Nat
        /\ w.rs2 % 2 \in Nat /\ w.func7 \div 64 \in Nat
    <3>1. /\ w.rs2 \div 2 \in Nat /\ w.rs2 % 2 \in Nat
          /\ w.func7 % 64 \in Nat /\ w.func7 \div 64 \in Nat
      BY <1>1, FieldParts
    <3> QED
      BY <1>1, <3>1, SMT
  <2>2. parse_J(w).immidiate =
          2 * low + 2048 * (w.rs2 % 2) + 4096 * high + 1048576 * (w.func7 \div 64)
    BY SMT DEF parse_J, Instr
  <2> HIDE DEF low, high
  <2>3. half \in Nat /\ parse_J(w).immidiate = 2 * half
    BY <2>1, <2>2, SMT
  <2> QED
    BY <2>3, SMT
<1> QED
  BY <1>2, <1>3

(* Every word is decoded to something the hart can rely on.                *)
LEMMA ParseForHart ==
  ASSUME NEW w \in AllWords
  PROVE  /\ parse(w).operation # "BB_END"
         /\ parse(w).operation \in Branches \cup {"JAL"} => Operand(parse(w)) % 2 = 0
<1> DEFINE op == INSTR_WHO(w.opcode, w.func3)
<1>1. w.opcode \in 0 .. 127 /\ w.func3 \in 0 .. 7
  BY DEF AllWords
<1>2. /\ op # "BB_END"
      /\ op \in Branches => w.opcode = BRANCH
      /\ op = "JAL" => w.opcode = JAL
  BY <1>1, RowOps
<1>3. CASE Format(w.opcode) = "R"
  <2>1. parse(w).operation = Func10(w)
    BY <1>3, SMT DEF parse, parse_R, Instr
  <2> QED
    BY <2>1, OtherOps
<1>4. CASE Format(w.opcode) = "I"
  <2>1. parse(w).operation \in {op, UntabledOp(w)}
    BY <1>4, SMT DEF parse, parse_I, Instr
  <2>2. w.opcode # BRANCH /\ w.opcode # JAL
    BY <1>4, SMT DEF Format, LOAD, MISC_MEM, OP_IMM, OPP_IMM32, JALR, SYSTEM, BRANCH, JAL
  <2> QED
    BY <1>2, <2>1, <2>2, OtherOps
<1>5. CASE Format(w.opcode) \in {"S", "U"}
  <2>1. parse(w).operation = op
    BY <1>5, SMT DEF parse, parse_S, parse_U, Instr
  <2>2. w.opcode # BRANCH /\ w.opcode # JAL
    BY <1>5, SMT DEF Format, LOAD, MISC_MEM, OP_IMM, OPP_IMM32, JALR, SYSTEM, OP, OP32, AUIPC,
                     LUI, STORE, BRANCH, JAL
  <2> QED
    BY <1>2, <2>1, <2>2
<1>6. CASE Format(w.opcode) = "B"
  <2>1. parse(w) = parse_B(w) /\ parse(w).operation = op
    BY <1>6, SMT DEF parse, parse_B, Instr
  <2>2. w.opcode # JAL
    BY <1>6, SMT DEF Format, LOAD, MISC_MEM, OP_IMM, OPP_IMM32, JALR, SYSTEM, OP, OP32, AUIPC,
                     LUI, STORE, BRANCH, JAL
  <2>3. ASSUME op \in Branches
        PROVE  Operand(parse(w)) = SignExtend(parse(w).immidiate, 4096)
    BY <2>1, <2>3, SMT DEF Operand, Immediate12, Branches
  <2>4. PICK n \in Nat : parse(w).immidiate = 2 * n
    BY <2>1, EvenOffset
  <2>5. SignExtend(parse(w).immidiate, 4096) % 2 = 0
    BY <2>4, EvenSignExtend, SMT
  <2> QED
    BY <1>2, <2>1, <2>2, <2>3, <2>5, SMT
<1>7. CASE Format(w.opcode) = "J"
  <2>1. parse(w) = parse_J(w) /\ parse(w).operation = op
    BY <1>7, SMT DEF parse, parse_J, Instr
  <2>2. w.opcode = JAL
    BY <1>7, SMT DEF Format
  <2>3. op = "JAL"
    BY <2>2, SMT DEF INSTR_WHO, AUIPC, LUI, JAL
  <2>4. Operand(parse(w)) = SignExtend(parse(w).immidiate, 1048576)
    BY <2>1, <2>3, SMT DEF Operand, JumpOffset
  <2>5. PICK n \in Nat : parse(w).immidiate = 2 * n
    BY <2>1, EvenOffset
  <2>6. SignExtend(parse(w).immidiate, 1048576) % 2 = 0
    BY <2>5, EvenSignExtend, SMT
  <2> QED
    BY <2>1, <2>3, <2>4, <2>6, SMT
<1>8. CASE Format(w.opcode) = "ILLEGAL"
  <2>1. parse(w).operation = INV_OP
    BY <1>8, SMT DEF parse, Instr
  <2> QED
    BY <2>1, SMT DEF INV_OP, Branches
<1>9. Format(w.opcode) \in {"R", "I", "S", "U", "B", "J", "ILLEGAL"}
  BY SMT DEF Format
<1> QED
  BY <1>3, <1>4, <1>5, <1>6, <1>7, <1>8, <1>9

(* Whatever words the hart comes across, code or data, their decoding      *)
(* never forges the BB_END marker of a basic block and never moves the     *)
(* program counter to an odd address (Decoder::parse, exec_JAL and the     *)
(* branch handlers).                                                       *)
THEOREM DecoderForHart == DecoderSpec => []DecodesForHart
<1> DEFINE Inv == /\ word \in AllWords
                  /\ instr = NotParsed \/ instr = parse(word)
<1>1. DecoderInit => Inv
  BY DecoderConstants DEF DecoderInit
<1>2. Inv /\ [DecoderNext]_decoderVars => Inv'
  BY DEF DecoderNext, decode, decoderVars
<1>3. Inv => DecodesForHart
  <2>1. ASSUME instr = NotParsed
        PROVE  DecodesForHart
    BY <2>1, SMT DEF DecodesForHart, NotParsed, Instr, Branches
  <2>2. ASSUME word \in AllWords, instr = parse(word)
        PROVE  DecodesForHart
    BY <2>2, ParseForHart DEF DecodesForHart
  <2> QED
    BY <2>1, <2>2
<1> QED
  BY <1>1, <1>2, <1>3, PTL DEF DecoderSpec

-----------------------------------------------------------------------------
(* How an immediate is cut into fields of the word by the assembler (a     *)
(* number to its fields) and put together by the decoder (Imm...).         *)

High12(n) == (n % 4096) \div 32
Low12(n)  == (n % 4096) % 32
Imm12Of(q, r) == r + 32 * q

BranchFunc7(n) == 64 * ((n % 8192) \div 4096) + (((n % 8192) \div 32) % 64)
BranchRd(n)    == 2 * (((n % 8192) \div 2) % 16) + (((n % 8192) \div 2048) % 2)
BranchImm(q, r) == 2 * (r \div 2) + 32 * (q % 64) + 2048 * (r % 2) + 4096 * (q \div 64)

UpperFunc7(n) == (n % 1048576) \div 8192
UpperRs2(n)   == ((n % 1048576) \div 256) % 32
UpperRs1(n)   == ((n % 1048576) \div 8) % 32
UpperFunc3(n) == (n % 1048576) % 8
UpperImm(q, r, s, t) == t + 8 * s + 256 * r + 8192 * q

JumpFunc7(n) == 64 * ((n % 2097152) \div 1048576) + (((n % 2097152) \div 32) % 64)
JumpRs2(n)   == 2 * (((n % 2097152) \div 2) % 16) + (((n % 2097152) \div 2048) % 2)
JumpRs1(n)   == ((n % 2097152) \div 32768) % 32
JumpFunc3(n) == ((n % 2097152) \div 4096) % 8
JumpImm(q, r, s, t) ==
  2 * ((r \div 2) + 16 * (q % 64)) + 2048 * (r % 2) + 4096 * (t + 8 * s) + 1048576 * (q \div 64)

(* Branch and jump offsets by the parts into which the fields are halved.  *)
BranchOffsetOf(a, b, c, d) == 2 * a + 32 * d + 2048 * b + 4096 * c

JumpOffsetOf(a, b, c, d, s, t) ==
  2 * (a + 16 * d) + 2048 * b + 4096 * (t + 8 * s) + 1048576 * c

(* The ranges of func7, rs2 (or rd), rs1 and func3.                        *)
TwoFields(q, r) == q \in 0 .. 127 /\ r \in 0 .. 31
Fields(q, r, s, t) == q \in 0 .. 127 /\ r \in 0 .. 31 /\ s \in 0 .. 31 /\ t \in 0 .. 7

(* The spans of a branch and of a jump offset.                             *)
BranchSpan == 8192
JumpSpan == 2097152

(* a, b, c and d (and the fields s and t) are the parts of offset n.       *)
BranchParts(n, a, b, c, d) ==
  /\ a \in 0 .. 15 /\ b \in 0 .. 1 /\ c \in 0 .. 1 /\ d \in 0 .. 63 /\ n \in Int
  /\ n % BranchSpan = BranchOffsetOf(a, b, c, d)

JumpParts(n, a, b, c, d, s, t) ==
  /\ a \in 0 .. 15 /\ b \in 0 .. 1 /\ c \in 0 .. 1 /\ d \in 0 .. 63 /\ n \in Int
  /\ s \in 0 .. 31 /\ t \in 0 .. 7
  /\ n % JumpSpan = JumpOffsetOf(a, b, c, d, s, t)

(* Quotient and remainder are the numbers with their defining property.    *)
LEMMA Cut ==
  ASSUME NEW k \in Nat \ {0}, NEW x \in Int, NEW q \in Int, NEW r \in 0 .. k - 1, x = k * q + r
  PROVE  x \div k = q /\ x % k = r
<1> DEFINE g == x \div k
           h == x % k
<1>1. g \in Int /\ h \in 0 .. k - 1 /\ x = k * g + h
  OBVIOUS
<1> HIDE DEF g, h
<1>2. k * q \in Int /\ k * g \in Int /\ k * (g - q) = k * g - k * q
  BY <1>1
<1>3. -k < k * (g - q) /\ k * (g - q) < k
  BY <1>1, <1>2
<1>4. g = q
  <2>1. CASE g - q >= 1
    <3>1. k * (g - q) >= k * 1
      BY <1>1, <2>1
    <3> QED
      BY <1>1, <1>3, <3>1
  <2>2. CASE g - q <= -1
    <3>1. k * (g - q) <= k * (-1)
      BY <1>1, <2>2
    <3> QED
      BY <1>1, <1>3, <3>1
  <2> QED
    BY <1>1, <2>1, <2>2
<1> QED
  BY <1>1, <1>2, <1>4 DEF g, h

(* The halves of func7 and of rd or rs2, at which an offset cuts them.     *)
LEMMA Halves ==
  ASSUME NEW q \in 0 .. 127, NEW r \in 0 .. 31
  PROVE  /\ q \div 64 \in 0 .. 1 /\ q % 64 \in 0 .. 63 /\ q = 64 * (q \div 64) + (q % 64)
         /\ r \div 2 \in 0 .. 15 /\ r % 2 \in 0 .. 1 /\ r = 2 * (r \div 2) + (r % 2)
  BY SMT

(* Fields put together from halves have these halves.                      *)
LEMMA Rejoined ==
  ASSUME NEW a \in 0 .. 15, NEW b \in 0 .. 1, NEW c \in 0 .. 1, NEW d \in 0 .. 63
  PROVE  /\ (64 * c + d) \div 64 = c /\ (64 * c + d) % 64 = d
         /\ (2 * a + b) \div 2 = a /\ (2 * a + b) % 2 = b
  BY SMT

(* The fields of a branch offset, from its parts...                        *)
LEMMA Parts13 ==
  ASSUME NEW n, NEW a, NEW b, NEW c, NEW d, BranchParts(n, a, b, c, d)
  PROVE  BranchFunc7(n) = 64 * c + d /\ BranchRd(n) = 2 * a + b
<1> DEFINE B == n % 8192
<1>1. /\ a \in 0 .. 15 /\ b \in 0 .. 1 /\ c \in 0 .. 1 /\ d \in 0 .. 63
      /\ B = 2 * a + 32 * d + 2048 * b + 4096 * c
  BY SMT DEF BranchParts, BranchSpan, BranchOffsetOf
<1> HIDE DEF B
<1>2. /\ B \div 4096 = c /\ (B \div 32) % 64 = d
      /\ (B \div 2) % 16 = a /\ (B \div 2048) % 2 = b
  BY <1>1, SMT
<1> QED
  BY <1>2, SMT DEF BranchFunc7, BranchRd, B

(* ... which every even offset has.                                        *)
LEMMA PartsOf13 ==
  ASSUME NEW n \in Int, n % 2 = 0
  PROVE  \E a, b, c, d : BranchParts(n, a, b, c, d)
<1> DEFINE B == n % BranchSpan
           h == B \div 2
           c == h \div 2048
           x == h % 2048
           b == x \div 1024
           y == x % 1024
           d == y \div 16
           a == y % 16
<1>0. B \in Nat /\ B < 8192 /\ B % 2 = 0
  BY SMT DEF BranchSpan
<1> HIDE DEF B
<1>1. h \in Nat /\ h < 4096 /\ B = 2 * h
  BY <1>0, SMT
<1> HIDE DEF h
<1>2. c \in 0 .. 1 /\ x \in 0 .. 2047 /\ h = 2048 * c + x
  BY <1>1, SMT
<1> HIDE DEF c, x
<1>3. b \in 0 .. 1 /\ y \in 0 .. 1023 /\ x = 1024 * b + y
  BY <1>2, SMT
<1> HIDE DEF b, y
<1>4. d \in 0 .. 63 /\ a \in 0 .. 15 /\ y = 16 * d + a
  BY <1>3, SMT
<1> HIDE DEF d, a
<1>5. B = BranchOffsetOf(a, b, c, d)
  BY <1>1, <1>2, <1>3, <1>4, SMT DEF BranchOffsetOf
<1>6. BranchParts(n, a, b, c, d)
  BY <1>2, <1>3, <1>4, <1>5, SMT DEF BranchParts, B
<1> QED
  BY <1>6, Zenon

(* The fields of a jump offset, from its parts...                          *)
LEMMA Parts21 ==
  ASSUME NEW n, NEW a, NEW b, NEW c, NEW d, NEW s, NEW t, JumpParts(n, a, b, c, d, s, t)
  PROVE  /\ JumpFunc7(n) = 64 * c + d /\ JumpRs2(n) = 2 * a + b
         /\ JumpRs1(n) = s /\ JumpFunc3(n) = t
<1> DEFINE J == n % 2097152
<1>0. /\ a \in 0 .. 15 /\ b \in 0 .. 1 /\ c \in 0 .. 1 /\ d \in 0 .. 63
      /\ s \in 0 .. 31 /\ t \in 0 .. 7
  BY SMT DEF JumpParts
<1>1. J = 2 * (a + 16 * d) + 2048 * b + 4096 * (t + 8 * s) + 1048576 * c
  BY SMT DEF JumpParts, JumpSpan, JumpOffsetOf
<1> HIDE DEF J
<1>2. J \div 1048576 = c
  <2>1. J = 1048576 * c + (2 * (a + 16 * d) + 2048 * b + 4096 * (t + 8 * s))
    BY <1>0, <1>1, SMT
  <2> QED
    BY <1>0, <2>1, Cut, SMT
<1>3. (J \div 32) % 64 = d
  <2> DEFINE u == b + 2 * (t + 8 * s) + 512 * c
  <2>0. u \in Int
    BY <1>0, SMT
  <2>1. J = 32 * (d + 64 * u) + 2 * a
    BY <1>0, <1>1, SMT
  <2> HIDE DEF u
  <2>2. J \div 32 = 64 * u + d
    BY <1>0, <2>0, <2>1, Cut, SMT
  <2> QED
    BY <1>0, <2>0, <2>2, Cut, SMT
<1>4. (J \div 2) % 16 = a
  <2> DEFINE u == d + 64 * b + 128 * (t + 8 * s) + 32768 * c
  <2>0. u \in Int
    BY <1>0, SMT
  <2>1. J = 2 * (a + 16 * u) + 0
    BY <1>0, <1>1, SMT
  <2> HIDE DEF u
  <2>2. J \div 2 = 16 * u + a
    BY <1>0, <2>0, <2>1, Cut, SMT
  <2> QED
    BY <1>0, <2>0, <2>2, Cut, SMT
<1>5. (J \div 2048) % 2 = b
  <2> DEFINE u == t + 8 * s + 256 * c
  <2>0. u \in Int
    BY <1>0, SMT
  <2>1. J = 2048 * (b + 2 * u) + 2 * (a + 16 * d)
    BY <1>0, <1>1, SMT
  <2> HIDE DEF u
  <2>2. J \div 2048 = 2 * u + b
    BY <1>0, <2>0, <2>1, Cut, SMT
  <2> QED
    BY <1>0, <2>0, <2>2, Cut, SMT
<1>6. (J \div 32768) % 32 = s
  <2>1. J = 32768 * (s + 32 * c) + (2 * (a + 16 * d) + 2048 * b + 4096 * t)
    BY <1>0, <1>1, SMT
  <2>2. J \div 32768 = 32 * c + s
    BY <1>0, <2>1, Cut, SMT
  <2> QED
    BY <1>0, <2>2, Cut, SMT
<1>7. (J \div 4096) % 8 = t
  <2> DEFINE u == s + 32 * c
  <2>0. u \in Int
    BY <1>0, SMT
  <2>1. J = 4096 * (t + 8 * u) + (2 * (a + 16 * d) + 2048 * b)
    BY <1>0, <1>1, SMT
  <2> HIDE DEF u
  <2>2. J \div 4096 = 8 * u + t
    BY <1>0, <2>0, <2>1, Cut, SMT
  <2> QED
    BY <1>0, <2>0, <2>2, Cut, SMT
<1> QED
  BY <1>2, <1>3, <1>4, <1>5, <1>6, <1>7, SMT DEF JumpFunc7, JumpRs2, JumpRs1, JumpFunc3, J

(* ... which every even offset has.                                        *)
LEMMA PartsOf21 ==
  ASSUME NEW n \in Int, n % 2 = 0
  PROVE  \E a, b, c, d, s, t : JumpParts(n, a, b, c, d, s, t)
<1> DEFINE J == n % JumpSpan
           h == J \div 2
           x == h \div 2048
           y == h % 2048
           c == x \div 256
           m == x % 256
           s == m \div 8
           t == m % 8
           b == y \div 1024
           z == y % 1024
           d == z \div 16
           a == z % 16
<1>0. J \in Nat /\ J < 2097152 /\ J % 2 = 0
  BY SMT DEF JumpSpan
<1> HIDE DEF J
<1>1. h \in Nat /\ J = 2 * h /\ h < 1048576
  BY <1>0, SMT
<1> HIDE DEF h
<1>2. x \in 0 .. 511 /\ y \in 0 .. 2047 /\ h = 2048 * x + y
  BY <1>1, SMT
<1> HIDE DEF x, y
<1>3. c \in 0 .. 1 /\ m \in 0 .. 255 /\ x = 256 * c + m
  BY <1>2, SMT
<1> HIDE DEF c, m
<1>4. s \in 0 .. 31 /\ t \in 0 .. 7 /\ m = 8 * s + t
  BY <1>3, SMT
<1> HIDE DEF s, t
<1>5. b \in 0 .. 1 /\ z \in 0 .. 1023 /\ y = 1024 * b + z
  BY <1>2, SMT
<1> HIDE DEF b, z
<1>6. d \in 0 .. 63 /\ a \in 0 .. 15 /\ z = 16 * d + a
  BY <1>5, SMT
<1> HIDE DEF d, a
<1>7. J = JumpOffsetOf(a, b, c, d, s, t)
  <2>1. x = t + 8 * s + 256 * c
    BY <1>3, <1>4, SMT
  <2>2. y = a + 16 * d + 1024 * b
    BY <1>5, <1>6, SMT
  <2>3. J = 2 * h /\ h = 2048 * x + y
    BY <1>1, <1>2, SMT
  <2>4. a \in Int /\ b \in Int /\ c \in Int /\ d \in Int /\ s \in Int /\ t \in Int
    BY <1>3, <1>4, <1>5, <1>6, SMT
  <2> QED
    BY <2>1, <2>2, <2>3, <2>4, SMT DEF JumpOffsetOf
<1>8. JumpParts(n, a, b, c, d, s, t)
  BY <1>3, <1>4, <1>5, <1>6, <1>7, SMT DEF JumpParts, J
<1> QED
  BY <1>8, Zenon


-----------------------------------------------------------------------------
(* What the decoder puts together, the assembler cuts into the same        *)
(* fields: parse_I, parse_S and their formats.                             *)
LEMMA Cuts12 ==
  ASSUME NEW q, NEW r, TwoFields(q, r)
  PROVE  High12(Imm12Of(q, r)) = q /\ Low12(Imm12Of(q, r)) = r
BY SMT DEF High12, Low12, Imm12Of, TwoFields

(* parse_B and the branch format.                                          *)
LEMMA CutsBranch ==
  ASSUME NEW q, NEW r, TwoFields(q, r)
  PROVE  BranchFunc7(BranchImm(q, r)) = q /\ BranchRd(BranchImm(q, r)) = r
<1> DEFINE a == r \div 2
           b == r % 2
           c == q \div 64
           d == q % 64
           B == BranchImm(q, r)
<1>1. /\ a \in 0 .. 15 /\ b \in 0 .. 1 /\ c \in 0 .. 1 /\ d \in 0 .. 63
      /\ q = 64 * c + d /\ r = 2 * a + b
  BY Halves DEF TwoFields
<1>2. B = BranchOffsetOf(a, b, c, d)
  BY SMT DEF BranchImm, BranchOffsetOf
<1> HIDE DEF a, b, c, d, B
<1>3. BranchParts(B, a, b, c, d)
  BY <1>1, <1>2, SMT DEF BranchParts, BranchOffsetOf, BranchSpan
<1>4. BranchFunc7(B) = q /\ BranchRd(B) = r
  BY <1>1, <1>3, Parts13, SMT
<1> QED
  BY <1>4 DEF B

(* parse_U and the upper format.                                           *)
LEMMA CutsUpper ==
  ASSUME NEW q, NEW r, NEW s, NEW t, Fields(q, r, s, t)
  PROVE  /\ UpperFunc7(UpperImm(q, r, s, t)) = q /\ UpperRs2(UpperImm(q, r, s, t)) = r
         /\ UpperRs1(UpperImm(q, r, s, t)) = s /\ UpperFunc3(UpperImm(q, r, s, t)) = t
<1> USE DEF Fields
<1> DEFINE U == UpperImm(q, r, s, t)
<1>0. U = t + 8 * s + 256 * r + 8192 * q
  BY DEF UpperImm
<1> HIDE DEF U
<1>1. U % 1048576 = U
  BY <1>0, SMT
<1>2. U \div 8192 = q
  <2>1. U = 8192 * q + (t + 8 * s + 256 * r)
    BY <1>0, SMT
  <2> QED
    BY <2>1, Cut, SMT
<1>3. (U \div 256) % 32 = r
  <2>1. U = 256 * (32 * q + r) + (t + 8 * s)
    BY <1>0, SMT
  <2>2. U \div 256 = 32 * q + r
    BY <2>1, Cut, SMT
  <2> QED
    BY <2>2, Cut, SMT
<1>4. (U \div 8) % 32 = s /\ U % 8 = t
  <2> DEFINE u == r + 32 * q
  <2>1. U = 8 * (32 * u + s) + t
    BY <1>0, SMT
  <2>2. U \div 8 = 32 * u + s /\ U % 8 = t
    BY <2>1, Cut, SMT
  <2> QED
    BY <2>2, Cut, SMT
<1> QED
  BY <1>1, <1>2, <1>3, <1>4, SMT DEF UpperFunc7, UpperRs2, UpperRs1, UpperFunc3, U

(* parse_J and the jump format.                                            *)
LEMMA CutsJump ==
  ASSUME NEW q, NEW r, NEW s, NEW t, Fields(q, r, s, t)
  PROVE  /\ JumpFunc7(JumpImm(q, r, s, t)) = q /\ JumpRs2(JumpImm(q, r, s, t)) = r
         /\ JumpRs1(JumpImm(q, r, s, t)) = s /\ JumpFunc3(JumpImm(q, r, s, t)) = t
<1>0. q \in 0 .. 127 /\ r \in 0 .. 31 /\ s \in 0 .. 31 /\ t \in 0 .. 7
  BY DEF Fields
<1> DEFINE a == r \div 2
           b == r % 2
           c == q \div 64
           d == q % 64
           J == JumpImm(q, r, s, t)
<1>1. /\ a \in 0 .. 15 /\ b \in 0 .. 1 /\ c \in 0 .. 1 /\ d \in 0 .. 63
      /\ q = 64 * c + d /\ r = 2 * a + b
  BY <1>0, Halves
<1>2. J = JumpOffsetOf(a, b, c, d, s, t)
  BY SMT DEF JumpImm, JumpOffsetOf
<1> HIDE DEF a, b, c, d, J
<1>3. JumpParts(J, a, b, c, d, s, t)
  BY <1>0, <1>1, <1>2, SMT DEF JumpParts, JumpOffsetOf, JumpSpan
<1>4. JumpFunc7(J) = q /\ JumpRs2(J) = r /\ JumpRs1(J) = s /\ JumpFunc3(J) = t
  BY <1>1, <1>3, Parts21, SMT
<1> QED
  BY <1>4 DEF J

-----------------------------------------------------------------------------
(* What the assembler cuts, the decoder puts together again, up to the     *)
(* sign: the formats of parse_I and parse_S.                               *)
LEMMA Joins12 ==
  ASSUME NEW n \in Int
  PROVE  /\ High12(n) \in 0 .. 127 /\ Low12(n) \in 0 .. 31
         /\ Imm12Of(High12(n), Low12(n)) = n % 4096
BY SMT DEF High12, Low12, Imm12Of

(* The branch format and parse_B.                                          *)
LEMMA JoinsBranch ==
  ASSUME NEW n \in Int, n % 2 = 0
  PROVE  BranchImm(BranchFunc7(n), BranchRd(n)) = n % BranchSpan
<1>1. PICK a, b, c, d : BranchParts(n, a, b, c, d)
  BY PartsOf13, Zenon
<1>2. BranchFunc7(n) = 64 * c + d /\ BranchRd(n) = 2 * a + b
  BY <1>1, Parts13, SMT
<1>3. /\ (64 * c + d) \div 64 = c /\ (64 * c + d) % 64 = d
      /\ (2 * a + b) \div 2 = a /\ (2 * a + b) % 2 = b
  BY <1>1, Rejoined DEF BranchParts
<1>4. BranchImm(64 * c + d, 2 * a + b) = BranchOffsetOf(a, b, c, d)
  BY <1>1, <1>3, SMT DEF BranchImm, BranchParts, BranchOffsetOf
<1> QED
  BY <1>1, <1>2, <1>4 DEF BranchParts

(* The jump format and parse_J.                                            *)
LEMMA JoinsJump ==
  ASSUME NEW n \in Int, n % 2 = 0
  PROVE  JumpImm(JumpFunc7(n), JumpRs2(n), JumpRs1(n), JumpFunc3(n)) = n % JumpSpan
<1>1. PICK a, b, c, d, s, t : JumpParts(n, a, b, c, d, s, t)
  BY PartsOf21, Zenon
<1>2. /\ JumpFunc7(n) = 64 * c + d /\ JumpRs2(n) = 2 * a + b
      /\ JumpRs1(n) = s /\ JumpFunc3(n) = t
  BY <1>1, Parts21, SMT
<1>3. /\ (64 * c + d) \div 64 = c /\ (64 * c + d) % 64 = d
      /\ (2 * a + b) \div 2 = a /\ (2 * a + b) % 2 = b
  BY <1>1, Rejoined DEF JumpParts
<1>4. JumpImm(64 * c + d, 2 * a + b, s, t) = JumpOffsetOf(a, b, c, d, s, t)
  BY <1>1, <1>3, SMT DEF JumpImm, JumpParts, JumpOffsetOf
<1> QED
  BY <1>1, <1>2, <1>4 DEF JumpParts

(* The bounds of a two's complement field.                                 *)
LEMMA InSigned ==
  ASSUME NEW h \in Nat, NEW n \in Signed(h)
  PROVE  n \in Int /\ -h <= n /\ n < h
BY SMT DEF Signed

(* The handlers restore the sign of loads, stores, branches and the like.  *)
LEMMA SignExtend12 ==
  ASSUME NEW n \in Signed(2048)
  PROVE  /\ SignExtend(n % 4096, 4096) = n
         /\ SignExtend(n % BranchSpan, 4096) = n
BY SMT DEF SignExtend, Signed, BranchSpan

(* exec_JAL restores the sign of an offset of 20 bits.                     *)
LEMMA SignExtend20 ==
  ASSUME NEW n \in Signed(524288)
  PROVE  SignExtend(n % JumpSpan, 1048576) = n
<1> DEFINE m == n % JumpSpan
           u == m % 1048576
           v == (u + 524288) % 1048576
<1>1. n \in Int /\ -524288 <= n /\ n < 524288
  BY InSigned, SMT
<1>2. m = IF n >= 0 THEN n ELSE n + 2097152
  BY <1>1, SMT DEF JumpSpan
<1> HIDE DEF m
<1>3. u = IF n >= 0 THEN n ELSE n + 1048576
  BY <1>1, <1>2, SMT
<1> HIDE DEF u
<1>4. v = n + 524288
  BY <1>1, <1>3, SMT
<1> QED
  BY <1>1, <1>4, SMT DEF m, u, v, SignExtend

(* exec_LUI and exec_AUIPC restore immediates of 8 bits.                   *)
LEMMA UpperInReach ==
  ASSUME NEW n \in 0 .. 255
  PROVE  UpperImm(UpperFunc7(n), UpperRs2(n), UpperRs1(n), UpperFunc3(n)) % 256 = n
<1>1. n % 1048576 = n /\ n \div 8192 = 0 /\ n \div 256 = 0
  BY SMT
<1>2. UpperFunc7(n) = 0 /\ UpperRs2(n) = 0
  BY <1>1, SMT DEF UpperFunc7, UpperRs2
<1>3. UpperRs1(n) = n \div 8 /\ UpperFunc3(n) = n % 8
  BY <1>1, SMT DEF UpperRs1, UpperFunc3
<1> QED
  BY <1>2, <1>3, SMT DEF UpperImm

(* The shift handlers restore amounts below 32.                            *)
LEMMA ShiftInReach ==
  ASSUME NEW n \in 0 .. 31
  PROVE  /\ (n % 64) \div 32 = 0 /\ (n % 64) % 32 = n
         /\ Imm12Of(0, n) = n /\ n % 32 = n /\ Imm12Of(32, n) % 32 = n
         /\ SignExtend(n, 4096) = n
BY SMT DEF SignExtend, Imm12Of

(* The operation determines its encoding.                                  *)
LEMMA EncodingIs ==
  ASSUME NEW e \in Encodings
  PROVE  EncodingOf(e[1]) = e
<1>1. ASSUME NEW f \in Encodings, f[1] = e[1] PROVE f = e
  BY <1>1, SMTT(30) DEF Encodings
<1> QED
  BY <1>1 DEF EncodingOf

Word(f7, r2, r1, f3, d, o) ==
  [func7 |-> f7, rs2 |-> r2, rs1 |-> r1, func3 |-> f3, rd |-> d, opcode |-> o]

(* The word of a statement, format by format.                              *)
LEMMA AssembledWord ==
  ASSUME NEW e \in Encodings, NEW s, s.operation = e[1]
  PROVE  LET n == s.immidiate
         IN  /\ e[2] = "R" => Assemble(s) = Word(e[5], s.rs2, s.rs1, e[4], s.rd, e[3])
             /\ e[2] = "I" => Assemble(s) = Word(High12(n), Low12(n), s.rs1, e[4], s.rd, e[3])
             /\ e[2] = "P" => Assemble(s) = Word(e[5] \div 32, e[5] % 32, 0, e[4], 0, e[3])
             /\ e[2] = "H" => Assemble(s) = Word(e[5] + ((n % 64) \div 32), (n % 64) % 32, s.rs1,
                                                 e[4], s.rd, e[3])
             /\ e[2] = "W" => Assemble(s) = Word(e[5], (n % 64) % 32, s.rs1, e[4], s.rd, e[3])
             /\ e[2] = "S" => Assemble(s) = Word(High12(n), s.rs2, s.rs1, e[4], Low12(n), e[3])
             /\ e[2] = "B" => Assemble(s) =
                  Word(BranchFunc7(n), s.rs2, s.rs1, e[4], BranchRd(n), e[3])
             /\ e[2] = "U" => Assemble(s) =
                  Word(UpperFunc7(n), UpperRs2(n), UpperRs1(n), UpperFunc3(n), s.rd, e[3])
             /\ e[2] = "J" => Assemble(s) =
                  Word(JumpFunc7(n), JumpRs2(n), JumpRs1(n), JumpFunc3(n), s.rd, e[3])
<1>1. EncodingOf(s.operation) = e
  BY EncodingIs, SMT
<1> QED
  BY <1>1, SMT DEF Assemble, Word, High12, Low12, BranchFunc7, BranchRd, UpperFunc7, UpperRs2,
                   UpperRs1, UpperFunc3, JumpFunc7, JumpRs2, JumpRs1, JumpFunc3

(* INSTR_WHO decodes the encodings of all formats but "R" and "P".         *)
LEMMA TabledEncodings ==
  ASSUME NEW e \in Encodings, e[1] \notin {"SRLI", "FENCE", "SRAIW", "SRLIW"},
         e[2] \in {"I", "H", "W", "S", "B", "U", "J"}, NEW f, f = e[4] \/ e[2] \in {"U", "J"}
  PROVE  /\ e[1] # INV_OP /\ INSTR_WHO(e[3], f) = e[1]
         /\ Format(e[3]) = IF e[2] \in {"H", "W"} THEN "I" ELSE e[2]
<1> USE DEF LOAD, MISC_MEM, OP_IMM, OPP_IMM32, STORE, BRANCH, JALR, SYSTEM, AUIPC, LUI, JAL,
            OP, OP32, INV_OP
<1>1. CASE e[2] \in {"U", "J"}
  BY <1>1, SMT DEF Encodings, INSTR_WHO, Format
<1>2. CASE e[2] \in {"S", "B"}
  <2>1. CASE e[3] = STORE
    BY <1>2, <2>1, SMT DEF Encodings, INSTR_WHO, Format, Row
  <2>2. CASE e[3] = BRANCH
    BY <1>2, <2>2, SMT DEF Encodings, INSTR_WHO, Format, Row
  <2>3. e[3] \in {STORE, BRANCH}
    BY <1>2, SMT DEF Encodings
  <2> QED
    BY <2>1, <2>2, <2>3
<1>3. CASE e[2] \in {"H", "W"}
  <2>1. e \in {<<"SLLI", "H", 19, 1, 0>>, <<"SRAI", "H", 19, 5, 32>>, <<"SLLIW", "W", 27, 1, 0>>}
    BY <1>3, SMT DEF Encodings
  <2>2. CASE e[3] = OP_IMM
    BY <1>3, <2>1, <2>2, SMT DEF INSTR_WHO, Format, Row
  <2>3. CASE e[3] = OPP_IMM32
    BY <1>3, <2>1, <2>3, SMT DEF INSTR_WHO, Format, Row
  <2> QED
    BY <2>1, <2>2, <2>3
<1>4. CASE e[2] = "I"
  <2>1. CASE e[3] = LOAD
    BY <1>4, <2>1, SMT DEF Encodings, INSTR_WHO, Format, Row
  <2>2. CASE e[3] = OP_IMM
    BY <1>4, <2>2, SMT DEF Encodings, INSTR_WHO, Format, Row
  <2>3. CASE e[3] = SYSTEM
    BY <1>4, <2>3, SMT DEF Encodings, INSTR_WHO, Format, Row
  <2>4. CASE e[3] \in {OPP_IMM32, JALR}
    <3>1. e \in {<<"ADDIW", "I", 27, 0, 0>>, <<"JALR", "I", 103, 0, 0>>}
      BY <1>4, <2>4, SMT DEF Encodings
    <3>2. CASE e[3] = OPP_IMM32
      BY <1>4, <3>1, <3>2, SMT DEF INSTR_WHO, Format, Row
    <3>3. CASE e[3] = JALR
      BY <1>4, <3>1, <3>3, SMT DEF INSTR_WHO, Format, Row
    <3> QED
      BY <2>4, <3>2, <3>3
  <2>5. e[3] \in {LOAD, OP_IMM, SYSTEM, OPP_IMM32, JALR}
    BY <1>4, SMT DEF Encodings
  <2> QED
    BY <2>1, <2>2, <2>3, <2>4, <2>5
<1>5. e[2] \in {"U", "J"} \/ e[2] \in {"S", "B"} \/ e[2] \in {"H", "W"} \/ e[2] = "I"
  OBVIOUS
<1> QED
  BY <1>1, <1>2, <1>3, <1>4, <1>5

(* parse_R decodes the encodings of format "R".                            *)
LEMMA RegisterEncodings ==
  ASSUME NEW e \in Encodings, e[2] = "R", NEW w, w.opcode = e[3], w.func3 = e[4], w.func7 = e[5]
  PROVE  Format(e[3]) = "R" /\ Func10(w) = e[1]
  BY SMT DEF Encodings, Func10, Format, OP, OP32, LOAD, MISC_MEM, OP_IMM, OPP_IMM32, JALR,
             SYSTEM, STORE, BRANCH, JAL, AUIPC, LUI, INV_OP

(* The encodings of format "P".                                            *)
LEMMA PrivilegedEncodings ==
  ASSUME NEW e \in Encodings, e[2] = "P"
  PROVE  /\ e[3] = SYSTEM /\ e[4] = 0 
         /\ <<e[1], e[5]>> \in {<<"ECALL", 0>>, <<"EBREAK", 1>>, <<"SRET", 258>>, <<"MRET", 770>>}
  BY SMT DEF Encodings, SYSTEM

(* A cell of INSTR_WHO is an encoding, lenient or INV_OP.                  *)
LEMMA TabledCells ==
  ASSUME NEW o \in 0 .. 127, NEW f \in 0 .. 7, INSTR_WHO(o, f) \notin Lenient \cup {INV_OP}
  PROVE  <<INSTR_WHO(o, f), Format(o), o, IF o \in {AUIPC, LUI, JAL} THEN 0 ELSE f, 0>>
           \in Encodings
<1> DEFINE opcodes == {LOAD, MISC_MEM, OP_IMM, OPP_IMM32, STORE, BRANCH, JALR, SYSTEM}
<1> USE DEF LOAD, MISC_MEM, OP_IMM, OPP_IMM32, STORE, BRANCH, JALR, SYSTEM, AUIPC, LUI, JAL,
            OP, OP32, INV_OP, Lenient, Encodings
<1>1. f \in {0, 1, 2, 3, 4, 5, 6, 7}
  OBVIOUS
<1>2. CASE o \in {AUIPC, LUI, JAL}
  BY <1>2 DEF INSTR_WHO, Format
<1>3. CASE o \notin {AUIPC, LUI, JAL}
  <2>1. INSTR_WHO(o, f) = IF f < Len(Row(o)) THEN Row(o)[f + 1] ELSE INV_OP
    BY <1>3 DEF INSTR_WHO
  <2>2. CASE o = LOAD
    BY <1>1, <2>1, <2>2 DEF Row, Format
  <2>3. CASE o = MISC_MEM
    BY <1>1, <2>1, <2>3 DEF Row
  <2>4. CASE o = OP_IMM
    BY <1>1, <2>1, <2>4 DEF Row, Format
  <2>5. CASE o = OPP_IMM32
    BY <1>1, <2>1, <2>5 DEF Row, Format
  <2>6. CASE o = STORE
    BY <1>1, <2>1, <2>6 DEF Row, Format
  <2>7. CASE o = BRANCH
    BY <1>1, <2>1, <2>7 DEF Row, Format
  <2>8. CASE o = JALR
    BY <1>1, <2>1, <2>8 DEF Row, Format
  <2>9. CASE o = SYSTEM
    BY <1>1, <2>1, <2>9 DEF Row, Format
  <2>10. CASE o \notin opcodes
    <3>1. Row(o) = <<>>
      BY <2>10, SMT DEF Row
    <3> QED
      BY <1>1, <2>1, <3>1
  <2> QED
    BY <2>2, <2>3, <2>4, <2>5, <2>6, <2>7, <2>8, <2>9, <2>10
<1> QED
  BY <1>2, <1>3

(* So are the cells of parse_R...                                          *)
LEMMA RegisterCells ==
  ASSUME NEW w \in AllWords, w.opcode \in {OP, OP32}, Func10(w) # INV_OP
  PROVE  <<Func10(w), "R", w.opcode, w.func3, w.func7>> \in Encodings
<1>1. w.func3 \in {0, 1, 2, 3, 4, 5, 6, 7}
  BY DEF AllWords
<1> QED
  BY <1>1 DEF Func10, OP, OP32, INV_OP, Encodings

(* ... and the privileged instructions of parse_I.                         *)
LEMMA PrivilegedCells ==
  ASSUME NEW w \in AllWords, PrivilegedOp(w) # INV_OP
  PROVE  /\ w.rd = 0 /\ w.rs1 = 0 /\ w.func3 = 0
         /\ <<PrivilegedOp(w), "P", SYSTEM, 0, Imm12(w)>> \in Encodings
  BY DEF PrivilegedOp, INV_OP, SYSTEM, Encodings

(* A word is its six fields.                                               *)
LEMMA WordIs ==
  ASSUME NEW w \in AllWords
  PROVE  /\ w = Word(w.func7, w.rs2, w.rs1, w.func3, w.rd, w.opcode)
         /\ w.func7 \in 0 .. 127 /\ w.rs2 \in 0 .. 31 /\ w.rs1 \in 0 .. 31
         /\ w.func3 \in 0 .. 7 /\ w.rd \in 0 .. 31 /\ w.opcode \in 0 .. 127
         /\ TwoFields(w.func7, w.rs2) /\ TwoFields(w.func7, w.rd)
         /\ Fields(w.func7, w.rs2, w.rs1, w.func3)
BY SMT DEF AllWords, Word, TwoFields, Fields

(* The opcodes of a format.                                                *)
LEMMA Formats ==
  ASSUME NEW o
  PROVE  /\ Format(o) \in {"R", "I", "S", "U", "B", "J", "ILLEGAL"}
         /\ Format(o) = "R" <=> o \in {OP, OP32}
         /\ Format(o) = "U" <=> o \in {AUIPC, LUI}
         /\ Format(o) = "J" <=> o = JAL
         /\ Format(o) = "S" <=> o = STORE
         /\ Format(o) = "B" <=> o = BRANCH
BY SMT DEF Format, LOAD, MISC_MEM, OP_IMM, OPP_IMM32, JALR, SYSTEM, OP, OP32, AUIPC, LUI,
           STORE, BRANCH, JAL

(* The cell of a word that has neither an upper immediate nor a jump.      *)
LEMMA TabledWord ==
  ASSUME NEW w \in AllWords, INSTR_WHO(w.opcode, w.func3) \notin Lenient \cup {INV_OP},
         Format(w.opcode) \notin {"U", "J"}
  PROVE  <<INSTR_WHO(w.opcode, w.func3), Format(w.opcode), w.opcode, w.func3, 0>> \in Encodings
<1>1. w.opcode \notin {AUIPC, LUI, JAL}
  BY Formats
<1> QED
  BY <1>1, WordIs, TabledCells

(* parse, format by format.                                                *)
LEMMA Parsed ==
  ASSUME NEW w
  PROVE  LET op == INSTR_WHO(w.opcode, w.func3)
             f  == Format(w.opcode)
         IN  /\ f = "R" => parse(w) = Instr(w.rd, w.rs1, w.rs2, IMMIDIATE_POISON, Func10(w))
             /\ f = "I" => parse(w) = Instr(w.rd, w.rs1, 0, Imm12Of(w.func7, w.rs2),
                                            IF op # INV_OP THEN op ELSE UntabledOp(w))
             /\ f = "S" => parse(w) = Instr(0, w.rs1, w.rs2, Imm12Of(w.func7, w.rd), op)
             /\ f = "B" => parse(w) = Instr(0, w.rs1, w.rs2, BranchImm(w.func7, w.rd), op)
             /\ f = "U" => parse(w) =
                  Instr(w.rd, 0, 0, UpperImm(w.func7, w.rs2, w.rs1, w.func3), op)
             /\ f = "J" => parse(w) =
                  Instr(w.rd, 0, 0, JumpImm(w.func7, w.rs2, w.rs1, w.func3), op)
             /\ f = "ILLEGAL" => parse(w) = Instr(0, 0, 0, 0, INV_OP)
BY SMT DEF parse, parse_R, parse_I, parse_S, parse_B, parse_U, parse_J, Imm12, Imm12Of, BranchImm,
           UpperImm, JumpImm

(* What is put into an instruction is read from it.                        *)
LEMMA InstrIs ==
  ASSUME NEW d, NEW r1, NEW r2, NEW n, NEW op
  PROVE  /\ Instr(d, r1, r2, n, op).rd = d /\ Instr(d, r1, r2, n, op).rs1 = r1
         /\ Instr(d, r1, r2, n, op).rs2 = r2 /\ Instr(d, r1, r2, n, op).immidiate = n
         /\ Instr(d, r1, r2, n, op).operation = op
BY DEF Instr

(* What is accepted is an encoding, format by format.                      *)
LEMMA ParseAccepts ==
  ASSUME NEW w \in AllWords, parse(w).operation \notin Lenient \cup {INV_OP}
  PROVE  Assemble(parse(w)) = w
<1> DEFINE i  == parse(w)
           op == INSTR_WHO(w.opcode, w.func3)
<1>1. CASE Format(w.opcode) = "R"
  <2> DEFINE e == <<Func10(w), "R", w.opcode, w.func3, w.func7>>
  <2>1. i.operation = Func10(w) /\ i.rd = w.rd /\ i.rs1 = w.rs1 /\ i.rs2 = w.rs2
    BY <1>1, Parsed, InstrIs
  <2>2. e \in Encodings
    BY <1>1, <2>1, Formats, RegisterCells
  <2>3. Assemble(i) = Word(w.func7, w.rs2, w.rs1, w.func3, w.rd, w.opcode)
    BY <2>1, <2>2, AssembledWord
  <2> QED
    BY <2>3, WordIs
<1>2. CASE Format(w.opcode) = "I"
  <2>1. /\ i.operation = IF op # INV_OP THEN op ELSE UntabledOp(w)
        /\ i.rd = w.rd /\ i.rs1 = w.rs1 /\ i.immidiate = Imm12Of(w.func7, w.rs2)
    BY <1>2, Parsed, InstrIs
  <2>2. High12(i.immidiate) = w.func7 /\ Low12(i.immidiate) = w.rs2
    BY <2>1, Cuts12, WordIs
  <2>3. CASE op # INV_OP
    <3> DEFINE e == <<op, "I", w.opcode, w.func3, 0>>
    <3>1. e \in Encodings
      BY <1>2, <2>1, <2>3, TabledWord
    <3>2. Assemble(i) = Word(High12(i.immidiate), Low12(i.immidiate), i.rs1, w.func3,
                             i.rd, w.opcode)
      BY <2>1, <2>3, <3>1, AssembledWord
    <3> QED
      BY <2>1, <2>2, <3>2, WordIs
  <2>4. CASE op = INV_OP
    <3>1. w.opcode = SYSTEM /\ i.operation = PrivilegedOp(w) /\ PrivilegedOp(w) # INV_OP
      BY <2>1, <2>4 DEF UntabledOp, Lenient
    <3> DEFINE e == <<PrivilegedOp(w), "P", SYSTEM, 0, Imm12(w)>>
    <3>2. e \in Encodings /\ w.rd = 0 /\ w.rs1 = 0 /\ w.func3 = 0
      BY <3>1, PrivilegedCells
    <3>3. Assemble(i) = Word(Imm12(w) \div 32, Imm12(w) % 32, 0, 0, 0, SYSTEM)
      BY <3>1, <3>2, AssembledWord
    <3>4. Imm12(w) \div 32 = w.func7 /\ Imm12(w) % 32 = w.rs2
      <4> DEFINE q == w.func7
                 r == w.rs2
      <4>1. q \in 0 .. 127 /\ r \in 0 .. 31 /\ Imm12(w) = r + 32 * q
        BY WordIs DEF Imm12
      <4> HIDE DEF q, r
      <4>2. Imm12(w) \div 32 = q /\ Imm12(w) % 32 = r
        BY <4>1, SMT
      <4> QED
        BY <4>2 DEF q, r
    <3> QED
      BY <3>1, <3>2, <3>3, <3>4, WordIs
  <2> QED
    BY <2>3, <2>4
<1>3. CASE Format(w.opcode) = "S"
  <2> DEFINE e == <<op, "S", w.opcode, w.func3, 0>>
  <2>1. /\ i.operation = op
        /\ i.rs1 = w.rs1 /\ i.rs2 = w.rs2 /\ i.immidiate = Imm12Of(w.func7, w.rd)
    BY <1>3, Parsed, InstrIs
  <2>2. e \in Encodings
    BY <1>3, <2>1, TabledWord
  <2>3. Assemble(i) = Word(High12(i.immidiate), i.rs2, i.rs1, w.func3, Low12(i.immidiate), w.opcode)
    BY <2>1, <2>2, AssembledWord
  <2> QED
    BY <2>1, <2>3, Cuts12, WordIs
<1>4. CASE Format(w.opcode) = "B"
  <2> DEFINE e == <<op, "B", w.opcode, w.func3, 0>>
  <2>1. /\ i.operation = op
        /\ i.rs1 = w.rs1 /\ i.rs2 = w.rs2 /\ i.immidiate = BranchImm(w.func7, w.rd)
    BY <1>4, Parsed, InstrIs
  <2>2. e \in Encodings
    BY <1>4, <2>1, TabledWord
  <2>3. Assemble(i) = Word(BranchFunc7(i.immidiate), i.rs2, i.rs1, w.func3,
                           BranchRd(i.immidiate), w.opcode)
    BY <2>1, <2>2, AssembledWord
  <2> QED
    BY <2>1, <2>3, CutsBranch, WordIs
<1>5. CASE Format(w.opcode) \in {"U", "J"}
  <2> DEFINE e == <<op, Format(w.opcode), w.opcode, 0, 0>>
             n == i.immidiate
  <2>1. i.operation = op /\ i.rd = w.rd
    BY <1>5, Parsed, InstrIs
  <2>2. e \in Encodings
    <3>1. w.opcode \in {AUIPC, LUI, JAL} /\ op \notin Lenient \cup {INV_OP}
      BY <1>5, <2>1, Formats
    <3>2. <<op, Format(w.opcode), w.opcode,
            IF w.opcode \in {AUIPC, LUI, JAL} THEN 0 ELSE w.func3, 0>> \in Encodings
      BY <3>1, TabledCells, WordIs
    <3> QED
      BY <3>1, <3>2
  <2>3. CASE Format(w.opcode) = "U"
    <3>1. n = UpperImm(w.func7, w.rs2, w.rs1, w.func3)
      BY <2>3, Parsed, InstrIs
    <3>2. Assemble(i) = Word(UpperFunc7(n), UpperRs2(n), UpperRs1(n), UpperFunc3(n), i.rd, w.opcode)
      BY <2>1, <2>2, <2>3, AssembledWord
    <3>3. /\ UpperFunc7(n) = w.func7 /\ UpperRs2(n) = w.rs2
          /\ UpperRs1(n) = w.rs1 /\ UpperFunc3(n) = w.func3
      BY <3>1, CutsUpper, WordIs
    <3> QED
      BY <2>1, <3>2, <3>3, WordIs
  <2>4. CASE Format(w.opcode) = "J"
    <3>1. n = JumpImm(w.func7, w.rs2, w.rs1, w.func3)
      BY <2>4, Parsed, InstrIs
    <3>2. Assemble(i) = Word(JumpFunc7(n), JumpRs2(n), JumpRs1(n), JumpFunc3(n), i.rd, w.opcode)
      BY <2>1, <2>2, <2>4, AssembledWord
    <3>3. /\ JumpFunc7(n) = w.func7 /\ JumpRs2(n) = w.rs2
          /\ JumpRs1(n) = w.rs1 /\ JumpFunc3(n) = w.func3
      BY <3>1, CutsJump, WordIs
    <3> QED
      BY <2>1, <3>2, <3>3, WordIs
  <2> QED
    BY <1>5, <2>3, <2>4
<1>6. CASE Format(w.opcode) = "ILLEGAL"
  BY <1>6, Parsed, InstrIs
<1> QED
  BY <1>1, <1>2, <1>3, <1>4, <1>5, <1>6, Formats

(* The fields of a word put together.                                      *)
LEMMA WordFields ==
  ASSUME NEW f7, NEW r2, NEW r1, NEW f3, NEW d, NEW o
  PROVE  LET w == Word(f7, r2, r1, f3, d, o)
         IN  w.func7 = f7 /\ w.rs2 = r2 /\ w.rs1 = r1 /\ w.func3 = f3 /\ w.rd = d /\ w.opcode = o
BY DEF Word

(* A statement in reach has the registers of its format and an immediate   *)
(* in reach.                                                               *)
LEMMA Written ==
  ASSUME NEW s, InReach(s)
  PROVE  \E e \in Encodings :
           /\ e[1] \notin {"SRLI", "FENCE", "SRAIW"} /\ s.operation = e[1]
           /\ e[2] \in {"S", "B", "P"} => s.rd = 0
           /\ e[2] \in {"U", "J", "P"} => s.rs1 = 0
           /\ e[2] \notin {"R", "S", "B"} => s.rs2 = 0
           /\ s.immidiate \in Reach(e)
           /\ e[2] \in {"B", "J"} => s.immidiate % 2 = 0
<1>1. PICK e \in Encodings : /\ e[1] \notin {"SRLI", "FENCE", "SRAIW"}
                             /\ s \in StatementsOf(e, 0 .. 31, Reach(e))
                             /\ e[2] \in {"B", "J"} => s.immidiate % 2 = 0
  BY DEF InReach
<1>2. /\ s.operation = e[1] /\ s.immidiate \in Reach(e)
      /\ e[2] \in {"S", "B", "P"} => s.rd = 0
      /\ e[2] \in {"U", "J", "P"} => s.rs1 = 0
      /\ e[2] \notin {"R", "S", "B"} => s.rs2 = 0
  BY <1>1 DEF StatementsOf
<1> QED
  BY <1>1, <1>2

(* Which handler reads the immediate of a format.                          *)
LEMMA Operands ==
  ASSUME NEW e \in Encodings, e[1] # "SRLI", NEW i, i.operation = e[1]
  PROVE  /\ e[2] = "J" => Operand(i) = JumpOffset(i)
         /\ e[2] = "U" => Operand(i) = UpperImmediate(i)
         /\ e[2] = "H" => Operand(i) = ShiftAmount(i)
         /\ e[2] = "I" /\ e[3] = SYSTEM => Operand(i) = CSRNumber(i)
         /\ e[2] \in {"S", "B", "W"} \/ (e[2] = "I" /\ e[3] # SYSTEM) => Operand(i) = Immediate12(i)
<1>1. /\ e[2] = "J" => e[1] = "JAL"
      /\ e[2] = "U" => e[1] \in {"LUI", "AUIPC"}
      /\ e[2] = "H" => e[1] \in {"SLLI", "SRAI"}
      /\ e[2] = "I" /\ e[3] = SYSTEM =>
           e[1] \in {"CSRRW", "CSRRS", "CSRRC", "CSRRWI", "CSRRSI", "CSRRCI"}
      /\ e[2] \in {"S", "B", "W"} \/ (e[2] = "I" /\ e[3] # SYSTEM) =>
           e[1] \notin {"JAL", "LUI", "AUIPC", "SLLI", "SRLI", "SRAI", "CSRRW", "CSRRS", "CSRRC",
                        "CSRRWI", "CSRRSI", "CSRRCI"}
  BY SMT DEF Encodings, SYSTEM
<1> QED
  BY <1>1, SMT DEF Operand

(* The cells that parse_I decodes itself.                                  *)
LEMMA UntabledCells ==
  /\ Format(SYSTEM) = "I" /\ INSTR_WHO(SYSTEM, 0) = INV_OP
  /\ Format(OPP_IMM32) = "I" /\ INSTR_WHO(OPP_IMM32, 5) = INV_OP
<1> USE DEF LOAD, MISC_MEM, OP_IMM, OPP_IMM32, JALR, SYSTEM, STORE, BRANCH, JAL, AUIPC, LUI,
            OP, OP32
<1>1. Format(SYSTEM) = "I" /\ Format(OPP_IMM32) = "I"
  BY SMT DEF Format
<1>2. Row(SYSTEM) = <<INV_OP, "CSRRW", "CSRRS", "CSRRC", INV_OP, "CSRRWI", "CSRRSI", "CSRRCI">>
  BY SMT DEF Row
<1>3. Row(OPP_IMM32) = <<"ADDIW", "SLLIW">>
  BY SMT DEF Row
<1>4. INSTR_WHO(SYSTEM, 0) = IF 0 < Len(Row(SYSTEM)) THEN Row(SYSTEM)[0 + 1] ELSE INV_OP
  BY SMT DEF INSTR_WHO
<1>5. INSTR_WHO(OPP_IMM32, 5) = IF 5 < Len(Row(OPP_IMM32)) THEN Row(OPP_IMM32)[5 + 1] ELSE INV_OP
  BY SMT DEF INSTR_WHO
<1>6. INSTR_WHO(SYSTEM, 0) = INV_OP
  BY <1>2, <1>4, SMT
<1>7. INSTR_WHO(OPP_IMM32, 5) = INV_OP
  BY <1>3, <1>5, SMT
<1> QED
  BY <1>1, <1>6, <1>7

(* The formats of the encodings and the opcodes of the shifts.             *)
LEMMA EncodingFormats ==
  ASSUME NEW e \in Encodings
  PROVE  /\ e[2] \in {"R", "I", "P", "H", "W", "S", "B", "U", "J"}
         /\ e[2] = "H" => e[3] = OP_IMM
         /\ e[2] = "W" /\ e[1] # "SRAIW" => e[3] = OPP_IMM32 /\ e[5] = 0
         /\ e[1] = "SRLIW" => e = <<"SRLIW", "W", OPP_IMM32, 5, 0>>
         /\ e[2] = "H" => e[5] \in {0, 32}
         /\ e[2] = "S" => e[3] # SYSTEM
BY SMT DEF Encodings, OP_IMM, OPP_IMM32, SYSTEM

(* A statement within reach comes back, format by format.                  *)
LEMMA RoundTrip ==
  ASSUME NEW s, InReach(s)
  PROVE  LET i == parse(Assemble(s))
         IN  /\ i.operation = s.operation
             /\ <<i.rd, i.rs1, i.rs2>> = <<s.rd, s.rs1, s.rs2>>
             /\ EncodingOf(s.operation)[2] \notin {"R", "P"} => Operand(i) = s.immidiate
<1> DEFINE w == Assemble(s)
           i == parse(w)
           n == s.immidiate
<1>1. PICK e \in Encodings :
           /\ e[1] \notin {"SRLI", "FENCE", "SRAIW"} /\ s.operation = e[1]
           /\ e[2] \in {"S", "B", "P"} => s.rd = 0
           /\ e[2] \in {"U", "J", "P"} => s.rs1 = 0
           /\ e[2] \notin {"R", "S", "B"} => s.rs2 = 0
           /\ n \in Reach(e)
           /\ e[2] \in {"B", "J"} => n % 2 = 0
  BY Written
<1>2. EncodingOf(s.operation) = e
  BY <1>1, EncodingIs
<1>3. CASE e[2] = "R"
  <2>1. w = Word(e[5], s.rs2, s.rs1, e[4], s.rd, e[3])
    BY <1>1, <1>3, AssembledWord
  <2>2. Format(w.opcode) = "R" /\ Func10(w) = e[1]
    BY <1>3, <2>1, RegisterEncodings, WordFields
  <2>3. i = Instr(w.rd, w.rs1, w.rs2, IMMIDIATE_POISON, Func10(w))
    BY <2>2, Parsed
  <2>4. i = Instr(s.rd, s.rs1, s.rs2, IMMIDIATE_POISON, e[1])
    BY <2>1, <2>2, <2>3, WordFields
  <2> QED
    BY <1>1, <1>2, <1>3, <2>4, InstrIs
<1>4. CASE e[2] = "P"
  <2>1. w = Word(e[5] \div 32, e[5] % 32, 0, 0, 0, SYSTEM)
    BY <1>1, <1>4, AssembledWord, PrivilegedEncodings
  <2>2. Imm12(w) = e[5]
    <3>1. w.rs2 = e[5] % 32 /\ w.func7 = e[5] \div 32
      BY <2>1, WordFields
    <3>2. e[5] \in {0, 1, 258, 770}
      BY <1>4, PrivilegedEncodings
    <3> QED
      BY <3>1, <3>2, SMT DEF Imm12
  <2>3. Format(w.opcode) = "I" /\ w.opcode = SYSTEM /\ INSTR_WHO(w.opcode, w.func3) = INV_OP
    <3>1. w.opcode = SYSTEM /\ w.func3 = 0
      BY <2>1, WordFields
    <3> QED
      BY <3>1, UntabledCells
  <2>4. PrivilegedOp(w) = e[1]
    <3>1. w.rd = 0 /\ w.rs1 = 0 /\ w.func3 = 0
      BY <2>1, WordFields
    <3>2. <<e[1], e[5]>> \in {<<"ECALL", 0>>, <<"EBREAK", 1>>, <<"SRET", 258>>, <<"MRET", 770>>}
      BY <1>4, PrivilegedEncodings
    <3> QED
      BY <2>2, <3>1, <3>2, SMT DEF PrivilegedOp
  <2>5. UntabledOp(w) = e[1]
    BY <2>3, <2>4, SMT DEF UntabledOp, SYSTEM, MISC_MEM, OPP_IMM32
  <2>6. i = Instr(w.rd, w.rs1, 0, Imm12Of(w.func7, w.rs2), e[1])
    BY <2>3, <2>5, Parsed
  <2>7. i.operation = e[1] /\ i.rd = 0 /\ i.rs1 = 0 /\ i.rs2 = 0
    BY <2>1, <2>6, WordFields, InstrIs
  <2> QED
    BY <1>1, <1>2, <1>4, <2>7
<1>5. CASE e[2] \notin {"R", "P"} /\ e[1] # "SRLIW"
  <2>1. /\ e[1] # INV_OP /\ INSTR_WHO(e[3], e[4]) = e[1]
        /\ Format(e[3]) = IF e[2] \in {"H", "W"} THEN "I" ELSE e[2]
    BY <1>1, <1>5, TabledEncodings, EncodingFormats
  <2>2. CASE e[2] = "I"
    <3>1. w = Word(High12(n), Low12(n), s.rs1, e[4], s.rd, e[3])
      BY <1>1, <2>2, AssembledWord
    <3>2. i = Instr(s.rd, s.rs1, 0, Imm12Of(High12(n), Low12(n)), e[1])
      BY <2>1, <2>2, <3>1, WordFields, Parsed
    <3>3. i.operation = e[1] /\ i.rd = s.rd /\ i.rs1 = s.rs1 /\ i.rs2 = 0
          /\ i.immidiate = Imm12Of(High12(n), Low12(n))
      BY <3>2, InstrIs
    <3>4. CASE e[3] = SYSTEM
      <4>1. n \in 0 .. 4095
        <5> HIDE DEF n
        <5>1. n \in Reach(e) /\ e[2] = "I" /\ e[3] = SYSTEM
          BY <1>1, <2>2, <3>4
        <5> QED
          BY <5>1, SMT DEF Reach
      <4>2. i.immidiate = n
        <5> HIDE DEF n
        <5>1. n \in Int /\ n % 4096 = n
          BY <4>1, SMT
        <5> QED
          BY <3>3, <5>1, Joins12
      <4>3. Operand(i) = n
        BY <1>1, <2>2, <3>3, <3>4, <4>2, Operands DEF CSRNumber
      <4> QED
        BY <1>1, <2>2, <3>3, <4>3
    <3>5. CASE e[3] # SYSTEM
      <4>1. n \in Signed(2048)
        BY <1>1, <2>2, <3>5, SMT DEF Reach
      <4>2. i.immidiate = n % 4096
        BY <3>3, <4>1, Joins12, InSigned, SMT
      <4>3. Operand(i) = SignExtend(n % 4096, 4096)
        BY <1>1, <2>2, <3>3, <3>5, <4>2, Operands DEF Immediate12
      <4> QED
        BY <1>1, <2>2, <3>3, <4>1, <4>3, SignExtend12
    <3> QED
      BY <3>4, <3>5
  <2>3. CASE e[2] = "S"
    <3>1. w = Word(High12(n), s.rs2, s.rs1, e[4], Low12(n), e[3])
      BY <1>1, <2>3, AssembledWord
    <3>2. i = Instr(0, s.rs1, s.rs2, Imm12Of(High12(n), Low12(n)), e[1])
      BY <2>1, <2>3, <3>1, WordFields, Parsed
    <3>3. i.operation = e[1] /\ i.rd = 0 /\ i.rs1 = s.rs1 /\ i.rs2 = s.rs2
          /\ i.immidiate = Imm12Of(High12(n), Low12(n))
      BY <3>2, InstrIs
    <3>4. n \in Signed(2048)
      BY <1>1, <2>3, EncodingFormats, SMT DEF Reach
    <3>5. i.immidiate = n % 4096
      BY <3>3, <3>4, Joins12, InSigned, SMT
    <3>6. Operand(i) = SignExtend(n % 4096, 4096)
      BY <1>1, <2>3, <3>3, <3>5, Operands DEF Immediate12
    <3> QED
      BY <1>1, <2>3, <3>3, <3>4, <3>6, SignExtend12
  <2>4. CASE e[2] = "B"
    <3>1. w = Word(BranchFunc7(n), s.rs2, s.rs1, e[4], BranchRd(n), e[3])
      BY <1>1, <2>4, AssembledWord
    <3>2. i = Instr(0, s.rs1, s.rs2, BranchImm(BranchFunc7(n), BranchRd(n)), e[1])
      BY <2>1, <2>4, <3>1, WordFields, Parsed
    <3>3. i.operation = e[1] /\ i.rd = 0 /\ i.rs1 = s.rs1 /\ i.rs2 = s.rs2
          /\ i.immidiate = BranchImm(BranchFunc7(n), BranchRd(n))
      BY <3>2, InstrIs
    <3>4. n \in Signed(2048)
      BY <1>1, <2>4, SMT DEF Reach
    <3>5. i.immidiate = n % BranchSpan
      BY <1>1, <2>4, <3>3, <3>4, JoinsBranch, InSigned, SMT
    <3>6. Operand(i) = SignExtend(n % BranchSpan, 4096)
      BY <1>1, <2>4, <3>3, <3>5, Operands DEF Immediate12
    <3> QED
      BY <1>1, <2>4, <3>3, <3>4, <3>6, SignExtend12
  <2>5. CASE e[2] = "U"
    <3>1. w = Word(UpperFunc7(n), UpperRs2(n), UpperRs1(n), UpperFunc3(n), s.rd, e[3])
      BY <1>1, <2>5, AssembledWord
    <3>2. INSTR_WHO(e[3], UpperFunc3(n)) = e[1]
      BY <1>1, <1>5, <2>5, TabledEncodings
    <3>3. i = Instr(s.rd, 0, 0, UpperImm(UpperFunc7(n), UpperRs2(n), UpperRs1(n), UpperFunc3(n)),
                    e[1])
      BY <2>1, <2>5, <3>1, <3>2, WordFields, Parsed
    <3>4. i.operation = e[1] /\ i.rd = s.rd /\ i.rs1 = 0 /\ i.rs2 = 0
          /\ i.immidiate = UpperImm(UpperFunc7(n), UpperRs2(n), UpperRs1(n), UpperFunc3(n))
      BY <3>3, InstrIs
    <3>5. n \in 0 .. 255
      BY <1>1, <2>5, SMT DEF Reach
    <3>6. Operand(i) = n
      BY <1>1, <2>5, <3>4, <3>5, Operands, UpperInReach DEF UpperImmediate
    <3> QED
      BY <1>1, <2>5, <3>4, <3>6
  <2>6. CASE e[2] = "J"
    <3>1. w = Word(JumpFunc7(n), JumpRs2(n), JumpRs1(n), JumpFunc3(n), s.rd, e[3])
      BY <1>1, <2>6, AssembledWord
    <3>2. INSTR_WHO(e[3], JumpFunc3(n)) = e[1]
      BY <1>1, <1>5, <2>6, TabledEncodings
    <3>3. i = Instr(s.rd, 0, 0, JumpImm(JumpFunc7(n), JumpRs2(n), JumpRs1(n), JumpFunc3(n)), e[1])
      BY <2>1, <2>6, <3>1, <3>2, WordFields, Parsed
    <3>4. i.operation = e[1] /\ i.rd = s.rd /\ i.rs1 = 0 /\ i.rs2 = 0
          /\ i.immidiate = JumpImm(JumpFunc7(n), JumpRs2(n), JumpRs1(n), JumpFunc3(n))
      BY <3>3, InstrIs
    <3>5. n \in Signed(524288) /\ n \in Int /\ n % 2 = 0
      BY <1>1, <2>6, InSigned, SMT DEF Reach
    <3>6. i.immidiate = n % JumpSpan
      BY <3>4, <3>5, JoinsJump, SMT
    <3>7. Operand(i) = n
      BY <1>1, <2>6, <3>4, <3>5, <3>6, Operands, SignExtend20, SMT DEF JumpOffset
    <3> QED
      BY <1>1, <2>6, <3>4, <3>7
  <2>7. CASE e[2] \in {"H", "W"}
    <3>1. n \in 0 .. 31
      BY <1>1, <2>7, SMT DEF Reach
    <3>2. (n % 64) \div 32 = 0 /\ (n % 64) % 32 = n /\ e[5] \in {0, 32} /\ e[5] + 0 = e[5]
      BY <1>1, <2>7, <3>1, ShiftInReach, EncodingFormats
    <3>3. w = Word(e[5], n, s.rs1, e[4], s.rd, e[3])
      BY <1>1, <2>7, <3>2, AssembledWord
    <3>4. i = Instr(s.rd, s.rs1, 0, Imm12Of(e[5], n), e[1])
      BY <2>1, <2>7, <3>3, WordFields, Parsed
    <3>5. i.operation = e[1] /\ i.rd = s.rd /\ i.rs1 = s.rs1 /\ i.rs2 = 0
          /\ i.immidiate = Imm12Of(e[5], n)
      BY <3>4, InstrIs
    <3>6. Operand(i) = n
      <4>1. CASE e[2] = "H"
        BY <1>1, <3>1, <3>2, <3>5, <4>1, ShiftInReach, Operands DEF ShiftAmount
      <4>2. CASE e[2] = "W"
        BY <1>1, <3>1, <3>5, <4>2, ShiftInReach, Operands, EncodingFormats DEF Immediate12
      <4> QED
        BY <2>7, <4>1, <4>2
    <3> QED
      BY <1>1, <2>7, <3>5, <3>6
  <2> QED
    BY <1>5, <2>2, <2>3, <2>4, <2>5, <2>6, <2>7, EncodingFormats
<1>6. CASE e[1] = "SRLIW"
  <2>1. e = <<"SRLIW", "W", OPP_IMM32, 5, 0>>
    BY <1>6, EncodingFormats
  <2>2. n \in 0 .. 31
    BY <1>1, <2>1, SMT DEF Reach
  <2>3. w = Word(0, n, s.rs1, 5, s.rd, OPP_IMM32)
    BY <1>1, <2>1, <2>2, ShiftInReach, AssembledWord
  <2>4. Format(OPP_IMM32) = "I" /\ INSTR_WHO(OPP_IMM32, 5) = INV_OP
    BY UntabledCells
  <2>5. /\ w.opcode = OPP_IMM32 /\ w.func7 = 0 /\ w.func3 = 5
        /\ w.rs2 = n /\ w.rd = s.rd /\ w.rs1 = s.rs1
    BY <2>3, WordFields
  <2>6. UntabledOp(w) = "SRLIW"
    BY <2>5, SMT DEF UntabledOp, OPP_IMM32, MISC_MEM, SYSTEM
  <2>7. i = Instr(s.rd, s.rs1, 0, Imm12Of(0, n), "SRLIW")
    BY <2>4, <2>5, <2>6, Parsed
  <2>8. /\ i.operation = e[1] /\ i.rd = s.rd /\ i.rs1 = s.rs1
        /\ i.rs2 = 0 /\ i.immidiate = Imm12Of(0, n)
    BY <2>1, <2>7, InstrIs
  <2>9. Operand(i) = n
    BY <1>1, <2>1, <2>2, <2>8, ShiftInReach, Operands DEF Immediate12
  <2> QED
    BY <1>1, <2>1, <2>8, <2>9
<1> QED
  BY <1>3, <1>4, <1>5, <1>6

-----------------------------------------------------------------------------
(* A word that is not the encoding of an instruction is never executed as  *)
(* one: for all 2^32 words and apart from the lenient operations, what the *)
(* decoder returns assembles to the word it was given (Decoder::parse).    *)
THEOREM DecoderAcceptsOnlyEncodings == DecoderSpec => []AcceptsOnlyEncodings
<1> DEFINE Inv == /\ word \in AllWords
                  /\ instr = NotParsed \/ instr = parse(word)
<1>1. DecoderInit => Inv
  BY DecoderConstants DEF DecoderInit
<1>2. Inv /\ [DecoderNext]_decoderVars => Inv'
  BY DEF DecoderNext, decode, decoderVars
<1>3. Inv => AcceptsOnlyEncodings
  BY ParseAccepts DEF AcceptsOnlyEncodings, Decoded
<1> QED
  BY <1>1, <1>2, <1>3, PTL DEF DecoderSpec

(* Whatever is written within reach of the handlers' immediates is         *)
(* executed as written: operation, registers and immediate survive the     *)
(* way through the assembler, Decoder::parse and the handler.              *)
THEOREM DecoderExecutesWhatWasWritten ==
  ASSUME \A s \in Statements : InReach(s)
  PROVE  AssembledSpec => []ExecutesWhatWasWritten
<1> DEFINE Inv == /\ \/ statement = NoStatement
                     \/ statement \in Statements /\ word = Assemble(statement)
                  /\ instr = NotParsed \/ instr = parse(word)
<1>1. AssembledInit => Inv
  BY DEF AssembledInit
<1>2. Inv /\ [AssembledNext]_assembledVars => Inv'
  BY DEF AssembledNext, decode, assembledVars
<1>3. Inv => ExecutesWhatWasWritten
  BY RoundTrip DEF ExecutesWhatWasWritten, Decoded
<1> QED
  BY <1>1, <1>2, <1>3, PTL DEF AssembledSpec
=============================================================================
