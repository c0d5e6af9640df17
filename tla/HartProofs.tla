----------------------------- MODULE HartProofs -----------------------------
(***************************************************************************)
(* The invariants of the hart, for every geometry of its block cache,      *)
(* every address width, instruction set, memory map and program.           *)
(***************************************************************************)
EXTENDS Hart, BasicBlockCacheProofs

-----------------------------------------------------------------------------
(* Arithmetic of addresses. *)

(* Reducing modulo a multiple of d keeps the multiples of d. *)
LEMMA ModMultiple ==
  ASSUME NEW a \in Int, NEW n \in Nat \ {0}, NEW d \in Nat \ {0},
         a % d = 0, n % d = 0
  PROVE  (a % n) % d = 0
<1> DEFINE r == a % n
           q == a \div n
           b == a \div d
           m == n \div d
<1>1. r \in Int /\ q \in Int /\ a = n * q + r
  BY DivMod
<1>2. b \in Int /\ a = d * b
  BY DivMod
<1>3. m \in Int /\ n = d * m
  BY DivMod
<1> HIDE DEF r, q, b, m
<1> DEFINE k == m * q
<1>4. k \in Int /\ n * q = d * k
  BY <1>1, <1>3
<1> HIDE DEF k
<1> DEFINE u == b - k
<1>5. u \in Int /\ r = d * u + 0
  BY <1>1, <1>2, <1>4
<1> HIDE DEF u
<1>6. 0 \in 0 .. d - 1
  OBVIOUS
<1>7. (d * u + 0) % d = 0
  BY <1>5, <1>6, ModUnique
<1> QED
  BY <1>5, <1>7 DEF r

(* A sum of multiples of d is one. *)
LEMMA AddMultiple ==
  ASSUME NEW a \in Int, NEW b \in Int, NEW d \in Nat \ {0},
         a % d = 0, b % d = 0
  PROVE  (a + b) % d = 0
<1>1. (0 + b) % d = (a + b) % d
  BY ModAdd
<1> QED
  BY <1>1

(* XLEN is at least 13 bits wide: XSize is a multiple of 2 and of 4. *)
LEMMA Width ==
  /\ XSize \in Nat \ {0} /\ XSize >= 8192
  /\ XSize % 2 = 0 /\ XSize % 4 = 0
  /\ (XSize \div 2) \in Nat \ {0} /\ XSize = 2 * (XSize \div 2)
  /\ (XSize \div 4) \in Nat \ {0} /\ XSize = 4 * (XSize \div 4)
  BY CSRConstants

-----------------------------------------------------------------------------
(* Addresses and program counters. *)

LEMMA PlusType ==
  ASSUME NEW a \in Int, NEW b \in Int
  PROVE  Plus(a, b) \in Values
  BY Width, DivMod DEF Plus, Values

(* Adding an even offset to an even address gives a program counter. *)
LEMMA PlusEven ==
  ASSUME NEW a \in PCs, NEW b \in Int, b % 2 = 0
  PROVE  Plus(a, b) \in PCs
<1>1. a \in Int /\ a % 2 = 0
  BY HartConstants DEF Values
<1>2. a + b \in Int /\ (a + b) % 2 = 0
  BY <1>1, AddMultiple
<1>3. ((a + b) % XSize) % 2 = 0
  BY <1>2, Width, ModMultiple
<1> QED
  BY <1>1, <1>3, PlusType, HartConstants DEF Plus

LEMMA NextPCType ==
  ASSUME NEW a \in PCs
  PROVE  Plus(a, 4) \in PCs
  BY PlusEven

LEMMA AlignedPC ==
  ASSUME NEW a \in Values, a % 4 = 0
  PROVE  a \in PCs
<1>1. a % 2 = 0
  BY DEF Values
<1> QED
  BY <1>1, HartConstants

(* JALR clears bit 0 of its target. *)
LEMMA ClearBitType ==
  ASSUME NEW v \in Values
  PROVE  v - (v % 2) \in PCs
<1>1. v \in Int /\ v >= 0 /\ v < XSize
  BY Width DEF Values
<1>2. /\ v - (v % 2) \in Int /\ v - (v % 2) >= 0 /\ v - (v % 2) <= v
      /\ (v - (v % 2)) % 2 = 0
  BY <1>1
<1> QED
  BY <1>1, <1>2, Width, HartConstants DEF Values

(* The trap vector is word aligned. *)
LEMMA HandlerPCType ==
  ASSUME CSRTypeOK, NEW id \in Nat
  PROVE  HandlerPC(id) \in Values /\ HandlerPC(id) % 4 = 0 /\ HandlerPC(id) \in PCs
<1> DEFINE x == IF mtvec.Mode = 1 THEN mtvec.Base + id ELSE mtvec.Base
<1>1. x \in Int
  BY Width DEF CSRTypeOK, MTVec
<1> HIDE DEF x
<1> DEFINE y == 4 * x
<1>2. y \in Int /\ y % 4 = 0
  BY <1>1
<1>5. HandlerPC(id) = y % XSize
  BY DEF HandlerPC, x
<1> HIDE DEF y
<1>3. y % XSize \in Values
  BY <1>2, Width, DivMod DEF Values
<1>4. (y % XSize) % 4 = 0
  <2>1. XSize \in Nat \ {0} /\ XSize % 4 = 0 /\ 4 \in Nat \ {0}
    BY Width
  <2> QED
    BY <1>2, <2>1, ModMultiple
<1> QED
  BY <1>3, <1>4, <1>5, AlignedPC

-----------------------------------------------------------------------------
(* The CSR file. *)

LEMMA BitsType ==
  ASSUME NEW v \in Values, NEW low \in Nat \ {0}, NEW size \in Nat \ {0}
  PROVE  Bits(v, low, size) \in 0 .. size - 1
<1>1. v \in Nat
  BY Width DEF Values
<1> DEFINE q == v \div low
<1>2. q \in Nat
  BY <1>1, DivNat
<1> HIDE DEF q
<1>3. q % size \in 0 .. size - 1
  BY <1>2, DivMod
<1> QED
  BY <1>3 DEF Bits, q

LEMMA MStatusOfType ==
  ASSUME NEW v \in Values
  PROVE  MStatusOf(v) \in MStatus
<1>1. /\ Bits(v, 2, 2) \in 0 .. 2 - 1 /\ Bits(v, 8, 2) \in 0 .. 2 - 1
      /\ Bits(v, 32, 2) \in 0 .. 2 - 1 /\ Bits(v, 128, 2) \in 0 .. 2 - 1
      /\ Bits(v, 256, 2) \in 0 .. 2 - 1 /\ Bits(v, 2048, 4) \in 0 .. 4 - 1
  BY Width DEF Bits, Values
<1> QED
  BY <1>1 DEF MStatusOf, MStatus

LEMMA MTVecOfType ==
  ASSUME CSRTypeOK, NEW v \in Values
  PROVE  MTVecOf(v) \in MTVec
<1>1. Bits(v, 1, 4) \in 0 .. 4 - 1
  BY BitsType
<1>2. v \div 4 \in 0 .. (XSize \div 4) - 1
  BY Width DEF Values
<1>3. mtvec.Mode \in 0 .. 1 /\ mtvec.Base \in 0 .. (XSize \div 4) - 1
  BY DEF CSRTypeOK, MTVec
<1> QED
  BY <1>1, <1>2, <1>3 DEF MTVecOf, MTVec

LEMMA MCauseOfType ==
  ASSUME NEW v \in Values
  PROVE  MCauseOf(v) \in MCause
<1> DEFINE h == XSize \div 2
<1>1. h \in Nat \ {0} /\ v \in Int /\ v >= 0 /\ v < 2 * h
  BY Width DEF Values
<1> HIDE DEF h
<1>2. v % h \in 0 .. h - 1 /\ v \div h \in Int /\ v = h * (v \div h) + (v % h)
  BY <1>1, DivMod
<1> DEFINE q == v \div h
<1> HIDE DEF q
<1>3. q \in Int /\ h * q > -h /\ h * q < 2 * h
  BY <1>1, <1>2 DEF q
<1>4. q >= 0
  <2>1. CASE q <= -1
    <3>1. h * q <= -h
      BY <1>1, <1>3, <2>1
    <3> QED
      BY <1>1, <1>3, <3>1
  <2> QED
    BY <1>3, <2>1
<1>5. q <= 1
  <2>1. CASE q >= 2
    <3>1. h * q >= 2 * h
      BY <1>1, <1>3, <2>1
    <3> QED
      BY <1>1, <1>3, <3>1
  <2> QED
    BY <1>3, <2>1
<1>6. q \in 0 .. 1
  BY <1>3, <1>4, <1>5
<1> QED
  BY <1>2, <1>6 DEF MCauseOf, MCause, h, q

(* A register is read as a value of XLEN bits. *)
LEMMA RawType ==
  ASSUME CSRTypeOK, NEW id \in Registers
  PROVE  Raw(id) \in Values
<1>1. CASE id = MSTATUS
  <2>1. /\ mstatus.SIE \in 0 .. 1 /\ mstatus.MIE \in 0 .. 1 /\ mstatus.SPIE \in 0 .. 1
        /\ mstatus.MPIE \in 0 .. 1 /\ mstatus.SPP \in 0 .. 1 /\ mstatus.MPP \in 0 .. 3
    BY DEF CSRTypeOK, MStatus
  <2>2. Raw(id) = 2 * mstatus.SIE + 8 * mstatus.MIE + 32 * mstatus.SPIE
                    + 128 * mstatus.MPIE + 256 * mstatus.SPP + 2048 * mstatus.MPP
    BY <1>1, <2>1 DEF Raw, MSTATUS, MTVEC, MEPC, MCAUSE
  <2> QED
    BY <2>1, <2>2, Width DEF Values
<1>2. CASE id = MTVEC
  <2>1. mtvec.Mode \in 0 .. 1 /\ mtvec.Base \in 0 .. (XSize \div 4) - 1
    BY DEF CSRTypeOK, MTVec
  <2>2. Raw(id) = 4 * mtvec.Base + mtvec.Mode
    BY <1>2, <2>1 DEF Raw, MSTATUS, MTVEC, MEPC, MCAUSE
  <2> QED
    BY <2>1, <2>2, Width DEF Values
<1>3. CASE id = MEPC
  BY <1>3 DEF Raw, MSTATUS, MTVEC, MEPC, MCAUSE, CSRTypeOK
<1>4. CASE id = MCAUSE
  <2> DEFINE h == XSize \div 2
  <2>1. h \in Nat \ {0} /\ XSize = 2 * h
    BY Width
  <2>2. mcause.Interrupt \in 0 .. 1 /\ mcause.ExceptionCode \in 0 .. h - 1
    BY DEF CSRTypeOK, MCause
  <2>3. Raw(id) = h * mcause.Interrupt + mcause.ExceptionCode
    BY <1>4 DEF Raw, MSTATUS, MTVEC, MEPC, MCAUSE
  <2> HIDE DEF h
  <2>4. mcause.Interrupt = 0 \/ mcause.Interrupt = 1
    BY <2>2
  <2> QED
    BY <2>1, <2>2, <2>3, <2>4 DEF Values
<1>5. CASE id = MHARTID
  <2>1. Raw(id) = 0
    BY <1>5 DEF Raw, MSTATUS, MTVEC, MEPC, MCAUSE, MHARTID
  <2> QED
    BY <2>1, Width DEF Values
<1> QED
  BY <1>1, <1>2, <1>3, <1>4, <1>5 DEF Registers

(* Every write to mepc passes its validator.                               *)
MepcAligned == mepc % 4 = 0

(* CSRStructure::write keeps every field in its range and mepc aligned.    *)
LEMMA WriteRegType ==
  ASSUME CSRTypeOK, MepcAligned, NEW id, NEW v \in Values, WriteReg(id, v)
  PROVE  CSRTypeOK' /\ MepcAligned'
<1>1. privillege' \in 0 .. 3
  BY DEF CSRTypeOK, WriteReg
<1>2. mstatus' \in MStatus
  BY MStatusOfType DEF CSRTypeOK, WriteReg
<1>3. mepc' \in Values /\ mepc' % 4 = 0
  BY DEF CSRTypeOK, MepcAligned, WriteReg, MEPCOf
<1>4. mtvec' \in MTVec
  BY MTVecOfType DEF CSRTypeOK, WriteReg
<1>5. mcause' \in MCause
  BY MCauseOfType DEF CSRTypeOK, WriteReg
<1> QED
  BY <1>1, <1>2, <1>3, <1>4, <1>5 DEF CSRTypeOK, MepcAligned

(* The three ways a CSR instruction writes a register. *)
LEMMA CSRWriteType ==
  ASSUME CSRTypeOK, MepcAligned, NEW id, NEW v \in Operands,
         write(id, v) \/ setBits(id, v) \/ clearBits(id, v)
  PROVE  CSRTypeOK' /\ MepcAligned'
<1>1. id \in Registers
  BY DEF write, setBits, clearBits, Writable, Readable
<1>2. Raw(id) \in Values
  BY <1>1, RawType
<1>3. v \in Values /\ BitOr(Raw(id), v) \in Values /\ BitClear(Raw(id), v) \in Values
  BY <1>2, CSRConstants
<1>4. WriteReg(id, v) \/ WriteReg(id, BitOr(Raw(id), v)) \/ WriteReg(id, BitClear(Raw(id), v))
  BY DEF write, setBits, clearBits
<1> QED
  BY <1>3, <1>4, WriteRegType

-----------------------------------------------------------------------------
(* The inductive invariant of the hart. *)

(* No block is torn until an exception has left run(), which is final: so  *)
(* a lookup never returns the remains of an interrupted assembly.          *)
NoTorn == status # "threw" => torn = {}

(* A running hart is at a cell of a closed block.                          *)
HartInv ==
  /\ TypeOK
  /\ CacheInv
  /\ NoTorn
  /\ DispatchInBlock
  /\ MepcAligned

(* The block that was just fetched, with its first `skip' cells behind.    *)
Entered(skip) ==
  /\ cur \in [slot : Slots, idx : Index]
  /\ cur.idx = skip
  /\ cur.slot \in Reached
  /\ \E n \in 1 .. kCapacity - 1 : ClosedAt(bbs[cur.slot], n)

(* What assembleBB gets from the prefetcher and the decoder. *)
LEMMA FetchedType ==
  ASSUME TypeOK, NEW a, NEW code \in Fetched(a)
  PROVE  code \in Codes
<1>1. ASSUME NEW b
      PROVE  Decoded(b) \in Codes
  <2>1. (CHOOSE i \in Instrs : TRUE) \in Instrs
    BY HartConstants
  <2>2. \A c \in Mapped : parse[mem[c]] \in Instrs
    BY HartConstants DEF TypeOK
  <2> QED
    BY <2>1, <2>2 DEF Decoded, Codes
<1>2. CASE Straight(a)
  BY <1>1, <1>2 DEF Fetched
<1>3. CASE ~Straight(a)
  <2> DEFINE words == Decoded(WordOf(a))
  <2>1. words \in Codes
    BY <1>1
  <2>2. code \in Misread(words)
    BY <1>3 DEF Fetched
  <2> HIDE DEF words
  <2> QED
    BY <2>1, <2>2, HartConstants DEF Misread, Codes
<1> QED
  BY <1>2, <1>3

(* A fetch that returns leaves currentInstr_ in a closed block. *)
LEMMA FetchEnters ==
  ASSUME HartInv, status # "threw", NEW a \in PCs, NEW skip \in {0, 1}, fetchBB(a, skip)
  PROVE  /\ CacheInv'
         /\ torn' = {}
         /\ Entered(skip)'
         /\ bbs'[cur'.slot].pc = a
         /\ CurrentPC' = Plus(a, 4 * skip) /\ CurrentPC' \in Values
         /\ skew' \in BOOLEAN
         /\ dirty' \in [Slots -> SUBSET Mapped]
<1>1. torn = {} /\ CacheInv /\ TypeOK
  BY DEF HartInv, NoTorn
<1>2. a # PoisonPC /\ a \in Int
  BY CacheConstants
<1>3. skip \in Index /\ Plus(a, 4 * skip) \in Values
  BY <1>2, CacheConstants, PlusType DEF Index
<1>4. ASSUME NEW s \in Slots, FetchHit(a, s), Enter(a, s, skip), UNCHANGED <<skew, dirty>>
      PROVE  /\ CacheInv' /\ torn' = {} /\ Entered(skip)' /\ bbs'[cur'.slot].pc = a
             /\ CurrentPC' = Plus(a, 4 * skip)
             /\ skew' \in BOOLEAN /\ dirty' \in [Slots -> SUBSET Mapped]
  <2>1. UNCHANGED <<bbs, lruRowers, torn>> /\ bbs[s].pc = a
    BY <1>4 DEF FetchHit, cacheVars, LookupHit, Found
  <2>2. CacheInv'
    BY <1>1, <2>1, CacheStepInv DEF cacheVars
  <2>3. cur' = [slot |-> s, idx |-> skip] /\ CurrentPC' = Plus(a, 4 * skip)
    BY <1>4 DEF Enter
  <2>4. PICK n \in Index : ClosedAt(bbs[s], n)
    BY <1>1, <1>2, <2>1 DEF CacheInv, CompleteBlocks
  <2>5. ClosedAt(bbs'[cur'.slot], n) /\ n \in 1 .. kCapacity - 1
    BY <2>1, <2>3, <2>4 DEF ClosedAt
  <2>6. Entered(skip)'
    BY <1>2, <1>3, <2>1, <2>3, <2>5 DEF Entered, Reached
  <2> QED
    BY <1>1, <1>4, <2>1, <2>2, <2>3, <2>6 DEF TypeOK
<1>5. ASSUME NEW s \in Slots, NEW code \in Fetched(a), NEW n \in 1 .. kCapacity - 1,
             FetchBuild(a, s, code, n), Enter(a, s, skip),
             skew' \in (IF Straight(a) THEN {FALSE} ELSE BOOLEAN),
             dirty' = [dirty EXCEPT ![s] = IF Straight(a) THEN {} ELSE Mapped]
      PROVE  /\ CacheInv' /\ torn' = {} /\ Entered(skip)' /\ bbs'[cur'.slot].pc = a
             /\ CurrentPC' = Plus(a, 4 * skip)
             /\ skew' \in BOOLEAN /\ dirty' \in [Slots -> SUBSET Mapped]
  <2>1. code \in Codes
    BY <1>1, FetchedType
  <2>2. CacheInv'
    BY <1>1, <1>5, <2>1, BuildPreserves
  <2>3. cur' = [slot |-> s, idx |-> skip] /\ CurrentPC' = Plus(a, 4 * skip)
    BY <1>5 DEF Enter
  <2>4. bbs \in [Slots -> Blocks] /\ bbs' = [bbs EXCEPT ![s] = Rebuilt(bbs[s], a, code, n, TRUE)]
    BY <1>1, <1>5 DEF FetchBuild, CacheInv, CacheTypeOK
  <2>5. bbs'[s] = Rebuilt(bbs[s], a, code, n, TRUE) /\ bbs[s] \in Blocks
    BY <2>4
  <2>6. ClosedAt(bbs'[s], n)
    BY <1>5, <2>1, <2>5, RebuiltClosed DEF FetchBuild
  <2>7. bbs'[s].pc = a
    BY <2>5 DEF Rebuilt
  <2>8. Entered(skip)'
    BY <1>2, <1>3, <2>3, <2>6, <2>7 DEF Entered, Reached
  <2>9. torn' = {}
    BY <1>1, <1>5 DEF FetchBuild
  <2>10. skew' \in BOOLEAN /\ dirty' \in [Slots -> SUBSET Mapped]
    BY <1>1, <1>5 DEF TypeOK
  <2> QED
    BY <2>2, <2>3, <2>7, <2>8, <2>9, <2>10
<1> QED
  BY <1>3, <1>4, <1>5 DEF fetchBB

(* A fetch that throws leaves a torn block and the dispatch where it was.  *)
LEMMA FetchFails ==
  ASSUME HartInv, NEW a \in PCs, fetchThrows(a)
  PROVE  /\ CacheInv'
         /\ UNCHANGED <<cur, CurrentPC>>
         /\ skew' \in BOOLEAN
         /\ dirty' \in [Slots -> SUBSET Mapped]
<1>1. CacheInv /\ TypeOK
  BY DEF HartInv
<1>2. PICK s \in Slots, code \in Fetched(a), n \in 0 .. kCapacity - 2 :
        /\ FetchTorn(a, s, code, n)
        /\ skew' \in (IF Straight(a) THEN {FALSE} ELSE BOOLEAN)
        /\ dirty' = [dirty EXCEPT ![s] = Mapped]
        /\ UNCHANGED <<cur, CurrentPC>>
  BY DEF fetchThrows
<1>3. code \in Codes
  BY <1>1, FetchedType
<1>4. CacheInv'
  BY <1>1, <1>2, <1>3, TornPreserves
<1> QED
  BY <1>1, <1>2, <1>4 DEF TypeOK

(* A handler other than BB_END executes a decoded instruction, and the     *)
(* block goes on behind it.                                                *)
LEMMA AtInstr ==
  ASSUME HartInv, status = "running", Cur.op # "BB_END"
  PROVE  /\ Cur \in Instrs
         /\ Cur.rs1 \in 0 .. 31 /\ Cur.imm \in Int
         /\ \E n \in 1 .. kCapacity - 1 : ClosedAt(bbs[cur.slot], n) /\ cur.idx <= n - 1
<1>1. PICK n \in 1 .. kCapacity - 1 : ClosedAt(bbs[cur.slot], n) /\ cur.idx <= n
  BY DEF HartInv, DispatchInBlock
<1>2. cur.idx \in Nat /\ n \in Int
  BY CacheConstants DEF HartInv, TypeOK, Index
<1>3. cur.idx # n
  BY <1>1 DEF ClosedAt, Cur, BBEnd
<1>4. cur.idx <= n - 1
  BY <1>1, <1>2, <1>3
<1>5. Cur \in Instrs
  BY <1>1, <1>2, <1>4 DEF ClosedAt, Cur
<1>6. Cur.rs1 \in 0 .. 31 /\ Cur.imm \in Int
  BY <1>5, HartConstants DEF InstrRecords
<1> QED
  BY <1>1, <1>4, <1>5, <1>6

(* The part of the state that the dispatch owns. *)
FrontInv ==
  /\ CacheInv
  /\ NoTorn
  /\ DispatchInBlock
  /\ cur \in [slot : Slots, idx : Index]
  /\ status \in Statuses
  /\ skew \in BOOLEAN
  /\ CurrentPC \in Values
  /\ entry \in Entries

(* The part that the handlers own. *)
BackInv ==
  /\ CSRTypeOK
  /\ MepcAligned
  /\ pc \in PCs
  /\ mem \in [Mapped -> Words]
  /\ saved \in SavedStates
  /\ dirty \in [Slots -> SUBSET Mapped]

LEMMA ForgottenType == Forgotten \in SavedStates
  BY Width DEF Forgotten, SavedStates, Values, Entries

LEMMA InvParts ==
  ASSUME FrontInv', BackInv'
  PROVE  HartInv'
  BY DEF HartInv, TypeOK, FrontInv, BackInv, CacheInv

(* execNextInstr stays inside the block. *)
LEMMA WalkPreserves ==
  ASSUME HartInv, status = "running", Cur.op # "BB_END", execNextInstr
  PROVE  FrontInv'
<1>1. UNCHANGED <<bbs, lruRowers, torn, skew, entry>>
  BY DEF execNextInstr
<1>2. CacheInv'
  BY <1>1, CacheStepInv DEF HartInv, cacheVars
<1>3. torn = {} /\ cur \in [slot : Slots, idx : Index] /\ CurrentPC \in Values
  BY DEF HartInv, NoTorn, TypeOK
<1>4. cur.slot \in Reached \ torn
  BY DEF HartInv, DispatchInBlock
<1>5. PICK n \in 1 .. kCapacity - 1 : ClosedAt(bbs[cur.slot], n) /\ cur.idx <= n - 1
  BY AtInstr
<1>6. CASE /\ cur' = [cur EXCEPT !.idx = @ + 1]
           /\ CurrentPC' = Plus(CurrentPC, 4)
           /\ UNCHANGED status
  <2>1. cur.idx \in Nat /\ cur.idx + 1 <= n /\ cur.idx + 1 \in Index
    BY <1>3, <1>5, CacheConstants DEF Index
  <2>2. cur'.slot = cur.slot /\ cur'.idx = cur.idx + 1 /\ cur' \in [slot : Slots, idx : Index]
    BY <1>3, <1>6, <2>1
  <2>3. CurrentPC' \in Values
    BY <1>3, <1>6, PlusType DEF Values
  <2>4. ClosedAt(bbs'[cur'.slot], n)
    BY <1>1, <1>5, <2>2 DEF ClosedAt
  <2>5. DispatchInBlock'
    BY <1>1, <1>4, <2>1, <2>2, <2>4 DEF DispatchInBlock, Reached
  <2> QED
    BY <1>1, <1>2, <1>3, <1>6, <2>2, <2>3, <2>5 DEF FrontInv, NoTorn, HartInv, TypeOK
<1>7. CASE status' = "threw" /\ UNCHANGED <<cur, CurrentPC>>
  BY <1>1, <1>2, <1>3, <1>7 DEF FrontInv, NoTorn, HartInv, TypeOK, Statuses, DispatchInBlock
<1> QED
  BY <1>6, <1>7 DEF execNextInstr

(* A step that leaves run() moves nothing. *)
LEMMA LeavePreserves ==
  ASSUME HartInv, status # "threw", status' \in {"threw", "terminated", "returned"},
         UNCHANGED <<cacheVars, cur, skew, CurrentPC, entry>>
  PROVE  FrontInv'
<1>1. CacheInv'
  BY CacheStepInv DEF HartInv
<1> QED
  BY <1>1 DEF FrontInv, NoTorn, HartInv, TypeOK, Statuses, DispatchInBlock, cacheVars

(* A fetch that returns, whatever run() does next. *)
LEMMA EnterPreserves ==
  ASSUME HartInv, status # "threw", NEW a \in PCs, NEW skip \in {0, 1}, fetchBB(a, skip),
         status' \in Statuses, entry' \in Entries
  PROVE  FrontInv' /\ dirty' \in [Slots -> SUBSET Mapped]
<1>1. /\ CacheInv' /\ torn' = {} /\ Entered(skip)' /\ CurrentPC' \in Values
      /\ skew' \in BOOLEAN /\ dirty' \in [Slots -> SUBSET Mapped]
  BY FetchEnters
<1>2. DispatchInBlock'
  <2>1. PICK n \in 1 .. kCapacity - 1 : ClosedAt(bbs'[cur'.slot], n)
    BY <1>1 DEF Entered
  <2>2. cur'.idx <= n
    BY <1>1, CacheConstants DEF Entered
  <2> QED
    BY <1>1, <2>1, <2>2 DEF Entered, DispatchInBlock
<1> QED
  BY <1>1, <1>2 DEF FrontInv, NoTorn, Entered

(* A fetch that throws. *)
LEMMA ThrowPreserves ==
  ASSUME HartInv, NEW a \in PCs, fetchThrows(a), status' = "threw", entry' \in Entries
  PROVE  FrontInv' /\ dirty' \in [Slots -> SUBSET Mapped]
<1>1. /\ CacheInv' /\ UNCHANGED <<cur, CurrentPC>>
      /\ skew' \in BOOLEAN /\ dirty' \in [Slots -> SUBSET Mapped]
  BY FetchFails
<1> QED
  BY <1>1 DEF FrontInv, NoTorn, DispatchInBlock, Statuses, HartInv, TypeOK

ExceptionIds == {ILLEGAL_INSTR, ECALL_UMODE, ECALL_SMODE, ECALL_MMODE}

(* Traps go to a program counter. *)
LEMMA TrapTarget ==
  ASSUME HartInv, NEW id \in ExceptionIds
  PROVE  HandlerPC(id) \in PCs
  BY HandlerPCType DEF HartInv, TypeOK, ExceptionIds, ILLEGAL_INSTR,
                       ECALL_UMODE, ECALL_SMODE, ECALL_MMODE

(* The address of the instruction under currentInstr_ is one. *)
LEMMA AtType ==
  ASSUME HartInv
  PROVE  At \in Values
<1>1. cur.slot \in Slots /\ cur.idx \in Int /\ bbs[cur.slot] \in Blocks
  BY CacheConstants DEF HartInv, TypeOK, CacheTypeOK, Index
<1>2. \A p : p \in PCs \cup {PoisonPC} => p \in Int
  BY CacheConstants DEF PoisonPC
<1>3. bbs[cur.slot].pc \in PCs \cup {PoisonPC}
  BY <1>1 DEF Blocks
<1>4. bbs[cur.slot].pc \in Int
  BY <1>2, <1>3
<1> DEFINE x == bbs[cur.slot].pc + 4 * cur.idx
<1>5. x \in Int
  BY <1>1, <1>4
<1> HIDE DEF x
<1>6. x % XSize \in Values
  BY <1>5, Width, DivMod DEF Values
<1> QED
  BY <1>6 DEF At, x

(* raiseException writes well formed registers. *)
LEMMA TrapCSRsType ==
  ASSUME HartInv, NEW id \in ExceptionIds, TrapCSRs(id), UNCHANGED mtvec
  PROVE  /\ CSRTypeOK'
         /\ MepcAligned'
         /\ saved' \in SavedStates
<1>1. /\ privillege \in 0 .. 3 /\ mstatus \in MStatus /\ mepc \in Values
      /\ mtvec \in MTVec /\ pc \in PCs /\ pc \in Values /\ mepc % 4 = 0
  BY HartConstants DEF HartInv, TypeOK, CSRTypeOK, MepcAligned
<1>2. mstatus.MIE \in 0 .. 1
  BY <1>1 DEF MStatus
<1>3. mstatus' \in MStatus
  <2> DEFINE m1 == [mstatus EXCEPT !.MPIE = mstatus.MIE]
             m2 == [m1 EXCEPT !.MIE = 0]
             m3 == [m2 EXCEPT !.MPP = privillege]
  <2>1. mstatus' = m3
    BY DEF TrapCSRs
  <2>2. m1 \in MStatus
    BY <1>1, <1>2 DEF MStatus
  <2> HIDE DEF m1
  <2>3. m2 \in MStatus
    BY <2>2 DEF MStatus
  <2> HIDE DEF m2
  <2>4. m3 \in MStatus
    BY <1>1, <2>3 DEF MStatus
  <2> QED
    BY <2>1, <2>4
<1>4. mcause' \in MCause
  <2>1. id \in 0 .. (XSize \div 2) - 1
    BY Width DEF ExceptionIds, ILLEGAL_INSTR, ECALL_UMODE, ECALL_SMODE, ECALL_MMODE
  <2> QED
    BY <2>1 DEF TrapCSRs, MCause
<1>5. mepc' \in Values /\ mepc' % 4 = 0
  BY <1>1 DEF TrapCSRs, MEPCOf
<1>6. privillege' \in 0 .. 3
  BY DEF TrapCSRs, MACHINE
<1>7. saved' \in SavedStates
  <2>1. At \in Values
    BY AtType
  <2>2. entry \in Entries
    BY DEF HartInv, TypeOK
  <2> QED
    BY <1>1, <1>2, <2>1, <2>2 DEF TrapCSRs, Interrupted, SavedStates
<1> QED
  BY <1>1, <1>3, <1>4, <1>5, <1>6, <1>7 DEF CSRTypeOK, MepcAligned

(* Hart::raiseException, whether the handler that called it goes on or     *)
(* returns, and whether the fetch of the trap handler succeeds.            *)
LEMMA RaisePreserves ==
  ASSUME HartInv, status = "running", NEW id \in ExceptionIds,
         NEW after \in {"running", "returned"}, NEW how \in Entries, NEW pcAfter \in PCs,
         raiseException(id, after, how, pcAfter)
  PROVE  HartInv'
<1>1. TrapCSRs(id) /\ UNCHANGED <<mtvec, mem>>
  BY DEF raiseException
<1>2. /\ CSRTypeOK' /\ MepcAligned'
      /\ saved' \in SavedStates
  BY <1>1, TrapCSRsType
<1>3. HandlerPC(id) \in PCs
  BY TrapTarget
<1>4. mem' \in [Mapped -> Words]
  BY <1>1 DEF HartInv, TypeOK
<1>5. CASE /\ fetchBB(HandlerPC(id), IF after = "running" THEN 1 ELSE 0)
           /\ pc' = pcAfter /\ status' = after /\ entry' = how
  <2>1. PICK skip \in {0, 1} : fetchBB(HandlerPC(id), skip)
    BY <1>5
  <2>2. FrontInv' /\ dirty' \in [Slots -> SUBSET Mapped]
    BY <1>3, <1>5, <2>1, EnterPreserves DEF Statuses
  <2>3. BackInv'
    BY <1>2, <1>4, <1>5, <2>2 DEF BackInv
  <2> QED
    BY <2>2, <2>3, InvParts
<1>6. CASE /\ fetchBB(HandlerPC(id), 0)
           /\ pc' = pcAfter /\ status' = "threw" /\ entry' = how
  <2>1. FrontInv' /\ dirty' \in [Slots -> SUBSET Mapped]
    BY <1>3, <1>6, EnterPreserves DEF Statuses
  <2>2. BackInv'
    BY <1>2, <1>3, <1>4, <1>6, <2>1 DEF BackInv
  <2> QED
    BY <2>1, <2>2, InvParts
<1>7. CASE /\ fetchThrows(HandlerPC(id))
           /\ pc' = HandlerPC(id) /\ status' = "threw" /\ UNCHANGED entry
  <2>1. FrontInv' /\ dirty' \in [Slots -> SUBSET Mapped]
    BY <1>3, <1>7, ThrowPreserves DEF HartInv, TypeOK
  <2>2. BackInv'
    BY <1>2, <1>3, <1>4, <1>7, <2>1 DEF BackInv
  <2> QED
    BY <2>1, <2>2, InvParts
<1> QED
  BY <1>5, <1>6, <1>7 DEF raiseException

-----------------------------------------------------------------------------
(* Every handler keeps the invariant. *)

LEMMA RegType ==
  ASSUME NEW r, NEW v \in Reg(r)
  PROVE  v \in Operands /\ v \in Values /\ v \in Int
<1>1. v \in Operands
  BY HartConstants DEF Reg
<1> QED
  BY <1>1, CSRConstants DEF Values

(* run and exec_BB_END *)
LEMMA DispatchPreserves ==
  ASSUME HartInv, status # "threw", Dispatch
  PROVE  HartInv'
<1>1. pc \in PCs /\ entry \in Entries
  BY DEF HartInv, TypeOK
<1>2. UNCHANGED <<csrVars, pc, mem, saved>>
  BY DEF Dispatch
<1>3. FrontInv' /\ dirty' \in [Slots -> SUBSET Mapped]
  <2>1. CASE fetchBB(pc, 0) /\ status' = "running" /\ entry' = "end"
    BY <1>1, <2>1, EnterPreserves DEF Statuses, Entries
  <2>2. CASE fetchThrows(pc) /\ status' = "threw" /\ UNCHANGED entry
    BY <1>1, <2>2, ThrowPreserves
  <2> QED
    BY <2>1, <2>2 DEF Dispatch
<1>4. BackInv'
  BY <1>2, <1>3 DEF HartInv, TypeOK, BackInv, csrVars, CSRTypeOK, MepcAligned
<1> QED
  BY <1>3, <1>4, InvParts

(* A handler that writes only PC and goes on to the next one. *)
LEMMA QuietWalk ==
  ASSUME HartInv, status = "running", Cur.op # "BB_END", execNextInstr,
         pc' \in PCs, UNCHANGED <<csrVars, mem, saved, dirty>>
  PROVE  HartInv'
<1>1. FrontInv'
  BY WalkPreserves
<1>2. BackInv'
  BY DEF HartInv, TypeOK, BackInv, csrVars, CSRTypeOK, MepcAligned
<1> QED
  BY <1>1, <1>2, InvParts

(* A handler that leaves run() and changes nothing else. *)
LEMMA QuietLeave ==
  ASSUME HartInv, status = "running", status' \in {"threw", "terminated", "returned"},
         UNCHANGED <<cacheVars, csrVars, pc, cur, mem, skew, CurrentPC, entry, saved, dirty>>
  PROVE  HartInv'
<1>1. FrontInv'
  BY LeavePreserves
<1>2. BackInv'
  BY DEF HartInv, TypeOK, BackInv, csrVars, CSRTypeOK, MepcAligned
<1> QED
  BY <1>1, <1>2, InvParts

LEMMA TrapPreserves ==
  ASSUME HartInv, status = "running", NEW id \in ExceptionIds, Trap(id)
  PROVE  HartInv'
<1>1. HandlerPC(id) \in PCs
  BY TrapTarget
<1> QED
  BY <1>1, RaisePreserves DEF Trap, Entries

LEMMA NextPC ==
  ASSUME HartInv, nextPC
  PROVE  pc' \in PCs
  BY NextPCType DEF HartInv, TypeOK, nextPC

LEMMA LoadPreserves ==
  ASSUME HartInv, exec_LOAD
  PROVE  HartInv'
<1>1. status = "running" /\ Cur.op # "BB_END"
  BY DEF exec_LOAD, Executing, LoadOps
<1>2. CASE nextPC /\ execNextInstr /\ UNCHANGED <<csrVars, mem, saved, dirty>>
  BY <1>1, <1>2, NextPC, QuietWalk
<1>3. CASE Throw
  BY <1>1, <1>3, QuietLeave DEF Throw
<1> QED
  BY <1>2, <1>3 DEF exec_LOAD

LEMMA StorePreserves ==
  ASSUME HartInv, exec_STORE
  PROVE  HartInv'
<1>1. status = "running" /\ Cur.op # "BB_END"
  BY DEF exec_STORE, Executing, StoreOps
<1>2. ASSUME NEW a,
             \E w \in [Overwritten(a) \cap Mapped -> StoreWords] :
               mem' = [b \in Mapped |-> IF b \in Overwritten(a) THEN w[b] ELSE mem[b]],
             dirty' = [s \in Slots |-> dirty[s] \cup (Overwritten(a) \cap Mapped)],
             nextPC, execNextInstr, UNCHANGED <<csrVars, saved>>
      PROVE  HartInv'
  <2>1. FrontInv'
    BY <1>1, <1>2, WalkPreserves
  <2>2. mem' \in [Mapped -> Words]
    BY <1>2, HartConstants DEF HartInv, TypeOK
  <2>3. dirty' \in [Slots -> SUBSET Mapped]
    BY <1>2 DEF HartInv, TypeOK
  <2>4. BackInv'
    BY <1>2, <2>2, <2>3, NextPC
       DEF HartInv, TypeOK, BackInv, csrVars, CSRTypeOK, MepcAligned
  <2> QED
    BY <2>1, <2>4, InvParts
<1>3. CASE Throw
  BY <1>1, <1>3, QuietLeave DEF Throw
<1> QED
  BY <1>2, <1>3 DEF exec_STORE

LEMMA JumpPreserves ==
  ASSUME HartInv, exec_JAL \/ exec_JALR \/ exec_BRANCH
  PROVE  HartInv'
<1>1. pc \in PCs
  BY DEF HartInv, TypeOK
<1>2. ASSUME status = "running", Cur.op # "BB_END", NEW t \in PCs, Jump(t)
      PROVE  HartInv'
  BY <1>2, QuietWalk DEF Jump
<1>3. CASE exec_JAL
  <2>1. status = "running" /\ Cur.op = "JAL" /\ Jump(Plus(pc, Cur.imm))
    BY <1>3 DEF exec_JAL, Executing
  <2>2. Cur \in Instrs /\ Cur.imm \in Int
    BY <2>1, AtInstr
  <2>3. Cur.imm % 2 = 0
    BY <2>1, <2>2, EvenOffsets
  <2>4. Plus(pc, Cur.imm) \in PCs
    BY <1>1, <2>2, <2>3, PlusEven
  <2> QED
    BY <1>2, <2>1, <2>4
<1>4. CASE exec_JALR
  <2>1. status = "running" /\ Cur.op = "JALR"
    BY <1>4 DEF exec_JALR, Executing
  <2>2. PICK base \in Reg(Cur.rs1) :
          Jump(Plus(base, Cur.imm) - (Plus(base, Cur.imm) % 2))
    BY <1>4 DEF exec_JALR
  <2>3. base \in Int /\ Cur.imm \in Int
    BY <2>1, AtInstr, RegType
  <2>4. Plus(base, Cur.imm) \in Values
    BY <2>3, PlusType
  <2> DEFINE sum == Plus(base, Cur.imm)
  <2> HIDE DEF sum
  <2>5. sum - (sum % 2) \in PCs
    BY <2>4, ClearBitType DEF sum
  <2> QED
    BY <1>2, <2>1, <2>2, <2>5 DEF sum
<1>5. CASE exec_BRANCH
  <2>1. status = "running" /\ Cur.op \in BranchOps
    BY <1>5 DEF exec_BRANCH, Executing
  <2>2. Cur.op # "BB_END"
    BY <2>1 DEF BranchOps
  <2>3. Cur \in Instrs /\ Cur.imm \in Int
    BY <2>1, <2>2, AtInstr
  <2>4. Cur.imm % 2 = 0
    BY <2>1, <2>3, EvenOffsets DEF BranchOps
  <2>5. Plus(pc, Cur.imm) \in PCs /\ Plus(pc, 4) \in PCs
    BY <1>1, <2>3, <2>4, PlusEven, NextPCType
  <2> QED
    BY <1>2, <1>5, <2>1, <2>2, <2>5 DEF exec_BRANCH
<1> QED
  BY <1>3, <1>4, <1>5

LEMMA EcallPreserves ==
  ASSUME HartInv, exec_ECALL
  PROVE  HartInv'
<1>1. status = "running"
  BY DEF exec_ECALL, Executing
<1>2. CASE Trap(ECALL_UMODE) \/ Trap(ECALL_SMODE) \/ Trap(ECALL_MMODE)
  BY <1>1, <1>2, TrapPreserves DEF ExceptionIds
<1>3. CASE Terminate
  BY <1>1, <1>3, QuietLeave DEF Terminate
<1> QED
  BY <1>2, <1>3 DEF exec_ECALL

LEMMA MretPreserves ==
  ASSUME HartInv, exec_MRET
  PROVE  HartInv'
<1>1. status = "running" /\ Cur.op # "BB_END"
  BY DEF exec_MRET, Executing
<1>2. /\ mepc \in Values /\ mepc % 4 = 0 /\ mepc \in PCs
      /\ pc \in PCs /\ mstatus \in MStatus
  BY AlignedPC DEF HartInv, TypeOK, CSRTypeOK, MepcAligned
<1>3. CASE raiseException(ILLEGAL_INSTR, "running", "overwritten", MEPCOf(pc))
  <2>1. MEPCOf(pc) \in PCs
    BY <1>2 DEF MEPCOf
  <2> QED
    BY <1>1, <1>3, <2>1, RaisePreserves DEF ExceptionIds, Entries
<1>4. CASE /\ privillege' = mstatus.MPP
           /\ mstatus' = [mstatus EXCEPT !.MIE = mstatus.MPIE, !.MPIE = 1, !.MPP = USER]
           /\ pc' = mepc
           /\ saved' = Forgotten
           /\ execNextInstr
           /\ UNCHANGED <<mepc, mtvec, mcause, mem, dirty>>
  <2>1. FrontInv'
    BY <1>1, <1>4, WalkPreserves
  <2>2. mstatus.MPP \in 0 .. 3 /\ mstatus.MPIE \in 0 .. 1
    BY <1>2 DEF MStatus
  <2>3. mstatus' \in MStatus
    <3> DEFINE m1 == [mstatus EXCEPT !.MIE = mstatus.MPIE]
               m2 == [m1 EXCEPT !.MPIE = 1]
               m3 == [m2 EXCEPT !.MPP = USER]
    <3>1. mstatus' = m3
      BY <1>4
    <3>2. m1 \in MStatus
      BY <1>2, <2>2 DEF MStatus
    <3> HIDE DEF m1
    <3>3. m2 \in MStatus
      BY <3>2 DEF MStatus
    <3> HIDE DEF m2
    <3>4. m3 \in MStatus
      BY <3>3 DEF MStatus, USER
    <3> QED
      BY <3>1, <3>4
  <2>4. CSRTypeOK' /\ MepcAligned'
    BY <1>2, <1>4, <2>2, <2>3 DEF HartInv, TypeOK, CSRTypeOK, MepcAligned
  <2>6. saved' \in SavedStates
    BY <1>4, ForgottenType
  <2>7. BackInv'
    BY <1>2, <1>4, <2>4, <2>6 DEF HartInv, TypeOK, BackInv
  <2> QED
    BY <2>1, <2>7, InvParts
<1> QED
  BY <1>3, <1>4 DEF exec_MRET

(* The six instructions that access a CSR. *)
CSROps == {"CSRRW", "CSRRS", "CSRRC", "CSRRWI", "CSRRSI", "CSRRCI"}

exec_CSR ==
  exec_CSRRW \/ exec_CSRRS \/ exec_CSRRC \/ exec_CSRRWI \/ exec_CSRRSI \/ exec_CSRRCI

(* A CSR handler writes a register, reads one, or raises an exception.     *)
LEMMA CSRCases ==
  ASSUME HartInv, exec_CSR
  PROVE  /\ status = "running" /\ Cur.op \in CSROps
         /\ \/ /\ \E v \in Operands : \/ write(Cur.imm, v)
                                      \/ setBits(Cur.imm, v)
                                      \/ clearBits(Cur.imm, v)
               /\ CSRDone
            \/ /\ nextPC
               /\ execNextInstr
               /\ UNCHANGED <<csrVars, mem, saved, dirty>>
            \/ Trap(ILLEGAL_INSTR)
<1>1. status = "running" /\ Cur.op \in CSROps
  BY DEF exec_CSR, exec_CSRRW, exec_CSRRS, exec_CSRRC, exec_CSRRWI, exec_CSRRSI,
         exec_CSRRCI, Executing, CSROps
<1>2. \A v \in Reg(Cur.rs1) : v \in Operands
  BY RegType
<1>3. Cur \in Instrs
  BY <1>1, AtInstr DEF CSROps
<1>4. Cur.op \in {"CSRRWI", "CSRRSI", "CSRRCI"} => Cur.rs1 \in Operands
  BY <1>3, HartConstants
<1>5. CASE exec_CSRRW \/ exec_CSRRC
  BY <1>1, <1>2, <1>5 DEF exec_CSRRW, exec_CSRRC
<1>6. CASE exec_CSRRS
  BY <1>1, <1>2, <1>6 DEF exec_CSRRS
<1>7. CASE exec_CSRRWI \/ exec_CSRRSI \/ exec_CSRRCI
  BY <1>1, <1>4, <1>7 DEF exec_CSRRWI, exec_CSRRSI, exec_CSRRCI, Executing
<1> QED
  BY <1>1, <1>5, <1>6, <1>7 DEF exec_CSR

LEMMA CSRPreserves ==
  ASSUME HartInv, exec_CSR
  PROVE  HartInv'
<1>1. status = "running" /\ Cur.op # "BB_END"
  BY CSRCases DEF CSROps
<1>2. ASSUME NEW v \in Operands,
             write(Cur.imm, v) \/ setBits(Cur.imm, v) \/ clearBits(Cur.imm, v),
             CSRDone
      PROVE  HartInv'
  <2>1. FrontInv'
    BY <1>1, <1>2, WalkPreserves DEF CSRDone
  <2>2. CSRTypeOK' /\ MepcAligned'
    BY <1>2, CSRWriteType DEF HartInv, TypeOK
  <2>3. 0 \in PCs
    BY Width, HartConstants DEF Values
  <2>4. saved' \in SavedStates
    BY <1>2, ForgottenType DEF CSRDone, HartInv, TypeOK
  <2>5. BackInv'
    BY <1>2, <2>2, <2>4, NextPC DEF CSRDone, HartInv, TypeOK, BackInv
  <2> QED
    BY <2>1, <2>5, InvParts
<1>3. CASE nextPC /\ execNextInstr /\ UNCHANGED <<csrVars, mem, saved, dirty>>
  BY <1>1, <1>3, NextPC, QuietWalk
<1>4. CASE Trap(ILLEGAL_INSTR)
  BY <1>1, <1>4, TrapPreserves DEF ExceptionIds
<1> QED
  BY <1>2, <1>3, <1>4, CSRCases

LEMMA HartInitInv == Init => HartInv
<1> SUFFICES ASSUME Init
             PROVE  HartInv
  OBVIOUS
<1>1. CacheInv
  BY CacheInitInv DEF Init
<1>2. 0 \in Values /\ 0 \in PCs
  BY Width, HartConstants DEF Values
<1>3. CSRTypeOK /\ MepcAligned
  <2>1. MStatusOf(0) \in MStatus /\ MCauseOf(0) \in MCause
    BY <1>2, MStatusOfType, MCauseOfType
  <2>2. [Mode |-> 0, Base |-> 0] \in MTVec
    BY Width DEF MTVec
  <2> QED
    BY <1>2, <2>1, <2>2 DEF Init, CSRInit, CSRTypeOK, MACHINE, MepcAligned
<1>4. 0 \in Slots /\ 0 \in Index
  <2>1. kSets \in Nat \ {0} /\ kWays \in Nat \ {0}
    BY CacheConstants
  <2>2. kSets * kWays >= 1 /\ kSets * kWays \in Nat
    BY <2>1
  <2> QED
    BY <2>2, CacheConstants DEF Slots, Index
<1>5. TypeOK
  <2>1. cur \in [slot : Slots, idx : Index]
    BY <1>4 DEF Init
  <2>2. mem \in [Mapped -> Words]
    BY HartConstants DEF Init
  <2>3. saved \in SavedStates
    BY ForgottenType DEF Init
  <2>4. dirty \in [Slots -> SUBSET Mapped]
    BY DEF Init
  <2>5. /\ pc \in PCs /\ CurrentPC \in Values /\ skew \in BOOLEAN
        /\ status \in Statuses /\ entry \in Entries
    BY <1>2 DEF Init, Statuses, Entries
  <2> QED
    BY <1>1, <1>3, <2>1, <2>2, <2>3, <2>4, <2>5 DEF TypeOK, CacheInv
<1>6. NoTorn /\ DispatchInBlock
  BY DEF Init, CacheInit, NoTorn, DispatchInBlock
<1> QED
  BY <1>1, <1>3, <1>5, <1>6 DEF HartInv

LEMMA HartStepInv == HartInv /\ [Next]_vars => HartInv'
<1> SUFFICES ASSUME HartInv, [Next]_vars
             PROVE  HartInv'
  OBVIOUS
<1>1. CASE UNCHANGED vars
  <2>1. CacheInv'
    BY <1>1, CacheStepInv DEF HartInv, vars, cacheVars
  <2>2. FrontInv' /\ BackInv'
    BY <1>1, <2>1 DEF vars, HartInv, TypeOK, FrontInv, BackInv, CSRTypeOK, MepcAligned,
                      NoTorn, DispatchInBlock, Reached, ClosedAt
  <2> QED
    BY <2>2, InvParts
<1>2. CASE run \/ exec_BB_END
  BY <1>2, DispatchPreserves DEF run, exec_BB_END, Executing
<1>3. CASE exec_INV_OP
  <2>1. status = "running"
    BY <1>3 DEF exec_INV_OP, Executing
  <2>2. HandlerPC(ILLEGAL_INSTR) \in PCs
    BY HandlerPCType DEF HartInv, TypeOK, ILLEGAL_INSTR
  <2> QED
    BY <1>3, <2>1, <2>2, RaisePreserves DEF exec_INV_OP, ExceptionIds, Entries
<1>4. CASE exec_ALU
  <2>1. status = "running" /\ Cur.op # "BB_END"
    BY <1>4 DEF exec_ALU, Executing, ImmOps, UpperOps, RegOps, WordOps, FenceOps
  <2> QED
    BY <1>4, <2>1, NextPC, QuietWalk DEF exec_ALU
<1>5. CASE exec_LOAD
  BY <1>5, LoadPreserves
<1>6. CASE exec_STORE
  BY <1>6, StorePreserves
<1>7. CASE exec_JAL \/ exec_JALR \/ exec_BRANCH
  BY <1>7, JumpPreserves
<1>8. CASE exec_PAUSE
  BY <1>8, TrapPreserves DEF exec_PAUSE, Executing, ExceptionIds
<1>9. CASE exec_ECALL
  BY <1>9, EcallPreserves
<1>10. CASE exec_EBREAK
  BY <1>10, QuietLeave DEF exec_EBREAK, Executing
<1>11. CASE exec_MRET
  BY <1>11, MretPreserves
<1>12. CASE exec_SRET
  BY <1>12, QuietLeave DEF exec_SRET, Executing, Terminate
<1>13. CASE exec_CSR
  BY <1>13, CSRPreserves
<1> QED
  BY <1>1, <1>2, <1>3, <1>4, <1>5, <1>6, <1>7, <1>8, <1>9, <1>10, <1>11, <1>12, <1>13
     DEF Next, Execute, exec_CSR

(* The invariant of the hart holds of every execution, for every cache     *)
(* geometry, address width, memory map, instruction set and program.       *)
THEOREM HartInvariance == Spec => []HartInv
<1>1. Init => HartInv
  BY HartInitInv
<1>2. HartInv /\ [Next]_vars => HartInv'
  BY HartStepInv
<1> QED
  BY <1>1, <1>2, PTL DEF Spec

(* Type correctness of the hart: PC stays an even address below 2^XLEN,    *)
(* every CSR field stays in its range and currentInstr_ stays in its       *)
(* array, through jumps, traps, returns and exceptions out of run().       *)
THEOREM HartTyping == Spec => []TypeOK
<1>1. HartInv => TypeOK
  BY DEF HartInv
<1> QED
  BY <1>1, HartInvariance, PTL

(* The dispatch never leaves the block it was handed by fetchBB: the cell  *)
(* under currentInstr_ is an instruction of a completely assembled block   *)
(* or the BB_END that closes it.                                           *)
THEOREM HartDispatchInBlock == Spec => []DispatchInBlock
<1>1. HartInv => DispatchInBlock
  BY DEF HartInv
<1> QED
  BY <1>1, HartInvariance, PTL

(* The tag of an unused block is never looked up nor executed from.        *)
THEOREM HartPoisonNeverMet == Spec => []PoisonNeverMet
<1>1. HartInv => PoisonNeverMet
  <2> SUFFICES ASSUME HartInv
               PROVE  PoisonNeverMet
    OBVIOUS
  <2>1. pc # PoisonPC
    BY CacheConstants DEF HartInv, TypeOK
  <2>2. status = "running" => bbs[cur.slot].pc # PoisonPC
    BY DEF HartInv, DispatchInBlock, Reached
  <2> QED
    BY <2>1, <2>2 DEF PoisonNeverMet
<1> QED
  BY <1>1, HartInvariance, PTL

-----------------------------------------------------------------------------
(* The four shapes of a step, by how it moves the dispatch. *)

(* It raises an exception. *)
Raises ==
  /\ status = "running" /\ Cur # BBEnd
  /\ \E id \in ExceptionIds, after \in {"running", "returned"},
        how \in {"trap", "overwritten"}, pcAfter \in PCs :
       /\ pcAfter = IF how = "trap" THEN HandlerPC(id) ELSE MEPCOf(pc)
       /\ raiseException(id, after, how, pcAfter)

(* It leaves run() and changes nothing else. *)
Leaves ==
  /\ status' # "running"
  /\ UNCHANGED <<cacheVars, csrVars, pc, cur, mem, skew, CurrentPC, entry, saved, dirty>>

(* What a step that goes on to the next cell may do besides. *)
Storing ==
  \E a : /\ \A b \in Mapped \ Overwritten(a) : mem'[b] = mem[b]
         /\ dirty' = [s \in Slots |-> dirty[s] \cup (Overwritten(a) \cap Mapped)]

Writing ==
  \/ UNCHANGED <<csrVars, saved>>
  \/ privillege = MACHINE /\ saved' = Forgotten
  \/ /\ \E v : \/ write(Cur.imm, v)
              \/ setBits(Cur.imm, v)
              \/ clearBits(Cur.imm, v)
     /\ saved' = IF Cur.imm \in {MSTATUS, MEPC} THEN Forgotten ELSE saved

Walks ==
  /\ status = "running" /\ Cur.op # "BB_END"
  /\ execNextInstr
  /\ nextPC \/ isJump(Cur)
  /\ UNCHANGED <<mem, dirty>> \/ Storing
  /\ Writing

LEMMA StepShapes ==
  ASSUME HartInv, Next
  PROVE  (Dispatch /\ status # "threw") \/ Raises \/ Leaves \/ Walks
<1>1. ASSUME status = "running", Cur # BBEnd, NEW id \in ExceptionIds, Trap(id)
      PROVE  Raises
  <2>1. HandlerPC(id) \in PCs
    BY TrapTarget
  <2> QED
    BY <1>1, <2>1 DEF Trap, Raises
<1>2. ILLEGAL_INSTR \in ExceptionIds
  BY DEF ExceptionIds
<1>3. CASE run \/ exec_BB_END
  BY <1>3 DEF run, exec_BB_END, Executing
<1>4. CASE exec_INV_OP
  <2>1. HandlerPC(ILLEGAL_INSTR) \in PCs
    BY HandlerPCType DEF HartInv, TypeOK, ILLEGAL_INSTR
  <2> QED
    BY <1>2, <1>4, <2>1 DEF exec_INV_OP, Executing, Raises, BBEnd
<1>5. CASE exec_ALU
  BY <1>5 DEF exec_ALU, Walks, Writing, Executing, ImmOps, UpperOps, RegOps, WordOps, FenceOps
<1>6. CASE exec_LOAD
  BY <1>6 DEF exec_LOAD, Throw, Leaves, Walks, Writing, Executing, LoadOps
<1>7. CASE exec_STORE
  <2>1. status = "running" /\ Cur.op # "BB_END"
    BY <1>7 DEF exec_STORE, Executing, StoreOps
  <2>2. ASSUME NEW a,
               \E w \in [Overwritten(a) \cap Mapped -> StoreWords] :
                 mem' = [b \in Mapped |-> IF b \in Overwritten(a) THEN w[b] ELSE mem[b]],
               dirty' = [s \in Slots |-> dirty[s] \cup (Overwritten(a) \cap Mapped)],
               nextPC, execNextInstr, UNCHANGED <<csrVars, saved>>
        PROVE  Walks
    <3>1. \A b \in Mapped \ Overwritten(a) : mem'[b] = mem[b]
      BY <2>2
    <3>2. Storing
      BY <2>2, <3>1 DEF Storing
    <3> QED
      BY <2>1, <2>2, <3>2 DEF Walks, Writing
  <2>3. CASE Throw
    BY <2>3 DEF Throw, Leaves
  <2> QED
    BY <1>7, <2>2, <2>3 DEF exec_STORE
<1>8. CASE exec_JAL \/ exec_JALR \/ exec_BRANCH
  BY <1>8 DEF exec_JAL, exec_JALR, exec_BRANCH, Jump, Walks, Writing, Executing,
              BranchOps, isJump, JumpOps
<1>9. CASE exec_PAUSE \/ exec_ECALL
  BY <1>1, <1>9 DEF exec_PAUSE, exec_ECALL, Executing, ExceptionIds, Terminate, Leaves, BBEnd
<1>10. CASE exec_EBREAK \/ exec_SRET
  BY <1>10 DEF exec_EBREAK, exec_SRET, Terminate, Leaves
<1>11. CASE exec_MRET
  <2>1. pc \in PCs /\ mepc \in PCs
    BY AlignedPC DEF HartInv, TypeOK, CSRTypeOK, MepcAligned
  <2>2. MEPCOf(pc) \in PCs
    BY <2>1 DEF MEPCOf
  <2>3. CASE raiseException(ILLEGAL_INSTR, "running", "overwritten", MEPCOf(pc))
    BY <1>2, <1>11, <2>2, <2>3 DEF Raises, exec_MRET, Executing, BBEnd
  <2>4. CASE /\ privillege = MACHINE /\ saved' = Forgotten /\ execNextInstr
             /\ UNCHANGED <<mem, dirty>>
    BY <1>11, <2>4 DEF Walks, Writing, exec_MRET, Executing, isJump, JumpOps
  <2> QED
    BY <1>11, <2>3, <2>4 DEF exec_MRET
<1>12. CASE exec_CSR
  <2>1. status = "running" /\ Cur.op # "BB_END" /\ Cur # BBEnd
    BY <1>12, CSRCases DEF CSROps, BBEnd
  <2>2. CASE /\ \E v \in Operands : \/ write(Cur.imm, v)
                                   \/ setBits(Cur.imm, v)
                                   \/ clearBits(Cur.imm, v)
             /\ CSRDone
    BY <2>1, <2>2 DEF CSRDone, Walks, Writing
  <2>3. CASE nextPC /\ execNextInstr /\ UNCHANGED <<csrVars, mem, saved, dirty>>
    BY <2>1, <2>3 DEF Walks, Writing
  <2> QED
    BY <1>1, <1>2, <1>12, <2>1, <2>2, <2>3, CSRCases
<1> QED
  BY <1>3, <1>4, <1>5, <1>6, <1>7, <1>8, <1>9, <1>10, <1>11, <1>12
     DEF Next, Execute, exec_CSR

-----------------------------------------------------------------------------
(* The tracer. *)

(* The address of the next cell is one word further. *)
LEMMA WalkAddress ==
  ASSUME HartInv, NEW b \in Blocks, NEW k \in Index
  PROVE  (b.pc + 4 * (k + 1)) % XSize = Plus((b.pc + 4 * k) % XSize, 4)
<1>1. b.pc \in Int /\ k \in Int
  <2>1. b.pc \in PCs \/ b.pc = 1
    BY DEF Blocks, PoisonPC
  <2>2. PCs \subseteq Nat /\ k \in Int
    BY CacheConstants DEF Index
  <2>3. \A p : p \in PCs => p \in Int
    BY <2>2
  <2>4. \A p : p = 1 => p \in Int
    OBVIOUS
  <2> QED
    BY <2>1, <2>2, <2>3, <2>4, Zenon
<1> DEFINE x == b.pc + 4 * k
<1>2. x \in Int /\ b.pc + 4 * (k + 1) = x + 4
  BY <1>1
<1> HIDE DEF x
<1>3. ((x % XSize) + 4) % XSize = (x + 4) % XSize
  <2>1. XSize \in Nat \ {0} /\ 4 \in Int
    BY Width
  <2> QED
    BY <1>2, <2>1, ModAdd
<1> QED
  BY <1>2, <1>3 DEF Plus, x

(* The address of the cell that a fetch leaves under currentInstr_. *)
LEMMA EnterAddress ==
  ASSUME HartInv, status # "threw", NEW a \in PCs, NEW skip \in {0, 1}, fetchBB(a, skip)
  PROVE  At' = Plus(a, 4 * skip)
<1>1. cur'.idx = skip /\ bbs'[cur'.slot].pc = a
  BY FetchEnters DEF Entered
<1> QED
  BY <1>1 DEF At, Plus

(* execNextInstr moves the address by one word unless it throws. *)
LEMMA NextAddress ==
  ASSUME HartInv, execNextInstr, status' = "running"
  PROVE  At' = Plus(At, 4) /\ CurrentPC' = Plus(CurrentPC, 4)
<1>1. /\ cur' = [cur EXCEPT !.idx = @ + 1] /\ CurrentPC' = Plus(CurrentPC, 4)
      /\ UNCHANGED bbs
  BY DEF execNextInstr
<1>2. cur \in [slot : Slots, idx : Index] /\ bbs \in [Slots -> Blocks]
  BY DEF HartInv, TypeOK, CacheTypeOK
<1>3. cur'.slot = cur.slot /\ cur'.idx = cur.idx + 1
  BY <1>1, <1>2
<1>4. bbs[cur.slot] \in Blocks /\ cur.idx \in Index
  BY <1>2
<1> QED
  BY <1>1, <1>3, <1>4, WalkAddress DEF At

LEMMA TracerStep ==
  ASSUME HartInv, TracerFollowsDispatch, Next
  PROVE  TracerFollowsDispatch'
<1> SUFFICES ASSUME status' = "running"
             PROVE  CurrentPC' = At'
  BY DEF TracerFollowsDispatch
<1>1. ASSUME status # "threw", NEW a \in PCs, NEW skip \in {0, 1}, fetchBB(a, skip)
      PROVE  CurrentPC' = At'
  BY <1>1, FetchEnters, EnterAddress
<1>2. CASE Dispatch /\ status # "threw"
  BY <1>1, <1>2 DEF Dispatch, HartInv, TypeOK
<1>3. CASE Raises
  <2>1. PICK id \in ExceptionIds, after \in {"running", "returned"},
             how \in {"trap", "overwritten"}, pcAfter \in PCs :
          raiseException(id, after, how, pcAfter)
    BY <1>3 DEF Raises
  <2>2. HandlerPC(id) \in PCs
    BY TrapTarget
  <2>3. PICK skip \in {0, 1} : fetchBB(HandlerPC(id), skip)
    BY <2>1 DEF raiseException
  <2> QED
    BY <1>1, <1>3, <2>2, <2>3 DEF Raises
<1>4. CASE Leaves
  BY <1>4 DEF Leaves
<1>5. CASE Walks
  BY <1>5, NextAddress DEF Walks, TracerFollowsDispatch
<1> QED
  BY <1>2, <1>3, <1>4, <1>5, StepShapes

(* The tracer reports the address of the instruction under currentInstr_,  *)
(* for every wrap-around of the address space and every order of hits,     *)
(* misses, evictions and traps.                                            *)
THEOREM HartTracerFollowsDispatch == Spec => []TracerFollowsDispatch
<1>1. Init => TracerFollowsDispatch
  BY DEF Init, TracerFollowsDispatch
<1>2. HartInv /\ TracerFollowsDispatch /\ [Next]_vars => TracerFollowsDispatch'
  <2>1. HartInv /\ TracerFollowsDispatch /\ Next => TracerFollowsDispatch'
    BY TracerStep
  <2>2. TracerFollowsDispatch /\ UNCHANGED vars => TracerFollowsDispatch'
    BY DEF TracerFollowsDispatch, At, vars
  <2> QED
    BY <2>1, <2>2
<1> QED
  BY <1>1, <1>2, HartInvariance, PTL DEF Spec

-----------------------------------------------------------------------------
(* What PC means to a handler. *)

(* A jump is the last instruction of its block. *)
LEMMA JumpEndsBlock ==
  ASSUME HartInv, status = "running", Cur.op # "BB_END", isJump(Cur),
         execNextInstr, status' = "running"
  PROVE  Cur' = BBEnd
<1>1. PICK n \in 1 .. kCapacity - 1 : ClosedAt(bbs[cur.slot], n) /\ cur.idx <= n - 1
  BY AtInstr
<1>2. cur \in [slot : Slots, idx : Index] /\ cur.idx \in Nat /\ n \in Int
  BY CacheConstants DEF HartInv, TypeOK, Index
<1>3. cur.idx = n - 1
  <2>1. cur.idx \notin 0 .. n - 2
    BY <1>1 DEF ClosedAt, Cur, isJump
  <2> QED
    BY <1>1, <1>2, <2>1
<1>4. cur' = [cur EXCEPT !.idx = @ + 1] /\ UNCHANGED bbs
  BY DEF execNextInstr
<1>5. cur'.slot = cur.slot /\ cur'.idx = n
  BY <1>2, <1>3, <1>4
<1> QED
  BY <1>1, <1>4, <1>5 DEF Cur, ClosedAt

(* Plus(a, 0) is a. *)
LEMMA PlusZero ==
  ASSUME NEW a \in PCs
  PROVE  Plus(a, 4 * 0) = a
<1>1. a \in 0 .. XSize - 1
  BY HartConstants DEF Values
<1>2. a % XSize = a
  BY <1>1, Width, ModSmall
<1> QED
  BY <1>1, <1>2 DEF Plus

(* Counting on by one instruction. *)
LEMMA PlusFour ==
  ASSUME NEW a \in Int, NEW k \in Int
  PROVE  Plus(Plus(a, 4 * (k - 1)), 4) = Plus(a, 4 * ((k + 1) - 1))
<1> DEFINE x == a + 4 * (k - 1)
<1>1. x \in Int /\ a + 4 * ((k + 1) - 1) = x + 4
  OBVIOUS
<1> HIDE DEF x
<1>2. ((x % XSize) + 4) % XSize = (x + 4) % XSize
  <2>1. XSize \in Nat \ {0} /\ 4 \in Int
    BY Width
  <2> QED
    BY <1>1, <2>1, ModAdd
<1> QED
  BY <1>1, <1>2 DEF Plus, x

LEMMA PlusFourAligned ==
  ASSUME NEW a \in Int, a % 4 = 0
  PROVE  Plus(a, 4) % 4 = 0
<1>1. a + 4 \in Int /\ (a + 4) % 4 = 0
  BY AddMultiple
<1>2. XSize \in Nat \ {0} /\ XSize % 4 = 0 /\ 4 \in Nat \ {0}
  BY Width
<1> QED
  BY <1>1, <1>2, ModMultiple DEF Plus

(* PC is aligned in the blocks that traps enter. *)
TrapPCAligned ==
  (status = "running" /\ Cur # BBEnd /\ entry = "trap") => pc % 4 = 0

LEMMA PCStep ==
  ASSUME HartInv, PCOfHandler, TrapPCAligned, Next
  PROVE  PCOfHandler' /\ TrapPCAligned'
<1> SUFFICES ASSUME status' = "running", Cur' # BBEnd
             PROVE  /\ entry' = "end" => pc' = At'
                    /\ entry' = "trap" => Plus(pc', 4) = At' /\ pc' % 4 = 0
                    /\ (entry' \notin {"end", "trap"} /\ saved'.valid)
                         => pc' = Plus(mepc', 4 * (cur'.idx - 1))
  BY DEF PCOfHandler, TrapPCAligned
<1>1. pc \in PCs /\ pc \in Int /\ mepc \in Values /\ mepc \in Int
  BY Width, HartConstants DEF HartInv, TypeOK, CSRTypeOK, Values
<1>2. CASE Dispatch /\ status # "threw"
  <2>1. fetchBB(pc, 0) /\ entry' = "end" /\ pc' = pc
    BY <1>2 DEF Dispatch
  <2>2. At' = Plus(pc, 4 * 0)
    BY <1>1, <1>2, <2>1, EnterAddress
  <2> QED
    BY <1>1, <2>1, <2>2, PlusZero
<1>3. CASE Raises
  <2>1. PICK id \in ExceptionIds, after \in {"running", "returned"},
             how \in {"trap", "overwritten"}, pcAfter \in PCs :
          /\ pcAfter = IF how = "trap" THEN HandlerPC(id) ELSE MEPCOf(pc)
          /\ raiseException(id, after, how, pcAfter)
    BY <1>3 DEF Raises
  <2>2. HandlerPC(id) \in PCs /\ HandlerPC(id) % 4 = 0
    BY HandlerPCType DEF HartInv, TypeOK, ExceptionIds, ILLEGAL_INSTR,
                         ECALL_UMODE, ECALL_SMODE, ECALL_MMODE
  <2>3. fetchBB(HandlerPC(id), 1) /\ pc' = pcAfter /\ entry' = how
    BY <2>1 DEF raiseException
  <2>4. At' = Plus(HandlerPC(id), 4 * 1)
    BY <1>3, <2>2, <2>3, EnterAddress DEF Raises
  <2>5. cur'.idx = 1
    BY <1>3, <2>2, <2>3, FetchEnters DEF Raises, Entered
  <2>6. mepc' = MEPCOf(pc)
    BY <2>1 DEF raiseException, TrapCSRs
  <2>7. CASE how = "trap"
    BY <2>1, <2>2, <2>3, <2>4, <2>7
  <2>8. CASE how = "overwritten"
    <3>1. pc' = mepc' /\ mepc' \in PCs
      BY <2>1, <2>3, <2>6, <2>8
    <3>2. Plus(mepc', 4 * 0) = mepc'
      BY <3>1, PlusZero
    <3>3. 4 * (cur'.idx - 1) = 4 * 0
      BY <2>5
    <3> QED
      BY <2>3, <2>8, <3>1, <3>2, <3>3
  <2> QED
    BY <2>7, <2>8
<1>4. CASE Leaves
  BY <1>4 DEF Leaves
<1>5. CASE Walks
  <2>1. ~isJump(Cur)
    BY <1>5, JumpEndsBlock DEF Walks
  <2>2. pc' = Plus(pc, 4) /\ entry' = entry
    BY <1>5, <2>1 DEF Walks, nextPC, execNextInstr
  <2>3. At' = Plus(At, 4)
    BY <1>5, NextAddress DEF Walks
  <2>4. Cur # BBEnd /\ status = "running"
    BY <1>5 DEF Walks, BBEnd
  <2>5. /\ entry = "end" => pc = At
        /\ entry = "trap" => Plus(pc, 4) = At /\ pc % 4 = 0
        /\ (entry \notin {"end", "trap"} /\ saved.valid)
             => pc = Plus(mepc, 4 * (cur.idx - 1))
    BY <2>4 DEF PCOfHandler, TrapPCAligned
  <2>6. cur.idx \in Int /\ cur'.idx = cur.idx + 1
    BY <1>5, CacheConstants DEF Walks, execNextInstr, HartInv, TypeOK, Index
  <2>7. saved'.valid => saved.valid /\ mepc' = mepc
    <3>1. CASE UNCHANGED <<csrVars, saved>>
      BY <3>1 DEF csrVars
    <3>2. CASE saved' = Forgotten
      BY <3>2 DEF Forgotten
    <3>3. CASE /\ \E v : \/ write(Cur.imm, v)
                         \/ setBits(Cur.imm, v)
                         \/ clearBits(Cur.imm, v)
               /\ Cur.imm \notin {MSTATUS, MEPC}
               /\ saved' = saved
      BY <3>3 DEF write, setBits, clearBits, WriteReg
    <3> QED
      BY <1>5, <3>1, <3>2, <3>3 DEF Walks, Writing
  <2>8. ASSUME entry \notin {"end", "trap"}, saved'.valid
        PROVE  pc' = Plus(mepc', 4 * (cur'.idx - 1))
    <3>1. Plus(Plus(mepc, 4 * (cur.idx - 1)), 4) = Plus(mepc, 4 * ((cur.idx + 1) - 1))
      BY <1>1, <2>6, PlusFour
    <3> QED
      BY <2>2, <2>5, <2>6, <2>7, <2>8, <3>1
  <2>9. entry = "trap" => pc' % 4 = 0
    BY <1>1, <2>2, <2>5, PlusFourAligned
  <2> QED
    BY <2>2, <2>3, <2>5, <2>8, <2>9
<1> QED
  BY <1>2, <1>3, <1>4, <1>5, StepShapes

LEMMA PCInvariance == Spec => [](PCOfHandler /\ TrapPCAligned)
<1>1. Init => PCOfHandler /\ TrapPCAligned
  BY DEF Init, PCOfHandler, TrapPCAligned
<1>2. HartInv /\ (PCOfHandler /\ TrapPCAligned) /\ [Next]_vars
        => (PCOfHandler /\ TrapPCAligned)'
  <2>1. HartInv /\ PCOfHandler /\ TrapPCAligned /\ Next => PCOfHandler' /\ TrapPCAligned'
    BY PCStep
  <2>2. PCOfHandler /\ TrapPCAligned /\ UNCHANGED vars => PCOfHandler' /\ TrapPCAligned'
    BY DEF PCOfHandler, TrapPCAligned, At, Cur, vars
  <2> QED
    BY <2>1, <2>2
<1> QED
  BY <1>1, <1>2, HartInvariance, PTL DEF Spec

(* PC is the address of the instruction in a block entered through BB_END, *)
(* one instruction behind in a block entered by a trap, and counts on from *)
(* mepc in the block an illegal MRET enters, for every program.            *)
THEOREM HartPCOfHandler == Spec => []PCOfHandler
  BY PCInvariance, PTL

-----------------------------------------------------------------------------
(* Traps and privileges. *)

(* A CSR instruction succeeds in machine mode only: every register of this *)
(* file belongs to it.                                                     *)
LEMMA RegistersAreMachine ==
  ASSUME NEW id, Readable(id)
  PROVE  privillege = MACHINE
<1>1. id \in Registers /\ registerPrivillege(id) = privillege
  BY DEF Readable, fitPrivillege
<1>2. registerPrivillege(id) = 3
  BY <1>1 DEF Registers, MSTATUS, MTVEC, MEPC, MCAUSE, MHARTID, registerPrivillege, Bits
<1> QED
  BY <1>1, <1>2 DEF MACHINE

(* What mstatus and mepc hold after a trap, while no CSR write interferes. *)
TrapRecorded ==
  saved.valid =>
    /\ mstatus.MPP = saved.priv
    /\ mstatus.MPIE = saved.MIE
    /\ (saved.at % 4 # 0 /\ saved.entry = "end") => mepc = saved.mepc
    /\ (saved.at % 4 = 0 /\ saved.entry = "end") => mepc = saved.at
    /\ saved.entry = "trap" => Plus(mepc, 4) = saved.at

LEMMA TrapStep ==
  ASSUME HartInv, PCOfHandler, TrapPCAligned, TrapRecorded, Next
  PROVE  TrapRecorded'
<1>1. CASE UNCHANGED <<csrVars, saved>>
  BY <1>1 DEF TrapRecorded, csrVars
<1>2. CASE Raises
  <2>1. PICK id : TrapCSRs(id)
    BY <1>2 DEF Raises, raiseException
  <2>2. mstatus \in MStatus
    BY DEF HartInv, TypeOK, CSRTypeOK
  <2>3. mstatus'.MPP = privillege /\ mstatus'.MPIE = mstatus.MIE
    BY <2>1, <2>2 DEF TrapCSRs, MStatus
  <2>4. /\ saved'.priv = privillege /\ saved'.MIE = mstatus.MIE
        /\ saved'.at = At /\ saved'.entry = entry /\ saved'.mepc = mepc
    BY <2>1 DEF TrapCSRs, Interrupted
  <2>5. mepc' = IF pc % 4 = 0 THEN pc ELSE mepc
    BY <2>1 DEF TrapCSRs, MEPCOf
  <2>6. /\ entry = "end" => pc = At
        /\ entry = "trap" => Plus(pc, 4) = At /\ pc % 4 = 0
    BY <1>2 DEF Raises, PCOfHandler, TrapPCAligned
  <2> QED
    BY <2>3, <2>4, <2>5, <2>6 DEF TrapRecorded
<1>3. CASE Dispatch \/ Leaves
  BY <1>1, <1>3 DEF Dispatch, Leaves
<1>4. CASE Walks
  <2>1. CASE saved' = Forgotten
    BY <2>1 DEF TrapRecorded, Forgotten
  <2>2. CASE /\ \E v : \/ write(Cur.imm, v)
                       \/ setBits(Cur.imm, v)
                       \/ clearBits(Cur.imm, v)
             /\ Cur.imm \notin {MSTATUS, MEPC}
             /\ saved' = saved
    <3>1. mstatus' = mstatus /\ mepc' = mepc
      BY <2>2 DEF write, setBits, clearBits, WriteReg
    <3> QED
      BY <2>2, <3>1 DEF TrapRecorded
  <2> QED
    BY <1>1, <1>4, <2>1, <2>2 DEF Walks, Writing
<1> QED
  BY <1>2, <1>3, <1>4, StepShapes

(* MRET restores the mode and the interrupt enable the last trap           *)
(* interrupted, and goes on where ReturnResumes says, for every program    *)
(* and every chain of traps: the instruction itself out of a block that    *)
(* BB_END has entered, the one before it out of a block a trap entered.    *)
THEOREM HartReturnResumes == Spec => ReturnResumes
<1> DEFINE Resumes ==
      Returning =>
        /\ privillege' = saved.priv
        /\ mstatus'.MIE = saved.MIE
        /\ CASE saved.at % 4 # 0 /\ saved.entry = "end" -> pc' = saved.mepc
             [] saved.at % 4 = 0 /\ saved.entry = "end" -> pc' = saved.at
             [] saved.entry = "trap"                    -> Plus(pc', 4) = saved.at
             [] OTHER                                   -> TRUE
<1>1. Init => TrapRecorded
  BY DEF Init, TrapRecorded, Forgotten
<1>2. HartInv /\ (PCOfHandler /\ TrapPCAligned) /\ TrapRecorded /\ [Next]_vars
        => TrapRecorded'
  <2>1. HartInv /\ PCOfHandler /\ TrapPCAligned /\ TrapRecorded /\ Next => TrapRecorded'
    BY TrapStep
  <2>2. TrapRecorded /\ UNCHANGED vars => TrapRecorded'
    BY DEF TrapRecorded, vars
  <2> QED
    BY <2>1, <2>2
<1>3. ASSUME HartInv, TrapRecorded, Next, Returning
      PROVE  Resumes
  <2>1. status = "running" /\ Cur.op = "MRET" /\ privillege = MACHINE
    BY <1>3 DEF Returning, Executing
  <2>2. exec_MRET
    BY <1>3, <2>1 DEF Next, Execute, run, exec_BB_END, exec_INV_OP, exec_ALU, exec_LOAD,
      exec_STORE, exec_JAL, exec_JALR, exec_BRANCH, exec_PAUSE, exec_ECALL, exec_EBREAK,
      exec_SRET, exec_CSRRW, exec_CSRRS, exec_CSRRC, exec_CSRRWI, exec_CSRRSI, exec_CSRRCI,
      Executing, ImmOps, UpperOps, RegOps, WordOps, FenceOps, LoadOps, StoreOps, BranchOps
  <2>3. /\ privillege' = mstatus.MPP /\ pc' = mepc
        /\ mstatus' = [mstatus EXCEPT !.MIE = mstatus.MPIE, !.MPIE = 1, !.MPP = USER]
    BY <2>1, <2>2 DEF exec_MRET
  <2>4. mstatus'.MIE = mstatus.MPIE
    BY <1>3, <2>3 DEF HartInv, TypeOK, CSRTypeOK, MStatus
  <2> QED
    BY <1>3, <2>3, <2>4 DEF TrapRecorded, Returning
<1>4. HartInv /\ TrapRecorded /\ [Next]_vars => [Resumes]_vars
  BY <1>3
<1> QED
  BY <1>1, <1>2, <1>4, HartInvariance, PCInvariance, PTL DEF Spec, ReturnResumes

(* The guest below machine mode changes no CSR and gains no privilege      *)
(* except by a trap that goes to the handler in mtvec: for every set of    *)
(* instructions and register values.                                       *)
THEOREM HartUserIsConfined == Spec => UserIsConfined
<1> DEFINE Confined ==
      privillege # MACHINE =>
        \/ UNCHANGED csrVars
        \/ /\ privillege' = MACHINE /\ mtvec' = mtvec
           /\ mstatus'.MPP = privillege /\ mstatus'.MIE = 0
           /\ CurrentPC' \in {HandlerPC(mcause'.ExceptionCode),
                              Plus(HandlerPC(mcause'.ExceptionCode), 4)}
                \/ status' = "threw"
<1>1. ASSUME HartInv, Next, privillege # MACHINE
      PROVE  Confined
  <2>1. CASE Dispatch \/ Leaves
    BY <2>1 DEF Dispatch, Leaves
  <2>2. CASE Walks
    <3>1. ASSUME NEW v, \/ write(Cur.imm, v)
                        \/ setBits(Cur.imm, v)
                        \/ clearBits(Cur.imm, v)
          PROVE  FALSE
      <4>1. Readable(Cur.imm)
        BY <3>1 DEF write, setBits, clearBits, Writable
      <4> QED
        BY <1>1, <4>1, RegistersAreMachine
    <3> QED
      BY <1>1, <2>2, <3>1 DEF Walks, Writing
  <2>3. CASE Raises
    <3>1. PICK id \in ExceptionIds, after \in {"running", "returned"},
               how \in {"trap", "overwritten"}, pcAfter \in PCs :
            raiseException(id, after, how, pcAfter)
      BY <2>3 DEF Raises
    <3>2. TrapCSRs(id) /\ mtvec' = mtvec
      BY <3>1 DEF raiseException
    <3>3. mstatus \in MStatus
      BY <1>1 DEF HartInv, TypeOK, CSRTypeOK
    <3>4. mstatus'.MPP = privillege /\ mstatus'.MIE = 0
      BY <3>2, <3>3 DEF TrapCSRs, MStatus
    <3>5. privillege' = MACHINE /\ mcause'.ExceptionCode = id
      BY <3>2 DEF TrapCSRs
    <3>6. HandlerPC(id) \in PCs
      BY <1>1, TrapTarget
    <3>7. ASSUME NEW skip \in {0, 1}, fetchBB(HandlerPC(id), skip)
          PROVE  CurrentPC' \in {HandlerPC(id), Plus(HandlerPC(id), 4)}
      <4>1. CurrentPC' = Plus(HandlerPC(id), 4 * skip)
        BY <1>1, <2>3, <3>6, <3>7, FetchEnters DEF Raises
      <4>2. CASE skip = 0
        BY <3>6, <4>1, <4>2, PlusZero
      <4>3. CASE skip = 1
        BY <4>1, <4>3
      <4> QED
        BY <4>2, <4>3
    <3>8. CurrentPC' \in {HandlerPC(id), Plus(HandlerPC(id), 4)} \/ status' = "threw"
      BY <3>1, <3>7 DEF raiseException
    <3> QED
      BY <3>2, <3>4, <3>5, <3>8
  <2> QED
    BY <1>1, <2>1, <2>2, <2>3, StepShapes
<1>2. HartInv /\ [Next]_vars => [Confined]_vars
  BY <1>1
<1> QED
  BY <1>2, HartInvariance, PTL DEF Spec, UserIsConfined

-----------------------------------------------------------------------------
(* The hart and its cache. *)

(* Every fetch is an operation of the cache. *)
LEMMA FetchIsCacheStep ==
  ASSUME HartInv, NEW a \in PCs,
         (\E skip : fetchBB(a, skip)) \/ fetchThrows(a)
  PROVE  CacheNext
<1>1. TypeOK
  BY DEF HartInv
<1>2. ASSUME NEW s \in Slots, FetchHit(a, s)
      PROVE  CacheNext
  BY <1>2 DEF CacheNext
<1>3. ASSUME NEW s \in Slots, NEW code \in Fetched(a), NEW n \in 1 .. kCapacity - 1,
             FetchBuild(a, s, code, n)
      PROVE  CacheNext
  <2>1. code \in Codes /\ n \in 0 .. kCapacity - 1
    BY <1>1, FetchedType, CacheConstants
  <2> QED
    BY <1>3, <2>1 DEF CacheNext
<1>4. ASSUME NEW s \in Slots, NEW code \in Fetched(a), NEW n \in 0 .. kCapacity - 2,
             FetchTorn(a, s, code, n)
      PROVE  CacheNext
  <2>1. code \in Codes /\ n \in 0 .. kCapacity - 1
    BY <1>1, FetchedType, CacheConstants
  <2> QED
    BY <1>4, <2>1 DEF CacheNext
<1> QED
  BY <1>2, <1>3, <1>4 DEF fetchBB, fetchThrows

(* The hart uses the block cache only through the operations of            *)
(* BasicBlockCache, at program counters and with decoded instructions      *)
(* that module allows: what is proved of the cache holds of the hart.      *)
THEOREM HartImplementsCache == Spec => CacheSpec
<1>1. Init => CacheInit
  BY DEF Init
<1>2. HartInv /\ [Next]_vars => [CacheNext]_cacheVars
  <2> SUFFICES ASSUME HartInv, Next
               PROVE  [CacheNext]_cacheVars
    BY DEF vars, cacheVars
  <2>1. CASE Dispatch
    BY <2>1, FetchIsCacheStep DEF Dispatch, HartInv, TypeOK
  <2>2. CASE Raises
    <3>1. PICK id \in ExceptionIds, after \in {"running", "returned"},
               how \in {"trap", "overwritten"}, pcAfter \in PCs :
            raiseException(id, after, how, pcAfter)
      BY <2>2 DEF Raises
    <3>2. HandlerPC(id) \in PCs
      BY TrapTarget
    <3> QED
      BY <3>1, <3>2, FetchIsCacheStep DEF raiseException
  <2>3. CASE Leaves
    BY <2>3 DEF Leaves
  <2>4. CASE Walks
    BY <2>4 DEF Walks, execNextInstr, cacheVars
  <2> QED
    BY <2>1, <2>2, <2>3, <2>4, StepShapes
<1> QED
  BY <1>1, <1>2, HartInvariance, PTL DEF Spec, CacheSpec

(* Whatever the guest does, traps in the middle of a handler and throwing  *)
(* assemblies included, a block that lookup can return to fetchBB ends in  *)
(* BB_END.                                                                 *)
THEOREM HartCompleteBlocks == Spec => []CompleteBlocks
  BY HartImplementsCache, CacheCompleteBlocks, PTL

(* Seen from the hart, the block cache is a bounded queue of blocks in     *)
(* each set, in which the oldest block makes room for the new one.         *)
THEOREM HartImplementsFifo == Spec => ImplementsFifo
  BY HartImplementsCache, CacheImplementsFifo, PTL

(* The claim of CachedCodeIsMemory for one block. *)
Current(s) ==
  \A k \in Index :
    (/\ \A j \in 0 .. k : bbs[s].instrs[j] # BBEnd
     /\ Plus(bbs[s].pc, 4 * k) \in Mapped \ dirty[s])
      => bbs[s].instrs[k] = parse[mem[Plus(bbs[s].pc, 4 * k)]]

LEMMA CurrentBlocks ==
  CachedCodeIsMemory <=> \A s \in Reached \ torn : Current(s)
<1>1. ASSUME NEW k \in Index, NEW s
      PROVE  (\A j \in 0 .. k : bbs[s].instrs[j] # BBEnd) => bbs[s].instrs[k] # BBEnd
  BY <1>1, CacheConstants DEF Index
<1> QED
  BY <1>1 DEF CachedCodeIsMemory, Current

(* A block that keeps its contents stays current while the memory under it *)
(* is not stored to.                                                       *)
LEMMA CurrentKept ==
  ASSUME NEW s, Current(s), bbs'[s] = bbs[s], dirty[s] \subseteq dirty'[s],
         \A b \in Mapped \ dirty'[s] : mem'[b] = mem[b]
  PROVE  Current(s)'
  BY DEF Current

AllCurrent == \A s \in Reached \ torn : Current(s)

(* assembleBB fills a block with the decoding of the words in memory, or   *)
(* the block is dirty from the start.                                      *)
LEMMA BuiltIsCurrent ==
  ASSUME TypeOK, NEW a \in PCs, NEW s \in Slots, NEW code \in Fetched(a),
         NEW n \in 1 .. kCapacity - 1, FetchBuild(a, s, code, n), UNCHANGED mem,
         dirty' = [dirty EXCEPT ![s] = IF Straight(a) THEN {} ELSE Mapped]
  PROVE  Current(s)'
<1>1. bbs \in [Slots -> Blocks] /\ dirty \in [Slots -> SUBSET Mapped]
  BY DEF TypeOK, CacheTypeOK
<1>2. bbs'[s] = Rebuilt(bbs[s], a, code, n, TRUE)
  BY <1>1 DEF FetchBuild
<1>3. bbs'[s].pc = a
  BY <1>2 DEF Rebuilt
<1>4. \A k \in Index : bbs'[s].instrs[k] = IF k < n THEN code[k]
                                           ELSE IF k = n THEN BBEnd
                                           ELSE bbs[s].instrs[k]
  BY <1>2 DEF Rebuilt
<1>5. CASE ~Straight(a)
  <2>1. dirty'[s] = Mapped
    BY <1>1, <1>5
  <2> QED
    BY <2>1 DEF Current
<1>6. CASE Straight(a)
  <2>1. code = Decoded(a)
    BY <1>6 DEF Fetched
  <2> SUFFICES ASSUME NEW k \in Index,
                      \A j \in 0 .. k : bbs'[s].instrs[j] # BBEnd,
                      Plus(a, 4 * k) \in Mapped
               PROVE  bbs'[s].instrs[k] = parse[mem[Plus(a, 4 * k)]]
    BY <1>3 DEF Current
  <2>2. k \in Nat /\ n \in Nat /\ n \in Index /\ kCapacity \in Nat
    BY CacheConstants DEF Index
  <2>3. bbs'[s].instrs[n] = BBEnd
    BY <1>4, <2>2
  <2>4. k < n
    BY <2>2, <2>3
  <2>5. k \in 0 .. kCapacity - 2
    BY <2>2, <2>4
  <2>6. bbs'[s].instrs[k] = code[k]
    BY <1>4, <2>4
  <2> QED
    BY <2>1, <2>5, <2>6 DEF Decoded
<1> QED
  BY <1>5, <1>6

LEMMA FetchKeepsCurrent ==
  ASSUME HartInv, AllCurrent, NEW a \in PCs, UNCHANGED mem,
         (\E skip : fetchBB(a, skip)) \/ fetchThrows(a)
  PROVE  AllCurrent'
<1>1. TypeOK /\ bbs \in [Slots -> Blocks] /\ dirty \in [Slots -> SUBSET Mapped]
  BY DEF HartInv, TypeOK, CacheTypeOK
<1>2. ASSUME NEW s \in Slots, FetchHit(a, s), UNCHANGED dirty
      PROVE  AllCurrent'
  BY <1>2 DEF FetchHit, cacheVars, AllCurrent, Current, Reached
<1>3. ASSUME NEW s \in Slots, NEW b, NEW d, bbs' = [bbs EXCEPT ![s] = b],
             dirty' = [dirty EXCEPT ![s] = d],
             NEW t \in Slots \ {s}, bbs'[t].pc # PoisonPC, t \notin torn
      PROVE  Current(t)'
  <2>1. bbs'[t] = bbs[t] /\ dirty'[t] = dirty[t]
    BY <1>1, <1>3
  <2>2. Current(t)
    BY <1>3, <2>1 DEF AllCurrent, Reached
  <2> QED
    BY <2>1, <2>2, CurrentKept
<1>4. ASSUME NEW s \in Slots, NEW code \in Fetched(a), NEW n \in 1 .. kCapacity - 1,
             FetchBuild(a, s, code, n),
             dirty' = [dirty EXCEPT ![s] = IF Straight(a) THEN {} ELSE Mapped]
      PROVE  AllCurrent'
  <2>1. Current(s)'
    BY <1>1, <1>4, BuiltIsCurrent
  <2>2. \A t \in Slots \ {s} : bbs'[t].pc # PoisonPC /\ t \notin torn => Current(t)'
    BY <1>3, <1>4 DEF FetchBuild
  <2>3. torn' = torn \ {s}
    BY <1>4 DEF FetchBuild
  <2> QED
    BY <2>1, <2>2, <2>3 DEF AllCurrent, Reached
<1>5. ASSUME NEW s \in Slots, NEW code, NEW n, FetchTorn(a, s, code, n),
             dirty' = [dirty EXCEPT ![s] = Mapped]
      PROVE  AllCurrent'
  <2>1. \A t \in Slots \ {s} : bbs'[t].pc # PoisonPC /\ t \notin torn => Current(t)'
    BY <1>3, <1>5 DEF FetchTorn
  <2>2. torn' = torn \cup {s}
    BY <1>5 DEF FetchTorn
  <2> QED
    BY <2>1, <2>2 DEF AllCurrent, Reached
<1> QED
  BY <1>2, <1>4, <1>5 DEF fetchBB, fetchThrows

LEMMA CurrentStep ==
  ASSUME HartInv, AllCurrent, Next
  PROVE  AllCurrent'
<1>1. dirty \in [Slots -> SUBSET Mapped]
  BY DEF HartInv, TypeOK
<1>2. CASE Dispatch
  BY <1>2, FetchKeepsCurrent DEF Dispatch, HartInv, TypeOK
<1>3. CASE Raises
  <2>1. PICK id \in ExceptionIds, after \in {"running", "returned"},
             how \in {"trap", "overwritten"}, pcAfter \in PCs :
          raiseException(id, after, how, pcAfter)
    BY <1>3 DEF Raises
  <2>2. HandlerPC(id) \in PCs
    BY TrapTarget
  <2> QED
    BY <2>1, <2>2, FetchKeepsCurrent DEF raiseException
<1>4. CASE UNCHANGED <<cacheVars, mem, dirty>>
  BY <1>4 DEF cacheVars, AllCurrent, Current, Reached
<1>5. CASE Leaves
  BY <1>4, <1>5 DEF Leaves
<1>6. CASE Walks
  <2>1. UNCHANGED cacheVars
    BY <1>6 DEF Walks, execNextInstr, cacheVars
  <2>2. CASE Storing
    <3>1. PICK a : /\ \A b \in Mapped \ Overwritten(a) : mem'[b] = mem[b]
                   /\ dirty' = [s \in Slots |-> dirty[s] \cup (Overwritten(a) \cap Mapped)]
      BY <2>2 DEF Storing
    <3>2. ASSUME NEW s \in Reached \ torn
          PROVE  Current(s)'
      <4>1. s \in Slots /\ Current(s) /\ bbs'[s] = bbs[s]
        BY <2>1 DEF AllCurrent, Reached, cacheVars
      <4>2. dirty'[s] = dirty[s] \cup (Overwritten(a) \cap Mapped)
        BY <3>1, <4>1
      <4>3. \A b \in Mapped \ dirty'[s] : mem'[b] = mem[b]
        BY <3>1, <4>2
      <4> QED
        BY <4>1, <4>2, <4>3, CurrentKept
    <3>3. (Reached \ torn)' = Reached \ torn
      BY <2>1 DEF Reached, cacheVars
    <3> QED
      BY <3>2, <3>3 DEF AllCurrent
  <2> QED
    BY <1>4, <1>6, <2>1, <2>2 DEF Walks
<1> QED
  BY <1>2, <1>3, <1>5, <1>6, StepShapes

(* A cached instruction is the decoding of the word under it unless that   *)
(* word was stored to since, for every program, cache and memory map.      *)
THEOREM HartCachedCodeIsMemory == Spec => []CachedCodeIsMemory
<1>1. Init => AllCurrent
  BY DEF Init, CacheInit, NewBlock, AllCurrent, Reached
<1>2. HartInv /\ AllCurrent /\ [Next]_vars => AllCurrent'
  <2>1. HartInv /\ AllCurrent /\ Next => AllCurrent'
    BY CurrentStep
  <2>2. AllCurrent /\ UNCHANGED vars => AllCurrent'
    BY DEF AllCurrent, Current, Reached, vars
  <2> QED
    BY <2>1, <2>2
<1>3. AllCurrent => CachedCodeIsMemory
  BY CurrentBlocks DEF AllCurrent
<1> QED
  BY <1>1, <1>2, <1>3, HartInvariance, PTL DEF Spec

-----------------------------------------------------------------------------
(* What the tracer loads. *)

(* Every instruction of the block lies on a device. *)
OnDevice(s) ==
  \A k \in Index :
    (\A j \in 0 .. k : bbs[s].instrs[j] # BBEnd)
      => WordOf(Plus(bbs[s].pc, 4 * k)) \in Mapped

AllOnDevices == \A s \in Reached \ torn : OnDevice(s)

(* assembleBB appends what it could load. *)
LEMMA BuiltIsOnDevice ==
  ASSUME TypeOK, NEW a \in PCs, NEW s \in Slots, NEW code, NEW n \in 1 .. kCapacity - 1,
         Loadable(a, n), FetchBuild(a, s, code, n)
  PROVE  OnDevice(s)'
<1>1. bbs \in [Slots -> Blocks]
  BY DEF TypeOK, CacheTypeOK
<1>2. bbs'[s] = Rebuilt(bbs[s], a, code, n, TRUE)
  BY <1>1 DEF FetchBuild
<1>3. n \in Index /\ n \in Nat
  BY CacheConstants DEF Index
<1>4. bbs'[s].pc = a /\ bbs'[s].instrs[n] = BBEnd
  BY <1>2, <1>3 DEF Rebuilt
<1> SUFFICES ASSUME NEW k \in Index, \A j \in 0 .. k : bbs'[s].instrs[j] # BBEnd
             PROVE  WordOf(Plus(a, 4 * k)) \in Mapped
  BY <1>4 DEF OnDevice, WordOf
<1>5. k \in Nat
  BY CacheConstants DEF Index
<1>6. k \in 0 .. n - 1
  BY <1>3, <1>4, <1>5
<1> QED
  BY <1>6 DEF Loadable

LEMMA FetchKeepsDevices ==
  ASSUME HartInv, AllOnDevices, NEW a \in PCs,
         (\E skip : fetchBB(a, skip)) \/ fetchThrows(a)
  PROVE  AllOnDevices'
<1>1. TypeOK /\ bbs \in [Slots -> Blocks]
  BY DEF HartInv, TypeOK, CacheTypeOK
<1>2. ASSUME NEW s \in Slots, FetchHit(a, s)
      PROVE  AllOnDevices'
  BY <1>2 DEF FetchHit, cacheVars, AllOnDevices, OnDevice, Reached
<1>3. ASSUME NEW s \in Slots, NEW b, bbs' = [bbs EXCEPT ![s] = b],
             NEW t \in Slots \ {s}, bbs'[t].pc # PoisonPC, t \notin torn
      PROVE  OnDevice(t)'
  <2>1. bbs'[t] = bbs[t]
    BY <1>1, <1>3
  <2>2. OnDevice(t)
    BY <1>3, <2>1 DEF AllOnDevices, Reached
  <2> QED
    BY <2>1, <2>2 DEF OnDevice
<1>4. ASSUME NEW s \in Slots, NEW code, NEW n \in 1 .. kCapacity - 1,
             Loadable(a, n), FetchBuild(a, s, code, n)
      PROVE  AllOnDevices'
  <2>1. OnDevice(s)'
    BY <1>1, <1>4, BuiltIsOnDevice
  <2>2. \A t \in Slots \ {s} : bbs'[t].pc # PoisonPC /\ t \notin torn => OnDevice(t)'
    BY <1>3, <1>4 DEF FetchBuild
  <2>3. torn' = torn \ {s}
    BY <1>4 DEF FetchBuild
  <2> QED
    BY <2>1, <2>2, <2>3 DEF AllOnDevices, Reached
<1>5. ASSUME NEW s \in Slots, NEW code, NEW n, FetchTorn(a, s, code, n)
      PROVE  AllOnDevices'
  <2>1. \A t \in Slots \ {s} : bbs'[t].pc # PoisonPC /\ t \notin torn => OnDevice(t)'
    BY <1>3, <1>5 DEF FetchTorn
  <2>2. torn' = torn \cup {s}
    BY <1>5 DEF FetchTorn
  <2> QED
    BY <2>1, <2>2 DEF AllOnDevices, Reached
<1> QED
  BY <1>2, <1>4, <1>5 DEF fetchBB, fetchThrows

LEMMA DevicesStep ==
  ASSUME HartInv, AllOnDevices, Next
  PROVE  AllOnDevices'
<1>1. CASE Dispatch
  BY <1>1, FetchKeepsDevices DEF Dispatch, HartInv, TypeOK
<1>2. CASE Raises
  <2>1. PICK id \in ExceptionIds, after \in {"running", "returned"},
             how \in {"trap", "overwritten"}, pcAfter \in PCs :
          raiseException(id, after, how, pcAfter)
    BY <1>2 DEF Raises
  <2>2. HandlerPC(id) \in PCs
    BY TrapTarget
  <2> QED
    BY <2>1, <2>2, FetchKeepsDevices DEF raiseException
<1>3. CASE UNCHANGED cacheVars
  BY <1>3 DEF cacheVars, AllOnDevices, OnDevice, Reached
<1>4. CASE Leaves
  BY <1>3, <1>4 DEF Leaves
<1>5. CASE Walks
  BY <1>3, <1>5 DEF Walks, execNextInstr, cacheVars
<1> QED
  BY <1>1, <1>2, <1>4, <1>5, StepShapes

(* An aligned instruction that is executed is a word of the memory. *)
LEMMA ExecutedIsMapped ==
  ASSUME HartInv, AllOnDevices, status = "running", Cur.op # "BB_END", At % 4 = 0
  PROVE  At \in Mapped
<1>1. PICK n \in 1 .. kCapacity - 1 : ClosedAt(bbs[cur.slot], n) /\ cur.idx <= n - 1
  BY AtInstr
<1>2. cur.slot \in Reached \ torn /\ cur.idx \in Index /\ cur.idx \in Nat
  BY CacheConstants DEF HartInv, DispatchInBlock, TypeOK, Index
<1>3. \A j \in 0 .. cur.idx : bbs[cur.slot].instrs[j] # BBEnd
  <2>1. BBEnd \notin Instrs
    BY HartConstants, CacheConstants DEF BBEnd, InstrRecords
  <2>2. \A j \in 0 .. cur.idx : j \in 0 .. n - 1
    BY <1>1, <1>2
  <2> QED
    BY <1>1, <2>1, <2>2 DEF ClosedAt
<1>4. WordOf(At) \in Mapped
  BY <1>2, <1>3 DEF AllOnDevices, OnDevice, At, Plus
<1>5. WordOf(At) = At
  BY AtType, Width DEF WordOf, Values
<1> QED
  BY <1>4, <1>5

(* At aligned instructions tracing ends no run, whatever the memory map,   *)
(* the cache and the program are: only the access of a load or store       *)
(* throws there.                                                           *)
THEOREM HartTracerSparesAlignedCode == Spec => TracerSparesAlignedCode
<1> DEFINE Spares ==
      (Executing(PlainOps) /\ At % 4 = 0 /\ status' = "threw") =>
        Cur.op \in LoadOps \cup StoreOps /\ pc' = pc
<1>1. Init => AllOnDevices
  BY DEF Init, CacheInit, NewBlock, AllOnDevices, Reached
<1>2. HartInv /\ AllOnDevices /\ [Next]_vars => AllOnDevices'
  <2>1. HartInv /\ AllOnDevices /\ Next => AllOnDevices'
    BY DevicesStep
  <2>2. AllOnDevices /\ UNCHANGED vars => AllOnDevices'
    BY DEF AllOnDevices, OnDevice, Reached, vars
  <2> QED
    BY <2>1, <2>2
<1>3. ASSUME HartInv, AllOnDevices, TracerFollowsDispatch, Next,
             Executing(PlainOps), At % 4 = 0, status' = "threw"
      PROVE  Cur.op \in LoadOps \cup StoreOps /\ pc' = pc
  <2>1. status = "running" /\ Cur.op \in PlainOps
    BY <1>3 DEF Executing
  <2>2. Cur.op # "BB_END"
    BY <2>1 DEF PlainOps, ImmOps, UpperOps, RegOps, WordOps, FenceOps, LoadOps, StoreOps,
                BranchOps
  <2>3. CurrentPC \in Mapped
    BY <1>3, <2>1, <2>2, ExecutedIsMapped DEF TracerFollowsDispatch
  <2>4. ~execNextInstr
    BY <1>3, <2>1, <2>3 DEF execNextInstr
  <2>5. \/ exec_ALU \/ exec_LOAD \/ exec_STORE \/ exec_JAL \/ exec_JALR \/ exec_BRANCH
    BY <1>3, <2>1 DEF Next, Execute, run, exec_BB_END, exec_INV_OP, exec_PAUSE, exec_ECALL,
      exec_EBREAK, exec_MRET, exec_SRET, exec_CSRRW, exec_CSRRS, exec_CSRRC, exec_CSRRWI,
      exec_CSRRSI, exec_CSRRCI, Executing, PlainOps, ImmOps, UpperOps, RegOps, WordOps,
      FenceOps, LoadOps, StoreOps, BranchOps
  <2>6. CASE exec_LOAD
    BY <2>4, <2>6 DEF exec_LOAD, Executing, Throw
  <2>7. CASE exec_STORE
    BY <2>4, <2>7 DEF exec_STORE, Executing, Throw
  <2> QED
    BY <2>4, <2>5, <2>6, <2>7 DEF exec_ALU, exec_JAL, exec_JALR, exec_BRANCH, Jump
<1>4. HartInv /\ AllOnDevices /\ TracerFollowsDispatch /\ [Next]_vars => [Spares]_vars
  BY <1>3
<1> QED
  BY <1>1, <1>2, <1>4, HartInvariance, HartTracerFollowsDispatch, PTL
     DEF Spec, TracerSparesAlignedCode
=============================================================================
