-------------------------- MODULE BasicBlockCache --------------------------
(***************************************************************************)
(* The cache of decoded basic blocks of a hart (src/exec/basic-block.cpp)  *)
(* together with the assembler that fills it (Hart::assembleBB).           *)
(*                                                                         *)
(* The cache is an array of kSets * kWays blocks.  A set is picked by a    *)
(* slice of the program counter; inside a set a rower walks the ways in a  *)
(* circle and names the next victim.  A block stores up to kCapacity - 1   *)
(* decoded instructions and a BB_END cell that stops the dispatch.         *)
(*                                                                         *)
(* The decoded instructions come from outside: `code' is what the decoder  *)
(* would return for the words at pc, pc + 4, ...  A load of one of those   *)
(* words may throw, which leaves the victim half rewritten.                *)
(***************************************************************************)
EXTENDS Integers, FiniteSets

CONSTANTS
  kSets,      (* number of sets                                  (code: 128) *)
  kWays,      (* ways of a set                                     (code: 8) *)
  kCapacity,  (* cells of a block, the BB_END cell included        (code: 8) *)
  SetSpan,    (* bytes of code that hash to the same set    (code: 1 << 5)   *)
  PCs,        (* values of the PC register a block is looked up at           *)
  Instrs      (* decoded instructions, records with a field op               *)

(* PoisonPC: the tag of a block that was never assembled. *)
PoisonPC == 1

ASSUME CacheConstants ==
  /\ kSets \in Nat \ {0}
  /\ kWays \in Nat \ {0}
  /\ kCapacity \in Nat /\ kCapacity >= 2
  /\ SetSpan \in Nat \ {0}
  /\ PCs \subseteq Nat
  /\ PoisonPC \notin PCs

(* The handlers index the instruction array of a block: BB_END is an       *)
(* operation that the decoder never produces.                              *)
ASSUME DecodedOps == \A i \in Instrs : i.op # "BB_END"

VARIABLES
  bbs,        (* slot -> block                                             *)
  lruRowers,  (* set -> way that is overwritten by the next miss           *)
  torn        (* history: the slots whose last assembly was cut short      *)

cacheVars == <<bbs, lruRowers, torn>>

-----------------------------------------------------------------------------
(* Instruction::isJump *)
JumpOps == {"JAL", "JALR", "BEQ", "BNE", "BLT", "BGE", "BLTU", "BGEU",
            "MRET", "SRET", "ECALL"}

isJump(i) == i.op \in JumpOps

BBEnd == [op |-> "BB_END"]

(* A cell of a freshly constructed block that no constructor initialises.  *)
Uninit == [op |-> "uninitialised"]

InvOp == [op |-> "INV_OP"]

Cells == Instrs \cup {BBEnd, Uninit, InvOp}

Index == 0 .. kCapacity - 1
Slots == 0 .. kSets * kWays - 1
Sets  == 0 .. kSets - 1
Ways  == 0 .. kWays - 1

(* What the decoder returns for the words from the start of a block on.    *)
Codes == [0 .. kCapacity - 2 -> Instrs]

Blocks == [pc : PCs \cup {PoisonPC}, instrs : [Index -> Cells]]

(* BasicBlock::BasicBlock *)
NewBlock == [pc     |-> PoisonPC,
             instrs |-> [k \in Index |-> IF k = 0 THEN InvOp ELSE Uninit]]

-----------------------------------------------------------------------------
(* BasicBlockCache::lookup *)
Hash(pc) == (pc \div SetSpan) % kSets

SetPos(h) == h * kWays

SetSlots(h) == {SetPos(h) + i : i \in Ways}

(* Mutant of Found: lookup compares only the first way of the set.         *)
FoundInFirstWay(pc) == {s \in {SetPos(Hash(pc))} : bbs[s].pc = pc}

Found(pc) == {s \in SetSlots(Hash(pc)) : bbs[s].pc = pc}

LookupHit(pc, s) == s \in Found(pc) /\ \A t \in Found(pc) : s <= t

(* Mutant of Victim: setPos is not added to the way.                       *)
VictimWithoutSet(pc) == lruRowers[Hash(pc)]

Victim(pc) == SetPos(Hash(pc)) + lruRowers[Hash(pc)]

LookupMiss(pc, s) == Found(pc) = {} /\ s = Victim(pc)

(* Mutants of Advance: the rower is advanced without kWayMask, or sticks   *)
(* to the last way.                                                        *)
AdvanceUnmasked(pc) ==
  lruRowers' = [lruRowers EXCEPT ![Hash(pc)] = @ + 1]

AdvanceSaturating(pc) ==
  lruRowers' = [lruRowers EXCEPT ![Hash(pc)] = IF @ < kWays - 1 THEN @ + 1 ELSE @]

Advance(pc) ==
  lruRowers' = [lruRowers EXCEPT ![Hash(pc)] = (@ + 1) % kWays]

-----------------------------------------------------------------------------
(* BasicBlockRebuilder::append returned true for the first n instructions. *)
Appended(code, n) == \A k \in 0 .. n - 1 : ~isJump(code[k]) /\ k < kCapacity - 2

(* ... and false for instruction number n, which closed the block.         *)
Closes(code, n) ==
  /\ n \in 1 .. kCapacity - 1
  /\ Appended(code, n - 1)
  /\ isJump(code[n - 1]) \/ n = kCapacity - 1

(* Mutant of Rebuilt: append does not write the BB_END cell.               *)
RebuiltWithoutEnd(old, pc, code, n, closed) ==
  [pc     |-> pc,
   instrs |-> [k \in Index |-> IF k < n THEN code[k] ELSE old.instrs[k]]]

(* Mutant of Rebuilt: BB_END is written before the counter is advanced.    *)
RebuiltEndTooEarly(old, pc, code, n, closed) ==
  [pc     |-> pc,
   instrs |-> [k \in Index |-> IF k = n - 1 /\ closed THEN BBEnd
                               ELSE IF k < n THEN code[k]
                               ELSE old.instrs[k]]]

(* The block after n instructions were appended over the old contents; the *)
(* cells that are not reached keep what the previous block left there.     *)
Rebuilt(old, pc, code, n, closed) ==
  [pc     |-> pc,
   instrs |-> [k \in Index |-> IF k < n THEN code[k]
                               ELSE IF k = n /\ closed THEN BBEnd
                               ELSE old.instrs[k]]]

-----------------------------------------------------------------------------
(* Hart::fetchBB finds the block. *)
FetchHit(pc, s) ==
  /\ LookupHit(pc, s)
  /\ UNCHANGED cacheVars

(* Hart::fetchBB misses and Hart::assembleBB fills the victim.             *)
FetchBuild(pc, s, code, n) ==
  /\ LookupMiss(pc, s)
  /\ Closes(code, n)
  /\ bbs' = [bbs EXCEPT ![s] = Rebuilt(@, pc, code, n, TRUE)]
  /\ Advance(pc)
  /\ torn' = torn \ {s}

(* ... or the load of instruction number n throws out of assembleBB.       *)
FetchTorn(pc, s, code, n) ==
  /\ LookupMiss(pc, s)
  /\ n \in 0 .. kCapacity - 2
  /\ Appended(code, n)
  /\ bbs' = [bbs EXCEPT ![s] = Rebuilt(@, pc, code, n, FALSE)]
  /\ Advance(pc)
  /\ torn' = torn \cup {s}

(* Mutant of CacheInit: the rowers start at the last way.                  *)
CacheInitLastWay ==
  /\ bbs = [s \in Slots |-> NewBlock]
  /\ lruRowers = [h \in Sets |-> kWays - 1]
  /\ torn = {}

CacheInit ==
  /\ bbs = [s \in Slots |-> NewBlock]
  /\ lruRowers = [h \in Sets |-> 0]
  /\ torn = {}

CacheNext ==
  \E pc \in PCs, s \in Slots :
    \/ FetchHit(pc, s)
    \/ \E code \in Codes, n \in 0 .. kCapacity - 1 :
         \/ FetchBuild(pc, s, code, n)
         \/ FetchTorn(pc, s, code, n)

CacheSpec == CacheInit /\ [][CacheNext]_cacheVars

-----------------------------------------------------------------------------
(* Type invariant of the block array and of the rowers.                    *)
CacheTypeOK ==
  /\ bbs \in [Slots -> Blocks]
  /\ lruRowers \in [Sets -> Ways]
  /\ torn \subseteq Slots

(* A block that was assembled is stored in the set that lookup searches    *)
(* for its pc, so a block can never be cached and yet unreachable.         *)
InItsSet ==
  \A s \in Slots : bbs[s].pc # PoisonPC => s \in SetSlots(Hash(bbs[s].pc))

(* No pc has two blocks: lookup's linear search never has a choice, and a  *)
(* rebuilt block never leaves an older copy of itself behind.              *)
UniqueTags ==
  \A s, t \in Slots :
    bbs[s].pc = bbs[t].pc /\ bbs[s].pc # PoisonPC => s = t

(* b holds n >= 1 instructions closed by BB_END, and no jump before the    *)
(* last of them.                                                           *)
ClosedAt(b, n) ==
  /\ n \in 1 .. kCapacity - 1
  /\ b.instrs[n] = BBEnd
  /\ \A k \in 0 .. n - 1 : b.instrs[k] \in Instrs
  /\ \A k \in 0 .. n - 2 : ~isJump(b.instrs[k])
  /\ isJump(b.instrs[n - 1]) \/ n = kCapacity - 1

(* Every block that was assembled without an exception is closed: a walk   *)
(* over its cells from the first one meets BB_END before the end of the    *)
(* array, and meets no cell that an older block or the constructor left    *)
(* behind, whatever that older block was.                                  *)
CompleteBlocks ==
  \A s \in Slots :
    bbs[s].pc # PoisonPC /\ s \notin torn => \E n \in Index : ClosedAt(bbs[s], n)

(* The rower only overwrites a used way once every way of the set is used: *)
(* the ways it has not reached yet are the poisoned ones.                  *)
FillsBeforeEvicting ==
  \A h \in Sets :
    (\E i \in Ways : bbs[SetPos(h) + i].pc = PoisonPC) =>
      \A i \in Ways : bbs[SetPos(h) + i].pc = PoisonPC <=> i >= lruRowers[h]
=============================================================================
