----------------------- MODULE BasicBlockCacheProofs -----------------------
(***************************************************************************)
(* The invariants of the basic block cache and its replacement, for every  *)
(* geometry of the cache, every set of program counters and every          *)
(* instruction set.                                                        *)
(*                                                                         *)
(* UniqueTags is not inductive by itself: that a miss finds no other copy  *)
(* of its block follows because a block can only be in the set its pc      *)
(* hashes to (InItsSet), and CompleteBlocks needs the types of the cells.  *)
(* CacheInv is their conjunction.  A set fills before it evicts, and       *)
(* evicts in the order of the misses: FillInv adds where the unused ways   *)
(* of a set are.                                                           *)
(***************************************************************************)
EXTENDS BasicBlockCacheFifo, Sequences, SequenceTheorems, TLAPS

CacheInv == CacheTypeOK /\ InItsSet /\ UniqueTags /\ CompleteBlocks

(* A remainder is below its divisor. *)
LEMMA ModRange ==
  ASSUME NEW a \in Int, NEW n \in Nat \ {0}
  PROVE  a % n \in 0 .. n - 1
  OBVIOUS

(* The quotient of natural numbers is a natural number. *)
LEMMA DivNat ==
  ASSUME NEW a \in Nat, NEW n \in Nat \ {0}
  PROVE  a \div n \in Nat
  OBVIOUS

(* Division with remainder. *)
LEMMA DivMod ==
  ASSUME NEW a \in Int, NEW n \in Nat \ {0}
  PROVE  /\ a % n \in 0 .. n - 1
         /\ a \div n \in Int
         /\ a = n * (a \div n) + (a % n)
OBVIOUS

(* The remainder is unique. *)
LEMMA ModUnique ==
  ASSUME NEW n \in Nat \ {0}, NEW q \in Int, NEW r \in 0 .. n - 1
  PROVE  (n * q + r) % n = r
<1> DEFINE x == n * q + r
<1>1. x \in Int
  OBVIOUS
<1> DEFINE p == x \div n
           s == x % n
<1>2. s \in 0 .. n - 1 /\ p \in Int /\ x = n * p + s
  BY <1>1, DivMod
<1> HIDE DEF p, s
<1>3. n * (q - p) = s - r
  BY <1>2
<1>4. q - p \in Int /\ s - r < n /\ s - r > -n
  BY <1>2
<1> DEFINE d == q - p
<1>5. d \in Int /\ n * d < n /\ n * d > -n
  BY <1>3, <1>4
<1> HIDE DEF d
<1>6. d = 0
  <2>1. CASE d >= 1
    <3>1. n * d >= n
      BY <1>5, <2>1
    <3> QED
      BY <3>1, <1>5
  <2>2. CASE d <= -1
    <3>1. n * d <= -n
      BY <1>5, <2>2
    <3> QED
      BY <3>1, <1>5
  <2> QED
    BY <2>1, <2>2, <1>5
<1>7. s = r
  BY <1>2, <1>3, <1>6 DEF d
<1> QED
  BY <1>7 DEF s

(* Reducing a summand first makes no difference. *)
LEMMA ModAdd ==
  ASSUME NEW a \in Int, NEW b \in Int, NEW n \in Nat \ {0}
  PROVE  ((a % n) + b) % n = (a + b) % n
<1> DEFINE r == a % n
           q == a \div n
           s == (r + b) % n
           p == (r + b) \div n
<1>1. r \in Int /\ q \in Int /\ a = n * q + r
  BY DivMod
<1>2. r + b \in Int
  BY <1>1
<1>3. s \in 0 .. n - 1 /\ p \in Int /\ r + b = n * p + s
  BY <1>2, DivMod
<1> HIDE DEF r, q, s, p
<1> DEFINE u == q + p
<1>4. u \in Int /\ a + b = n * u + s
  BY <1>1, <1>3
<1> HIDE DEF u
<1>5. (n * u + s) % n = s
  BY <1>3, <1>4, ModUnique
<1> QED
  BY <1>4, <1>5 DEF s, r

(* A register value is its own remainder. *)
LEMMA ModSmall ==
  ASSUME NEW n \in Nat \ {0}, NEW a \in 0 .. n - 1
  PROVE  a % n = a
OBVIOUS

(* lookup computes the number of a set. *)
LEMMA HashInSets ==
  ASSUME NEW pc \in PCs
  PROVE  Hash(pc) \in Sets
<1>1. pc \in Nat /\ SetSpan \in Nat \ {0} /\ kSets \in Nat \ {0}
  BY CacheConstants
<1>2. pc \div SetSpan \in Nat
  BY <1>1, DivNat
<1> QED
  BY <1>1, <1>2, ModRange DEF Hash, Sets

(* The ways of a set are slots of the block array. *)
LEMMA SetSlotsInSlots ==
  ASSUME NEW h \in Sets, NEW i \in Ways
  PROVE  SetPos(h) + i \in Slots
<1>1. /\ kSets \in Nat \ {0} /\ kWays \in Nat \ {0}
      /\ h \in Nat /\ h <= kSets - 1 /\ i \in Nat /\ i <= kWays - 1
  BY CacheConstants DEF Sets, Ways
<1>2. h * kWays \in Nat /\ kSets * kWays \in Nat
  BY <1>1
<1>3. h * kWays <= (kSets - 1) * kWays
  BY <1>1
<1>4. (kSets - 1) * kWays = kSets * kWays - kWays
  BY <1>1
<1> QED
  BY <1>1, <1>2, <1>3, <1>4 DEF SetPos, Slots

(* A miss picks a way of the set that lookup searched. *)
LEMMA VictimInSet ==
  ASSUME CacheTypeOK, NEW pc \in PCs
  PROVE  Victim(pc) \in SetSlots(Hash(pc)) /\ Victim(pc) \in Slots
<1>1. Hash(pc) \in Sets
  BY HashInSets
<1>2. lruRowers[Hash(pc)] \in Ways
  BY <1>1 DEF CacheTypeOK
<1> QED
  BY <1>1, <1>2, SetSlotsInSlots DEF Victim, SetSlots
(* lookup leaves its rowers within the set. *)
LEMMA AdvanceType ==
  ASSUME CacheTypeOK, NEW pc \in PCs, Advance(pc)
  PROVE  lruRowers' \in [Sets -> Ways]
<1>1. Hash(pc) \in Sets
  BY HashInSets
<1>2. lruRowers[Hash(pc)] \in Ways /\ lruRowers \in [Sets -> Ways]
  BY <1>1 DEF CacheTypeOK
<1>3. (lruRowers[Hash(pc)] + 1) % kWays \in Ways
  <2>1. lruRowers[Hash(pc)] + 1 \in Int /\ kWays \in Nat \ {0}
    BY <1>2, CacheConstants DEF Ways
  <2> QED
    BY <2>1, ModRange DEF Ways
<1> QED
  BY <1>1, <1>2, <1>3 DEF Advance

(* The rebuilder writes a well formed block. *)
LEMMA RebuiltType ==
  ASSUME NEW old \in Blocks, NEW pc \in PCs, NEW code \in Codes,
         NEW n \in 0 .. kCapacity - 1, NEW closed \in BOOLEAN
  PROVE  Rebuilt(old, pc, code, n, closed) \in Blocks
<1>1. ASSUME NEW k \in Index, k < n
      PROVE  code[k] \in Cells
  BY <1>1, CacheConstants DEF Codes, Cells, Index
<1>2. ASSUME NEW k \in Index
      PROVE  old.instrs[k] \in Cells
  BY <1>2 DEF Blocks
<1>3. BBEnd \in Cells
  BY DEF Cells
<1> QED
  BY <1>1, <1>2, <1>3 DEF Rebuilt, Blocks

(* Storing a block for pc in the way a miss picked keeps every block in    *)
(* its set and the tags unique.                                            *)
LEMMA OverwriteVictim ==
  ASSUME CacheTypeOK, InItsSet, UniqueTags,
         NEW pc \in PCs, NEW s \in Slots, LookupMiss(pc, s),
         NEW b \in Blocks, b.pc = pc,
         bbs' = [bbs EXCEPT ![s] = b]
  PROVE  InItsSet' /\ UniqueTags'
<1>1. s \in SetSlots(Hash(pc)) /\ pc # PoisonPC
  BY VictimInSet, CacheConstants DEF LookupMiss
<1>2. \A t \in Slots : bbs'[t] = IF t = s THEN b ELSE bbs[t]
  BY DEF CacheTypeOK
<1>3. \A t \in Slots : bbs[t].pc # pc
  <2> SUFFICES ASSUME NEW t \in Slots, bbs[t].pc = pc
               PROVE  FALSE
    OBVIOUS
  <2>1. t \in SetSlots(Hash(pc))
    BY <1>1 DEF InItsSet
  <2> QED
    BY <2>1 DEF LookupMiss, Found
<1>4. InItsSet'
  <2> SUFFICES ASSUME NEW t \in Slots, bbs'[t].pc # PoisonPC
               PROVE  t \in SetSlots(Hash(bbs'[t].pc))
    BY DEF InItsSet, SetSlots, SetPos, Hash, Ways, Slots
  <2>1. CASE t = s
    BY <2>1, <1>1, <1>2
  <2>2. CASE t # s
    BY <2>2, <1>2 DEF InItsSet
  <2> QED
    BY <2>1, <2>2
<1>5. UniqueTags'
  <2> SUFFICES ASSUME NEW t \in Slots, NEW u \in Slots,
                      bbs'[t].pc = bbs'[u].pc, bbs'[t].pc # PoisonPC
               PROVE  t = u
    BY DEF UniqueTags, Slots
  <2>1. CASE t = s \/ u = s
    BY <2>1, <1>2, <1>3
  <2>2. CASE t # s /\ u # s
    BY <2>2, <1>2 DEF UniqueTags
  <2> QED
    BY <2>1, <2>2
<1> QED
  BY <1>4, <1>5

(* A block the rebuilder closed after n instructions is closed at n. *)
LEMMA RebuiltClosed ==
  ASSUME NEW old \in Blocks, NEW pc \in PCs, NEW code \in Codes,
         NEW n, Closes(code, n)
  PROVE  ClosedAt(Rebuilt(old, pc, code, n, TRUE), n)
<1> DEFINE b == Rebuilt(old, pc, code, n, TRUE)
<1>1. kCapacity \in Nat /\ kCapacity >= 2 /\ n \in 1 .. kCapacity - 1
  BY CacheConstants DEF Closes
<1>2. \A k \in Index : b.instrs[k] = IF k < n THEN code[k]
                                     ELSE IF k = n THEN BBEnd
                                     ELSE old.instrs[k]
  BY DEF Rebuilt
<1> HIDE DEF b
<1>3. b.instrs[n] = BBEnd
  BY <1>1, <1>2 DEF Index
<1>4. \A k \in 0 .. n - 1 : b.instrs[k] = code[k] /\ code[k] \in Instrs
  BY <1>1, <1>2 DEF Index, Codes
<1>5. \A k \in 0 .. n - 2 : ~isJump(b.instrs[k])
  BY <1>1, <1>4 DEF Closes, Appended, isJump
<1>6. isJump(b.instrs[n - 1]) \/ n = kCapacity - 1
  BY <1>1, <1>4 DEF Closes, isJump
<1>7. ClosedAt(b, n)
  BY <1>1, <1>3, <1>4, <1>5, <1>6 DEF ClosedAt, isJump
<1> QED
  BY <1>7 DEF b
-----------------------------------------------------------------------------
(* The constructed cache satisfies the invariant. *)
LEMMA CacheInitInv == CacheInit => CacheInv
<1> SUFFICES ASSUME CacheInit
             PROVE  CacheInv
  OBVIOUS
<1>1. NewBlock \in Blocks
  BY DEF NewBlock, Blocks, Cells
<1>2. \A s \in Slots : bbs[s].pc = PoisonPC
  BY DEF CacheInit, NewBlock
<1>3. 0 \in Ways
  BY CacheConstants DEF Ways
<1>4. CacheTypeOK
  BY <1>1, <1>3 DEF CacheInit, CacheTypeOK
<1>5. InItsSet /\ UniqueTags /\ CompleteBlocks
  BY <1>2 DEF InItsSet, UniqueTags, CompleteBlocks
<1> QED
  BY <1>4, <1>5 DEF CacheInv

(* A miss that assembles its block preserves the invariant. *)
LEMMA BuildPreserves ==
  ASSUME CacheInv, NEW pc \in PCs, NEW s \in Slots, NEW code \in Codes, NEW n,
         FetchBuild(pc, s, code, n)
  PROVE  CacheInv'
<1> DEFINE b == Rebuilt(bbs[s], pc, code, n, TRUE)
<1>1. bbs[s] \in Blocks /\ CacheTypeOK
  BY DEF CacheInv, CacheTypeOK
<1>2. n \in 1 .. kCapacity - 1 /\ n \in 0 .. kCapacity - 1 /\ n \in Index
  BY CacheConstants DEF FetchBuild, Closes, Index
<1>3. b \in Blocks
  BY <1>1, <1>2, RebuiltType
<1>4. b.pc = pc
  BY DEF Rebuilt
<1>5. ClosedAt(b, n)
  BY <1>1, RebuiltClosed DEF FetchBuild
<1>6. bbs' = [bbs EXCEPT ![s] = b] /\ torn' = torn \ {s} /\ LookupMiss(pc, s)
  BY DEF FetchBuild
<1> HIDE DEF b
<1>7. CacheTypeOK'
  BY <1>1, <1>3, <1>6, AdvanceType DEF CacheTypeOK, FetchBuild
<1>8. InItsSet' /\ UniqueTags'
  BY <1>1, <1>3, <1>4, <1>6, OverwriteVictim DEF CacheInv
<1>9. CompleteBlocks'
  <2> SUFFICES ASSUME NEW t \in Slots, bbs'[t].pc # PoisonPC, t \notin torn'
               PROVE  \E m \in Index : ClosedAt(bbs'[t], m)
    BY DEF CompleteBlocks, ClosedAt, Slots, Index
  <2>1. CASE t = s
    BY <2>1, <1>1, <1>2, <1>5, <1>6 DEF CacheTypeOK
  <2>2. CASE t # s
    <3>1. bbs'[t] = bbs[t] /\ t \notin torn
      BY <2>2, <1>1, <1>6 DEF CacheTypeOK
    <3> QED
      BY <3>1 DEF CacheInv, CompleteBlocks
  <2> QED
    BY <2>1, <2>2
<1> QED
  BY <1>7, <1>8, <1>9 DEF CacheInv

(* So does a miss whose assembly is interrupted by an exception. *)
LEMMA TornPreserves ==
  ASSUME CacheInv, NEW pc \in PCs, NEW s \in Slots, NEW code \in Codes, NEW n,
         FetchTorn(pc, s, code, n)
  PROVE  CacheInv'
<1> DEFINE b == Rebuilt(bbs[s], pc, code, n, FALSE)
<1>1. bbs[s] \in Blocks /\ CacheTypeOK
  BY DEF CacheInv, CacheTypeOK
<1>2. n \in 0 .. kCapacity - 1
  BY CacheConstants DEF FetchTorn
<1>3. b \in Blocks
  BY <1>1, <1>2, RebuiltType
<1>4. b.pc = pc
  BY DEF Rebuilt
<1>5. bbs' = [bbs EXCEPT ![s] = b] /\ torn' = torn \cup {s} /\ LookupMiss(pc, s)
  BY DEF FetchTorn
<1> HIDE DEF b
<1>6. CacheTypeOK'
  BY <1>1, <1>3, <1>5, AdvanceType DEF CacheTypeOK, FetchTorn
<1>7. InItsSet' /\ UniqueTags'
  BY <1>1, <1>3, <1>4, <1>5, OverwriteVictim DEF CacheInv
<1>8. CompleteBlocks'
  <2> SUFFICES ASSUME NEW t \in Slots, bbs'[t].pc # PoisonPC, t \notin torn'
               PROVE  \E m \in Index : ClosedAt(bbs'[t], m)
    BY DEF CompleteBlocks, ClosedAt, Slots, Index
  <2>1. bbs'[t] = bbs[t] /\ t \notin torn
    BY <1>1, <1>5 DEF CacheTypeOK
  <2> QED
    BY <2>1 DEF CacheInv, CompleteBlocks
<1> QED
  BY <1>6, <1>7, <1>8 DEF CacheInv

(* Every step of the cache preserves the invariant. *)
LEMMA CacheStepInv == CacheInv /\ [CacheNext]_cacheVars => CacheInv'
<1> SUFFICES ASSUME CacheInv, [CacheNext]_cacheVars
             PROVE  CacheInv'
  OBVIOUS
<1>1. CASE UNCHANGED cacheVars
  BY <1>1 DEF cacheVars, CacheInv, CacheTypeOK, InItsSet, UniqueTags,
              CompleteBlocks, ClosedAt
<1>2. ASSUME NEW pc \in PCs, NEW s \in Slots, FetchHit(pc, s)
      PROVE  CacheInv'
  BY <1>1, <1>2 DEF FetchHit
<1>3. ASSUME NEW pc \in PCs, NEW s \in Slots, NEW code \in Codes, NEW n,
             FetchBuild(pc, s, code, n)
      PROVE  CacheInv'
  BY <1>3, BuildPreserves
<1>4. ASSUME NEW pc \in PCs, NEW s \in Slots, NEW code \in Codes, NEW n,
             FetchTorn(pc, s, code, n)
      PROVE  CacheInv'
  BY <1>4, TornPreserves
<1> QED
  BY <1>1, <1>2, <1>3, <1>4 DEF CacheNext

(* The invariant of the cache. *)
THEOREM CacheInvariance == CacheSpec => []CacheInv
<1>1. CacheInit => CacheInv
  BY CacheInitInv
<1>2. CacheInv /\ [CacheNext]_cacheVars => CacheInv'
  BY CacheStepInv
<1> QED
  BY <1>1, <1>2, PTL DEF CacheSpec

(* Type correctness of the block array and the rowers of BasicBlockCache.  *)
THEOREM CacheTyping == CacheSpec => []CacheTypeOK
<1>1. CacheInv => CacheTypeOK
  BY DEF CacheInv
<1> QED
  BY <1>1, CacheInvariance, PTL

(* lookup never has two blocks to choose from, for any number of sets and  *)
(* ways: rebuilding after an eviction leaves no second copy behind.        *)
THEOREM CacheUniqueTags == CacheSpec => []UniqueTags
<1>1. CacheInv => UniqueTags
  BY DEF CacheInv
<1> QED
  BY <1>1, CacheInvariance, PTL

(* A block is where lookup searches for it, for any number of sets and     *)
(* ways, torn blocks and those that wrapped the rower included.            *)
THEOREM CacheInItsSet == CacheSpec => []InItsSet
<1>1. CacheInv => InItsSet
  BY DEF CacheInv
<1> QED
  BY <1>1, CacheInvariance, PTL

(* Every block whose assembly was not interrupted ends in BB_END after at  *)
(* least one instruction, whatever the victim held before.                 *)
THEOREM CacheCompleteBlocks == CacheSpec => []CompleteBlocks
<1>1. CacheInv => CompleteBlocks
  BY DEF CacheInv
<1> QED
  BY <1>1, CacheInvariance, PTL

-----------------------------------------------------------------------------
(* A slot belongs to one way of one set. *)
LEMMA OneWay ==
  ASSUME NEW g \in Sets, NEW h \in Sets, NEW i \in Ways, NEW j \in Ways,
         SetPos(g) + i = SetPos(h) + j
  PROVE  g = h /\ i = j
<1>1. /\ kWays \in Nat \ {0} /\ g \in Int /\ h \in Int
      /\ i \in 0 .. kWays - 1 /\ j \in 0 .. kWays - 1
  BY CacheConstants DEF Sets, Ways
<1>2. kWays * g + i = kWays * h + j
  BY <1>1 DEF SetPos
<1>3. (kWays * g + i) % kWays = i /\ (kWays * h + j) % kWays = j
  BY <1>1, ModUnique
<1>4. i = j
  BY <1>2, <1>3
<1>5. kWays * g = kWays * h
  BY <1>1, <1>2, <1>4
<1>6. g = h
  <2>1. CASE g <= h - 1
    <3>1. kWays * g <= kWays * (h - 1)
      BY <1>1, <2>1
    <3>2. kWays * (h - 1) = kWays * h - kWays
      BY <1>1
    <3> QED
      BY <1>1, <1>5, <3>1, <3>2
  <2>2. CASE h <= g - 1
    <3>1. kWays * h <= kWays * (g - 1)
      BY <1>1, <2>2
    <3>2. kWays * (g - 1) = kWays * g - kWays
      BY <1>1
    <3> QED
      BY <1>1, <1>5, <3>1, <3>2
  <2> QED
    BY <1>1, <2>1, <2>2
<1> QED
  BY <1>4, <1>6

(* The tag of way i of set h, poisoned or not. *)
Tag(h, i) == bbs[SetPos(h) + i].pc

(* The same after a step. *)
TagAfter(h, i) == bbs'[SetPos(h) + i].pc

(* A miss, with or without an exception, tags the way under the rower.     *)
MissAt(pc) ==
  /\ \A h \in Sets, i \in Ways :
       TagAfter(h, i) = IF h = Hash(pc) /\ i = lruRowers[h] THEN pc ELSE Tag(h, i)
  /\ lruRowers' = [lruRowers EXCEPT ![Hash(pc)] = (@ + 1) % kWays]
  /\ \A i \in Ways : Tag(Hash(pc), i) # pc

LEMMA MissTags ==
  ASSUME CacheTypeOK, NEW pc \in PCs, NEW s \in Slots, NEW code, NEW n,
         FetchBuild(pc, s, code, n) \/ FetchTorn(pc, s, code, n)
  PROVE  MissAt(pc)
<1>1. PICK b : b.pc = pc /\ bbs' = [bbs EXCEPT ![s] = b]
  BY DEF FetchBuild, FetchTorn, Rebuilt
<1>2. LookupMiss(pc, s) /\ Advance(pc)
  BY DEF FetchBuild, FetchTorn
<1>3. Hash(pc) \in Sets /\ lruRowers[Hash(pc)] \in Ways
  BY HashInSets DEF CacheTypeOK
<1>4. s = SetPos(Hash(pc)) + lruRowers[Hash(pc)]
  BY <1>2 DEF LookupMiss, Victim
<1>5. ASSUME NEW h \in Sets, NEW i \in Ways
      PROVE  TagAfter(h, i) = IF h = Hash(pc) /\ i = lruRowers[h] THEN pc ELSE Tag(h, i)
  <2>1. SetPos(h) + i \in Slots
    BY SetSlotsInSlots
  <2>2. CASE h = Hash(pc) /\ i = lruRowers[h]
    BY <1>1, <1>4, <2>1, <2>2 DEF Tag, TagAfter, CacheTypeOK
  <2>3. CASE ~(h = Hash(pc) /\ i = lruRowers[h])
    <3>1. SetPos(h) + i # s
      BY <1>3, <1>4, <2>3, OneWay
    <3> QED
      BY <1>1, <2>1, <2>3, <3>1 DEF Tag, TagAfter, CacheTypeOK
  <2> QED
    BY <2>2, <2>3
<1>6. \A i \in Ways : Tag(Hash(pc), i) # pc
  BY <1>2 DEF LookupMiss, Found, SetSlots, Tag, TagAfter
<1> QED
  BY <1>2, <1>5, <1>6 DEF MissAt, Advance

-----------------------------------------------------------------------------
(* FillsBeforeEvicting in terms of tags. *)
Fills(h) ==
  (\E i \in Ways : Tag(h, i) = PoisonPC) =>
    \A i \in Ways : Tag(h, i) = PoisonPC <=> i >= lruRowers[h]

FillInv == CacheInv /\ \A h \in Sets : Fills(h)

LEMMA MissFills ==
  ASSUME FillInv, NEW pc \in PCs, MissAt(pc), NEW h \in Sets
  PROVE  Fills(h)'
<1>1. lruRowers \in [Sets -> Ways] /\ kWays \in Nat \ {0} /\ pc # PoisonPC
  BY CacheConstants DEF FillInv, CacheInv, CacheTypeOK
<1>2. Fills(h)
  BY DEF FillInv
<1>3. CASE h # Hash(pc)
  <2>1. lruRowers'[h] = lruRowers[h]
    BY <1>1, <1>3 DEF MissAt
  <2>2. \A i \in Ways : TagAfter(h, i) = Tag(h, i)
    BY <1>3 DEF MissAt
  <2> QED
    BY <1>2, <2>1, <2>2 DEF Fills, Tag, TagAfter
<1>4. CASE h = Hash(pc)
  <2> DEFINE r == lruRowers[h]
  <2>1. r \in Int /\ r >= 0 /\ r <= kWays - 1 /\ r \in Ways
    BY <1>1 DEF Ways
  <2>2. \A i \in Ways : TagAfter(h, i) = IF i = r THEN pc ELSE Tag(h, i)
    BY <1>4 DEF MissAt
  <2>3. lruRowers'[h] = (r + 1) % kWays
    BY <1>1, <1>4 DEF MissAt
  <2> HIDE DEF r
  <2>4. SUFFICES ASSUME NEW j \in Ways, TagAfter(h, j) = PoisonPC
                 PROVE  \A i \in Ways : TagAfter(h, i) = PoisonPC <=> i >= lruRowers'[h]
    BY DEF Fills, Tag, TagAfter
  <2>5. Tag(h, j) = PoisonPC /\ j # r
    BY <1>1, <2>2, <2>4
  <2>6. \A i \in Ways : Tag(h, i) = PoisonPC <=> i >= r
    BY <1>2, <2>5 DEF Fills, r
  <2>7. j \in Int /\ j >= r /\ j <= kWays - 1
    BY <1>1, <2>5, <2>6 DEF Ways
  <2>8. r + 1 \in 0 .. kWays - 1
    BY <1>1, <2>1, <2>5, <2>7
  <2>9. lruRowers'[h] = r + 1
    BY <1>1, <2>3, <2>8, ModSmall
  <2>10. ASSUME NEW i \in Ways
         PROVE  TagAfter(h, i) = PoisonPC <=> i >= r + 1
    <3>1. i \in Int
      BY <1>1 DEF Ways
    <3>2. i >= r + 1 <=> i >= r /\ i # r
      BY <2>1, <3>1
    <3> QED
      BY <1>1, <2>2, <2>6, <3>2
  <2> QED
    BY <2>9, <2>10
<1> QED
  BY <1>3, <1>4

LEMMA FillStep ==
  ASSUME FillInv, [CacheNext]_cacheVars
  PROVE  FillInv'
<1>1. CacheInv'
  BY CacheStepInv DEF FillInv
<1>2. ASSUME UNCHANGED cacheVars
      PROVE  \A h \in Sets : Fills(h)'
  BY <1>2 DEF FillInv, Fills, Tag, TagAfter, cacheVars
<1>3. ASSUME NEW pc \in PCs, NEW s \in Slots, NEW code, NEW n,
             FetchBuild(pc, s, code, n) \/ FetchTorn(pc, s, code, n)
      PROVE  \A h \in Sets : Fills(h)'
  <2>1. MissAt(pc)
    BY <1>3, MissTags DEF FillInv, CacheInv
  <2> QED
    BY <2>1, MissFills
<1>4. \A h \in Sets : Fills(h)'
  BY <1>2, <1>3 DEF CacheNext, FetchHit
<1> QED
  BY <1>1, <1>4 DEF FillInv

LEMMA FillInit == CacheInit => FillInv
<1> SUFFICES ASSUME CacheInit
             PROVE  FillInv
  OBVIOUS
<1>1. CacheInv
  BY CacheInitInv
<1>2. ASSUME NEW h \in Sets
      PROVE  Fills(h)
  <2>1. \A i \in Ways : Tag(h, i) = PoisonPC
    BY SetSlotsInSlots DEF CacheInit, NewBlock, Tag, TagAfter
  <2>2. lruRowers[h] = 0
    BY DEF CacheInit
  <2>3. \A i \in Ways : i >= 0
    BY CacheConstants DEF Ways
  <2> QED
    BY <2>1, <2>2, <2>3 DEF Fills
<1> QED
  BY <1>1, <1>2 DEF FillInv

(* The inductive invariant: the ways that the rower has not reached yet    *)
(* are the poisoned ones.                                                  *)
THEOREM FillInvariance == CacheSpec => []FillInv
<1>1. CacheInit => FillInv
  BY FillInit
<1>2. FillInv /\ [CacheNext]_cacheVars => FillInv'
  BY FillStep
<1> QED
  BY <1>1, <1>2, PTL DEF CacheSpec

(* The rower overwrites a used way only when all ways of the set are used, *)
(* for every geometry and after interrupted assemblies too.                *)
THEOREM CacheFillsBeforeEvicting == CacheSpec => []FillsBeforeEvicting
<1>1. FillInv => FillsBeforeEvicting
  BY DEF FillInv, Fills, Tag, TagAfter, FillsBeforeEvicting
<1> QED
  BY <1>1, FillInvariance, PTL

-----------------------------------------------------------------------------
(* The queue of a set. *)

Tags == PCs \cup {PoisonPC}

(* A function on 1 .. n is a sequence. *)
LEMMA FunctionIsSeq ==
  ASSUME NEW n \in Nat, NEW T, NEW q \in [1 .. n -> T]
  PROVE  q \in Seq(T) /\ Len(q) = n
  OBVIOUS

LEMMA TagType ==
  ASSUME CacheTypeOK, NEW h \in Sets, NEW i \in Ways
  PROVE  Tag(h, i) \in Tags
<1>1. SetPos(h) + i \in Slots
  BY SetSlotsInSlots
<1> QED
  BY <1>1 DEF CacheTypeOK, Blocks, Tag, TagAfter, Tags

(* The queue of a set that is full, from the rower once around. *)
LEMMA FullQueue ==
  ASSUME CacheTypeOK, NEW h \in Sets, Full(h)
  PROVE  /\ Queue(h) \in Seq(Tags) /\ Len(Queue(h)) = kWays
         /\ \A i \in 1 .. kWays : (lruRowers[h] + i - 1) % kWays \in Ways
         /\ \A i \in 1 .. kWays : Queue(h)[i] = Tag(h, (lruRowers[h] + i - 1) % kWays)
<1>1. kWays \in Nat \ {0} /\ lruRowers[h] \in Int
  BY CacheConstants DEF CacheTypeOK, Ways
<1>2. ASSUME NEW i \in 1 .. kWays
      PROVE  (lruRowers[h] + i - 1) % kWays \in Ways
  <2>1. lruRowers[h] + i - 1 \in Int
    BY <1>1
  <2> QED
    BY <1>1, <2>1, ModRange DEF Ways
<1>3. Queue(h) = [i \in 1 .. kWays |-> Tag(h, (lruRowers[h] + i - 1) % kWays)]
  BY DEF Queue, Tag, TagAfter
<1>4. Queue(h) \in [1 .. kWays -> Tags]
  BY <1>2, <1>3, TagType
<1> QED
  BY <1>1, <1>2, <1>3, <1>4, FunctionIsSeq

(* The queue of a set that fills, from way 0 to the rower. *)
LEMMA OpenQueue ==
  ASSUME CacheTypeOK, NEW h \in Sets, ~Full(h)
  PROVE  /\ Queue(h) \in Seq(Tags) /\ Len(Queue(h)) = lruRowers[h]
         /\ \A i \in 1 .. lruRowers[h] : i - 1 \in Ways
         /\ \A i \in 1 .. lruRowers[h] : Queue(h)[i] = Tag(h, i - 1)
<1>1. kWays \in Nat \ {0} /\ lruRowers[h] \in Nat /\ lruRowers[h] <= kWays - 1
  BY CacheConstants DEF CacheTypeOK, Ways
<1>2. SetPos(h) \in Int
  BY <1>1, CacheConstants DEF SetPos, Sets
<1>3. \A i \in 1 .. lruRowers[h] : i - 1 \in Ways
  BY <1>1 DEF Ways
<1>4. Queue(h) = [i \in 1 .. lruRowers[h] |-> bbs[SetPos(h) + i - 1].pc]
  BY DEF Queue
<1>5. \A i \in 1 .. lruRowers[h] : SetPos(h) + i - 1 = SetPos(h) + (i - 1)
  BY <1>1, <1>2
<1>6. \A i \in 1 .. lruRowers[h] : Queue(h)[i] = Tag(h, i - 1)
  BY <1>4, <1>5 DEF Tag, TagAfter
<1>7. Queue(h) \in [1 .. lruRowers[h] -> Tags]
  BY <1>3, <1>4, <1>6, TagType
<1> QED
  BY <1>1, <1>3, <1>6, <1>7, FunctionIsSeq

(* Whatever the set, its queue holds tags of its ways. *)
LEMMA QueueOfTags ==
  ASSUME CacheTypeOK, NEW h \in Sets
  PROVE  /\ Queue(h) \in Seq(Tags)
         /\ \A i \in 1 .. Len(Queue(h)) : \E w \in Ways : Queue(h)[i] = Tag(h, w)
<1>1. CASE Full(h)
  BY <1>1, FullQueue
<1>2. CASE ~Full(h)
  BY <1>2, OpenQueue
<1> QED
  BY <1>1, <1>2

(* The queue depends on the tags and the rower of its set only. *)
LEMMA OtherQueue ==
  ASSUME CacheTypeOK, CacheTypeOK', NEW h \in Sets, lruRowers'[h] = lruRowers[h],
         \A i \in Ways : TagAfter(h, i) = Tag(h, i)
  PROVE  Queue(h)' = Queue(h)
<1>1. Full(h)' <=> Full(h)
  BY DEF Full, Tag, TagAfter
<1>2. kWays \in Nat \ {0} /\ lruRowers[h] \in Nat /\ lruRowers[h] <= kWays - 1
  BY CacheConstants DEF CacheTypeOK, Ways
<1>3. SetPos(h) \in Int
  BY <1>2, CacheConstants DEF SetPos, Sets
<1>4. CASE Full(h)
  <2>1. \A i \in 1 .. kWays : (lruRowers[h] + i - 1) % kWays \in Ways
    BY <1>4, FullQueue
  <2>2. \A i \in 1 .. kWays : bbs'[SetPos(h) + ((lruRowers[h] + i - 1) % kWays)].pc
                              = bbs[SetPos(h) + ((lruRowers[h] + i - 1) % kWays)].pc
    BY <2>1 DEF Tag, TagAfter
  <2> QED
    BY <1>1, <1>4, <2>2 DEF Queue
<1>5. CASE ~Full(h)
  <2>1. \A i \in 1 .. lruRowers[h] : i - 1 \in Ways
    BY <1>5, OpenQueue
  <2>2. \A i \in 1 .. lruRowers[h] : SetPos(h) + i - 1 = SetPos(h) + (i - 1)
    BY <1>2, <1>3
  <2>3. \A i \in 1 .. lruRowers[h] : bbs'[SetPos(h) + i - 1].pc = bbs[SetPos(h) + i - 1].pc
    BY <2>1, <2>2 DEF Tag, TagAfter
  <2> QED
    BY <1>1, <1>5, <2>3 DEF Queue
<1> QED
  BY <1>4, <1>5

-----------------------------------------------------------------------------
(* The refinement. *)

(* A function on 1 .. n + 1 that continues a sequence of length n. *)
LEMMA AppendIs ==
  ASSUME NEW T, NEW q \in Seq(T), NEW e \in T, NEW n \in Nat, Len(q) = n,
         NEW f \in [1 .. n + 1 -> T], \A i \in 1 .. n : f[i] = q[i], f[n + 1] = e
  PROVE  f = Append(q, e)
<1>1. f \in Seq(T) /\ Len(f) = n + 1
  BY FunctionIsSeq
<1>2. Append(q, e) \in Seq(T) /\ Len(Append(q, e)) = n + 1
  OBVIOUS
<1>3. \A i \in 1 .. Len(f) : f[i] = Append(q, e)[i]
  BY <1>1
<1> QED
  BY <1>1, <1>2, <1>3, SeqEqual

(* The tags after a step, read as the queue of a full set, *)
LEMMA FullQueueAfter ==
  ASSUME CacheTypeOK', NEW h \in Sets, Full(h)'
  PROVE  /\ Queue(h)' \in [1 .. kWays -> Tags]
         /\ \A i \in 1 .. kWays : Queue(h)'[i] = TagAfter(h, (lruRowers'[h] + i - 1) % kWays)
<1>1. kWays \in Nat \ {0} /\ lruRowers'[h] \in Int
  BY CacheConstants DEF CacheTypeOK, Ways
<1>2. ASSUME NEW i \in 1 .. kWays
      PROVE  bbs'[SetPos(h) + ((lruRowers'[h] + i - 1) % kWays)].pc \in Tags
  <2>1. lruRowers'[h] + i - 1 \in Int
    BY <1>1
  <2>2. (lruRowers'[h] + i - 1) % kWays \in Ways
    BY <1>1, <2>1, ModRange DEF Ways
  <2>3. SetPos(h) + ((lruRowers'[h] + i - 1) % kWays) \in Slots
    BY <2>2, SetSlotsInSlots
  <2> QED
    BY <2>3 DEF CacheTypeOK, Blocks, Tags
<1>3. Queue(h)' = [i \in 1 .. kWays |-> bbs'[SetPos(h) + ((lruRowers'[h] + i - 1) % kWays)].pc]
  BY DEF Queue
<1> QED
  BY <1>2, <1>3 DEF Tag, TagAfter

(* and as that of a set that fills. *)
LEMMA OpenQueueAfter ==
  ASSUME CacheTypeOK', NEW h \in Sets, ~Full(h)'
  PROVE  /\ Queue(h)' \in [1 .. lruRowers'[h] -> Tags]
         /\ \A i \in 1 .. lruRowers'[h] : Queue(h)'[i] = TagAfter(h, i - 1)
<1>1. kWays \in Nat \ {0} /\ lruRowers'[h] \in Nat /\ lruRowers'[h] <= kWays - 1
  BY CacheConstants DEF CacheTypeOK, Ways
<1>2. SetPos(h) \in Int
  BY <1>1, CacheConstants DEF SetPos, Sets
<1>3. ASSUME NEW i \in 1 .. lruRowers'[h]
      PROVE  /\ bbs'[SetPos(h) + i - 1].pc = TagAfter(h, i - 1)
             /\ bbs'[SetPos(h) + i - 1].pc \in Tags
  <2>1. SetPos(h) + i - 1 = SetPos(h) + (i - 1) /\ i - 1 \in Ways
    BY <1>1, <1>2 DEF Ways
  <2>2. SetPos(h) + (i - 1) \in Slots
    BY <2>1, SetSlotsInSlots
  <2> QED
    BY <2>1, <2>2 DEF CacheTypeOK, Blocks, Tags, Tag, TagAfter
<1>4. Queue(h)' = [i \in 1 .. lruRowers'[h] |-> bbs'[SetPos(h) + i - 1].pc]
  BY DEF Queue
<1> QED
  BY <1>3, <1>4

(* A miss appends its pc, and drops the oldest one of a full set. *)
LEMMA MissAppends ==
  ASSUME FillInv, CacheTypeOK', NEW pc \in PCs, MissAt(pc), NEW h \in Sets, h = Hash(pc)
  PROVE  Queue(h)' = Append(IF Len(Queue(h)) < kWays THEN Queue(h) ELSE Tail(Queue(h)), pc)
<1> DEFINE r == lruRowers[h]
<1>1. CacheTypeOK /\ Fills(h) /\ pc \in Tags /\ pc # PoisonPC
  BY CacheConstants DEF FillInv, CacheInv, Tags
<1>2. kWays \in Nat \ {0} /\ r \in Nat /\ r <= kWays - 1 /\ r \in Ways
  BY <1>1, CacheConstants DEF CacheTypeOK, Ways
<1>3. \A i \in Ways : TagAfter(h, i) = IF i = r THEN pc ELSE Tag(h, i)
  BY DEF MissAt
<1>4. lruRowers'[h] = (r + 1) % kWays
  BY <1>1 DEF MissAt, CacheTypeOK
<1>5. CASE ~Full(h)
  <2>1. /\ Queue(h) \in Seq(Tags) /\ Len(Queue(h)) = r
        /\ \A i \in 1 .. r : i - 1 \in Ways /\ Queue(h)[i] = Tag(h, i - 1)
    BY <1>1, <1>5, OpenQueue
  <2>2. \A i \in Ways : Tag(h, i) = PoisonPC <=> i >= r
    BY <1>1, <1>5 DEF Fills, Full, Tag, TagAfter
  <2>3. /\ Queue(h)' \in [1 .. r + 1 -> Tags]
        /\ \A i \in 1 .. r + 1 : Queue(h)'[i] = TagAfter(h, i - 1)
    <3>1. CASE r + 1 < kWays
      <4>1. lruRowers'[h] = r + 1
        BY <1>2, <1>4, <3>1, ModSmall
      <4>2. r + 1 \in Ways
        BY <1>2, <3>1 DEF Ways
      <4>3. TagAfter(h, r + 1) = PoisonPC
        BY <1>2, <1>3, <2>2, <4>2
      <4>4. ~Full(h)'
        BY <4>2, <4>3 DEF Full, Tag, TagAfter
      <4> QED
        BY <4>1, <4>4, OpenQueueAfter
    <3>2. CASE r + 1 = kWays
      <4>1. lruRowers'[h] = 0
        BY <1>2, <1>4, <3>2
      <4>2. \A i \in Ways : TagAfter(h, i) # PoisonPC
        <5>1. \A i \in Ways : i # r => ~(i >= r)
          BY <1>2, <3>2 DEF Ways
        <5> QED
          BY <1>1, <1>3, <2>2, <5>1
      <4>3. Full(h)'
        BY <4>2 DEF Full, Tag, TagAfter
      <4>4. /\ Queue(h)' \in [1 .. kWays -> Tags]
            /\ \A i \in 1 .. kWays : Queue(h)'[i] = TagAfter(h, (lruRowers'[h] + i - 1) % kWays)
        BY <4>3, FullQueueAfter
      <4>5. \A i \in 1 .. kWays : (lruRowers'[h] + i - 1) % kWays = i - 1
        BY <1>2, <4>1, ModSmall
      <4> QED
        BY <3>2, <4>4, <4>5
    <3> QED
      BY <1>2, <3>1, <3>2
  <2>4. ASSUME NEW i \in 1 .. r
        PROVE  Queue(h)'[i] = Queue(h)[i]
    <3>1. i \in 1 .. r + 1 /\ i - 1 # r /\ i - 1 \in Ways
      BY <1>2, <2>1
    <3> QED
      BY <1>3, <2>1, <2>3, <3>1
  <2>5. Queue(h)'[r + 1] = pc
    <3>1. r + 1 \in 1 .. r + 1 /\ (r + 1) - 1 = r
      BY <1>2
    <3> QED
      BY <1>2, <1>3, <2>3, <3>1
  <2> HIDE DEF r
  <2>6. Queue(h)' = Append(Queue(h), pc)
    BY <1>1, <1>2, <2>1, <2>3, <2>4, <2>5, AppendIs
  <2> QED
    BY <1>2, <2>1, <2>6
<1>6. CASE Full(h)
  <2>1. /\ Queue(h) \in Seq(Tags) /\ Len(Queue(h)) = kWays
        /\ \A i \in 1 .. kWays : (r + i - 1) % kWays \in Ways
        /\ \A i \in 1 .. kWays : Queue(h)[i] = Tag(h, (r + i - 1) % kWays)
    BY <1>1, <1>6, FullQueue
  <2>2. Full(h)'
    <3>1. \A i \in Ways : TagAfter(h, i) # PoisonPC
      BY <1>1, <1>3, <1>6 DEF Full, Tag, TagAfter
    <3> QED
      BY <3>1 DEF Full, Tag, TagAfter
  <2>3. /\ Queue(h)' \in [1 .. kWays -> Tags]
        /\ \A i \in 1 .. kWays : Queue(h)'[i] = TagAfter(h, (lruRowers'[h] + i - 1) % kWays)
    BY <2>2, FullQueueAfter
  <2> HIDE DEF r
  <2>4. ASSUME NEW i \in 1 .. kWays
        PROVE  (lruRowers'[h] + i - 1) % kWays = (r + i) % kWays
    <3>1. r + 1 \in Int /\ i - 1 \in Int
      BY <1>2
    <3>2. (((r + 1) % kWays) + (i - 1)) % kWays = ((r + 1) + (i - 1)) % kWays
      BY <1>2, <3>1, ModAdd
    <3>3. (r + 1) % kWays \in Int
      BY <1>2
    <3> DEFINE x == (r + 1) % kWays
    <3>4. x + i - 1 = x + (i - 1) /\ (r + 1) + (i - 1) = r + i
      BY <1>2, <3>3
    <3> QED
      BY <1>4, <3>2, <3>4
  <2>5. ASSUME NEW i \in 1 .. kWays - 1
        PROVE  (r + i) % kWays # r
    <3>1. CASE r + i < kWays
      BY <1>2, <3>1
    <3>2. CASE r + i >= kWays
      <4>1. r + i - kWays \in 0 .. kWays - 1 /\ r + i = kWays * 1 + (r + i - kWays)
        BY <1>2, <3>2
      <4>2. (kWays * 1 + (r + i - kWays)) % kWays = r + i - kWays
        BY <1>2, <4>1, ModUnique
      <4> QED
        BY <1>2, <4>1, <4>2
    <3> QED
      BY <1>2, <3>1, <3>2
  <2>6. (r + kWays) % kWays = r
    <3>1. (kWays * 1 + r) % kWays = r
      BY <1>2, ModUnique
    <3> QED
      BY <1>2, <3>1
  <2> DEFINE q == Tail(Queue(h))
  <2>7. /\ q \in Seq(Tags) /\ Len(q) = kWays - 1
        /\ \A i \in 1 .. kWays - 1 : q[i] = Queue(h)[i + 1]
    <3>1. Queue(h) # << >>
      BY <1>2, <2>1
    <3> QED
      BY <1>2, <2>1, <3>1, HeadTailProperties
  <2>8. ASSUME NEW i \in 1 .. kWays - 1
        PROVE  Queue(h)'[i] = q[i]
    <3>1. i \in 1 .. kWays /\ i + 1 \in 1 .. kWays /\ r + (i + 1) - 1 = r + i
      BY <1>2
    <3>2. (r + i) % kWays \in Ways
      BY <2>1, <3>1
    <3>3. Queue(h)'[i] = TagAfter(h, (r + i) % kWays)
      BY <2>3, <2>4, <3>1
    <3>4. Queue(h)'[i] = Tag(h, (r + i) % kWays)
      BY <1>3, <2>5, <3>2, <3>3 DEF r
    <3>5. q[i] = Tag(h, (r + i) % kWays)
      BY <2>1, <2>7, <3>1
    <3> QED
      BY <3>4, <3>5
  <2>9. Queue(h)'[kWays] = pc
    <3>1. kWays \in 1 .. kWays
      BY <1>2
    <3> QED
      BY <1>2, <1>3, <2>3, <2>4, <2>6, <3>1 DEF r
  <2> HIDE DEF q
  <2>10. Queue(h)' = Append(q, pc)
    <3> DEFINE n == kWays - 1
    <3>1. n \in Nat /\ n + 1 = kWays /\ kWays - 1 = n
      BY <1>2
    <3> HIDE DEF n
    <3> QED
      BY <1>1, <2>3, <2>7, <2>8, <2>9, <3>1, AppendIs
  <2> QED
    BY <1>2, <2>1, <2>10 DEF q
<1> QED
  BY <1>5, <1>6

(* A miss of the block array is a miss of the queues. *)
LEMMA MissImplements ==
  ASSUME FillInv, CacheTypeOK', NEW pc \in PCs, MissAt(pc)
  PROVE  Fifo!Miss(pc)
<1> DEFINE Q == [h \in Sets |-> Queue(h)]
           g == Hash(pc)
<1>1. g \in Sets /\ CacheTypeOK
  BY HashInSets DEF FillInv, CacheInv
<1>2. ~Fifo!Cached(pc)
  <2>1. Q[g] = Queue(g)
    BY <1>1
  <2>2. \A i \in 1 .. Len(Queue(g)) : Queue(g)[i] # pc
    BY <1>1, QueueOfTags DEF MissAt
  <2> QED
    BY <2>1, <2>2 DEF Fifo!Cached
<1>3. ASSUME NEW h \in Sets, h # g
      PROVE  Queue(h)' = Queue(h)
  <2>1. lruRowers'[h] = lruRowers[h]
    BY <1>1, <1>3 DEF MissAt, CacheTypeOK
  <2>2. \A i \in Ways : TagAfter(h, i) = Tag(h, i)
    BY <1>3 DEF MissAt
  <2> QED
    BY <1>1, <2>1, <2>2, OtherQueue
<1>4. Queue(g)' = Append(IF Len(Queue(g)) < kWays THEN Queue(g) ELSE Tail(Queue(g)), pc)
  BY <1>1, MissAppends
<1> DEFINE new == Append(IF Len(Queue(g)) < kWays THEN Queue(g) ELSE Tail(Queue(g)), pc)
<1>5. Q' = [Q EXCEPT ![g] = new]
  BY <1>1, <1>3, <1>4
<1>6. [Q EXCEPT ![g] = new]
        = [Q EXCEPT ![g] = Append(IF Len(@) < kWays THEN @ ELSE Tail(@), pc)]
  BY <1>1
<1> QED
  BY <1>2, <1>5, <1>6 DEF Fifo!Miss

(* The block cache implements first-in-first-out sets for every number of  *)
(* sets, ways and instructions: a miss, with or without an exception,      *)
(* forgets exactly the oldest program counter of a full set.               *)
THEOREM CacheImplementsFifo == CacheSpec => ImplementsFifo
<1> DEFINE Q == [h \in Sets |-> Queue(h)]
<1>1. CacheInit => Fifo!Init
  <2> SUFFICES ASSUME CacheInit
               PROVE  Fifo!Init
    OBVIOUS
  <2>1. ASSUME NEW h \in Sets
        PROVE  Queue(h) = << >>
    <3>1. kWays \in Nat \ {0} /\ 0 \in Ways /\ lruRowers[h] = 0
      BY CacheConstants DEF Ways, CacheInit
    <3>2. SetPos(h) + 0 \in Slots
      BY <3>1, SetSlotsInSlots
    <3>3. ~Full(h)
      BY <3>1, <3>2 DEF Full, CacheInit, NewBlock
    <3>4. CacheTypeOK
      BY CacheInitInv DEF CacheInv
    <3>5. Queue(h) \in Seq(Tags) /\ Len(Queue(h)) = 0
      BY <3>1, <3>3, <3>4, OpenQueue
    <3> QED
      BY <3>5, EmptySeq
  <2> QED
    BY <2>1 DEF Fifo!Init
<1>2. FillInv /\ [CacheNext]_cacheVars => [Fifo!Next]_Q
  <2> SUFFICES ASSUME FillInv, [CacheNext]_cacheVars
               PROVE  [Fifo!Next]_Q
    OBVIOUS
  <2>1. CASE UNCHANGED cacheVars
    BY <2>1 DEF cacheVars, Queue, Full
  <2>2. ASSUME NEW pc \in PCs, NEW s \in Slots, NEW code, NEW n,
               FetchBuild(pc, s, code, n) \/ FetchTorn(pc, s, code, n)
        PROVE  Fifo!Next
    <3>1. CacheTypeOK /\ CacheTypeOK'
      BY FillStep DEF FillInv, CacheInv
    <3>2. MissAt(pc)
      BY <2>2, <3>1, MissTags
    <3>3. Fifo!Miss(pc)
      BY <3>1, <3>2, MissImplements
    <3> QED
      BY <3>3 DEF Fifo!Next
  <2> QED
    BY <2>1, <2>2 DEF CacheNext, FetchHit
<1> QED
  BY <1>1, <1>2, FillInvariance, PTL DEF CacheSpec, ImplementsFifo, Fifo!Spec
=============================================================================
