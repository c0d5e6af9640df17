-------------------------------- MODULE Hart --------------------------------
(***************************************************************************)
(* The execution engine of one hart (src/sim/hart.cpp) over the basic      *)
(* block cache, the CSR file and a word addressed memory.                  *)
(*                                                                         *)
(* Hart::run dispatches threaded code: the handler of the instruction      *)
(* under currentInstr_ does its work and then either returns from run() or *)
(* calls execNextInstr, which reports the instruction under currentInstr_  *)
(* to the hooks, advances currentInstr_ and calls the next handler.  One   *)
(* action is one handler up to the call of the next one.                   *)
(*                                                                         *)
(* The general purpose registers are abstracted: an operand is any member  *)
(* of RegVals (zero for X0), and results are dropped.                      *)
(***************************************************************************)
EXTENDS BasicBlockCache, CSRF

CONSTANTS
  RegVals,   (* the values a guest program holds in its registers          *)
  Mapped,    (* addresses of the words that some memory device holds       *)
  Words,     (* 32 bit memory words                                        *)
  StoreWords, (* what a store may leave in a word                         *)
  Garbled,   (* instructions that a read across word boundaries may give   *)
  parse,     (* Decoder::parse: word -> instruction                        *)
  Programs   (* initial memory images                                      *)

(* An instruction has an operation, a source register rs1 (0 is X0; the    *)
(* five bit immediate of CSRR?I), and imm: the sign extended offset of a   *)
(* jump or memory access, or the number of a CSR.                          *)
InstrRecords == [op : STRING, rs1 : 0 .. 31, imm : Int]

ASSUME HartConstants ==
  /\ Mapped \subseteq {a \in Values : a % 4 = 0}
  /\ parse \in [Words -> Instrs]
  /\ StoreWords \subseteq Words
  /\ Garbled \subseteq Instrs
  /\ Programs \subseteq [Mapped -> Words]
  /\ Instrs # {} /\ Instrs \subseteq InstrRecords
  /\ PCs = {a \in Values : a % 2 = 0}
  /\ 0 \in Operands /\ RegVals \subseteq Operands
  /\ \A i \in Instrs : i.op \in {"CSRRWI", "CSRRSI", "CSRRCI"} => i.rs1 \in Operands

(* The decoder builds the offsets of jumps and branches with a zero bit 0. *)
ASSUME EvenOffsets ==
  \A i \in Instrs :
    i.op \in {"JAL", "BEQ", "BNE", "BLT", "BGE", "BLTU", "BGEU"} => i.imm % 2 = 0

VARIABLES
  pc,         (* GPRF::PC                                                  *)
  cur,        (* currentInstr_: a slot of the cache and a cell of its block *)
  status,     (* what run() is doing                                       *)
  mem,        (* word address -> word                                      *)
  skew,       (* the prefetcher's window starts at a misaligned address    *)
  CurrentPC,  (* the tracer's program counter (standalone/main.cpp)        *)
  entry,      (* history: how the current block was entered                *)
  saved,      (* history: what the last trap interrupted, while no CSR     *)
              (* write has touched the registers that remember it          *)
  dirty       (* history: slot -> addresses stored to since its assembly   *)

vars == <<bbs, lruRowers, torn, privillege, mstatus, mepc, mtvec, mcause,
          pc, cur, status, mem, skew, CurrentPC, entry, saved, dirty>>

(* "threw": an exception or a failed assertion left run().                 *)
Statuses == {"idle", "running", "returned", "threw", "terminated"}

(* "end": by exec_BB_END; "trap": by raiseException; "overwritten": by     *)
(* raiseException followed by another assignment to PC (exec_MRET).        *)
Entries == {"end", "trap", "overwritten"}

(* No trap to return from. *)
Forgotten ==
  [valid |-> FALSE, priv |-> 0, MIE |-> 0, at |-> 0, entry |-> "end", mepc |-> 0]

-----------------------------------------------------------------------------
(* The handlers, by what they do to the state of this model.               *)
ImmOps    == {"ADDI", "SLTI", "SLTIU", "ORI", "ANDI", "XORI", "SLLI", "SRLI", "SRAI"}
UpperOps  == {"LUI", "AUIPC"}
RegOps    == {"ADD", "SUB", "SLT", "SLTU", "OR", "AND", "XOR", "SLL", "SRL", "SRA"}
WordOps   == {"ADDIW", "SLLIW", "SRLIW", "SRAIW", "ADDW", "SUBW", "SLLW", "SRLW", "SRAW"}
FenceOps  == {"FENCE", "FENCE_TSO"}
LoadOps   == {"LB", "LH", "LW", "LD", "LBU", "LHU", "LWU"}
StoreOps  == {"SB", "SH", "SW", "SD"}
BranchOps == {"BEQ", "BNE", "BLT", "BLTU", "BGE", "BGEU"}

ILLEGAL_INSTR == 2
ECALL_UMODE   == 8
ECALL_SMODE   == 9
ECALL_MMODE   == 11

(* The instruction whose handler is about to run. *)
Cur == bbs[cur.slot].instrs[cur.idx]

(* The address of that instruction. *)
At == (bbs[cur.slot].pc + 4 * cur.idx) % XSize

Executing(ops) == status = "running" /\ Cur.op \in ops

Reg(r) == IF r = 0 THEN {0} ELSE RegVals

Plus(a, offset) == (a + offset) % XSize

WordOf(a) == a - (a % 4)

-----------------------------------------------------------------------------
(* Prefetcher::loadWord, called by assembleBB for pc, pc + 4, ...  With an *)
(* aligned pc and an aligned window it returns the word in memory.  A      *)
(* misaligned pc anchors the window at a misaligned host address, and then *)
(* words are read across word boundaries, or the assertion in loadWord     *)
(* fails when it is compiled in.  A misaligned pc in an aligned window is  *)
(* read as the word that contains it, and an aligned pc outside a          *)
(* misaligned window anchors it anew: for an address on a device the word  *)
(* there or any instruction of Garbled may come back, and any load may     *)
(* fail.                                                                   *)
Straight(a) == a % 4 = 0 /\ ~skew

(* Mutant of Decoded: assembleBB does not advance its pc.                  *)
DecodedInPlace(a) ==
  [k \in 0 .. kCapacity - 2 |->
     IF a \in Mapped THEN parse[mem[a]] ELSE CHOOSE i \in Instrs : TRUE]

Decoded(a) ==
  [k \in 0 .. kCapacity - 2 |->
     IF Plus(a, 4 * k) \in Mapped THEN parse[mem[Plus(a, 4 * k)]]
     ELSE CHOOSE i \in Instrs : TRUE]   (* never appended: the load throws *)

Misread(words) ==
  {code \in [0 .. kCapacity - 2 -> Garbled \cup {words[k] : k \in 0 .. kCapacity - 2}] :
     \A k \in 0 .. kCapacity - 2 : code[k] \in Garbled \cup {words[k]}}

Fetched(a) == IF Straight(a) THEN {Decoded(a)} ELSE Misread(Decoded(WordOf(a)))

Loadable(a, n) == \A k \in 0 .. n - 1 : WordOf(Plus(a, 4 * k)) \in Mapped

Faults(a, n) == Straight(a) => Plus(a, 4 * n) \notin Mapped

(* Mutants of Enter: currentInstr_ is not reset to the first cell; the     *)
(* fetch hook is not triggered.                                            *)
EnterWithoutReset(a, s, skip) ==
  /\ cur' = [slot |-> s, idx |-> cur.idx + skip]
  /\ CurrentPC' = Plus(a, 4 * skip)

EnterWithoutHook(a, s, skip) ==
  /\ cur' = [slot |-> s, idx |-> skip]
  /\ CurrentPC' = Plus(CurrentPC, 4 * skip)

(* Hart::fetchBB at address a; `skip' is the number of cells execNextInstr *)
(* advances over before the next handler is dispatched.  The block fetch   *)
(* hook sets the tracer's program counter.                                 *)
Enter(a, s, skip) ==
  /\ cur' = [slot |-> s, idx |-> skip]
  /\ CurrentPC' = Plus(a, 4 * skip)

fetchBB(a, skip) ==
  \/ \E s \in Slots :
       /\ FetchHit(a, s)
       /\ Enter(a, s, skip)
       /\ UNCHANGED <<skew, dirty>>
  \/ \E s \in Slots, code \in Fetched(a), n \in 1 .. kCapacity - 1 :
       /\ Loadable(a, n)
       /\ FetchBuild(a, s, code, n)
       /\ Enter(a, s, skip)
       /\ skew' \in IF Straight(a) THEN {FALSE} ELSE BOOLEAN
       /\ dirty' = [dirty EXCEPT ![s] = IF Straight(a) THEN {} ELSE Mapped]

(* The same when a load throws: currentInstr_ and the hooks stay behind.   *)
fetchThrows(a) ==
  \E s \in Slots, code \in Fetched(a), n \in 0 .. kCapacity - 2 :
    /\ Loadable(a, n)
    /\ Faults(a, n)
    /\ FetchTorn(a, s, code, n)
    /\ skew' \in IF Straight(a) THEN {FALSE} ELSE BOOLEAN
    /\ dirty' = [dirty EXCEPT ![s] = Mapped]
    /\ UNCHANGED <<cur, CurrentPC>>

(* Hart::execNextInstr without a fetch before it.  The tracer, when it is  *)
(* registered, loads the word at its program counter; the memory throws if *)
(* that is misaligned or on no device.                                     *)
execNextInstr ==
  /\ \/ /\ cur' = [cur EXCEPT !.idx = @ + 1]
        /\ CurrentPC' = Plus(CurrentPC, 4)
        /\ UNCHANGED status
     \/ /\ CurrentPC \notin Mapped
        /\ status' = "threw"
        /\ UNCHANGED <<cur, CurrentPC>>
  /\ UNCHANGED <<bbs, lruRowers, torn, skew, entry>>

(* Mutant of nextPC: the step is one halfword.                             *)
nextPCByHalf == pc' = Plus(pc, 2)

nextPC == pc' = Plus(pc, 4)

AccessSize(i) ==
  CASE i.op \in {"LB", "LBU", "SB"} -> 1
    [] i.op \in {"LH", "LHU", "SH"} -> 2
    [] i.op \in {"LW", "LWU", "SW"} -> 4
    [] OTHER -> 8

Accessible(i, a) == a % AccessSize(i) = 0 /\ WordOf(a) \in Mapped

-----------------------------------------------------------------------------
(* Hart::raiseException.  PC is written before fetchBB, which may throw;   *)
(* `after' is what the calling handler does next: go on to the next        *)
(* handler ("running", one cell further) or return from run().             *)
HandlerPC(id) ==
  (4 * (IF mtvec.Mode = 1 THEN mtvec.Base + id ELSE mtvec.Base)) % XSize

(* What a trap interrupts: the mode, the instruction whose handler raises  *)
(* the exception, how its block was entered, and mepc as it was.           *)
Interrupted ==
  [valid |-> TRUE, priv |-> privillege, MIE |-> mstatus.MIE,
   at |-> At, entry |-> entry, mepc |-> mepc]

(* Mutant of TrapCSRs: MIE is cleared before it is saved in MPIE.          *)
TrapCSRsSwapped(id) ==
  /\ mstatus' = [mstatus EXCEPT !.MPIE = 0, !.MIE = 0, !.MPP = privillege]
  /\ privillege' = MACHINE
  /\ mcause' = [Interrupt |-> 0, ExceptionCode |-> id]
  /\ mepc' = MEPCOf(pc)
  /\ saved' = Interrupted

(* The registers as raiseException writes them.                            *)
TrapCSRs(id) ==
  /\ mstatus' = [mstatus EXCEPT !.MPIE = mstatus.MIE, !.MIE = 0, !.MPP = privillege]
  /\ privillege' = MACHINE
  /\ mcause' = [Interrupt |-> 0, ExceptionCode |-> id]
  /\ mepc' = MEPCOf(pc)
  /\ saved' = Interrupted

(* The tracer loads the word of the instruction i it is told of, and reads *)
(* back what i has stored, also when that store was stepped over.          *)
TracerRejects(i, at) ==
  \/ at \notin Mapped
  \/ i.op \in StoreOps /\ \E base \in Reg(i.rs1) : ~Accessible(i, Plus(base, i.imm))

raiseException(id, after, how, pcAfter) ==
  /\ TrapCSRs(id)
  /\ UNCHANGED <<mtvec, mem>>
  /\ \/ /\ fetchBB(HandlerPC(id), IF after = "running" THEN 1 ELSE 0)
        /\ pc' = pcAfter
        /\ status' = after
        /\ entry' = how
     \/ /\ after = "running"
        /\ fetchBB(HandlerPC(id), 0)
        /\ TracerRejects(bbs'[cur'.slot].instrs[0], HandlerPC(id))
        /\ pc' = pcAfter
        /\ status' = "threw"
        /\ entry' = how
     \/ /\ fetchThrows(HandlerPC(id))
        /\ pc' = HandlerPC(id)
        /\ status' = "threw"
        /\ UNCHANGED entry

(* A handler that raises an exception and falls into execNextInstr.        *)
Trap(id) == raiseException(id, "running", "trap", HandlerPC(id))

-----------------------------------------------------------------------------
(* The handlers. *)

(* Hart::run and Hart::exec_BB_END *)
Dispatch ==
  /\ \/ fetchBB(pc, 0) /\ status' = "running" /\ entry' = "end"
     \/ fetchThrows(pc) /\ status' = "threw" /\ UNCHANGED entry
  /\ UNCHANGED <<csrVars, pc, mem, saved>>

run == status \in {"idle", "returned"} /\ Dispatch

exec_BB_END == Executing({"BB_END"}) /\ Dispatch

(* Raises the exception and returns from run(). *)
exec_INV_OP ==
  /\ Executing({"INV_OP"})
  /\ raiseException(ILLEGAL_INSTR, "returned", "trap", HandlerPC(ILLEGAL_INSTR))

(* Arithmetic, and the fences, which do nothing. *)
exec_ALU ==
  /\ Executing(ImmOps \cup UpperOps \cup RegOps \cup WordOps \cup FenceOps)
  /\ nextPC
  /\ execNextInstr
  /\ UNCHANGED <<csrVars, mem, saved, dirty>>

(* An access leaves run() with an exception. *)
Throw ==
  /\ status' = "threw"
  /\ UNCHANGED <<cacheVars, csrVars, pc, cur, mem, skew, CurrentPC, entry, saved, dirty>>

exec_LOAD ==
  /\ Executing(LoadOps)
  /\ \E base \in Reg(Cur.rs1) :
       LET a == Plus(base, Cur.imm) IN
       \/ /\ Accessible(Cur, a)
          /\ nextPC
          /\ execNextInstr
          /\ UNCHANGED <<csrVars, mem, saved, dirty>>
       \/ ~Accessible(Cur, a) /\ Throw

(* The words a store overwrites; a store of less than a word leaves some   *)
(* word there.  The second word of a DWord is on the same page.            *)
Overwritten(a) ==
  {WordOf(a)} \cup (IF Cur.op = "SD" THEN {Plus(a, 4)} ELSE {})

exec_STORE ==
  /\ Executing(StoreOps)
  /\ \E base \in Reg(Cur.rs1) :
       LET a == Plus(base, Cur.imm) IN
       \/ /\ Accessible(Cur, a)
          /\ \E w \in [Overwritten(a) \cap Mapped -> StoreWords] :
               mem' = [b \in Mapped |-> IF b \in Overwritten(a) THEN w[b] ELSE mem[b]]
          /\ dirty' = [s \in Slots |-> dirty[s] \cup (Overwritten(a) \cap Mapped)]
          /\ nextPC
          /\ execNextInstr
          /\ UNCHANGED <<csrVars, saved>>
       \/ ~Accessible(Cur, a) /\ Throw

Jump(target) ==
  /\ pc' = target
  /\ execNextInstr
  /\ UNCHANGED <<csrVars, mem, saved, dirty>>

exec_JAL == Executing({"JAL"}) /\ Jump(Plus(pc, Cur.imm))

(* Mutant of exec_JALR: bit 0 of the target is not cleared.                *)
exec_JALROdd ==
  /\ Executing({"JALR"})
  /\ \E base \in Reg(Cur.rs1) : Jump(Plus(base, Cur.imm))

exec_JALR ==
  /\ Executing({"JALR"})
  /\ \E base \in Reg(Cur.rs1) :
       LET sum == Plus(base, Cur.imm) IN Jump(sum - (sum % 2))

exec_BRANCH ==
  /\ Executing(BranchOps)
  /\ Jump(Plus(pc, Cur.imm)) \/ Jump(Plus(pc, 4))

exec_PAUSE == Executing({"PAUSE"}) /\ Trap(ILLEGAL_INSTR)

Terminate ==
  /\ status' = "terminated"
  /\ UNCHANGED <<cacheVars, csrVars, pc, cur, mem, skew, CurrentPC, entry, saved, dirty>>

exec_ECALL ==
  /\ Executing({"ECALL"})
  /\ \/ privillege = USER /\ Trap(ECALL_UMODE)
     \/ privillege = SUPERVISOR /\ Trap(ECALL_SMODE)
     \/ privillege = MACHINE /\ Trap(ECALL_MMODE)
     \/ privillege \notin {USER, SUPERVISOR, MACHINE} /\ Terminate

(* Returns from run() with PC still at the EBREAK. *)
exec_EBREAK ==
  /\ Executing({"EBREAK"})
  /\ status' = "returned"
  /\ UNCHANGED <<cacheVars, csrVars, pc, cur, mem, skew, CurrentPC, entry, saved, dirty>>

(* The illegal MRET falls through to the assignment of mepc to PC, after   *)
(* raiseException has already fetched the block of the trap handler.       *)
exec_MRET ==
  /\ Executing({"MRET"})
  /\ \/ /\ privillege # MACHINE
        /\ raiseException(ILLEGAL_INSTR, "running", "overwritten", MEPCOf(pc))
     \/ /\ privillege = MACHINE
        /\ privillege' = mstatus.MPP
        /\ mstatus' = [mstatus EXCEPT !.MIE = mstatus.MPIE, !.MPIE = 1, !.MPP = USER]
        /\ pc' = mepc
        /\ saved' = Forgotten
        /\ execNextInstr
        /\ UNCHANGED <<mepc, mtvec, mcause, mem, dirty>>

exec_SRET == Executing({"SRET"}) /\ Terminate

(* A CSR instruction that succeeded. *)
CSRDone ==
  /\ nextPC
  /\ saved' = IF Cur.imm \in {MSTATUS, MEPC} THEN Forgotten ELSE saved
  /\ execNextInstr
  /\ UNCHANGED <<mem, dirty>>

exec_CSRRW ==
  /\ Executing({"CSRRW"})
  /\ \/ (\E v \in Reg(Cur.rs1) : write(Cur.imm, v)) /\ CSRDone
     \/ ~Writable(Cur.imm) /\ Trap(ILLEGAL_INSTR)

(* Only CSRRS has a form that reads without writing. *)
exec_CSRRS ==
  /\ Executing({"CSRRS"})
  /\ \/ /\ Cur.rs1 = 0
        /\ \/ /\ Readable(Cur.imm)
              /\ nextPC
              /\ execNextInstr
              /\ UNCHANGED <<csrVars, mem, saved, dirty>>
           \/ ~Readable(Cur.imm) /\ Trap(ILLEGAL_INSTR)
     \/ /\ Cur.rs1 # 0
        /\ \/ (\E v \in Reg(Cur.rs1) : setBits(Cur.imm, v)) /\ CSRDone
           \/ ~Writable(Cur.imm) /\ Trap(ILLEGAL_INSTR)

exec_CSRRC ==
  /\ Executing({"CSRRC"})
  /\ \/ (\E v \in Reg(Cur.rs1) : clearBits(Cur.imm, v)) /\ CSRDone
     \/ ~Writable(Cur.imm) /\ Trap(ILLEGAL_INSTR)

exec_CSRRWI ==
  /\ Executing({"CSRRWI"})
  /\ \/ write(Cur.imm, Cur.rs1) /\ CSRDone
     \/ ~Writable(Cur.imm) /\ Trap(ILLEGAL_INSTR)

exec_CSRRSI ==
  /\ Executing({"CSRRSI"})
  /\ \/ setBits(Cur.imm, Cur.rs1) /\ CSRDone
     \/ ~Writable(Cur.imm) /\ Trap(ILLEGAL_INSTR)

exec_CSRRCI ==
  /\ Executing({"CSRRCI"})
  /\ \/ clearBits(Cur.imm, Cur.rs1) /\ CSRDone
     \/ ~Writable(Cur.imm) /\ Trap(ILLEGAL_INSTR)

-----------------------------------------------------------------------------
(* PC starts at 0 whatever the entry point of the executable is. *)
Init ==
  /\ CacheInit
  /\ CSRInit
  /\ pc = 0
  /\ cur = [slot |-> 0, idx |-> 0]
  /\ status = "idle"
  /\ mem \in Programs
  /\ skew = FALSE
  /\ CurrentPC = 0
  /\ entry = "end"
  /\ saved = Forgotten
  /\ dirty = [s \in Slots |-> {}]

(* The handlers that execute an instruction of the guest. *)
Execute ==
  \/ exec_INV_OP \/ exec_ALU \/ exec_LOAD \/ exec_STORE
  \/ exec_JAL \/ exec_JALR \/ exec_BRANCH
  \/ exec_PAUSE \/ exec_ECALL \/ exec_EBREAK \/ exec_MRET \/ exec_SRET
  \/ exec_CSRRW \/ exec_CSRRS \/ exec_CSRRC
  \/ exec_CSRRWI \/ exec_CSRRSI \/ exec_CSRRCI

Next == run \/ exec_BB_END \/ Execute

(* A handler that was called runs to the call of the next one.             *)
Spec == Init /\ [][Next]_vars /\ WF_vars(exec_BB_END \/ Execute)

-----------------------------------------------------------------------------
SavedStates ==
  [valid : BOOLEAN, priv : 0 .. 3, MIE : 0 .. 1, at : Values, entry : Entries, mepc : Values]

Reached == {s \in Slots : bbs[s].pc # PoisonPC}

(* Type invariant. *)
TypeOK ==
  /\ CacheTypeOK
  /\ CSRTypeOK
  /\ pc \in PCs
  /\ cur \in [slot : Slots, idx : Index]
  /\ status \in Statuses
  /\ mem \in [Mapped -> Words]
  /\ skew \in BOOLEAN
  /\ CurrentPC \in Values
  /\ entry \in Entries
  /\ saved \in SavedStates
  /\ dirty \in [Slots -> SUBSET Mapped]

(* While run() is running, currentInstr_ points into a block that was      *)
(* assembled completely, at one of its instructions or at its BB_END: the  *)
(* dispatch never walks into a cell of an older block or an uninitialised  *)
(* one, although traps fetch blocks in the middle of a handler and then    *)
(* step over a cell.                                                       *)
DispatchInBlock ==
  status = "running" =>
    /\ cur.slot \in Reached \ torn
    /\ \E n \in 1 .. kCapacity - 1 : ClosedAt(bbs[cur.slot], n) /\ cur.idx <= n

(* The constructor marks unused blocks with a pc that can't be met on      *)
(* runtime: PC never takes that value, so no lookup ever returns a block   *)
(* that was not assembled, whatever targets a guest computes.              *)
PoisonNeverMet ==
  /\ pc # PoisonPC
  /\ status = "running" => bbs[cur.slot].pc # PoisonPC

(* The tracer prints the address of the instruction that is dispatched:    *)
(* OnBBFetch and OnInstrExecuted keep CurrentPC in step with currentInstr_ *)
(* through hits, misses, evictions of the running block and traps.         *)
TracerFollowsDispatch == status = "running" => CurrentPC = At

(* Arithmetic, accesses and jumps: what never enters raiseException.       *)
PlainOps ==
  ImmOps \cup UpperOps \cup RegOps \cup WordOps \cup FenceOps
    \cup LoadOps \cup StoreOps \cup BranchOps \cup {"JAL", "JALR"}

(* Tracing does not end a run that would go on without it, unless the      *)
(* guest has jumped to a halfword address: at an aligned instruction only  *)
(* the access of a load or store, which comes before PC is advanced, lets  *)
(* an exception out of run().  The tracer's own load is always of a word   *)
(* that assembleBB could load as well.                                     *)
TracerSparesAlignedCode ==
  [][(Executing(PlainOps) /\ At % 4 = 0 /\ status' = "threw") =>
       Cur.op \in LoadOps \cup StoreOps /\ pc' = pc]_vars

(* What the PC register means to a handler.  In a block entered through    *)
(* BB_END it is the address of the instruction; in a block entered by a    *)
(* trap it is one instruction behind, until the next jump or BB_END.  In   *)
(* the one an illegal MRET enters it counts on from mepc, wherever the     *)
(* handler lies, as long as no CSR instruction has changed mepc.           *)
PCOfHandler ==
  (status = "running" /\ Cur # BBEnd) =>
    CASE entry = "end"  -> pc = At
      [] entry = "trap" -> Plus(pc, 4) = At
      [] OTHER          -> saved.valid => pc = Plus(mepc, 4 * (cur.idx - 1))

(* A cached instruction is the decoding of the word in memory unless that  *)
(* word was stored to after the block was assembled (or the block was read *)
(* through a misaligned window): stores do not invalidate blocks, and      *)
(* nothing but a store makes a block stale.                                *)
CachedCodeIsMemory ==
  \A s \in Reached \ torn : \A k \in Index :
    LET a == Plus(bbs[s].pc, 4 * k) IN
    (bbs[s].instrs[k] # BBEnd /\ (\A j \in 0 .. k : bbs[s].instrs[j] # BBEnd)
       /\ a \in Mapped \ dirty[s])
      => bbs[s].instrs[k] = parse[mem[a]]

(* The handler of a trap returns, and no CSR write has interfered.         *)
Returning == Executing({"MRET"}) /\ privillege = MACHINE /\ saved.valid

(* MRET gives back the mode and the interrupt enable that the last trap    *)
(* interrupted.  It goes on at the interrupted instruction if that was     *)
(* aligned and in a block entered through BB_END; in a block entered by a  *)
(* trap one instruction before it; and, if it was at a halfword address,   *)
(* where mepc pointed before the trap.                                     *)
ReturnResumes ==
  [][Returning =>
       /\ privillege' = saved.priv
       /\ mstatus'.MIE = saved.MIE
       /\ CASE saved.at % 4 # 0 /\ saved.entry = "end" -> pc' = saved.mepc
            [] saved.at % 4 = 0 /\ saved.entry = "end" -> pc' = saved.at
            [] saved.entry = "trap"                    -> Plus(pc', 4) = saved.at
            [] OTHER                                   -> TRUE]_vars

(* What a RISC-V hart promises: MRET resumes the interrupted instruction.  *)
MretResumesInterrupted ==
  [][(Returning /\ saved.at % 4 = 0) => pc' = saved.at]_vars

(* Below machine mode the guest changes no machine register and gains no   *)
(* privilege except by trapping to the handler in mtvec.                   *)
UserIsConfined ==
  [][privillege # MACHINE =>
       \/ UNCHANGED csrVars
       \/ /\ privillege' = MACHINE /\ mtvec' = mtvec
          /\ mstatus'.MPP = privillege /\ mstatus'.MIE = 0
          /\ CurrentPC' \in {HandlerPC(mcause'.ExceptionCode),
                             Plus(HandlerPC(mcause'.ExceptionCode), 4)}
               \/ status' = "threw"]_vars

(* A hart that keeps running keeps coming to instructions of the guest:    *)
(* the dispatch never spins between BB_END and fetchBB.                    *)
KeepsExecuting == []<>(status # "running") \/ []<>(Cur # BBEnd)
=============================================================================
