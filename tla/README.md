# A verification of BESM-666

BESM-666 is a functional simulator of a RISC-V (RV64I, Zicsr) hart, written in
C++17. This directory holds TLA+ modules that model it from the command line to
the last handler, the TLC configurations that check them on small instances and
TLAPS proofs of the results that do not depend on the size of the instance. Paths
below are relative to the root of the repository.

## The system

One thread runs everything. `standalone/main.cpp` collects the options in a
`Config` and builds a `Machine`, which maps RAM devices into a `PhysMem`, loads
the ELF file and creates a `Hart`; the runner registers its tracer with the hook
manager, and `Hart::run` executes guest code until the guest stops it. An
exception on the way is caught by nobody and ends the process.

| component | state | operations | interacts with |
|---|---|---|---|
| runner, `Config`, `Machine` (`standalone/main.cpp`, `src/sim/config.cpp`, `src/sim/machine.cpp`) | options, RAM ranges, exit code | `ParseRange`, `addRamRange`, constructor, `run` | all below |
| ELF loader (`src/util/elf-parser.cpp`) | segments | requirements, loadable segments | copies into `PhysMem` |
| `Hart` (`src/sim/hart.cpp`) | `PC`, `currentInstr_`, counters | one handler per operation, `fetchBB`, `raiseException` | all below |
| basic block cache (`src/exec/basic-block.cpp`) | array of blocks, one rower per set | `lookup`, rebuild | filled by `Hart::assembleBB` |
| CSR file (`src/exec/csrf.cpp`, `exec/csr*.hpp`) | `mstatus`, `mepc`, `mtvec`, `mcause`, `mhartid`, privilege | `read`, `write`, `setBits`, `clearBits`, field `get`/`set` | CSR handlers, traps, `MRET` |
| prefetcher (`src/memory/prefetcher.cpp`) | a window of host memory | `loadWord` | called by `assembleBB` |
| MMU (`src/memory/mmu.cpp`) | none (identity translation) | loads, stores, host addresses | `PhysMem` |
| `PhysMem` (`src/memory/phys-mem.cpp`) | devices by range, last accessed device | loads, stores, `storeContArea`, `mapDevice` | RAM devices |
| `RAM` and page allocator (`src/memory/ram.cpp`) | pages by id, chunks with a rower | `load`, `store`, `allocPage` | host `mmap` |
| register file (`exec/gprf.hpp`), `util/bit-magic.hpp` | 32 registers and `PC` | `read`, `write`; pure functions on words | handlers |
| decoder (`src/decoder/decoder.cpp`) | none | `parse` | called by `assembleBB` |
| hooks and tracer (`src/sim/hooks.cpp`, `standalone/main.cpp`) | callbacks, `CurrentPC` | on block fetch, on executed instruction | called by the hart |
| associative cache (`util/assotiative-cache.hpp`) | entries, counters | `add`, `find`, `invalidate`, `incCounter`, writes through a found entry | unused, unit tested |

There is no concurrency. What is hard is order within one thread: handlers
call each other in tail position through `currentInstr_`, a pointer into a
cache that the same handler may be rewriting; traps fetch a block in the middle
of a handler; exceptions leave an assembly half done; stores do not reach
blocks that are already decoded; the prefetcher keeps a raw host pointer across
stores and page allocations; the memory remembers the device of the last
access. What makes each part correct:

* **block cache**: a program counter has at most one block, a block that
  `lookup` can return is closed by `BB_END`, replacement is first in first out;
* **hart**: the dispatch never leaves a complete block, cached code differs from
  memory only where it was stored to, `MRET` returns to what the trap recorded, lower
  modes cannot touch machine registers, the dispatch makes progress;
* **memory**: however it is cut into devices, pages and chunks, it behaves as
  one array of bytes; guest pages never share host memory;
* **machine**: the hart starts on the complete image of a RISC-V executable, in
  the memory that was asked for, or not at all; and the boot ends;
* **registers**: results follow the ISA in the bits that the handlers promise;
* **associative cache**: a hit is what the client gave for the tag and has not
  invalidated since; additions evict in order and inside their set;
* **decoder**: what was assembled is what is executed, and no word of data that
  is reached as code can break the dispatch.

`PROJECT.json` lists the hazards with their lines and the properties that watch
them.

## The modules

    BasicBlockCache ── BasicBlockCacheFifo (refines FifoSets) ── MCBasicBlockCache
          ├── CSRF
        Hart ── MCHart                        Registers ── MCRegisters

    PageAllocator
          │
       PhysMem ── PhysMemFlat (refines FlatMemory) ── MCPhysMem
                      └── Machine ── MCMachine

    Decoder ── RV64IEncoding ── Assembled ── MCDecoder

    AssotiativeCache ── MCAssotiativeCache

The proofs about a module are in a module of their own, and use each other's
lemmas:

    BasicBlockCacheProofs ── HartProofs
    PageAllocatorProofs ── PhysMemProofs ── MachineProofs
    DecoderProofs
    RegistersProofs
    AssotiativeCacheProofs

### BasicBlockCache, FifoSets, BasicBlockCacheFifo

`bbs`, `lruRowers` are the fields of the class, `torn` is the set of slots whose
last assembly was interrupted by an exception. A cell of a block is an
instruction, `BB_END`, or the constant `Uninit` for a cell the constructor does
not write. The actions are the ways `Hart::fetchBB` uses the class:
`FetchHit` (lookup finds the block), `FetchBuild` (a miss, the victim is
rebuilt up to a jump or the capacity), `FetchTorn` (a miss whose assembly is
left by an exception: the tag is already written). The geometry (`kSets`,
`kWays`, `kCapacity`) is a parameter. `FifoSets` is the promise: each set is a
queue of program counters, a hit changes nothing, a miss appends and, in a full
set, drops the head. `BasicBlockCacheFifo` maps the slots, read from the rower
on, to that queue.

### CSRF

`mstatus`, `mtvec`, `mcause` are records of the fields the code declares,
`mepc` a number. `write`, `setBits` and `clearBits` convert between the number
a guest sees and the fields, with the WARL rules of each register (`MTVecOf`,
`MEPCOf`, ...), after the privilege and read-only checks of `fitPrivillege`.

### Hart

One action per handler, from its call up to the call of the next handler: `Cur` is
the instruction under `currentInstr_` (variable `cur`, a slot and a cell),
`Executing(ops)` the dispatch through `HANDLER_ARR`. Handlers that do the same to
the modelled state share an action (`exec_ALU`, `exec_LOAD`, `exec_STORE`,
`exec_BRANCH`). `raiseException` is expanded inside the handlers that call it,
including the block fetch it makes, the skipped cell when the handler then falls
into `execNextInstr`, and the exception of a fetch that fails. `run` starts or,
after `EBREAK` or an illegal instruction, resumes. The general purpose registers
are abstracted: an operand of a jump, an address or a CSR write is any member of
`RegVals`, results are dropped (`Registers` computes them). Memory is a function
from word addresses to words and the decoder a constant function; the detail of
both is in their own modules. `skew` says that the window of the prefetcher may
start at a misaligned address; from then on an assembly may read, at each place,
the word there (the window was anchored anew, or the code without assertions cuts
the address down to a word) or any member of `Garbled`, the instructions that
bytes of two words may make. `CurrentPC` is the tracer's program counter. With
tracing on `OnInstrExecuted` loads the word at `CurrentPC` and reads a store back;
both loads can throw (`execNextInstr`, `TracerRejects`), with tracing off neither
happens, so that either may follow. `entry`, `saved` and `dirty` are history
variables that the properties need: how the running block was entered, what the
last trap interrupted (the mode and the instruction whose handler raised it, not
the `PC` register), and the words stored to after the assembly of a block. A
process that the tracer has ended is final; its `PC` is not looked at.

### PageAllocator, PhysMem, FlatMemory, PhysMemFlat

`PageAllocator` has the chunks a `RAMPageAllocator` mapped (`mapped`), its last
chunk (`back`) with its rower and the pages it returned (`pages`), for each RAM;
`mmap` is external and may return any free, page aligned place or fail.
`PhysMem` extends it with the device map, `lastAccessed`, the page maps of the
RAMs, the bytes of the host, the prefetcher's window and the running
`storeContArea`, one step per iteration of its loop. Mapping the ranges and
building is part of the model, as is a host out of memory.
`FlatMemory` is an array of bytes with the addresses that exist; `PhysMemFlat`
maps the memory of the devices to it.

### Machine

`Machine` runs `PhysMem` from the command line on. `stage` is where `main()` is,
`cmd` the command line, `option` the next value of `--ram`, `file` the executable,
`segment` the next segment to load, `hooks` the callbacks of the hook manager,
`exit` how the process ended. `ramOption` is the callback of `--ram` with
`ParseRange` (the right border wraps around, a value that does not parse is
skipped), `createMachine` the end of the options, `mapRange` and `buildMemory` the
first half of the constructor of `Machine`, `createParser` the checks of the ELF
parser, `loadSegment`, `copySegment` and `endSegment` `PhysMemLoader::loadElf`,
`start` the registration of the tracer. While the hart runs it is seen through its
loads, stores and fetches; it may return (`finish`, with the validation of `a0`)
or terminate, and a failed access ends the process. The contents of an executable
are a record, because ELFIO, which parses it, is not part of the repository. The
entry point of the file is never read: the hart starts at `PC` 0.

### Registers

The arithmetic handlers over `XLEN` bit registers, in lockstep with `isa`, the
registers of a hart that follows the RISC-V ISA (operator `Reference`, written
without the helpers of the code). Undefined shifts are a choice between what
processors do: take the amount modulo `XLEN`, or shift everything out. The code
departs from the ISA in places; `level` says how far each register can be
trusted: in all bits, or in its low half. Where an instruction departs
altogether (an amount of more than five bits, a right shift of a word that pulls
the upper half down, `SRAIW`) the reference starts again from the simulator's
value, so that the model goes on and every later instruction is checked too. The
bitwise operators are sums over the bits of their operands (`Bitwise`), `Pow2`
and the sum being recursive functions, which the provers can expand.

### AssotiativeCache

`cachedData` and `counters` are the arrays of the template. A client adds
payloads, or finds the entry of a tag and works on the reference it got (`ref`)
at any later time: `fill`, `drop`. `fill` writes payloads of the tag it asked
for; a client that writes others has no promise to rely on. `incCounter` does
not wrap around: afterwards the victim may be an entry of the next set
(`spilled`) or one behind the array, where the program has no defined behaviour
and the model stops (`outside`). `given` and `recent` are history variables.

### Decoder, RV64IEncoding, Assembled

A word is a record of its six bit fields. `parse` and its parts are operators,
`Row` and `Format` the table `INSTR_WHO` without its illegal rows, `Operand` the
immediate as the handler of the operation extracts it. The immediate of format
U is counted in units of 2^12. `RV64IEncoding` is the reference, written
from the RISC-V encoding that the toolchain of the end-to-end tests produces and
independent of the table; `Assembled` sends statements through the assembler,
the decoder and the handler's extraction, and decodes words that nobody
assembled. `InReach` says which statements the handlers can serve.

## What is checked

Passing runs:

| run | bounds | properties |
|---|---|---|
| `cache` | 2 sets × 2 ways, blocks of ≤ 2 instructions, 4 program counters of which 3 fight for one set | `CacheTypeOK`, `InItsSet`, `UniqueTags`, `CompleteBlocks`, `FillsBeforeEvicting`, and the refinement `ImplementsFifo` |
| `hart_traps` | 13 bit addresses, 12 words of memory, 2 sets × 1 way, boot code followed by every trapping or CSR instruction | `TypeOK`, `TracerFollowsDispatch`, `PCOfHandler`, `ReturnResumes`, `UserIsConfined` |
| `hart_code` | the same hart with 8 words and five programs: loops, faulting accesses, stores over code, jumps to odd and halfword addresses | `PoisonNeverMet`, `DispatchInBlock`, `CachedCodeIsMemory`, `TracerSparesAlignedCode`, and the liveness property `KeepsExecuting` |
| `machine` | 10 command lines with up to 3 ranges, some of which end inside a page, 9 executables; pages of 4 bytes, words of 2, host memory for two chunks of two pages | `PMTypeOK`, `PagesApart`, `PagesOwned`, `LookupIgnoresHistory`, `WindowOnPage`, `CrashOnlyWithoutMemory`, `LoadedImage`, `RequestedMemoryIsServed`, the refinement `ImplementsFlatMemory`, and the liveness property `BootEnds` |
| `registers` | `X0` and 2 registers of 4 bits, words of 2 bits, 4 initial values, every operation | `RegTypeOK`, `FollowsISA`, `KnownDepartures` |
| `assoc_cache` | 2 sets × 2 ways, 3 tags, 4 payloads, counters up to `MaxCounter` = 2 | `ACTypeOK`, `HitsAreGiven`, `RecentIsFound`, `TagsInTheirSet` |
| `decoder` | every operation, four registers, immediates around every split of the encodings; words with all opcodes and func3 and samples of the other fields | `ExecutesWhatWasWritten`, `AcceptsOnlyEncodings`, `DecodesForHart` |

Why the bounds are enough. The cache treats sets alike and its code depends on
ways only through the wrap of the rower: two ways and three competitors give hits
in either way, a wrap, and evictions of a complete and of a torn block. Blocks of
two instructions have the three ends there are: after a jump, at the capacity, by
an exception. One way per set in the hart makes a trap evict the block that raised
it. XSize 8192 is the smallest power of two in which every field of `mstatus` up
to `MPP` has a place; addresses wrap at it. In the machine and memory runs
`sizeof(RV64UWord)` is 2, so that a "halfword" address is an odd one; a page has
two words, a segment crosses pages and devices, overlaps another, runs out of the
memory, and the host has room for fewer pages than some devices have. The command
lines meet each way in which `mapDevice` treats a range: taken, dropped, rejected.
A device ends inside a page at the end of memory, in front of another device and
in front of a hole. Four bits are enough for a register because every handler
treats bits alike except at the sign and at the middle; four values of both signs
and halves at the start reach the others in a few steps. `MaxCounter` = 2 is one
behind the last way: the set spills into its neighbour, and the last set behind
the array. The field samples of `decoder` contain every value that the switches
compare with, their neighbours, and single bits at both ends of each part of an
immediate; the proofs below cover all words.

`CHECK_DEADLOCK FALSE` is used where the program really ends: the hart that
left `run()` with an exception or `std::terminate`, the process that ended, and
the associative cache that was used behind its array.

Fairness is assumed in two places. `Spec` of `Hart` has weak fairness of
`exec_BB_END \/ Execute`: a handler that was called runs, in the only thread
there is, to the call of the next handler. Whether anyone calls `run` again
after it returned is left open. `MachineSpec` has weak fairness of `Boot`:
`main()` waits for nothing before it calls `Machine::run`. Nothing is assumed of
the guest.

### Disagreements

These runs expect a violation; each states what a comment, an assertion, a
test or the README of the repository says (quoted under `findings` in `PROJECT.json`).

| run | what TLC shows |
|---|---|
| `hart_return` | a handler that traps steps over the first instruction of the block it enters, and `PC` stays one instruction behind (`PCOfHandler` says exactly where): a trap taken in that block saves the address before the interrupted instruction, and `MRET` returns there (`ReturnResumes` says where it returns in each case) |
| `memory_overlap` | ranges that overlap in part are mapped; `MappingIntersection` is thrown only if the new range contains an old one |
| `machine_truncated` | a segment that crosses the end of a device in the middle of a page is cut there, without an error, and the hart starts |
| `prefetch_halfword` | a jump to a halfword address breaks the assertion in `Prefetcher::loadWord` |
| `decoder_upper` | `LUI` and `AUIPC` lose the bits of their immediate from 2^20 on |

The passing runs stay inside limits of the code that are worth knowing; leaving
them makes the same properties fail:

* `PagesApart` needs guest pages that divide the host page: `Chunk::allocPage`
  tests only where a page starts (hypothesis `PageFitsHost` of the proofs);
* `ImplementsFlatMemory` is about steps with devices that end at the end of one of
  their pages (`WholePages`): `storeContArea` copies up to the end of the page,
  and what is behind the end of the device never reaches the next one.
  `LoadedImage` holds for all devices, but says nothing of a segment that crosses
  such an end (`OverrunsDevice`; run `machine_truncated`);
* `LoadedImage` promises the zeros of a segment (.bss) where no segment has
  contents: zeros are never written, they are what fresh pages hold. What is left
  where a .bss lies over the contents of an earlier segment stays open; linkers do
  not lay segments over each other;
* a range that reaches 2^64 is accepted and serves nothing: its right border wraps
  around (`RequestedMemoryIsServed`). Neither does one that did not parse;
* `HitsAreGiven` promises one of the payloads given, not the latest: `add` leaves
  older copies of a tag in the set and `find` returns the one in the lowest way;
* a host out of memory ends the simulator: `mmap` reports `MAP_FAILED`, the
  constructor of a chunk compares with `nullptr` (phase "crashed" of `PhysMem`);
  `CrashOnlyWithoutMemory` says that nothing else brings it there as long as
  instructions are fetched at whole words: a window that starts at a halfword
  address is read past the end of its page (`AlignedFetches`, run
  `prefetch_halfword`);
* `ExecutesWhatWasWritten` leaves out `SRLI`, which the table decodes to `SRAI`, so
  that a logical shift drags the sign along, `FENCE`, which it decodes to `PAUSE`, an
  illegal instruction for the hart, and `SRAIW`, whose immediate still has func7 in
  it; it needs jumps of less than 512 KiB and branches of less
  than 2 KiB: `exec_JAL` sign extends 20 of 21 bits, the branches 12 of 13;
* `AcceptsOnlyEncodings` leaves out `FENCE` and the shifts by an immediate. Of
  opcode 0010011 the decoder does not look at func7, of 0011011 it looks at func7
  but not at func3, so that a word with func3 2, which is no instruction, becomes
  `SRLIW` or `SRAIW`.

`FollowsISA` is about programs: what can still be trusted after instructions that
depart from the ISA. Where one departs altogether it promises nothing of that
result and the reference goes on from the simulator's value. `KnownDepartures` is
its complement: it is about one instruction, whatever the registers hold, excepts
none, and compares with the reference on the simulator's own registers. It says in
which ways alone the result may differ. Shifts by an immediate use 5 bits of the
amount where RV64 has 6; amounts of 64 and more, which C++ leaves undefined (in a
register, and always in `SRAIW`, which shifts by its whole immediate, at least
1024), are taken modulo 64 or shift everything out; operations on words compute on
whole registers and clear the upper half of the result instead of extending its
sign.

## What is proved

All proofs are for every value of the constants that satisfies the named
assumptions of the modules (`CacheConstants`, `DecodedOps`, `CSRConstants`,
`HartConstants`, `EvenOffsets`, `AllocatorConstants`, `PhysMemConstants`,
`AccessFitsPage`, `MachineConstants`, `DecoderConstants`, `AssotiativeConstants`,
`RegisterConstants`). `DecodedOps`, that no decoded instruction is the `BB_END`
marker, and `EvenOffsets` are what `DecoderForHart` establishes of the decoder.
`RegisterConstants` says that a register is twice as wide as a word and that
2^WLEN is a multiple of XLEN, as 2^32 is of 64: the low half of a register tells
the shift amount modulo its width. Every safety property of a passing run is
proved, except those named under "Only model-checked".

Conditions that the code does not enforce are not assumptions of the modules:
they are hypotheses of the theorems that need them. `MCLayout` shows that the
instance of the `machine` run meets them all.

| hypothesis | says | without it |
|---|---|---|
| `PageFitsHost` | a host page is a whole number of guest pages | pages overlap at the end of a chunk |
| `HostHasPage` | the bound on host memory leaves room for one page | it bounds the model, not the code |
| `RangesApart` | only ranges with the same left border share addresses, as the builder means to enforce (run `memory_overlap`) | the device of an address depends on the last access |
| `AlignedFetches` | instructions are fetched at whole words, as the prefetcher asserts (run `prefetch_halfword`) | the window is read past its page |

* `BasicBlockCacheProofs`: `CacheTyping`, `CacheInItsSet`, `CacheUniqueTags`,
  `CacheCompleteBlocks`. The inductive invariant is `CacheInv`, the conjunction of
  the type invariant, `InItsSet`, `UniqueTags` and `CompleteBlocks`. `UniqueTags`
  is not inductive alone: a rebuild writes the tag into the victim of its own set,
  and that this makes no duplicate follows from the miss only because a block with
  that tag could be nowhere but in that set (`InItsSet`). For
  `CacheFillsBeforeEvicting` and `CacheImplementsFifo`, `FillInv` adds to
  `CacheInv` that a set that still has an unused way has used exactly the ways
  below its rower. Both kinds of misses write one tag and advance one rower
  (`MissAt`); the queue of a set read from the rower on then loses its head and
  gains the tag when the set is full (the unused ways are those from the rower on,
  so that a set with one is a queue that starts at way 0), and only gains it
  otherwise.
* `HartProofs`. `HartInv` is the type invariant, `CacheInv`, `DispatchInBlock`,
  `MepcAligned` and `NoTorn`: no block is torn before an exception has left `run`,
  which is final. Without `NoTorn` the other parts are not inductive, since a
  lookup could return the remains of an interrupted assembly and the dispatch
  would run off them. One lemma per handler shows that it preserves `HartInv`;
  from there follow `HartTyping`, `HartDispatchInBlock` and `HartPoisonNeverMet`;
  `MepcAligned`, that `mepc` is a multiple of 4, is there because `MRET` jumps to
  it. `StepShapes` then sorts the steps into four shapes (entering a block,
  raising an exception, leaving `run`, walking to the next cell), over which
  `HartTracerFollowsDispatch`, `HartPCOfHandler`, `HartReturnResumes` and
  `HartUserIsConfined` go; that `PC` may be anything after a jump rests on
  `JumpEndsBlock`: the next cell is `BB_END`. `HartTracerSparesAlignedCode` needs
  that a block that was read at aligned addresses has its words in memory.
  `HartImplementsCache` shows that every step of the hart is a step of the block
  cache or leaves it alone, and hands the theorems of the cache up
  (`HartCompleteBlocks`, `HartImplementsFifo`). `HartCachedCodeIsMemory` uses the
  stronger `AllCurrent`.
* `PageAllocatorProofs`: `AllocPagesApart` and `AllocPagesOwned`. The inductive
  invariant `AllocInv` adds that chunks do not overlap (`RegionsApart`), that the last
  chunk of a RAM is mapped and its rower is inside it and on a page boundary
  (`BackMapped`), that no two RAMs share a last chunk (`BacksApart`), and that
  the pages already taken from it lie below its rower (`PagesBelow`), which is
  what keeps the next page apart from them.
* `PhysMemProofs`. `PMTyped` adds to the type invariant the shape of the running
  copy and that devices are those of the configuration, one per left border;
  from it follow `PMTyping` and, since then at most one device holds an address,
  `PMLookupIgnoresHistory`. `PMWindowOnPage` needs that pages stay where they are
  (`PagesStay`) and that the window is empty until the memory is built
  (`WindowInv`). `PMImplementsAlloc` hands the theorems of the allocator down;
  `CrashInv` adds that every entry of a page map is a page of the allocator and
  that a null page stands only in a killed process, which gives
  `PMCrashOnlyWithoutMemory`. `PMImplementsFlatMemory` needs the contents too
  (`ContentInv`): different entries of the page maps are different pages, and
  host memory outside the pages is zero, so that a page is born with the zeros
  the flat memory already had there. Every access is then one step of
  `FlatMemory`, a copy one step per page, and an access that throws or is served
  by the window leaves it alone. That devices hold whole pages is no hypothesis: it
  is a condition on the devices mapped at the moment of a step (`WholePages`), inside
  `ImplementsFlatMemory`.
* `MachineProofs` carries all of this from the command line to the exit.
  `MachineTyped` ties `stage` to the phase of the memory and says that the
  configuration is what the options read so far make of it; with
  `DevicesConfigured` it gives `MachineServesRequests`, without any hypothesis on
  the ranges: every range asked for lies in a configured one and the other way
  round (`RangesParsed`), and one that wraps around contains nothing
  (`RangeWraps`). A step of the machine is an option or a step of the memory
  (`MachineShapes`), so that the lemmas of `PhysMemProofs` apply (`MemoryInv`).
  `MachineLoadedImage` follows from `ImageInv`: at every moment of the boot,
  memory holds the image of the executable in which each segment is cut at the
  byte that the loader has reached (`Progress`, `PartOfImage`); an iteration of
  the copy moves that byte to the end of a page and changes exactly the bytes in
  between, modulo the size of the address space. No hypothesis on the ends of
  devices is needed: a copy that would pass one is the copy of a segment that
  overruns it (`CopyOnDevice`), which the property excepts.
* `AssotiativeCacheProofs`: `ACTyping`, `ACHitsAreGiven`, `ACTagsInTheirSet`,
  `ACRecentIsFound`.
  `HitsAreGiven` is inductive over the type invariant because `find` and
  `invalidate` look at the same entries, in every state a counter can be in.
  `TagsInTheirSet` is not: a reference survives the calls that follow, so the
  inductive invariant `ApartInv` adds that, before a counter has left its set, all
  counters name ways of their sets and the reference lies in the set of the tag it
  was found for. `RecentIsFound` says nothing of where an entry is; `RecentInv`
  does: the latest additions to a set lie one after another before its counter,
  around the end of the set (`InOrder`, `WayOf`). The bound `MaxCounter` is a
  constant like the others and may be any number from `ways` on.
* `DecoderProofs`: `DecoderForHart`, `DecoderAcceptsOnlyEncodings` and
  `DecoderExecutesWhatWasWritten`, over all 2^32 words. For the first, `RowOps`
  goes through the rows of the table and `OtherOps` through the switches behind
  it; `EvenOffset` shows that the offsets that `parse_B` and `parse_J` put
  together are even and `EvenSignExtend` that a sign extension keeps them so. For
  the other two, the formats are cut into fields and put together by operators of
  their own (`BranchFunc7`, `BranchImm`, ...), which are inverse to each other:
  `Cuts...` says so from the decoder's side and `Joins...` from the assembler's,
  both by taking an offset apart at every bit where either of them cuts it.
  `TabledCells` and `TabledEncodings` compare the table with the encodings in
  either direction. `ParseAccepts` and `RoundTrip` then go through the formats.
  The hypothesis of the last theorem, that every statement is `InReach`, leaves
  out what "Disagreements" and the limits below it describe (`SRLI`, `FENCE`,
  upper immediates of more than 8 bits, far jumps and branches, shifts by 32 and
  more) and `SRAIW`, whose handler takes its func7 for a part of the amount;
  `MCNearInReach` shows that the statements of the run are within reach.

* `RegistersProofs`: `RegTyping`, `RegFollowsISA` and `RegKnownDepartures`, for
  every width allowed by `RegisterConstants` (the powers of two, since 2^WLEN is a
  multiple of XLEN), every program and every start. The inductive invariant
  `RegInv` is the type invariant, `FollowsISA` and that X0 is always exact:
  handlers write to its cell, and only because `GPRF_read` and the reference both
  skip it does a later instruction with X0 as an operand follow the ISA. A step
  preserves it by comparing what a handler computes from operands that agree in
  all bits, or in their low halves, with what the reference computes from its own
  (`Good64`, `Good32`). Sums, differences and shifts to the left are congruences
  modulo 2^XLEN and modulo 2^WLEN; the order of signed numbers is the order of the
  unsigned ones moved by half the range; an arithmetic shift of a negative number
  is the logical one with ones filled in; a word shifted to the right has its sign
  or zeros to pull down. The bitwise operators are compared bit by bit: that `Xor`
  is `Or` less `And`, that a result fits into a register and that its low half
  depends on the low halves alone are inductions on the number of bits. The
  library's induction theorems take an operator as a parameter, which the
  installed provers cannot instantiate; `Induction` states the principle for sets
  of naturals and `Recursion` what a recursive function on them is, both from the
  well-foundedness of the order of the naturals. `RegKnownDepartures` uses
  `Good64` with equal operands for amounts below the width and adds the undefined
  shifts (`OneInstruction`); the word handlers are those without W with the low
  half kept (`WordOfWide`).

Only model-checked: the liveness properties `KeepsExecuting` and `BootEnds`
(liveness under fairness is out of the prover's reach).

## What is not modelled

All printing, the disassembly (Capstone), the parsing of options (CLI11) and of
ELF files (ELFIO), which are input and output of other libraries; the dumpers;
moving a `RAM` or an associative cache, which moves arrays and changes nothing in
them (`Cache::operator=` has no return statement); page sizes below the size of
an access; host stack use (the handlers rely on tail calls); the count of
executed instructions, which is only printed.

## Plan

Done, in this order: the block cache, the CSR file and the hart; the page
allocator and the memory; the decoder; the associative cache; the registers; the
machine; then the proofs of their safety properties and refinements. Left: a
composition of the hart's fetch with the memory's prefetcher, in place of the
`skew` abstraction.
