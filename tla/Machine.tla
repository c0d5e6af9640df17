------------------------------ MODULE Machine ------------------------------
(***************************************************************************)
(* The life of the simulator: the standalone runner (standalone/main.cpp)  *)
(* collects the options in a Config (src/sim/config.cpp), the constructor  *)
(* of Machine (src/sim/machine.cpp) maps the RAM ranges and loads the      *)
(* executable (src/util/elf-parser.cpp, PhysMemLoader), the runner         *)
(* registers the tracer with the hook manager (src/sim/hooks.cpp), and the *)
(* hart runs until it returns.                                             *)
(*                                                                         *)
(* The hart is seen through the accesses it makes to the memory.  Nothing  *)
(* catches an exception on the way: it ends the process.                   *)
(***************************************************************************)
EXTENDS PhysMemFlat

CONSTANTS
  Commands,  (* command lines                                              *)
  Files      (* executables                                                *)

(* A value of the option --ram: an address and a size, or text in which    *)
(* ParseRange finds no comma or no numbers.                                *)
Malformed == [ok |-> FALSE, left |-> 0, size |-> 0]

Requests == [ok : {TRUE}, left : Addrs, size : Addrs] \cup {Malformed}

(* A segment of an executable: its type, its virtual address, its contents *)
(* in the file, and its size in memory.                                    *)
Segments == [type : {"PT_LOAD", "PT_NOTE"}, addr : Addrs, data : Seq(Bytes), memsz : Nat]

(* ParseRange: the right border wraps around with the type of an address.  *)
ParseRange(s) == [left |-> s.left, right |-> (s.left + s.size) % ASize]

(* ConfigBuilder::addRamRange, which the callback of --ram calls with the  *)
(* range; an argument that does not parse is reported and skipped.         *)
WithRamRange(ranges, s) == IF s.ok THEN Append(ranges, ParseRange(s)) ELSE ranges

(* The sizes of segments are RV64Size; Configs holds every list of ranges  *)
(* that a command line builds up.                                          *)
ASSUME MachineConstants ==
  /\ Commands \subseteq [ram : Seq(Requests), verbose : BOOLEAN, trace : BOOLEAN,
                         a0Validation : BOOLEAN]
  /\ Files \subseteq [elf : BOOLEAN, class : {32, 64}, encoding : {"LSB", "MSB"},
                      machine : {"RISCV", "other"}, segments : Seq(Segments)]
  /\ \A f \in Files : \A i \in DOMAIN f.segments : Len(f.segments[i].data) < ASize
  /\ \A c \in Commands : \E ranges \in [0 .. Len(c.ram) -> Configs] :
       /\ ranges[0] = <<>>
       /\ \A i \in DOMAIN c.ram : ranges[i] = WithRamRange(ranges[i - 1], c.ram[i])

VARIABLES
  cmd,      (* the command line                                            *)
  file,     (* the executable                                              *)
  stage,    (* what main() is doing                                        *)
  option,   (* the next value of --ram                                     *)
  segment,  (* the next segment of the executable                          *)
  hooks,    (* event -> the callbacks to call, in order                    *)
  stored,   (* history: the guest has stored to memory                     *)
  exit      (* how the process ended                                       *)

machineVars == <<cmd, file, stage, option, segment, hooks, stored, exit>>

allVars == <<pmVars, machineVars>>

Stages == {"options", "mapping", "parsing", "loading", "running", "ended"}

Exits == {"none", "success", "failure", "aborted"}

(* An exception leaves main(), or the host kills the process.              *)
Abort ==
  /\ stage' = "ended"
  /\ exit' = "aborted"

Goto(s) ==
  /\ stage' = s
  /\ UNCHANGED exit

-----------------------------------------------------------------------------
(* main() hands every value of --ram to its callback, *)
ramOption ==
  /\ stage = "options" /\ option <= Len(cmd.ram)
  /\ config' = WithRamRange(config, cmd.ram[option])
  /\ option' = option + 1
  /\ UNCHANGED <<allocVars, next, phase, devices, lastAccessed, pagemap, host, area,
                 window, result, cmd, file, stage, segment, hooks, stored, exit>>

(* and constructs the machine. *)
createMachine ==
  /\ stage = "options" /\ option > Len(cmd.ram)
  /\ Goto("mapping")
  /\ UNCHANGED <<pmVars, cmd, file, option, segment, hooks, stored>>

(* The constructor of Machine maps the ranges one by one, *)
mapRange ==
  /\ stage = "mapping"
  /\ mapRAM
  /\ IF phase' = "rejected" THEN Abort ELSE UNCHANGED <<stage, exit>>
  /\ UNCHANGED <<cmd, file, option, segment, hooks, stored>>

buildMemory ==
  /\ stage = "mapping"
  /\ build
  /\ Goto("parsing")
  /\ UNCHANGED <<cmd, file, option, segment, hooks, stored>>

-----------------------------------------------------------------------------
(* The constructor of ElfParser with checkRequirements. *)
MeetsRequirements(f) == f.class = 64 /\ f.encoding = "LSB" /\ f.machine = "RISCV"

(* opens the executable, *)
createParser ==
  /\ stage = "parsing"
  /\ IF file.elf /\ MeetsRequirements(file) THEN Goto("loading") ELSE Abort
  /\ UNCHANGED <<pmVars, cmd, file, option, segment, hooks, stored>>

(* Mutant of IsLoadable: the type is not looked at.                        *)
IsLoadableAny(s) == TRUE

(* ElfParser::getLoadableSegments: what the file holds of a segment counts,*)
(* its size in memory does not.                                            *)
IsLoadable(s) == s.type = "PT_LOAD"

(* PhysMemLoader::loadElf copies one loadable segment after another, *)
loadSegment ==
  /\ stage = "loading" /\ phase = "built" /\ segment <= Len(file.segments)
  /\ \/ IsLoadable(file.segments[segment]) /\ storeContArea(file.segments[segment])
     \/ ~IsLoadable(file.segments[segment]) /\ UNCHANGED pmVars
  /\ segment' = segment + 1
  /\ UNCHANGED <<cmd, file, stage, option, hooks, stored, exit>>

copySegment ==
  /\ stage = "loading"
  /\ copyStep
  /\ IF phase' = "copying" THEN UNCHANGED <<stage, exit>> ELSE Abort
  /\ UNCHANGED <<cmd, file, option, segment, hooks, stored>>

endSegment ==
  /\ stage = "loading"
  /\ copyEnd
  /\ UNCHANGED machineVars

(* HookManager::doRegisterHook *)
Register(h, event, callback) == [h EXCEPT ![event] = Append(@, callback)]

(* and creates the hart; main() registers the tracer, once. *)
start ==
  /\ stage = "loading" /\ phase = "built" /\ segment > Len(file.segments)
  /\ Goto("running")
  /\ hooks' = IF cmd.verbose \/ cmd.trace
              THEN Register(Register(hooks, "BB_FETCHED", "OnBBFetch"),
                            "INSTR_EXECUTED", "OnInstrExecuted")
              ELSE hooks
  /\ UNCHANGED <<pmVars, cmd, file, option, segment, stored>>

Boot ==
  \/ ramOption \/ createMachine \/ mapRange \/ buildMemory \/ createParser
  \/ loadSegment \/ copySegment \/ endSegment \/ start

-----------------------------------------------------------------------------
(* The hart, and the tracer after every instruction, access the memory;    *)
(* the exception of a failed access ends the process.                      *)
Accessed ==
  /\ IF phase' = "crashed" \/ result'.kind \in {"InvalidAddress", "UnalignedAddress"}
     THEN Abort ELSE UNCHANGED <<stage, exit>>
  /\ UNCHANGED <<cmd, file, option, segment, hooks>>

guestLoad(a, n) == stage = "running" /\ load(a, n) /\ Accessed /\ UNCHANGED stored

guestStore(a, bytes) == stage = "running" /\ store(a, bytes) /\ Accessed /\ stored' = TRUE

guestFetch(v) ==
  /\ stage = "running"
  /\ prefetchHit(v) \/ prefetchMiss(v)
  /\ Accessed
  /\ UNCHANGED stored

(* Hart::run returns, with any value in X10: no constructor sets it. *)
finish ==
  /\ stage = "running"
  /\ stage' = "ended"
  /\ \E X10 \in 0 .. 1 :
       exit' = IF cmd.a0Validation /\ X10 # 1 THEN "failure" ELSE "success"
  /\ UNCHANGED <<pmVars, cmd, file, option, segment, hooks, stored>>

(* Hart::exec_ECALL calls std::terminate in the reserved mode. *)
terminate ==
  /\ stage = "running"
  /\ Abort
  /\ UNCHANGED <<pmVars, cmd, file, option, segment, hooks, stored>>

MachineInit ==
  /\ config = <<>>
  /\ PMInit
  /\ cmd \in Commands
  /\ file \in Files
  /\ stage = "options"
  /\ option = 1
  /\ segment = 1
  /\ hooks = [BB_FETCHED |-> <<>>, INSTR_EXECUTED |-> <<>>]
  /\ stored = FALSE
  /\ exit = "none"

MachineNext ==
  \/ Boot
  \/ \E a \in LoadAddrs, n \in AccessSizes : guestLoad(a, n)
  \/ \E a \in StoreAddrs, n \in AccessSizes :
       \E bytes \in [1 .. n -> Bytes] : guestStore(a, bytes)
  \/ \E v \in FetchAddrs : guestFetch(v)
  \/ finish
  \/ terminate

(* main() does not wait for anything before it calls Machine::run.         *)
MachineSpec == MachineInit /\ [][MachineNext]_allVars /\ WF_allVars(Boot)

-----------------------------------------------------------------------------
Offset(s, a) == (a - s.addr) % ASize

(* The loadable segments of f with contents in the file for address a, and *)
(* those that occupy it in memory.                                         *)
Contents(f, a) ==
  {i \in DOMAIN f.segments : /\ f.segments[i].type = "PT_LOAD"
                             /\ Offset(f.segments[i], a) < Len(f.segments[i].data)}

Extent(f, a) ==
  Contents(f, a) \cup {i \in DOMAIN f.segments : /\ f.segments[i].type = "PT_LOAD"
                                                 /\ Offset(f.segments[i], a) < f.segments[i].memsz}

(* The byte f puts at address a: that of the last segment there, and zero  *)
(* where only memory is asked for (.bss) or nothing at all.  What is left  *)
(* where a .bss lies over the contents of an earlier segment stays open:   *)
(* no linker lays segments over each other.                                *)
IsImageByte(f, a, byte) ==
  /\ Contents(f, a) = {} => byte = 0
  /\ \A i \in Contents(f, a) :
       (\A j \in Extent(f, a) : j <= i) =>
         byte = f.segments[i].data[Offset(f.segments[i], a) + 1]

(* Memory holds the loadable segments of f, the later over the earlier     *)
(* ones, and zeros.                                                        *)
HoldsImage(f) ==
  /\ \A a \in Addrs : Contents(f, a) # {} => Scan(a) # {}
  /\ \A a \in Addrs : Scan(a) # {} => IsImageByte(f, a, Cell(a))

(* Segment s goes on behind a device that ends inside its last page.       *)
Overruns(s) ==
  \E d \in devices :
    /\ (d.right - d.left) % pageSize # 0
    /\ \E k \in 1 .. Len(s.data) - 1 : (s.addr + k - 1) % ASize = d.right - 1

OverrunsDevice(f) ==
  \E i \in DOMAIN f.segments : f.segments[i].type = "PT_LOAD" /\ Overruns(f.segments[i])

(* The hart never starts on an incomplete or foreign image: until the      *)
(* guest stores to it, memory holds the loadable segments of a RISC-V      *)
(* executable across pages and devices, and the boot fails where a segment *)
(* runs into addresses without memory.  Excepted are segments that cross   *)
(* the end of a device in the middle of its last page, see CompleteImage.  *)
LoadedImage ==
  (stage = "running" /\ ~stored) =>
    /\ file.elf /\ MeetsRequirements(file)
    /\ OverrunsDevice(file) \/ HoldsImage(file)

(* What the tests of storeContArea expect of it: afterwards every byte of  *)
(* the area can be loaded from its address.  The loader copies up to the   *)
(* end of a page, which may lie behind the end of the device.              *)
CompleteImage == (stage = "running" /\ ~stored) => HoldsImage(file)

(* The value s of --ram asks for memory at a; a range that reaches 2^XLEN  *)
(* is not counted: its right border wraps around.                          *)
AsksFor(s, a) ==
  s.ok /\ s.left + s.size < ASize /\ a \in s.left .. s.left + s.size - 1

(* When the hart starts, exactly the addresses that were asked for have    *)
(* memory: the builder drops a range that begins where an earlier one does *)
(* and loses nothing by it, and a range that reaches 2^XLEN serves no      *)
(* address at all, its own neither.                                        *)
RequestedMemoryIsServed ==
  stage = "running" =>
    \A a \in Addrs : Scan(a) # {} <=> \E i \in DOMAIN cmd.ram : AsksFor(cmd.ram[i], a)

(* The boot ends: the loop of storeContArea moves on in every iteration,   *)
(* at the last byte of a page too.                                         *)
BootEnds == <>(stage \in {"running", "ended"})
=============================================================================
