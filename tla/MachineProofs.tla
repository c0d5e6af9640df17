--------------------------- MODULE MachineProofs ---------------------------
(***************************************************************************)
(* Proofs about the simulator from the command line to its end: the boot   *)
(* of the machine, and the memory that the hart meets when it starts.      *)
(***************************************************************************)
EXTENDS Machine, PhysMemProofs, WellFoundedInduction

(* The lists of ranges after each of the options --ram.                    *)
Parsed(c, ranges) ==
  /\ ranges[0] = <<>>
  /\ \A i \in DOMAIN c.ram : ranges[i] = WithRamRange(ranges[i - 1], c.ram[i])

BootTyped ==
  /\ cmd \in Commands /\ file \in Files /\ stage \in Stages
  /\ option \in 1 .. Len(cmd.ram) + 1
  /\ segment \in 1 .. Len(file.segments) + 1

(* The memory is where the constructor of Machine is.                      *)
BootOrder ==
  /\ stage = "options" => phase = "building" /\ next = 1 /\ devices = {}
  /\ stage = "mapping" => phase = "building"
  /\ stage = "parsing" => phase = "built"
  /\ stage = "loading" => phase \in {"built", "copying"}
  /\ stage = "running" => phase = "built"
  /\ stage # "options" => option = Len(cmd.ram) + 1
  /\ stage \in {"parsing", "loading", "running"} => next = Len(config) + 1

(* The Config holds the ranges of the options that were read, no others.   *)
RangesParsed ==
  /\ \E ranges \in [0 .. Len(cmd.ram) -> Configs] :
       Parsed(cmd, ranges) /\ config = ranges[option - 1]
  /\ \A i \in 1 .. option - 1 :
       cmd.ram[i].ok => \E j \in DOMAIN config : config[j] = ParseRange(cmd.ram[i])
  /\ \A j \in DOMAIN config : \E i \in 1 .. option - 1 :
       cmd.ram[i].ok /\ config[j] = ParseRange(cmd.ram[i])

MachineTyped == PMTyped /\ BootTyped /\ BootOrder /\ RangesParsed

-----------------------------------------------------------------------------
LEMMA CommandTyped ==
  ASSUME cmd \in Commands
  PROVE  cmd.ram \in Seq(Requests) /\ Len(cmd.ram) \in Nat /\ DOMAIN cmd.ram = 1 .. Len(cmd.ram)
  BY MachineConstants

LEMMA SegmentTyped ==
  ASSUME file \in Files
  PROVE  /\ file.segments \in Seq(Segments) /\ Len(file.segments) \in Nat
         /\ DOMAIN file.segments = 1 .. Len(file.segments)
         /\ \A i \in DOMAIN file.segments :
              /\ file.segments[i].addr \in Addrs /\ file.segments[i].data \in Seq(Bytes)
              /\ Len(file.segments[i].data) \in 0 .. ASize - 1
<1>1. file.segments \in Seq(Segments)
  BY MachineConstants
<1>2. ASSUME NEW i \in DOMAIN file.segments
      PROVE  /\ file.segments[i].addr \in Addrs /\ file.segments[i].data \in Seq(Bytes)
             /\ Len(file.segments[i].data) \in 0 .. ASize - 1
  <2>1. file.segments[i] \in Segments
    BY <1>1
  <2>2. file.segments[i].addr \in Addrs /\ file.segments[i].data \in Seq(Bytes)
    BY <2>1 DEF Segments
  <2>3. Len(file.segments[i].data) < ASize /\ Len(file.segments[i].data) \in Nat
    BY <2>2, MachineConstants
  <2> QED
    BY <2>2, <2>3, PhysMemConstants
<1> QED
  BY <1>1, <1>2

(* Every step reads an option or calls the memory system, if that.         *)
LEMMA MachineShapes ==
  ASSUME MachineTyped, [MachineNext]_allVars
  PROVE  ramOption \/ [MemNext]_pmVars
<1>1. CASE loadSegment
  <2>1. CASE storeContArea(file.segments[segment])
    <3> DEFINE s == file.segments[segment]
               c == [addr |-> s.addr, data |-> s.data]
    <3>1. segment \in DOMAIN file.segments
      BY <1>1, SegmentTyped DEF loadSegment, MachineTyped, BootTyped
    <3>2. c \in AnyArea
      BY <3>1, SegmentTyped DEF MachineTyped, BootTyped, AnyArea
    <3>3. storeContArea(c)
      BY <2>1 DEF storeContArea
    <3> QED
      BY <3>2, <3>3 DEF MemNext
  <2> QED
    BY <1>1, <2>1 DEF loadSegment
<1>2. CASE UNCHANGED allVars
  BY <1>2 DEF allVars
<1>3. CASE createMachine \/ createParser \/ start \/ finish \/ terminate
  BY <1>3 DEF createMachine, createParser, start, finish, terminate
<1>4. CASE mapRange \/ buildMemory \/ copySegment \/ endSegment
  BY <1>4 DEF mapRange, buildMemory, copySegment, endSegment, MemNext
<1>5. ASSUME NEW a \in LoadAddrs, NEW n \in AccessSizes, guestLoad(a, n) PROVE MemNext
  BY <1>5 DEF guestLoad, MemNext
<1>6. ASSUME NEW a \in StoreAddrs, NEW n \in AccessSizes,
             NEW bytes \in [1 .. n -> Bytes], guestStore(a, bytes)
      PROVE  MemNext
  BY <1>6 DEF guestStore, MemNext
<1>7. ASSUME NEW v \in FetchAddrs, guestFetch(v) PROVE MemNext
  BY <1>7 DEF guestFetch, MemNext
<1> QED
  BY <1>1, <1>2, <1>3, <1>4, <1>5, <1>6, <1>7 DEF MachineNext, Boot

-----------------------------------------------------------------------------
LEMMA MachineStarts == ASSUME MachineInit PROVE MachineTyped
<1>1. PMTyped
  BY InitTyped DEF MachineInit
<1>2. cmd.ram \in Seq(Requests) /\ Len(cmd.ram) \in Nat /\ Len(file.segments) \in Nat
  BY CommandTyped, SegmentTyped DEF MachineInit
<1>3. BootTyped
  BY <1>2 DEF MachineInit, BootTyped, Stages
<1>4. BootOrder
  BY DEF MachineInit, PMInit, BootOrder
<1>5. PICK ranges \in [0 .. Len(cmd.ram) -> Configs] : Parsed(cmd, ranges)
  BY MachineConstants DEF MachineInit, Parsed
<1>6. config = ranges[option - 1]
  BY <1>5 DEF MachineInit, Parsed
<1>7. RangesParsed
  BY <1>5, <1>6 DEF MachineInit, RangesParsed
<1> QED
  BY <1>1, <1>3, <1>4, <1>7 DEF MachineTyped

(* The callback of --ram adds the range it was given to the Config.        *)
LEMMA OptionParsed ==
  ASSUME MachineTyped, ramOption
  PROVE  RangesParsed' /\ config' \in Configs
<1>1. /\ cmd.ram \in Seq(Requests) /\ Len(cmd.ram) \in Nat
      /\ DOMAIN cmd.ram = 1 .. Len(cmd.ram)
  BY CommandTyped DEF MachineTyped, BootTyped
<1>2. option \in 1 .. Len(cmd.ram) /\ option' = option + 1 /\ cmd' = cmd
  BY <1>1 DEF MachineTyped, BootTyped, ramOption
<1>3. PICK ranges \in [0 .. Len(cmd.ram) -> Configs] :
        Parsed(cmd, ranges) /\ config = ranges[option - 1]
  BY DEF MachineTyped, RangesParsed
<1>4. config' = ranges[option]
  BY <1>1, <1>2, <1>3 DEF ramOption, Parsed
<1>5. config' \in Configs
  BY <1>1, <1>2, <1>3, <1>4
<1>6. Parsed(cmd', ranges) /\ config' = ranges[option' - 1] /\ Len(cmd'.ram) = Len(cmd.ram)
  BY <1>1, <1>2, <1>3, <1>4
<1>7. config \in Seq(Ranges)
  BY PhysMemConstants DEF MachineTyped, PMTyped, PMTypeOK
<1>8. ASSUME NEW i \in 1 .. option, cmd.ram[i].ok
      PROVE  \E j \in DOMAIN config' : config'[j] = ParseRange(cmd.ram[i])
  <2>1. CASE i = option
    <3>1. config' = Append(config, ParseRange(cmd.ram[option]))
      BY <1>8, <2>1 DEF ramOption, WithRamRange
    <3>2. Len(config) + 1 \in DOMAIN config' /\ config'[Len(config) + 1] = ParseRange(cmd.ram[i])
      BY <1>7, <2>1, <3>1
    <3> QED
      BY <3>2
  <2>2. CASE i # option
    <3>1. i \in 1 .. option - 1
      BY <1>2, <2>2
    <3>2. PICK j \in DOMAIN config : config[j] = ParseRange(cmd.ram[i])
      BY <1>8, <3>1 DEF MachineTyped, RangesParsed
    <3>3. config' = config \/ \E r : config' = Append(config, r)
      BY DEF ramOption, WithRamRange
    <3>4. j \in DOMAIN config' /\ config'[j] = config[j]
      BY <1>7, <3>2, <3>3
    <3> QED
      BY <3>2, <3>4
  <2> QED
    BY <2>1, <2>2
<1>9. \A i \in 1 .. option' - 1 :
        cmd'.ram[i].ok => \E j \in DOMAIN config' : config'[j] = ParseRange(cmd'.ram[i])
  BY <1>2, <1>8
<1>10. ASSUME NEW j \in DOMAIN config'
       PROVE  \E i \in 1 .. option : cmd.ram[i].ok /\ config'[j] = ParseRange(cmd.ram[i])
  <2>1. CASE j \in DOMAIN config /\ config'[j] = config[j]
    <3>1. PICK i \in 1 .. option - 1 : cmd.ram[i].ok /\ config[j] = ParseRange(cmd.ram[i])
      BY <2>1 DEF MachineTyped, RangesParsed
    <3>2. i \in 1 .. option
      BY <1>2, <3>1
    <3> QED
      BY <2>1, <3>1, <3>2
  <2>2. CASE ~(j \in DOMAIN config /\ config'[j] = config[j])
    <3>1. cmd.ram[option].ok /\ config' = Append(config, ParseRange(cmd.ram[option]))
      BY <2>2 DEF ramOption, WithRamRange
    <3>2. config'[j] = ParseRange(cmd.ram[option])
      BY <1>7, <2>2, <3>1
    <3> QED
      BY <1>2, <3>1, <3>2
  <2> QED
    BY <2>1, <2>2
<1>11. \A j \in DOMAIN config' : \E i \in 1 .. option' - 1 :
         cmd'.ram[i].ok /\ config'[j] = ParseRange(cmd'.ram[i])
  BY <1>2, <1>10
<1> QED
  BY <1>5, <1>6, <1>9, <1>11 DEF RangesParsed, ParseRange

LEMMA OptionTyped == ASSUME MachineTyped, ramOption PROVE MachineTyped'
<1>1. /\ cmd.ram \in Seq(Requests) /\ Len(cmd.ram) \in Nat
      /\ DOMAIN cmd.ram = 1 .. Len(cmd.ram)
  BY CommandTyped DEF MachineTyped, BootTyped
<1>2. stage = "options" /\ next = 1 /\ devices = {} /\ phase = "building"
  BY DEF MachineTyped, BootOrder, ramOption
<1>3. RangesParsed' /\ config' \in Configs /\ Len(config') \in Nat
  BY OptionParsed, PhysMemConstants
<1>4. UNCHANGED <<allocVars, next, phase, devices, lastAccessed, pagemap, host, area, window,
                  result, cmd, file, stage, segment>>
  BY DEF ramOption
<1>5. PMTypeOK'
  BY <1>2, <1>3, <1>4 DEF allocVars, MachineTyped, PMTyped, PMTypeOK, AllocTypeOK, Accesses,
                          HostPages, NoChunk, Null, NoDevice
<1>6. PMShape' /\ DevicesConfigured'
  BY <1>2, <1>4 DEF MachineTyped, PMTyped, PMShape, DevicesConfigured
<1>7. BootTyped'
  BY <1>1, <1>4 DEF ramOption, MachineTyped, BootTyped
<1>8. BootOrder'
  BY <1>2, <1>4 DEF BootOrder
<1> QED
  BY <1>3, <1>5, <1>6, <1>7, <1>8 DEF MachineTyped, PMTyped

(* After the options, the Config stays as it is.                           *)
LEMMA ConfigStays == [MemNext]_pmVars => config' = config
  BY DEF MemNext, mapRAM, build, copyStep, copyEnd, load, store, storeContArea,
         prefetchHit, prefetchMiss, pmVars

LEMMA NextStays == [MemNext]_pmVars /\ phase # "building" => next' = next
  BY DEF MemNext, mapRAM, build, copyStep, copyEnd, load, store, storeContArea,
         prefetchHit, prefetchMiss, pmVars

LEMMA ParsedStays ==
  ASSUME RangesParsed, UNCHANGED <<cmd, option, config>>
  PROVE  RangesParsed'
  BY DEF RangesParsed, Parsed, ParseRange

LEMMA BootStep ==
  ASSUME MachineTyped, [MachineNext]_allVars, ~ramOption
  PROVE  BootTyped' /\ BootOrder' /\ UNCHANGED <<cmd, file, option, config>>
<1>1. [MemNext]_pmVars
  BY MachineShapes
<1>2. config' = config /\ (phase # "building" => next' = next)
  BY <1>1, ConfigStays, NextStays
<1>3. /\ Len(cmd.ram) \in Nat /\ Len(file.segments) \in Nat /\ Len(config) \in Nat
      /\ next \in 1 .. Len(config) + 1
  BY CommandTyped, SegmentTyped, PhysMemConstants DEF MachineTyped, BootTyped, PMTyped, PMTypeOK
<1>4. SUFFICES BootTyped' /\ BootOrder' /\ UNCHANGED <<cmd, file, option>>
  BY <1>2
<1>5. CASE UNCHANGED allVars
  BY <1>5 DEF allVars, pmVars, machineVars, MachineTyped, BootTyped, BootOrder
<1>6. CASE createMachine
  BY <1>3, <1>6 DEF createMachine, Goto, pmVars, MachineTyped, BootTyped, BootOrder, Stages
<1>7. CASE mapRange
  BY <1>3, <1>7 DEF mapRange, mapRAM, Abort, MachineTyped, BootTyped, BootOrder, Stages
<1>8. CASE buildMemory
  BY <1>3, <1>8 DEF buildMemory, build, Goto, MachineTyped, BootTyped, BootOrder, Stages
<1>9. CASE createParser
  BY <1>3, <1>9 DEF createParser, Goto, Abort, pmVars, MachineTyped, BootTyped, BootOrder, Stages
<1>10. CASE loadSegment
  <2>1. phase' \in {"built", "copying"} /\ next' = next
    BY <1>10 DEF loadSegment, storeContArea, pmVars
  <2>2. UNCHANGED <<cmd, file, option, stage>> /\ stage = "loading" /\ segment' = segment + 1
        /\ segment <= Len(file.segments)
    BY <1>10 DEF loadSegment
  <2> QED
    BY <1>2, <1>3, <2>1, <2>2 DEF MachineTyped, BootTyped, BootOrder
<1>11. CASE copySegment
  <2>1. phase # "building"
    BY <1>11 DEF copySegment, copyStep
  <2> QED
    BY <1>2, <1>3, <1>11, <2>1 DEF copySegment, Abort, MachineTyped, BootTyped, BootOrder, Stages
<1>12. CASE endSegment
  BY <1>3, <1>12 DEF endSegment, copyEnd, machineVars, MachineTyped, BootTyped, BootOrder
<1>13. CASE start
  BY <1>3, <1>13 DEF start, Goto, pmVars, MachineTyped, BootTyped, BootOrder, Stages
<1>14. ASSUME stage = "running", phase' \in {"built", "crashed"}, Accessed
       PROVE  BootTyped' /\ BootOrder' /\ UNCHANGED <<cmd, file, option>>
  BY <1>2, <1>3, <1>14 DEF Accessed, Abort, MachineTyped, BootTyped, BootOrder, Stages
<1>15. ASSUME NEW a \in LoadAddrs, NEW n \in AccessSizes, guestLoad(a, n)
       PROVE  phase' \in {"built", "crashed"}
  BY <1>15 DEF guestLoad, load
<1>16. ASSUME NEW a, NEW bytes, guestStore(a, bytes)
       PROVE  phase' \in {"built", "crashed"}
  BY <1>16 DEF guestStore, store, Write
<1>17. ASSUME NEW v, guestFetch(v) PROVE phase' \in {"built", "crashed"}
  BY <1>17 DEF guestFetch, prefetchHit, prefetchMiss, ReadWord
<1>18. CASE finish
  BY <1>3, <1>18 DEF finish, pmVars, MachineTyped, BootTyped, BootOrder, Stages
<1>19. CASE terminate
  BY <1>3, <1>19 DEF terminate, Abort, pmVars, MachineTyped, BootTyped, BootOrder, Stages
<1>20. ASSUME NEW a \in LoadAddrs, NEW n \in AccessSizes, guestLoad(a, n)
       PROVE  BootTyped' /\ BootOrder' /\ UNCHANGED <<cmd, file, option>>
  BY <1>14, <1>15, <1>20 DEF guestLoad
<1>21. ASSUME NEW a \in StoreAddrs, NEW n \in AccessSizes, NEW bytes \in [1 .. n -> Bytes],
              guestStore(a, bytes)
       PROVE  BootTyped' /\ BootOrder' /\ UNCHANGED <<cmd, file, option>>
  BY <1>14, <1>16, <1>21 DEF guestStore
<1>22. ASSUME NEW v \in FetchAddrs, guestFetch(v)
       PROVE  BootTyped' /\ BootOrder' /\ UNCHANGED <<cmd, file, option>>
  BY <1>14, <1>17, <1>22 DEF guestFetch
<1> QED
  BY <1>5, <1>6, <1>7, <1>8, <1>9, <1>10, <1>11, <1>12, <1>13, <1>18, <1>19, <1>20, <1>21,
     <1>22 DEF MachineNext, Boot

LEMMA MachineStep == ASSUME MachineTyped, [MachineNext]_allVars PROVE MachineTyped'
<1>1. CASE ramOption
  BY <1>1, OptionTyped
<1>2. CASE ~ramOption
  <2>1. BootTyped' /\ BootOrder' /\ RangesParsed'
    BY <1>2, BootStep, ParsedStays DEF MachineTyped
  <2>2. PMTyped'
    BY <1>2, MachineShapes, MemTyped DEF MachineTyped
  <2> QED
    BY <2>1, <2>2 DEF MachineTyped
<1> QED
  BY <1>1, <1>2

(* The boot brings the machine's memory up in order: options, mapping,     *)
(* building and loading, each on the state that the one before it left.    *)
THEOREM MachineTypedInvariance == MachineSpec => []MachineTyped
<1>1. MachineInit => MachineTyped
  BY MachineStarts
<1>2. MachineTyped /\ [MachineNext]_allVars => MachineTyped'
  BY MachineStep
<1> QED
  BY <1>1, <1>2, PTL DEF MachineSpec

(* The type invariant of the memory system inside the machine, whatever    *)
(* the command line, the executable and the hart do.                       *)
THEOREM MachineTyping == MachineSpec => []PMTypeOK
<1>1. MachineTyped => PMTypeOK
  BY DEF MachineTyped, PMTyped
<1> QED
  BY <1>1, MachineTypedInvariance, PTL

-----------------------------------------------------------------------------
(* A set of natural numbers has a least element.                           *)
LEMMA LeastOf ==
  ASSUME NEW S, S \subseteq Nat, S # {}
  PROVE  \E x \in S : \A y \in S : x <= y
<1>1. PICK x \in S : \A y \in S : <<y, x>> \notin OpToRel(<, Nat)
  BY NatLessThanWellFounded, WFMin
<1>2. ASSUME NEW y \in S PROVE x <= y
  <2>1. ~(y < x)
    BY <1>1 DEF OpToRel
  <2> QED
    BY <2>1
<1> QED
  BY <1>2

(* Where one device contains an address, findDevice finds one.             *)
LEMMA ScanFinds ==
  ASSUME PMTyped, NEW a \in Addrs, NEW d \in devices, Contains(d, a)
  PROVE  Scan(a) # {}
<1> DEFINE S == {e.left : e \in {f \in devices : Contains(f, a)}}
<1>1. \A e \in devices : e.left \in Nat
  BY PhysMemConstants DEF PMTyped, PMTypeOK, Addrs
<1>2. S \subseteq Nat
  BY <1>1
<1>3. d.left \in S
  OBVIOUS
<1>4. PICK x \in S : \A y \in S : x <= y
  BY <1>2, <1>3, LeastOf
<1>5. PICK e \in devices : Contains(e, a) /\ x = e.left
  BY <1>4
<1>6. \A f \in devices : Contains(f, a) => f.left \in S
  OBVIOUS
<1> HIDE DEF S
<1>7. e \in Scan(a)
  BY <1>4, <1>5, <1>6 DEF Scan
<1> QED
  BY <1>7

(* The numbers of a value of --ram.                                        *)
LEMMA RequestTyped ==
  ASSUME NEW s \in Requests, s.ok
  PROVE  s.left \in Nat /\ s.left < ASize /\ s.size \in Nat /\ s.size < ASize
<1>1. s # Malformed
  BY DEF Malformed
<1>2. s.left \in Addrs /\ s.size \in Addrs
  BY <1>1 DEF Requests
<1> QED
  BY <1>2, PhysMemConstants DEF Addrs

(* A range that reaches 2^XLEN is empty.                                   *)
LEMMA RangeWraps ==
  ASSUME NEW x \in Nat, NEW y \in Nat, x < ASize, y < ASize
  PROVE  IF x + y < ASize THEN (x + y) % ASize = x + y ELSE (x + y) % ASize <= x
<1>1. ASize \in Nat \ {0}
  BY PhysMemConstants
<1>2. CASE x + y < ASize
  BY <1>1, <1>2
<1>3. CASE ~(x + y < ASize)
  <2> DEFINE z == x + y
             m == x + y - ASize
  <2>1. z \in Nat /\ m \in Nat /\ m < ASize /\ z = m + ASize /\ m <= x
    BY <1>1, <1>3
  <2> HIDE DEF z, m
  <2>2. z % ASize = m
    BY <1>1, <2>1
  <2>3. z % ASize <= x
    BY <2>1, <2>2
  <2> QED
    BY <1>3, <2>3 DEF z
<1> QED
  BY <1>2, <1>3

(* Exactly the addresses that the user asked for with --ram have memory    *)
(* when the hart starts, although PhysMemBuilder drops a range that begins *)
(* where an earlier one does: for every command line, overlapping ranges   *)
(* included.                                                               *)
THEOREM MachineServesRequests == MachineSpec => []RequestedMemoryIsServed
<1>1. ASSUME MachineTyped
      PROVE  /\ cmd.ram \in Seq(Requests) /\ Len(cmd.ram) \in Nat
             /\ DOMAIN cmd.ram = 1 .. Len(cmd.ram)
             /\ \A i \in DOMAIN cmd.ram : cmd.ram[i] \in Requests
  BY <1>1, CommandTyped DEF MachineTyped, BootTyped
<1>2. ASSUME MachineTyped, stage = "running", NEW a \in Addrs, NEW i \in DOMAIN cmd.ram,
             AsksFor(cmd.ram[i], a)
      PROVE  Scan(a) # {}
  <2> DEFINE s == cmd.ram[i]
  <2>1. /\ s \in Requests /\ s.ok /\ s.left + s.size < ASize
        /\ a \in s.left .. s.left + s.size - 1
    BY <1>1, <1>2 DEF AsksFor
  <2>2. s.left \in Nat /\ s.size \in Nat /\ s.left < ASize /\ s.size < ASize
    BY <2>1, RequestTyped
  <2>3. i \in 1 .. option - 1
    BY <1>1, <1>2 DEF MachineTyped, BootOrder
  <2>4. PICK j \in DOMAIN config : config[j] = ParseRange(s)
    BY <1>2, <2>1, <2>3 DEF MachineTyped, RangesParsed
  <2>5. config[j].left = s.left /\ config[j].right = s.left + s.size
    BY <2>1, <2>2, <2>4, RangeWraps DEF ParseRange
  <2>6. j \in 1 .. next - 1
    <3>1. config \in Seq(Ranges)
      BY <1>2, PhysMemConstants DEF MachineTyped, PMTyped, PMTypeOK
    <3>2. next = Len(config) + 1
      BY <1>2 DEF MachineTyped, BootOrder
    <3> QED
      BY <3>1, <3>2
  <2>7. PICK d \in devices : d.left = config[j].left /\ config[j].right <= d.right
    BY <1>2, <2>6 DEF MachineTyped, PMTyped, DevicesConfigured
  <2>8. d.left \in Nat /\ d.right \in Nat /\ a \in Nat
    <3>1. d.left \in Addrs /\ d.right \in Addrs
      BY <1>2, <2>7 DEF MachineTyped, PMTyped, PMTypeOK
    <3> QED
      BY <3>1, PhysMemConstants DEF Addrs
  <2>9. Contains(d, a)
    BY <2>1, <2>2, <2>5, <2>7, <2>8 DEF Contains
  <2> QED
    BY <1>2, <2>7, <2>9, ScanFinds DEF MachineTyped
<1>3. ASSUME MachineTyped, stage = "running", NEW a \in Addrs, Scan(a) # {}
      PROVE  \E i \in DOMAIN cmd.ram : AsksFor(cmd.ram[i], a)
  <2>1. PICK d \in devices : Contains(d, a)
    BY <1>3 DEF Scan
  <2>2. /\ d.ram \in DOMAIN config
        /\ d.left = config[d.ram].left /\ d.right = config[d.ram].right
    BY <1>3, <2>1 DEF MachineTyped, PMTyped, DevicesConfigured
  <2>3. PICK i \in 1 .. option - 1 : cmd.ram[i].ok /\ config[d.ram] = ParseRange(cmd.ram[i])
    BY <1>3, <2>2 DEF MachineTyped, RangesParsed
  <2>4. i \in DOMAIN cmd.ram
    BY <1>1, <1>3, <2>3 DEF MachineTyped, BootOrder
  <2> DEFINE s == cmd.ram[i]
  <2>5. s.left \in Nat /\ s.left < ASize /\ s.size \in Nat /\ s.size < ASize
    BY <1>1, <1>3, <2>3, <2>4, RequestTyped
  <2>6. d.left = s.left /\ d.right = (s.left + s.size) % ASize
    BY <2>2, <2>3 DEF ParseRange
  <2>7. d.left <= a /\ a < d.right /\ a \in Nat /\ d.right \in Nat
    <3>1. d.right \in Addrs
      BY <1>3, <2>1 DEF MachineTyped, PMTyped, PMTypeOK
    <3> QED
      BY <2>1, <3>1, PhysMemConstants DEF Contains, Addrs
  <2>8. s.left + s.size < ASize /\ d.right = s.left + s.size
    BY <2>5, <2>6, <2>7, RangeWraps
  <2>9. AsksFor(s, a)
    BY <2>3, <2>5, <2>6, <2>7, <2>8 DEF AsksFor
  <2> QED
    BY <2>4, <2>9
<1>4. MachineTyped => RequestedMemoryIsServed
  BY <1>2, <1>3 DEF RequestedMemoryIsServed
<1> QED
  BY <1>4, MachineTypedInvariance, PTL

-----------------------------------------------------------------------------
(* What was proved of the memory holds while it is booted and run.         *)
LEMMA OptionKeepsMemory ==
  ASSUME ramOption
  PROVE  /\ UNCHANGED <<allocVars, phase, devices, pagemap, host, window, result>>
         /\ WindowInv => WindowInv'
         /\ CrashInv => CrashInv'
         /\ ContentInv => ContentInv'
<1>1. UNCHANGED <<allocVars, phase, devices, pagemap, host, window, result>>
  BY DEF ramOption
<1>2. ASSUME WindowInv PROVE WindowInv'
  <2>1. Scan(window.start)' = Scan(window.start)
    BY <1>1 DEF Scan, Contains
  <2> QED
    BY <1>1, <1>2, <2>1 DEF WindowInv, WindowOnPage, Touched, getHostAddress, PageId,
                            PageOffset, Null
<1>3. Quiet
  BY <1>1 DEF Quiet
<1>4. ASSUME CrashInv PROVE CrashInv'
  BY <1>1, <1>3, <1>4, QuietCrash
<1>5. ASSUME ContentInv PROVE ContentInv'
  BY <1>1, <1>5 DEF allocVars, ContentInv, PagemapApart, Apart, ZeroOutside,
                    EmptyUntilBuilt, Null
<1> QED
  BY <1>1, <1>2, <1>4, <1>5

(* The machine uses its page allocators as their specification allows.     *)
THEOREM MachineImplementsAlloc == MachineSpec => AllocSpec
<1>1. MachineInit => AllocInit
  BY DEF MachineInit, PMInit
<1>2. MachineTyped /\ [MachineNext]_allVars => [AllocNext]_allocVars
  BY MachineShapes, MemAllocates, OptionKeepsMemory DEF MachineTyped
<1> QED
  BY <1>1, <1>2, MachineTypedInvariance, PTL DEF MachineSpec, AllocSpec

(* The cached device of findDevice is transparent to the loader, the hart  *)
(* and the prefetcher, in whatever order they access the memory.           *)
THEOREM MachineLookupIgnoresHistory ==
  ASSUME RangesApart
  PROVE  MachineSpec => []LookupIgnoresHistory
<1>1. MachineTyped => LookupIgnoresHistory
  BY LookupIsScan DEF MachineTyped, LookupIgnoresHistory
<1> QED
  BY <1>1, MachineTypedInvariance, PTL

(* The prefetcher's window stays on its page, from the boot on.            *)
THEOREM MachineWindowOnPage ==
  ASSUME RangesApart
  PROVE  MachineSpec => []WindowOnPage
<1>1. MachineInit => WindowInv
  BY WindowInit DEF MachineInit
<1>2. MachineTyped /\ WindowInv /\ [MachineNext]_allVars => WindowInv'
  BY MachineShapes, WindowStep, OptionKeepsMemory DEF MachineTyped
<1>3. WindowInv => WindowOnPage
  BY DEF WindowInv
<1> QED
  BY <1>1, <1>2, <1>3, MachineTypedInvariance, PTL DEF MachineSpec

(* The window, the pages and their contents, together.                     *)
MemoryInv == WindowInv /\ CrashInv /\ ContentInv

LEMMA MemoryStarts == ASSUME MachineInit PROVE MemoryInv
  BY WindowInit, CrashInit, ContentInit DEF MachineInit, MemoryInv

LEMMA MemoryStep ==
  ASSUME RangesApart, PageFitsHost, AlignedFetches, MachineTyped, MemoryInv,
         [MachineNext]_allVars
  PROVE  MemoryInv'
<1>1. CASE ramOption
  BY <1>1, OptionKeepsMemory DEF MemoryInv
<1>2. CASE [MemNext]_pmVars
  BY <1>2, WindowStep, CrashStep, ContentStep DEF MemoryInv, MachineTyped
<1> QED
  BY <1>1, <1>2, MachineShapes

(* The inductive invariants of the memory hold through boot and execution, *)
(* because MachineNext uses the memory only through steps of MemNext.      *)
THEOREM MachineMemoryInvariance ==
  ASSUME RangesApart, PageFitsHost, AlignedFetches
  PROVE  MachineSpec => []MemoryInv
<1>1. MachineInit => MemoryInv
  BY MemoryStarts
<1>2. MachineTyped /\ MemoryInv /\ [MachineNext]_allVars => MemoryInv'
  BY MemoryStep
<1> QED
  BY <1>1, <1>2, MachineTypedInvariance, PTL DEF MachineSpec

(* No page of the simulator overlaps another one, whatever its loader and  *)
(* its hart store.                                                         *)
THEOREM MachinePagesApart ==
  ASSUME PageFitsHost
  PROVE  MachineSpec => []PagesApart
  BY MachineImplementsAlloc, AllocPagesApart, PTL

(* Every page lies inside one region that mmap returned.                   *)
THEOREM MachinePagesOwned ==
  ASSUME PageFitsHost
  PROVE  MachineSpec => []PagesOwned
  BY MachineImplementsAlloc, AllocPagesOwned, PTL

(* Neither the loader nor a guest whose instructions are fetched at whole  *)
(* words makes the host kill the simulator, unless an mmap has failed.     *)
THEOREM MachineCrashOnlyWithoutMemory ==
  ASSUME RangesApart, PageFitsHost, AlignedFetches
  PROVE  MachineSpec => []CrashOnlyWithoutMemory
<1>1. MemoryInv => CrashOnlyWithoutMemory
  BY DEF MemoryInv, CrashInv
<1> QED
  BY <1>1, MachineMemoryInvariance, PTL

(* Through boot and execution the memory of the machine is an array of     *)
(* bytes, as long as the devices that are mapped hold whole pages.         *)
THEOREM MachineImplementsFlatMemory ==
  ASSUME RangesApart, PageFitsHost, AlignedFetches, HostHasPage
  PROVE  MachineSpec => ImplementsFlatMemory
<1>1. MachineInit => Flat!Init
  BY FlatStart DEF MachineInit
<1>2. MachineTyped /\ MachineTyped' /\ MemoryInv /\ MemoryInv' /\ [MachineNext]_allVars
        => [WholePages => Flat!Next]_Flat!vars
  <2>1. SUFFICES ASSUME MachineTyped, MachineTyped', MemoryInv, MemoryInv',
                        [MachineNext]_allVars, WholePages
                 PROVE  [Flat!Next]_Flat!vars
    OBVIOUS
  <2>2. CASE ramOption
    BY <2>2, OptionKeepsMemory, FlatSame DEF Flat!vars
  <2>3. CASE [MemNext]_pmVars
    BY <2>1, <2>3, FlatStep DEF MachineTyped, MemoryInv
  <2> QED
    BY <2>1, <2>2, <2>3, MachineShapes
<1> QED
  BY <1>1, <1>2, MachineTypedInvariance, MachineMemoryInvariance, PTL
  DEF MachineSpec, ImplementsFlatMemory

-----------------------------------------------------------------------------
(* The image in memory while PhysMemLoader::loadElf is at work.            *)
(* The segments of f that cover address a with their first p[i] bytes, and *)
(* the byte that the last of them has there.                               *)
Covers(f, p, a) ==
  {i \in DOMAIN f.segments : IsLoadable(f.segments[i]) /\ Offset(f.segments[i], a) < p[i]}

ByteOf(f, p, a) ==
  IF Covers(f, p, a) = {} THEN 0
  ELSE LET i == Max(Covers(f, p, a))
       IN  f.segments[i].data[Offset(f.segments[i], a) + 1]

(* How many bytes of each segment the loader has been through.             *)
Progress ==
  [i \in DOMAIN file.segments |->
     IF i >= segment THEN 0
     ELSE IF phase = "copying" /\ i = segment - 1 THEN area.pos
     ELSE Len(file.segments[i].data)]

PartOfImage ==
  \A a \in Addrs : /\ Covers(file, Progress, a) # {} => Scan(a) # {}
                   /\ Scan(a) # {} => Cell(a) = ByteOf(file, Progress, a)

(* Memory is empty until the executable is loaded, storeContArea copies    *)
(* the segment before the next one, and the memory holds what was copied,  *)
(* unless the executable crosses the end of a device inside a page.        *)
ImageInv ==
  /\ stage \in {"options", "mapping", "parsing"} =>
       segment = 1 /\ \A r \in Rams : DOMAIN pagemap[r] = {}
  /\ stage \in {"loading", "running"} => file.elf /\ MeetsRequirements(file)
  /\ stage = "running" => segment > Len(file.segments)
  /\ stage = "loading" /\ phase = "copying" =>
       /\ segment > 1
       /\ IsLoadable(file.segments[segment - 1])
       /\ area.addr = file.segments[segment - 1].addr
       /\ area.data = file.segments[segment - 1].data
  /\ stage = "loading" \/ (stage = "running" /\ ~stored) => OverrunsDevice(file) \/ PartOfImage

LEMMA NoMultiple ==
  ASSUME NEW n \in Nat \ {0}, NEW k \in Int, -n < n * k, n * k < n
  PROVE  k = 0
<1>1. CASE k >= 1
  <2>1. n * k >= n * 1
    BY <1>1
  <2> QED
    BY <2>1
<1>2. CASE k <= -1
  <2>1. n * k <= n * (-1)
    BY <1>2
  <2> QED
    BY <2>1
<1> QED
  BY <1>1, <1>2

(* Addresses wrap around once at most.                                     *)
LEMMA Wraps ==
  ASSUME NEW n \in Nat \ {0}, NEW x \in Int, NEW y \in 0 .. n - 1,
         x = y \/ x = y + n \/ x = y - n
  PROVE  x % n = y
<1> DEFINE q == x \div n
           r == x % n
<1>1. q \in Int /\ r \in 0 .. n - 1 /\ x = n * q + r
  OBVIOUS
<1> HIDE DEF q, r
<1>2. r = y
  <2>1. CASE x = y
    <3>1. n * (-q) = -(n * q)
      BY <1>1
    <3>2. n * (-q) = r - y
      BY <1>1, <2>1, <3>1
    <3>3. -q = 0
      BY <1>1, <3>2, NoMultiple
    <3> QED
      BY <1>1, <3>2, <3>3
  <2>2. CASE x = y + n
    <3>1. n * (1 - q) = n - n * q
      BY <1>1
    <3>2. n * (1 - q) = r - y
      BY <1>1, <2>2, <3>1
    <3>3. 1 - q = 0
      BY <1>1, <3>2, NoMultiple
    <3> QED
      BY <1>1, <3>2, <3>3
  <2>3. CASE x = y - n
    <3>1. n * (-1 - q) = -n - n * q
      BY <1>1
    <3>2. n * (-1 - q) = r - y
      BY <1>1, <2>3, <3>1
    <3>3. -1 - q = 0
      BY <1>1, <3>2, NoMultiple
    <3> QED
      BY <1>1, <3>2, <3>3
  <2> QED
    BY <2>1, <2>2, <2>3
<1> QED
  BY <1>2 DEF r

LEMMA WrapsForward ==
  ASSUME NEW n \in Nat \ {0}, NEW c \in 0 .. n - 1, NEW p \in 0 .. n - 1
  PROVE  /\ (c + p) % n \in 0 .. n - 1
         /\ (c + p) % n = c + p \/ (c + p) % n = c + p - n
<1>1. CASE c + p < n
  <2>1. c + p \in 0 .. n - 1
    BY <1>1
  <2> QED
    BY <2>1, Wraps
<1>2. CASE c + p >= n
  <2> DEFINE y == c + p - n
  <2>1. y \in 0 .. n - 1 /\ c + p = y + n /\ c + p \in Int
    BY <1>2
  <2> HIDE DEF y
  <2>2. (c + p) % n = y
    BY <2>1, Wraps
  <2> QED
    BY <2>1, <2>2
<1> QED
  BY <1>1, <1>2

LEMMA WrapsBack ==
  ASSUME NEW n \in Nat \ {0}, NEW c \in 0 .. n - 1, NEW b \in 0 .. n - 1
  PROVE  /\ (b - c) % n \in 0 .. n - 1
         /\ (b - c) % n = b - c \/ (b - c) % n = b - c + n
<1>1. CASE b >= c
  <2>1. b - c \in 0 .. n - 1
    BY <1>1
  <2> QED
    BY <2>1, Wraps
<1>2. CASE b < c
  <2> DEFINE y == b - c + n
  <2>1. y \in 0 .. n - 1 /\ b - c = y - n /\ b - c \in Int
    BY <1>2
  <2> HIDE DEF y
  <2>2. (b - c) % n = y
    BY <2>1, Wraps
  <2> QED
    BY <2>1, <2>2
<1> QED
  BY <1>1, <1>2

(* The byte at offset p + t of a segment goes t bytes behind the address   *)
(* of offset p, if that does not pass the last address.                    *)
LEMMA PlaceOfByte ==
  ASSUME NEW s, s.addr \in Addrs, NEW p \in Nat, NEW t \in Nat, p + t < ASize,
         ((s.addr + p) % ASize) + t < ASize, NEW b \in Addrs
  PROVE  /\ (s.addr + (p + t)) % ASize = ((s.addr + p) % ASize) + t
         /\ Offset(s, b) = p + t <=> b = ((s.addr + p) % ASize) + t
<1> DEFINE c == s.addr
           a == (c + p) % ASize
           e == (c + (p + t)) % ASize
           o == (b - c) % ASize
<1>1. ASize \in Nat \ {0} /\ c \in 0 .. ASize - 1 /\ b \in 0 .. ASize - 1
  BY PhysMemConstants DEF Addrs
<1> HIDE DEF c
<1>2. p \in 0 .. ASize - 1 /\ p + t \in 0 .. ASize - 1
  BY <1>1
<1>3. a \in 0 .. ASize - 1 /\ (a = c + p \/ a = c + p - ASize)
  BY <1>1, <1>2, WrapsForward
<1>4. e \in 0 .. ASize - 1 /\ (e = c + (p + t) \/ e = c + (p + t) - ASize)
  <2> DEFINE q == p + t
  <2>1. q \in 0 .. ASize - 1
    BY <1>2
  <2> HIDE DEF q
  <2>2. (c + q) % ASize \in 0 .. ASize - 1
        /\ ((c + q) % ASize = c + q \/ (c + q) % ASize = c + q - ASize)
    BY <1>1, <2>1, WrapsForward
  <2> QED
    BY <2>2 DEF q
<1>5. o \in 0 .. ASize - 1 /\ (o = b - c \/ o = b - c + ASize)
  BY <1>1, WrapsBack
<1>6. a + t < ASize
  BY DEF c
<1> HIDE DEF a, e, o
<1>7. e = a + t /\ (o = p + t <=> b = a + t)
  BY <1>1, <1>2, <1>3, <1>4, <1>5, <1>6
<1> QED
  BY <1>7 DEF a, c, e, o, Offset

LEMMA OffsetTyped ==
  ASSUME NEW s, s.addr \in Addrs, NEW b \in Addrs
  PROVE  Offset(s, b) \in 0 .. ASize - 1
<1>1. ASize \in Nat \ {0} /\ b - s.addr \in Int
  BY PhysMemConstants DEF Addrs
<1> QED
  BY <1>1 DEF Offset

LEMMA MaxIs ==
  ASSUME NEW S, S \subseteq Int, NEW x \in S, \A y \in S : y <= x
  PROVE  Max(S) = x
<1>1. \A z \in S : (\A y \in S : y <= z) => z = x
  OBVIOUS
<1> QED
  BY <1>1 DEF Max

(* A step that stores nothing keeps the image.                             *)
LEMMA ImageKept ==
  ASSUME PartOfImage, UNCHANGED <<devices, pagemap, host, file>>,
         \A i \in DOMAIN file.segments :
           IsLoadable(file.segments[i]) => Progress'[i] = Progress[i]
  PROVE  PartOfImage'
<1>1. \A b : Scan(b)' = Scan(b) /\ Cell(b)' = Cell(b)
  BY QuietCells
<1>2. \A a : Covers(file, Progress', a) = Covers(file, Progress, a)
  BY DEF Covers
<1>3. \A a : ByteOf(file, Progress', a) = ByteOf(file, Progress, a)
  BY <1>2 DEF ByteOf
<1>4. \A a \in Addrs : /\ Covers(file', Progress', a) # {} => Scan(a)' # {}
                       /\ Scan(a)' # {} => Cell(a)' = ByteOf(file', Progress', a)
  BY <1>1, <1>2, <1>3 DEF PartOfImage
<1> QED
  BY <1>4 DEF PartOfImage, Addrs

(* The loader finds the memory empty.                                      *)
LEMMA EmptyImage ==
  ASSUME MachineTyped, segment = 1, \A r \in Rams : DOMAIN pagemap[r] = {}
  PROVE  PartOfImage
<1> SUFFICES ASSUME NEW a \in Addrs
             PROVE  /\ Covers(file, Progress, a) = {}
                    /\ Cell(a) = 0
  BY DEF PartOfImage, ByteOf
<1>1. \A i \in DOMAIN file.segments : Progress[i] = 0
  BY SegmentTyped DEF MachineTyped, BootTyped, Progress
<1>2. \A i \in DOMAIN file.segments : Offset(file.segments[i], a) \in Nat
  BY SegmentTyped, OffsetTyped, PhysMemConstants DEF MachineTyped, BootTyped
<1>3. \A i \in DOMAIN file.segments : ~(Offset(file.segments[i], a) < Progress[i])
  BY <1>1, <1>2
<1>4. Cell(a) = 0
  <2>1. CASE Scan(a) = {}
    BY <2>1 DEF Cell
  <2>2. CASE Scan(a) # {}
    <3>1. PICK d : d = CHOOSE e \in Scan(a) : TRUE
      OBVIOUS
    <3>2. d \in Scan(a)
      BY <2>2, <3>1
    <3>3. d.ram \in Rams
      BY <3>2 DEF Scan, MachineTyped, PMTyped, PMTypeOK
    <3>4. LoadFrom(d.ram, a - d.left, 1)[1] = 0
      BY <3>3 DEF LoadFrom, Touched
    <3> QED
      BY <2>2, <3>1, <3>4 DEF Cell
  <2> QED
    BY <2>1, <2>2
<1> QED
  BY <1>3, <1>4 DEF Covers

(* Addresses wrap around.                                                  *)
LEMMA AddressTyped == ASSUME NEW x \in Int PROVE x % ASize \in Addrs
  BY PhysMemConstants DEF Addrs

(* A copy that ends on the page where it begins ends on the device, unless *)
(* the segment overruns it.                                                *)
StaysOnDevice(s, p, n, d) == ((s.addr + p) % ASize) + n <= d.right /\ d.right \in Nat

LEMMA WithinCopy ==
  ASSUME NEW a \in Nat, NEW r \in Nat, NEW p \in Nat, NEW n \in Nat, NEW z \in Nat,
         NEW size \in Nat, r < size, a < r, r < a + n, p + n <= z, z < size,
         NEW t, t = r - 1 - a, NEW k, k = p + t + 1
  PROVE  t \in Nat /\ p + t < size /\ a + t < size /\ k \in 1 .. z - 1 /\ a + t = r - 1
  OBVIOUS

LEMMA CopyOnDevice ==
  ASSUME PMTyped, NEW s, s.addr \in Addrs, ~Overruns(s), Len(s.data) \in 0 .. ASize - 1,
         NEW p \in Nat, NEW n \in Nat \ {0}, p + n <= Len(s.data),
         (s.addr + p) % ASize \in Addrs, NEW d \in devices, Contains(d, (s.addr + p) % ASize),
         PageOffset(((s.addr + p) % ASize) - d.left) + n <= pageSize
  PROVE  StaysOnDevice(s, p, n, d)
<1> DEFINE a == (s.addr + p) % ASize
           o == a - d.left
           w == pageSize * PageId(o)
           f == PageOffset(o)
           z == Len(s.data)
<1>1. /\ d.left \in Nat /\ d.right \in Nat /\ d.right < ASize /\ a \in Nat /\ d.left <= a
      /\ a < d.right /\ ASize \in Nat /\ z \in 0 .. ASize - 1 /\ p + n <= z /\ f + n <= pageSize
  BY PhysMemConstants DEF PMTyped, PMTypeOK, Addrs, Contains
<1>2. SUFFICES ASSUME d.right < a + n PROVE FALSE
  <2> HIDE DEF a
  <2> QED
    BY <1>1 DEF StaysOnDevice, a
<1>3. (d.right - d.left) % pageSize # 0
  <2>1. SUFFICES ASSUME (d.right - d.left) % pageSize = 0 PROVE FALSE
    OBVIOUS
  <2>2. o \in Nat /\ w + pageSize <= d.right - d.left
    BY <2>1, PageFits
  <2>3. o = w + f /\ f \in Nat /\ w \in Nat /\ pageSize \in Nat
    <3> DEFINE i == PageId(o)
    <3>1. i \in 0 .. o /\ f \in 0 .. pageSize - 1 /\ o = w + f
      <4> HIDE DEF o
      <4> QED
        BY <2>2, OffsetOnPage, Zenon
    <3>2. pageSize \in Nat
      BY AllocatorConstants
    <3>3. i \in Nat /\ f \in Nat
      <4> HIDE DEF i, f, o
      <4> QED
        BY <2>2, <3>1, <3>2
    <3>4. pageSize * i \in Nat
      <4> HIDE DEF i
      <4> QED
        BY <3>2, <3>3
    <3> QED
      BY <3>1, <3>2, <3>3, <3>4
  <2>4. o = a - d.left
    OBVIOUS
  <2> HIDE DEF a, o, w, f
  <2> QED
    BY <1>1, <1>2, <2>2, <2>3, <2>4
<1> DEFINE t == d.right - 1 - a
           k == p + t + 1
<1>4. t \in Nat /\ p + t < ASize /\ a + t < ASize /\ k \in 1 .. z - 1 /\ a + t = d.right - 1
  <2> DEFINE r == d.right
  <2>1. /\ a \in Nat /\ r \in Nat /\ r < ASize /\ a < r /\ r < a + n /\ p + n <= z
        /\ z \in 0 .. ASize - 1 /\ ASize \in Nat /\ t = r - 1 - a /\ k = p + t + 1
    BY <1>1, <1>2, Zenon
  <2> HIDE DEF a, z, r, t, k
  <2>2. t \in Nat /\ p + t < ASize /\ a + t < ASize /\ k \in 1 .. z - 1 /\ a + t = r - 1
    BY <2>1, WithinCopy
  <2> QED
    BY <2>2 DEF r
<1> HIDE DEF t
<1>5. (s.addr + (p + t)) % ASize = a + t
  <2>1. d.right \in Addrs
    BY DEF PMTyped, PMTypeOK
  <2> QED
    BY <1>4, <2>1, PlaceOfByte
<1>6. s.addr + (p + t) = s.addr + k - 1
  <2>1. s.addr \in Int
    BY PhysMemConstants DEF Addrs
  <2> QED
    BY <1>4, <2>1
<1> QED
  BY <1>3, <1>4, <1>5, <1>6 DEF Overruns

(* An iteration of storeContArea puts the next bytes of the segment over   *)
(* whatever the segments before it left there.                             *)
LEMMA ImageGrows ==
  ASSUME RangesApart, PageFitsHost, HostHasPage, MachineTyped, MachineTyped',
         MemoryInv, MemoryInv', ImageInv, stage = "loading", copyStep, phase' = "copying",
         UNCHANGED <<file, segment>>, ~OverrunsDevice(file)
  PROVE  PartOfImage'
<1> DEFINE j == segment - 1
           s == file.segments[j]
           pos == area.pos
           a == (s.addr + pos) % ASize
<1>1. /\ phase = "copying" /\ pos < Len(s.data) /\ segment > 1 /\ IsLoadable(s)
      /\ area.addr = s.addr /\ area.data = s.data
  BY DEF copyStep, ImageInv
<1>2. /\ segment \in Nat /\ j \in DOMAIN file.segments /\ s.addr \in Addrs
      /\ s.data \in Seq(Bytes) /\ Len(s.data) \in 0 .. ASize - 1 /\ pos \in Nat
      /\ DOMAIN file.segments = 1 .. Len(file.segments) /\ Len(file.segments) \in Nat
  <2>1. /\ DOMAIN file.segments = 1 .. Len(file.segments) /\ Len(file.segments) \in Nat
        /\ segment \in 1 .. Len(file.segments) + 1 /\ pos \in Nat
    BY SegmentTyped DEF MachineTyped, BootTyped, PMTyped, PMShape
  <2>2. segment \in Nat /\ j \in DOMAIN file.segments
    BY <1>1, <2>1
  <2> QED
    BY <2>1, <2>2, SegmentTyped DEF MachineTyped, BootTyped
<1>3. a \in Addrs
  <2>1. s.addr + pos \in Int
    BY <1>2, PhysMemConstants DEF Addrs
  <2> HIDE DEF s, pos
  <2> QED
    BY <2>1, AddressTyped
<1>4. PICK d \in findDevice(a) :
        /\ lastAccessed' = d
        /\ Write(d, a, SubSeq(s.data, pos + 1, pos + cpySize(a - d.left)), "copying")
        /\ area' = [area EXCEPT !.pos = NextPos(a - d.left)]
  BY <1>1 DEF copyStep
<1> DEFINE o == a - d.left
           n == cpySize(o)
           bytes == SubSeq(s.data, pos + 1, pos + n)
<1>5. o \in Nat /\ d \in devices /\ Contains(d, a)
  BY <1>3, FoundDevice, PhysMemConstants DEF MachineTyped, PMTyped, Addrs
<1>6. n \in Nat \ {0} /\ pos + n <= Len(s.data) /\ PageOffset(o) + n <= pageSize
  <2>1. area.pos < Len(area.data) /\ Len(area.data) = Len(s.data)
    BY <1>1
  <2> HIDE DEF o, s
  <2>2. o \in Nat
    BY <1>5
  <2> QED
    BY <2>1, <2>2, CopySize DEF MachineTyped
<1>7. /\ bytes \in Seq(Bytes) /\ Len(bytes) = n
      /\ \A t \in 0 .. n - 1 : bytes[t + 1] = s.data[pos + t + 1]
  <2> DEFINE q == s.data
  <2>1. q \in Seq(Bytes) /\ Len(q) \in Nat
    BY <1>2, PhysMemConstants
  <2>2. n \in Nat \ {0} /\ pos \in Nat /\ pos + n <= Len(q)
    BY <1>2, <1>6
  <2>3. bytes = SubSeq(q, pos + 1, pos + n)
    OBVIOUS
  <2> HIDE DEF n, q, pos, bytes
  <2>4. bytes \in Seq(Bytes) /\ Len(bytes) = n
    BY <2>1, <2>2, <2>3
  <2>5. ASSUME NEW t \in 0 .. n - 1 PROVE bytes[t + 1] = q[pos + t + 1]
    BY <2>1, <2>2, <2>3
  <2> QED
    BY <2>4, <2>5 DEF q
<1>8. Stores(a, d, bytes)
  <2>1. UNCHANGED <<config, next, devices, window>>
    BY DEF copyStep
  <2>2. Write(d, a, bytes, "copying") /\ lastAccessed' = d
    BY <1>4
  <2>3. Len(bytes) > 0 /\ PageOffset(a - d.left) + Len(bytes) <= pageSize
    <3> HIDE DEF n, bytes
    <3> QED
      BY <1>6, <1>7
  <2> HIDE DEF a, bytes
  <2> QED
    BY <1>1, <1>3, <1>4, <1>7, <2>1, <2>2, <2>3 DEF Stores
<1>9. area'.pos = pos + n
  BY <1>4 DEF NextPos, MachineTyped, PMTyped, PMShape
<1> HIDE DEF n, bytes
<1>10. pageSize \in Nat /\ PageOffset(o) \in Nat /\ a \in Nat /\ ASize \in Nat
  BY <1>3, <1>5, OffsetOnPage, AllocatorConstants, PhysMemConstants DEF Addrs
<1>11. a + n <= d.right /\ d.right \in Nat
  <2>1. /\ ~Overruns(s) /\ s.addr \in Addrs /\ pos \in Nat /\ Len(s.data) \in 0 .. ASize - 1
        /\ pos + n <= Len(s.data)
    BY <1>1, <1>2, <1>6 DEF OverrunsDevice, IsLoadable
  <2> HIDE DEF s, pos
  <2>2. StaysOnDevice(s, pos, n, d)
    BY <1>3, <1>5, <1>6, <2>1, CopyOnDevice DEF MachineTyped, o, a
  <2> QED
    BY <2>2 DEF StaysOnDevice, a
<1>12. \A b \in Addrs : Cell(b)' = IF b \in a .. a + n - 1 THEN bytes[b - a + 1] ELSE Cell(b)
  BY <1>7, <1>8, <1>11, StoreCells DEF MachineTyped, MemoryInv
<1> HIDE DEF a, o
<1>13. \A t \in 0 .. n - 1 : a + t \in Addrs /\ Contains(d, a + t)
  <2> TAKE t \in 0 .. n - 1
  <2> DEFINE b == a + t
  <2>1. b \in Int /\ a <= b /\ b < d.right /\ PageOffset(o) + (b - a) < pageSize
    BY <1>6, <1>10, <1>11
  <2> HIDE DEF b
  <2>2. b \in Addrs /\ Contains(d, b)
    BY <1>3, <1>5, <2>1, SamePageOfDevice DEF MachineTyped, o
  <2> QED
    BY <2>2 DEF b
<1>14. \A b \in Addrs, t \in 0 .. n - 1 : Offset(s, b) = pos + t <=> b = a + t
  <2> TAKE b \in Addrs, t \in 0 .. n - 1
  <2>1. t \in Nat /\ pos + t < ASize
    <3> DEFINE z == Len(s.data)
    <3>1. z \in 0 .. ASize - 1 /\ pos + n <= z /\ pos \in Nat /\ n \in Nat
      BY <1>2, <1>6
    <3> HIDE DEF z, pos
    <3> QED
      BY <1>10, <3>1
  <2>2. a + t < ASize
    BY <1>13, <1>10 DEF Addrs
  <2> HIDE DEF s, pos
  <2> QED
    BY <1>2, <2>1, <2>2, PlaceOfByte DEF a
<1>15. /\ Progress[j] = pos /\ Progress'[j] = pos + n
       /\ \A i \in DOMAIN file.segments : i # j => Progress'[i] = Progress[i]
       /\ \A i \in DOMAIN file.segments : i > j => Progress'[i] = 0
  <2>1. \A i \in DOMAIN file.segments : i \in Nat
    BY <1>2
  <2>2. file' = file /\ segment' = segment /\ phase' = phase
    BY <1>1
  <2> QED
    BY <1>1, <1>2, <1>9, <2>1, <2>2 DEF Progress
<1> HIDE DEF s, pos
<1>16. ASSUME NEW b \in Addrs
       PROVE  /\ Covers(file, Progress', b) # {} => Scan(b)' # {}
              /\ Scan(b)' # {} => Cell(b)' = ByteOf(file, Progress', b)
  <2>1. Scan(b)' = Scan(b)
    BY <1>8 DEF Stores, Scan, Contains
  <2>2. \A i \in DOMAIN file.segments : Offset(file.segments[i], b) \in Nat
    BY SegmentTyped, OffsetTyped, PhysMemConstants DEF MachineTyped, BootTyped
  <2>3. Offset(s, b) \in Nat
    BY <1>2, <2>2 DEF s
  <2>4. CASE Offset(s, b) \in pos .. pos + n - 1
    <3> DEFINE t == Offset(s, b) - pos
    <3>1. t \in 0 .. n - 1 /\ Offset(s, b) = pos + t
      BY <1>2, <1>6, <2>3, <2>4
    <3> HIDE DEF t
    <3>2. b = a + t
      BY <1>14, <3>1
    <3>3. b \in a .. a + n - 1 /\ b - a + 1 = t + 1
      BY <1>6, <1>10, <3>1, <3>2
    <3>4. Cell(b)' = s.data[pos + t + 1]
      BY <1>7, <1>12, <3>1, <3>3
    <3>5. j \in Covers(file, Progress', b)
      <4>1. j \in DOMAIN file.segments /\ IsLoadable(file.segments[j])
        BY <1>1, <1>2 DEF s
      <4>2. Offset(file.segments[j], b) < Progress'[j]
        BY <1>2, <1>6, <1>15, <2>3, <2>4 DEF s
      <4> HIDE DEF j
      <4> QED
        BY <4>1, <4>2 DEF Covers
    <3>6. ASSUME NEW i \in Covers(file, Progress', b) PROVE i <= j
      <4>1. i \in DOMAIN file.segments /\ Progress'[i] # 0
        BY <2>2, <3>6 DEF Covers
      <4>2. ~(i > j)
        BY <1>15, <4>1
      <4> QED
        BY <1>2, <4>1, <4>2
    <3>7. Max(Covers(file, Progress', b)) = j
      <4>1. Covers(file, Progress', b) \subseteq Int
        BY <1>2 DEF Covers
      <4> HIDE DEF j
      <4> QED
        BY <3>5, <3>6, <4>1, MaxIs
    <3>8. ByteOf(file, Progress', b) = s.data[Offset(s, b) + 1]
      BY <3>5, <3>7 DEF ByteOf, s
    <3>9. Scan(b) # {}
      BY <1>5, <1>13, <3>1, <3>2, OneDevice DEF MachineTyped
    <3> QED
      BY <2>1, <3>1, <3>4, <3>8, <3>9
  <2>5. CASE Offset(s, b) \notin pos .. pos + n - 1
    <3>1. b \notin a .. a + n - 1
      <4>1. SUFFICES ASSUME b \in a .. a + n - 1 PROVE FALSE
        OBVIOUS
      <4>2. b - a \in 0 .. n - 1 /\ b = a + (b - a)
        BY <1>6, <1>10, <4>1
      <4>3. Offset(s, b) = pos + (b - a)
        BY <1>14, <4>2
      <4> QED
        BY <1>2, <1>6, <2>5, <4>2, <4>3
    <3>2. Cell(b)' = Cell(b)
      BY <1>12, <3>1
    <3>3. Offset(s, b) < Progress'[j] <=> Offset(s, b) < Progress[j]
      BY <1>2, <1>6, <1>15, <2>3, <2>5
    <3>4. Covers(file, Progress', b) = Covers(file, Progress, b)
      <4>1. ASSUME NEW i \in DOMAIN file.segments
            PROVE  Offset(file.segments[i], b) < Progress'[i]
                     <=> Offset(file.segments[i], b) < Progress[i]
        <5>1. CASE i = j
          BY <3>3, <5>1 DEF s
        <5>2. CASE i # j
          BY <1>15, <5>2
        <5> QED
          BY <5>1, <5>2
      <4> QED
        BY <4>1 DEF Covers
    <3>5. ByteOf(file, Progress', b) = ByteOf(file, Progress, b)
      BY <3>4 DEF ByteOf
    <3>6. PartOfImage
      BY DEF ImageInv
    <3> QED
      BY <2>1, <3>2, <3>4, <3>5, <3>6 DEF PartOfImage
  <2> QED
    BY <2>4, <2>5
<1>17. \A b \in Addrs : /\ Covers(file', Progress', b) # {} => Scan(b)' # {}
                        /\ Scan(b)' # {} => Cell(b)' = ByteOf(file', Progress', b)
  BY <1>16
<1> QED
  BY <1>17 DEF PartOfImage, Addrs

LEMMA ImageStarts == ASSUME MachineInit PROVE ImageInv
  BY EmptyMap DEF MachineInit, PMInit, ImageInv

(* The state is as before for the image.                                   *)
LEMMA ImageStays ==
  ASSUME PartOfImage, UNCHANGED <<devices, pagemap, host, file, segment, phase, area>>
  PROVE  PartOfImage'
<1>1. Progress' = Progress
  BY DEF Progress
<1> QED
  BY <1>1, ImageKept

LEMMA OverrunsStays ==
  ASSUME UNCHANGED <<devices, file>>
  PROVE  OverrunsDevice(file)' <=> OverrunsDevice(file)
  BY DEF OverrunsDevice, Overruns

LEMMA LoadStep ==
  ASSUME MachineTyped, ImageInv, loadSegment
  PROVE  ImageInv'
<1> DEFINE s == file.segments[segment]
<1>1. /\ stage = "loading" /\ phase = "built" /\ segment <= Len(file.segments)
      /\ segment' = segment + 1 /\ UNCHANGED <<file, stage>>
  BY DEF loadSegment
<1>2. /\ segment \in Nat /\ segment >= 1 /\ segment \in DOMAIN file.segments
      /\ DOMAIN file.segments = 1 .. Len(file.segments) /\ Len(file.segments) \in Nat
      /\ \A i \in DOMAIN file.segments : i \in Nat
  <2>1. DOMAIN file.segments = 1 .. Len(file.segments) /\ Len(file.segments) \in Nat
    BY SegmentTyped DEF MachineTyped, BootTyped
  <2> QED
    BY <1>1, <2>1 DEF MachineTyped, BootTyped
<1>3. UNCHANGED <<devices, pagemap, host>>
  BY DEF loadSegment, storeContArea, pmVars
<1>4. /\ IsLoadable(s) => phase' = "copying" /\ area' = [addr |-> s.addr, data |-> s.data, pos |-> 0]
      /\ ~IsLoadable(s) => phase' = phase
  BY DEF loadSegment, storeContArea, pmVars
<1>5. ASSUME NEW i \in DOMAIN file.segments, IsLoadable(file.segments[i])
      PROVE  Progress'[i] = Progress[i]
  <2>1. CASE i = segment
    <3>1. phase' = "copying" /\ area'.pos = 0
      BY <1>4, <1>5, <2>1
    <3> QED
      BY <1>1, <1>2, <2>1, <3>1 DEF Progress
  <2>2. CASE i < segment
    <3>1. ~(i >= segment') /\ i # segment' - 1 /\ ~(i >= segment)
      BY <1>1, <1>2, <2>2
    <3> QED
      BY <1>1, <3>1 DEF Progress
  <2>3. CASE i > segment
    <3>1. i >= segment' /\ i >= segment
      BY <1>1, <1>2, <2>3
    <3> QED
      BY <1>1, <3>1 DEF Progress
  <2> QED
    BY <1>2, <2>1, <2>2, <2>3
<1>6. OverrunsDevice(file)' \/ PartOfImage'
  BY <1>1, <1>3, <1>5, ImageKept, OverrunsStays DEF ImageInv
<1>7. phase' = "copying" => /\ segment' > 1 /\ segment' - 1 = segment
                            /\ IsLoadable(s) /\ area'.addr = s.addr /\ area'.data = s.data
  BY <1>1, <1>2, <1>4
<1> QED
  BY <1>1, <1>6, <1>7 DEF ImageInv, IsLoadable, MeetsRequirements

LEMMA CopyEndStep ==
  ASSUME MachineTyped, ImageInv, endSegment
  PROVE  ImageInv'
<1>1. /\ stage = "loading" /\ phase = "copying" /\ area.pos >= Len(area.data)
      /\ phase' = "built" /\ UNCHANGED <<file, stage, segment, devices, pagemap, host>>
  BY DEF endSegment, copyEnd, machineVars
<1>2. area.pos = Len(area.data)
  <2>1. area.pos \in 0 .. Len(area.data) /\ Len(area.data) \in Nat
    BY DEF MachineTyped, PMTyped, PMTypeOK, PMShape
  <2> QED
    BY <1>1, <2>1
<1>3. area.data = file.segments[segment - 1].data
  BY <1>1 DEF ImageInv
<1>4. \A i \in DOMAIN file.segments : Progress'[i] = Progress[i]
  BY <1>1, <1>2, <1>3 DEF Progress
<1>5. OverrunsDevice(file)' \/ PartOfImage'
  BY <1>1, <1>4, ImageKept, OverrunsStays DEF ImageInv
<1> QED
  BY <1>1, <1>5 DEF ImageInv, MeetsRequirements

LEMMA ImageStep ==
  ASSUME RangesApart, PageFitsHost, HostHasPage, MachineTyped, MachineTyped',
         MemoryInv, MemoryInv', ImageInv, [MachineNext]_allVars
  PROVE  ImageInv'
<1>1. ASSUME stage' = "ended" PROVE ImageInv'
  BY <1>1 DEF ImageInv
<1>2. CASE UNCHANGED allVars
  <2>1. UNCHANGED <<devices, pagemap, host, area, phase, cmd, file, stage, segment, stored>>
    BY <1>2 DEF allVars, pmVars, machineVars
  <2>2. OverrunsDevice(file) \/ PartOfImage => OverrunsDevice(file)' \/ PartOfImage'
    BY <2>1, ImageStays, OverrunsStays
  <2> QED
    BY <2>1, <2>2 DEF ImageInv, IsLoadable, MeetsRequirements
<1>3. CASE ramOption \/ createMachine \/ mapRange \/ buildMemory
  <2>1. /\ stage \in {"options", "mapping"} /\ UNCHANGED <<pagemap, segment>>
        /\ stage' \in {"options", "mapping", "parsing", "ended"}
    BY <1>3 DEF ramOption, createMachine, mapRange, buildMemory, mapRAM, build, Goto, Abort,
                pmVars
  <2> QED
    BY <1>1, <2>1 DEF ImageInv
<1>4. CASE createParser
  <2>1. /\ stage = "parsing" /\ stage' \in {"loading", "ended"}
        /\ UNCHANGED <<devices, pagemap, host, area, phase, file, segment>>
        /\ stage' = "loading" => file.elf /\ MeetsRequirements(file)
    BY <1>4 DEF createParser, Goto, Abort, pmVars
  <2>2. phase = "built" /\ segment = 1 /\ \A r \in Rams : DOMAIN pagemap[r] = {}
    BY <2>1 DEF MachineTyped, BootOrder, ImageInv
  <2>3. PartOfImage
    BY <2>2, EmptyImage
  <2>4. PartOfImage'
    BY <2>1, <2>3, ImageStays
  <2> QED
    BY <1>1, <2>1, <2>2, <2>4 DEF ImageInv, MeetsRequirements
<1>5. CASE loadSegment
  BY <1>5, LoadStep
<1>6. CASE copySegment
  <2>1. /\ stage = "loading" /\ copyStep /\ UNCHANGED <<file, segment>>
        /\ stage' = "ended" \/ (phase' = "copying" /\ stage' = stage)
    BY <1>6 DEF copySegment, Abort
  <2>2. SUFFICES ASSUME phase' = "copying", stage' = stage PROVE ImageInv'
    BY <1>1, <2>1
  <2>3. OverrunsDevice(file)' \/ PartOfImage'
    <3>1. devices' = devices
      BY <2>1 DEF copyStep
    <3> QED
      BY <2>1, <2>2, <3>1, ImageGrows, OverrunsStays
  <2>4. area'.addr = area.addr /\ area'.data = area.data /\ phase = "copying"
    BY <2>1, <2>2 DEF copyStep, MachineTyped, PMTyped, PMShape
  <2> QED
    BY <2>1, <2>2, <2>3, <2>4 DEF ImageInv, IsLoadable, MeetsRequirements
<1>7. CASE endSegment
  BY <1>7, CopyEndStep
<1>8. CASE start
  <2>1. /\ stage = "loading" /\ stage' = "running" /\ segment > Len(file.segments)
        /\ UNCHANGED <<devices, pagemap, host, area, phase, file, segment>>
    BY <1>8 DEF start, Goto, pmVars
  <2>2. OverrunsDevice(file)' \/ PartOfImage'
    BY <2>1, ImageStays, OverrunsStays DEF ImageInv
  <2> QED
    BY <2>1, <2>2 DEF ImageInv, MeetsRequirements
<1>9. ASSUME stage = "running", Accessed, UNCHANGED <<devices, pagemap, host, area, stored>>,
             phase' \in {"built", "crashed"}
      PROVE  ImageInv'
  <2>1. UNCHANGED <<file, segment>> /\ (stage' = "ended" \/ (phase' = "built" /\ stage' = stage))
    BY <1>9 DEF Accessed, Abort
  <2>2. SUFFICES ASSUME phase' = "built", stage' = stage PROVE ImageInv'
    BY <1>1, <2>1
  <2>3. phase = "built"
    BY <1>9 DEF MachineTyped, BootOrder
  <2>4. OverrunsDevice(file) \/ PartOfImage => OverrunsDevice(file)' \/ PartOfImage'
    BY <1>9, <2>1, <2>2, <2>3, ImageStays, OverrunsStays
  <2> QED
    BY <1>9, <2>1, <2>2, <2>4 DEF ImageInv, MeetsRequirements
<1>10. ASSUME NEW a \in LoadAddrs, NEW n \in AccessSizes, guestLoad(a, n) PROVE ImageInv'
  <2>1. UNCHANGED <<devices, pagemap, host, area, stored>> /\ phase' \in {"built", "crashed"}
    BY <1>10 DEF guestLoad, load
  <2> QED
    BY <1>9, <1>10, <2>1 DEF guestLoad
<1>11. ASSUME NEW v \in FetchAddrs, guestFetch(v) PROVE ImageInv'
  <2>1. UNCHANGED <<devices, pagemap, host, area, stored>> /\ phase' \in {"built", "crashed"}
    BY <1>11 DEF guestFetch, prefetchHit, prefetchMiss, ReadWord
  <2> QED
    BY <1>9, <1>11, <2>1 DEF guestFetch
<1>12. ASSUME NEW a, NEW bytes, guestStore(a, bytes) PROVE ImageInv'
  <2>1. stored' /\ UNCHANGED <<file, segment>> /\ stage = "running"
        /\ stage' \in {"running", "ended"}
    BY <1>12 DEF guestStore, Accessed, Abort
  <2> QED
    BY <2>1 DEF ImageInv, MeetsRequirements
<1>13. CASE finish \/ terminate
  BY <1>1, <1>13 DEF finish, terminate, Abort
<1> QED
  BY <1>2, <1>3, <1>4, <1>5, <1>6, <1>7, <1>8, <1>10, <1>11, <1>12, <1>13
  DEF MachineNext, Boot

(* In a complete image, the part that was loaded is the executable.        *)
LEMMA WholeImage ==
  ASSUME MachineTyped, ImageInv, stage = "running", ~stored
  PROVE  LoadedImage
<1>1. /\ OverrunsDevice(file) \/ PartOfImage
      /\ file.elf /\ MeetsRequirements(file) /\ phase = "built"
  BY DEF ImageInv, MachineTyped, BootOrder
<1>2. ASSUME NEW i \in DOMAIN file.segments
      PROVE  /\ Progress[i] = Len(file.segments[i].data)
             /\ file.segments[i].addr \in Addrs
             /\ Len(file.segments[i].data) \in 0 .. ASize - 1
  <2>1. /\ DOMAIN file.segments = 1 .. Len(file.segments) /\ Len(file.segments) \in Nat
        /\ segment \in Int /\ segment > Len(file.segments)
    BY SegmentTyped DEF MachineTyped, BootTyped, ImageInv
  <2>2. ~(i >= segment)
    BY <2>1
  <2> QED
    BY <1>1, <2>2, SegmentTyped DEF Progress, MachineTyped, BootTyped
<1>3. \A a : Covers(file, Progress, a) = Contents(file, a)
  BY <1>2 DEF Covers, Contents, IsLoadable
<1>4. ASSUME NEW a \in Addrs PROVE IsImageByte(file, a, ByteOf(file, Progress, a))
  <2>1. Contents(file, a) = {} => ByteOf(file, Progress, a) = 0
    BY <1>3 DEF ByteOf
  <2>2. ASSUME NEW i \in Contents(file, a), \A j \in Extent(file, a) : j <= i
        PROVE  ByteOf(file, Progress, a) = file.segments[i].data[Offset(file.segments[i], a) + 1]
    <3>1. Contents(file, a) \subseteq Int
      BY SegmentTyped DEF Contents, MachineTyped, BootTyped
    <3>2. \A j \in Contents(file, a) : j <= i
      BY <2>2 DEF Extent
    <3>3. Max(Contents(file, a)) = i
      BY <2>2, <3>1, <3>2, MaxIs
    <3> QED
      BY <1>3, <2>2, <3>3 DEF ByteOf
  <2> QED
    BY <2>1, <2>2 DEF IsImageByte
<1>5. PartOfImage => HoldsImage(file)
  BY <1>3, <1>4 DEF HoldsImage, PartOfImage
<1> QED
  BY <1>1, <1>5 DEF LoadedImage

(* The hart starts on the executable, the whole of it and nothing else:    *)
(* whatever segments the file has, wherever they lie over pages, devices   *)
(* and each other, memory holds their bytes until the guest stores.  A     *)
(* device may end anywhere; only an executable with a segment across the   *)
(* end of a device inside a page is not covered.                           *)
THEOREM MachineLoadedImage ==
  ASSUME RangesApart, PageFitsHost, AlignedFetches, HostHasPage
  PROVE  MachineSpec => []LoadedImage
<1>1. MachineInit => ImageInv
  BY ImageStarts
<1>2. MachineTyped /\ MachineTyped' /\ MemoryInv /\ MemoryInv' /\ ImageInv
        /\ [MachineNext]_allVars => ImageInv'
  BY ImageStep
<1>3. MachineTyped /\ ImageInv => LoadedImage
  BY WholeImage DEF LoadedImage
<1> QED
  BY <1>1, <1>2, <1>3, MachineTypedInvariance, MachineMemoryInvariance, PTL DEF MachineSpec
=============================================================================
