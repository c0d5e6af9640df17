------------------------------ MODULE PhysMem ------------------------------
(***************************************************************************)
(* The memory of the machine: PhysMemBuilder and PhysMem                   *)
(* (src/memory/phys-mem.cpp) over RAM devices (src/memory/ram.cpp) whose   *)
(* pages are taken from host memory when they are first stored to, and the *)
(* prefetcher of the hart (src/memory/prefetcher.cpp), which keeps a       *)
(* pointer into one of those pages.                                        *)
(*                                                                         *)
(* One action is one call; storeContArea takes one step per iteration of   *)
(* its loop.  `result' is what the last call returned or threw.            *)
(***************************************************************************)
EXTENDS PageAllocator, FiniteSetsExt

CONSTANTS
  ASize,        (* 2^XLEN: guest addresses are below it                    *)
  Bytes,        (* values of a byte, 0 among them                          *)
  AccessSizes,  (* sizes of loads and stores               (code: 1 2 4 8) *)
  WordSize,     (* sizeof(RV64UWord)                             (code: 4) *)
  Configs,      (* lists of RAM ranges [left, right) to map                *)
  LoadAddrs, StoreAddrs, FetchAddrs,  (* addresses the callers use         *)
  Areas         (* calls of storeContArea: an address and its bytes        *)

Addrs == 0 .. ASize - 1

Ranges == [left : Addrs, right : Addrs]

ASSUME PhysMemConstants ==
  /\ ASize \in Nat \ {0}
  /\ 0 \in Bytes
  /\ WordSize \in AccessSizes /\ AccessSizes \subseteq Nat \ {0}
  /\ Configs \subseteq Seq(Ranges)
  /\ \A c \in Configs : DOMAIN c \subseteq Rams
  /\ LoadAddrs \cup StoreAddrs \cup FetchAddrs \subseteq Addrs
  /\ Areas \subseteq [addr : Addrs, data : Seq(Bytes)]

(* An aligned access lies on one page: page sizes are powers of 2, and at  *)
(* least as large as the largest access.                                   *)
ASSUME AccessFitsPage == \A n \in AccessSizes : pageSize % n = 0

VARIABLES
  config,        (* the configured ranges; the RAM of a range is its index *)
  next,          (* the next range to map                                  *)
  phase,         (* what the memory is doing                               *)
  devices,       (* the device map: ranges with their RAMs                 *)
  lastAccessed,  (* lastAccessedRange_ and lastAccessedDevice_             *)
  pagemap,       (* RAM -> page id -> host address                         *)
  host,          (* host address -> byte                                   *)
  area,          (* the last call of storeContArea and its progress        *)
  window,        (* Prefetcher: start_, len_ and saved_                    *)
  result

pmVars == <<mapped, back, pages, config, next, phase, devices, lastAccessed, pagemap,
            host, area, window, result>>

Phases == {"building", "built", "copying", "rejected", "crashed"}

(* A call, and what it returned or threw. *)
Accesses == [kind : {"none", "loaded", "stored", "InvalidAddress", "UnalignedAddress"},
             addr : Addrs, bytes : Seq(Bytes)]

Access(kind, a, bytes) == [kind |-> kind, addr |-> a, bytes |-> bytes]

NoDevice == [left |-> 0, right |-> 0, ram |-> 0]

NoArea == [addr |-> 0, data |-> <<>>, pos |-> 0]

-----------------------------------------------------------------------------
(* Range::contains, for a position and for a range.                        *)
Contains(range, a) == range.left <= a /\ a < range.right

ContainsRange(outer, inner) == outer.left <= inner.left /\ inner.right < outer.right

(* Mutant of Rejects: ranges are not compared with each other.             *)
RejectsEmpty(range) == range.left = range.right

(* The constructor of RAM rejects an empty range, mapDevice one that       *)
(* contains the range of an earlier device.                                *)
Rejects(range) ==
  \/ range.left = range.right
  \/ \E d \in devices : ContainsRange(range, d)

(* PhysMemBuilder::mapRAM and mapDevice.  The map orders ranges by their   *)
(* left border and ignores a second range with the same one.               *)
mapRAM ==
  /\ phase = "building" /\ next <= Len(config)
  /\ LET range == config[next] IN
     \/ /\ Rejects(range)
        /\ phase' = "rejected"
        /\ UNCHANGED <<devices, next>>
     \/ /\ ~Rejects(range)
        /\ devices' = devices \cup
             (IF \E d \in devices : d.left = range.left THEN {}
              ELSE {[left |-> range.left, right |-> range.right, ram |-> next]})
        /\ next' = next + 1
        /\ UNCHANGED phase
  /\ UNCHANGED <<allocVars, config, lastAccessed, pagemap, host, area, window, result>>

build ==
  /\ phase = "building" /\ next > Len(config)
  /\ phase' = "built"
  /\ UNCHANGED <<allocVars, config, next, devices, lastAccessed, pagemap, host, area,
                 window, result>>

-----------------------------------------------------------------------------
(* Conditions of the theorems on the configuration and on the hart.        *)
(*                                                                         *)
(* What PhysMemBuilder::mapDevice is meant to enforce: only ranges with    *)
(* the same left border, of which it keeps the first, share an address.    *)
RangesApart ==
  \A c \in Configs : \A i, j \in DOMAIN c : \A a \in Addrs :
    Contains(c[i], a) /\ Contains(c[j], a) => c[i].left = c[j].left

(* The assertion in Prefetcher::loadWord, as a condition on its callers:   *)
(* instructions are fetched at whole words of a device.                    *)
AlignedFetches ==
  \A c \in Configs : \A i \in DOMAIN c : \A v \in FetchAddrs :
    Contains(c[i], v) => (v - c[i].left) % WordSize = 0

-----------------------------------------------------------------------------
(* The first device in the order of the map whose range contains a.        *)
Scan(a) ==
  {d \in devices : Contains(d, a) /\ \A e \in devices : Contains(e, a) => d.left <= e.left}

(* Mutant of findDevice: the cached range is not compared with a.          *)
findDeviceUnchecked(a) ==
  IF lastAccessed \in devices THEN {lastAccessed} ELSE Scan(a)

(* PhysMem::findDevice: the device, or none if it throws.                  *)
findDevice(a) == IF Contains(lastAccessed, a) THEN {lastAccessed} ELSE Scan(a)

(* A call whose findDevice throws. *)
NotFound(a) ==
  /\ findDevice(a) = {}
  /\ result' = Access("InvalidAddress", a, <<>>)
  /\ UNCHANGED lastAccessed

(* MMU::translateAddress *)
translateAddress(vaddress) == vaddress

-----------------------------------------------------------------------------
(* RAM: o is an offset on the device. *)
PageId(o) == o \div pageSize
PageOffset(o) == o % pageSize

Touched(r, o) == PageId(o) \in DOMAIN pagemap[r]

(* RAM::getHostAddress *)
getHostAddress(r, o) ==
  IF Touched(r, o) THEN pagemap[r][PageId(o)] + PageOffset(o) ELSE Null

(* RAM::touchPageAddress *)
touchPageAddress(r, o, page) ==
  \/ /\ Touched(r, o)
     /\ page = pagemap[r][PageId(o)]
     /\ UNCHANGED <<allocVars, pagemap>>
  \/ /\ ~Touched(r, o)
     /\ \/ AllocFromBack(r, page)
        \/ AllocFromNew(r, page)
        \/ AllocFails(r) /\ page = Null
     /\ pagemap' = [pagemap EXCEPT ![r] = [i \in DOMAIN @ \cup {PageId(o)} |->
                                             IF i = PageId(o) THEN page ELSE @[i]]]

(* The host serves an access of n bytes at h only inside mapped regions.   *)
Served(regions, h, n) ==
  \A x \in h .. h + n - 1 : \E m \in regions : m <= x /\ x < m + hostMmapSize

HostBytes(h, n) == [k \in 1 .. n |-> host[h + k - 1]]

(* Stores through the pointer of touchHostAddress.  Without a page the     *)
(* pointer is null plus the offset, and the host kills the simulator.      *)
Write(d, a, bytes, then) ==
  \E page \in 0 .. HostSize - 1 :
    LET h == page + PageOffset(a - d.left)
        served == page # Null /\ Served(mapped', h, Len(bytes))
    IN  /\ touchPageAddress(d.ram, a - d.left, page)
        /\ host' = IF served
                   THEN [x \in DOMAIN host |->
                           IF x \in h .. h + Len(bytes) - 1 THEN bytes[x - h + 1] ELSE host[x]]
                   ELSE host
        /\ phase' = IF served THEN then ELSE "crashed"
        /\ result' = IF served THEN Access("stored", a, bytes) ELSE result

(* RAM::validateAddressAlignment looks at the offset on the device.        *)
Aligned(o, n) == o % n = 0

(* RAM::load; a page that was never stored to reads as zero.               *)
LoadFrom(r, o, n) ==
  IF Touched(r, o) THEN HostBytes(getHostAddress(r, o), n) ELSE [k \in 1 .. n |-> 0]

-----------------------------------------------------------------------------
(* PhysMem::loadByte ... loadDWord *)
load(a, n) ==
  /\ phase = "built"
  /\ \/ NotFound(a) /\ UNCHANGED phase
     \/ \E d \in findDevice(translateAddress(a)) :
          LET o == a - d.left IN
          /\ lastAccessed' = d
          /\ \/ ~Aligned(o, n) /\ result' = Access("UnalignedAddress", a, <<>>) /\ UNCHANGED phase
             \/ /\ Aligned(o, n)
                /\ IF Touched(d.ram, o) => Served(mapped, getHostAddress(d.ram, o), n)
                   THEN result' = Access("loaded", a, LoadFrom(d.ram, o, n)) /\ UNCHANGED phase
                   ELSE phase' = "crashed" /\ UNCHANGED result
  /\ UNCHANGED <<allocVars, config, next, devices, pagemap, host, area, window>>

(* PhysMem::storeByte ... storeDWord *)
store(a, bytes) ==
  /\ phase = "built"
  /\ \/ NotFound(a) /\ UNCHANGED <<allocVars, phase, pagemap, host>>
     \/ \E d \in findDevice(translateAddress(a)) :
          /\ lastAccessed' = d
          /\ \/ /\ ~Aligned(a - d.left, Len(bytes))
                /\ result' = Access("UnalignedAddress", a, <<>>)
                /\ UNCHANGED <<allocVars, phase, pagemap, host>>
             \/ /\ Aligned(a - d.left, Len(bytes))
                /\ Write(d, a, bytes, "built")
  /\ UNCHANGED <<config, next, devices, area, window>>

(* PhysMem::storeContArea is called, *)
storeContArea(c) ==
  /\ phase = "built"
  /\ phase' = "copying"
  /\ area' = [addr |-> c.addr, data |-> c.data, pos |-> 0]
  /\ UNCHANGED <<allocVars, config, next, devices, lastAccessed, pagemap, host, window,
                 result>>

(* Mutant of cpySize: the last byte of a page is left to the next one.     *)
cpySizeShort(o) == Min({Len(area.data) - area.pos, pageSize - PageOffset(o) - 1})

(* the bytes to copy in one iteration: up to the end of the page, *)
cpySize(o) == Min({Len(area.data) - area.pos, pageSize - PageOffset(o)})

(* Mutant of NextPos: the loop advances by the rest of the page.           *)
NextPosOnPage(o) == area.pos + (pageSize - PageOffset(o))

NextPos(o) == area.pos + cpySize(o)

(* copies to one page after another, *)
copyStep ==
  /\ phase = "copying" /\ area.pos < Len(area.data)
  /\ LET a == (area.addr + area.pos) % ASize IN
     \/ /\ NotFound(a)
        /\ phase' = "built"
        /\ area' = NoArea
        /\ UNCHANGED <<allocVars, pagemap, host>>
     \/ \E d \in findDevice(a) :
          LET o == a - d.left IN
          /\ lastAccessed' = d
          /\ Write(d, a, SubSeq(area.data, area.pos + 1, area.pos + cpySize(o)), "copying")
          /\ area' = [area EXCEPT !.pos = NextPos(o)]
  /\ UNCHANGED <<config, next, devices, window>>

(* and returns. *)
copyEnd ==
  /\ phase = "copying" /\ area.pos >= Len(area.data)
  /\ phase' = "built"
  /\ area' = NoArea
  /\ UNCHANGED <<allocVars, config, next, devices, lastAccessed, pagemap, host, window,
                 result>>

-----------------------------------------------------------------------------
(* Mutant of InWindow: the end of the window belongs to it.                *)
InWindowInclusive(v) == v > window.start /\ v <= (window.start + window.len) % ASize

(* Prefetcher::loadWord *)
InWindow(v) == v > window.start /\ v < (window.start + window.len) % ASize

(* The word for address v is read at host address h, if the host serves it. *)
ReadWord(v, h) ==
  IF Served(mapped, h, WordSize)
  THEN result' = Access("loaded", v, HostBytes(h, WordSize)) /\ UNCHANGED phase
  ELSE phase' = "crashed" /\ UNCHANGED result

prefetchHit(v) ==
  /\ phase = "built" /\ InWindow(v)
  /\ ReadWord(v, window.saved + WordSize * ((v - window.start) \div WordSize))
  /\ UNCHANGED <<allocVars, config, next, devices, lastAccessed, pagemap, host, area,
                 window>>

(* Mutant of WindowAt: the window is a whole page long wherever it starts. *)
WindowOfPage(v, d) ==
  [start |-> v, len |-> pageSize, saved |-> getHostAddress(d.ram, v - d.left)]

WindowAt(v, d) ==
  [start |-> v, len |-> pageSize - PageOffset(v - d.left),
   saved |-> getHostAddress(d.ram, v - d.left)]

prefetchMiss(v) ==
  /\ phase = "built" /\ ~InWindow(v)
  /\ \/ NotFound(v) /\ UNCHANGED <<phase, window>>
     \/ \E d \in findDevice(translateAddress(v)) :
          LET o == v - d.left IN
          /\ lastAccessed' = d
          /\ \/ /\ Touched(d.ram, o)
                /\ window' = WindowAt(v, d)
                /\ ReadWord(v, getHostAddress(d.ram, o))
             \/ /\ ~Touched(d.ram, o)
                /\ result' = IF Aligned(o, WordSize)
                             THEN Access("loaded", v, LoadFrom(d.ram, o, WordSize))
                             ELSE Access("UnalignedAddress", v, <<>>)
                /\ UNCHANGED <<phase, window>>
  /\ UNCHANGED <<allocVars, config, next, devices, pagemap, host, area>>

-----------------------------------------------------------------------------
PMInit ==
  /\ AllocInit
  /\ config \in Configs
  /\ next = 1
  /\ phase = "building"
  /\ devices = {}
  /\ lastAccessed = NoDevice
  /\ pagemap = [r \in Rams |-> <<>>]
  /\ host = [h \in 0 .. HostSize - 1 |-> 0]
  /\ area = NoArea
  /\ window = [start |-> ASize - 1, len |-> 0, saved |-> Null]
  /\ result = Access("none", 0, <<>>)

PMNext ==
  \/ mapRAM \/ build \/ copyStep \/ copyEnd
  \/ \E a \in LoadAddrs, n \in AccessSizes : load(a, n)
  \/ \E a \in StoreAddrs, n \in AccessSizes :
       \E bytes \in [1 .. n -> Bytes] : store(a, bytes)
  \/ \E c \in Areas : storeContArea(c)
  \/ \E v \in FetchAddrs : prefetchHit(v) \/ prefetchMiss(v)

PMSpec == PMInit /\ [][PMNext]_pmVars

-----------------------------------------------------------------------------
(* Type invariant of the memory system.                                    *)
PMTypeOK ==
  /\ AllocTypeOK
  /\ config \in Configs
  /\ next \in 1 .. Len(config) + 1
  /\ phase \in Phases
  /\ devices \subseteq [left : Addrs, right : Addrs, ram : Rams]
  /\ lastAccessed \in devices \cup {NoDevice}
  /\ \A r \in Rams : \A i \in DOMAIN pagemap[r] : i \in Addrs /\ pagemap[r][i] \in Nat
  /\ host \in [0 .. HostSize - 1 -> Bytes]
  /\ area.pos \in 0 .. Len(area.data)
  /\ window.start \in Addrs /\ window.len \in 0 .. pageSize /\ window.saved \in Nat
  /\ result \in Accesses

(* What the guest sees at address a. *)
Cell(a) ==
  IF Scan(a) = {} THEN 0
  ELSE LET d == CHOOSE d \in Scan(a) : TRUE IN LoadFrom(d.ram, a - d.left, 1)[1]

(* The exception MappingIntersection of the builder says that mapped       *)
(* devices never share an address.                                         *)
DevicesDisjoint ==
  \A d, e \in devices : d # e => d.right <= e.left \/ e.right <= d.left

(* The device that serves an address does not depend on which device was   *)
(* accessed before: the mutable cache in findDevice is transparent.        *)
LookupIgnoresHistory == \A a \in Addrs : findDevice(a) = Scan(a)

(* The prefetcher's pointer stays inside the page it was taken from, at    *)
(* the place of the window's start, however many pages were allocated and  *)
(* devices accessed since.                                                 *)
WindowOnPage ==
  window.len > 0 =>
    \E d \in Scan(window.start) :
      /\ Touched(d.ram, window.start - d.left)
      /\ window.saved = getHostAddress(d.ram, window.start - d.left)
      /\ PageOffset(window.start - d.left) + window.len <= pageSize

(* The host kills the simulator only after a failed mmap that nobody       *)
(* noticed: every other access, through pages, chunks and the window,      *)
(* goes to memory the simulator has mapped.  Fetches at whole words only:  *)
(* half a word before the end of a chunk, the prefetcher reads behind it.  *)
CrashOnlyWithoutMemory ==
  phase = "crashed" => \E r \in Rams : \E i \in DOMAIN pagemap[r] : pagemap[r][i] = Null

(* The assertion in Prefetcher::loadWord: whatever address is fetched      *)
(* next, a hit is a whole number of words away from the window's start.    *)
FetchesWholeWords ==
  \A v \in FetchAddrs : InWindow(v) => (v - window.start) % WordSize = 0
=============================================================================
