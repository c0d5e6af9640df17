--------------------------- MODULE PhysMemProofs ---------------------------
(***************************************************************************)
(* Proofs about the memory system, for every list of RAM ranges, every     *)
(* page size, and every sequence of loads, stores, copies and fetches.     *)
(***************************************************************************)
EXTENDS PhysMemFlat, PageAllocatorProofs

(* Calls of storeContArea, whoever makes them.                             *)
AnyArea == [addr : Addrs, data : Seq(Bytes)]

(* A call of the memory system: PMNext without a bound on the areas.       *)
MemNext ==
  \/ mapRAM \/ build \/ copyStep \/ copyEnd
  \/ \E a \in LoadAddrs, n \in AccessSizes : load(a, n)
  \/ \E a \in StoreAddrs, n \in AccessSizes :
       \E bytes \in [1 .. n -> Bytes] : store(a, bytes)
  \/ \E c \in AnyArea : storeContArea(c)
  \/ \E v \in FetchAddrs : prefetchHit(v) \/ prefetchMiss(v)

(* What PMTypeOK leaves open about the shape of the records and functions. *)
PMShape ==
  /\ pagemap = [r \in Rams |-> pagemap[r]]
  /\ \A r \in Rams : pagemap[r] = [i \in DOMAIN pagemap[r] |-> pagemap[r][i]]
  /\ area \in [addr : Addrs, data : Seq(Bytes), pos : Nat]
  /\ window \in [start : Addrs, len : 0 .. pageSize, saved : Nat]

(* Every device serves a configured range, the first one that begins       *)
(* there, and the ranges that were mapped or ignored so far are served.    *)
DevicesConfigured ==
  /\ \A d \in devices : /\ d.ram \in DOMAIN config /\ d.ram < next
                        /\ d.left = config[d.ram].left /\ d.right = config[d.ram].right
                        /\ \A j \in 1 .. d.ram - 1 : config[j].left # d.left
  /\ \A d, e \in devices : d.left = e.left => d = e
  /\ \A j \in 1 .. next - 1 : \E d \in devices :
       d.left = config[j].left /\ config[j].right <= d.right

PMTyped == PMTypeOK /\ PMShape /\ DevicesConfigured

-----------------------------------------------------------------------------
LEMMA MinOfTwo ==
  ASSUME NEW x \in Int, NEW y \in Int
  PROVE  /\ Min({x, y}) \in {x, y}
         /\ Min({x, y}) <= x /\ Min({x, y}) <= y
<1>1. \E z \in {x, y} : \A w \in {x, y} : z =< w
  <2>1. CASE x <= y
    BY <2>1
  <2>2. CASE y <= x
    BY <2>2
  <2> QED
    BY <2>1, <2>2
<1>2. PICK z : z = Min({x, y})
  OBVIOUS
<1>3. z \in {x, y} /\ \A w \in {x, y} : z =< w
  BY <1>1, <1>2 DEF Min
<1> QED
  BY <1>2, <1>3

(* Where an offset lies on its page.                                       *)
LEMMA OffsetOnPage ==
  ASSUME NEW o \in Nat
  PROVE  /\ PageId(o) \in 0 .. o
         /\ PageOffset(o) \in 0 .. pageSize - 1
         /\ o = pageSize * PageId(o) + PageOffset(o)
<1>1. /\ o \div pageSize \in Nat /\ o % pageSize \in 0 .. pageSize - 1
      /\ o = pageSize * (o \div pageSize) + (o % pageSize)
  BY Quotient, AllocatorConstants
<1> DEFINE q == o \div pageSize
<1>2. q \in Nat /\ pageSize \in Nat /\ pageSize >= 1 /\ o >= pageSize * q
  BY <1>1, AllocatorConstants
<1> HIDE DEF q
<1>3. pageSize * q >= q
  <2>1. PICK e \in Nat : pageSize = e + 1
    BY <1>2
  <2>2. pageSize * q = e * q + q /\ e * q >= 0
    BY <2>1, <1>2
  <2> QED
    BY <2>2, <1>2
<1>4. q \in 0 .. o
  BY <1>2, <1>3
<1> QED
  BY <1>1, <1>4 DEF q, PageId, PageOffset

LEMMA RegionSize == hostMmapSize \in Nat \ {0}
<1>1. chunkSize % hostPage \in 0 .. hostPage - 1
  BY Quotient, AllocatorConstants
<1> QED
  BY <1>1, AllocatorConstants DEF hostMmapSize

(* Mapped memory is host memory.                                           *)
LEMMA ServedIsHost ==
  ASSUME NEW regions, regions \subseteq HostPages, NEW h \in Nat, NEW n \in Nat,
         Served(regions, h, n), NEW x \in h .. h + n - 1
  PROVE  x \in 0 .. HostSize - 1
<1>1. PICK m \in regions : m <= x /\ x < m + hostMmapSize
  BY DEF Served
<1>2. m \in Nat /\ m <= HostSize - hostMmapSize
  BY RegionSize, AllocatorConstants DEF HostPages
<1> QED
  BY <1>1, <1>2, RegionSize, AllocatorConstants

(* The bytes of a page inside a region are bytes of the host.              *)
LEMMA RegionHoldsPage ==
  ASSUME NEW p \in Nat, NEW g \in 0 .. pageSize - 1, NEW m \in Nat,
         m <= p, p + pageSize <= m + hostMmapSize, m + hostMmapSize <= HostSize
  PROVE  p + g \in 0 .. HostSize - 1
  BY RegionSize, AllocatorConstants

LEMMA HostBytesTyped ==
  ASSUME host \in [0 .. HostSize - 1 -> Bytes], mapped \subseteq HostPages,
         NEW h \in Nat, NEW n \in Nat, Served(mapped, h, n)
  PROVE  HostBytes(h, n) \in Seq(Bytes) /\ Len(HostBytes(h, n)) = n
<1>1. \A k \in 1 .. n : host[h + k - 1] \in Bytes
  <2> TAKE k \in 1 .. n
  <2>1. h + k - 1 \in h .. h + n - 1
    OBVIOUS
  <2> QED
    BY <2>1, ServedIsHost
<1>2. HostBytes(h, n) \in [1 .. n -> Bytes]
  BY <1>1 DEF HostBytes
<1> QED
  BY <1>2

-----------------------------------------------------------------------------
(* The allocators keep their types.                                        *)
LEMMA AllocTypeStep ==
  ASSUME AllocTypeOK, [AllocNext]_allocVars
  PROVE  AllocTypeOK' /\ mapped \subseteq mapped'
<1>1. CASE UNCHANGED allocVars
  BY <1>1 DEF allocVars, AllocTypeOK, HostPages, hostMmapSize, NoChunk, Null
<1>2. ASSUME NEW r \in Rams, NEW page \in 0 .. HostSize, AllocFromBack(r, page)
      PROVE  AllocTypeOK' /\ mapped \subseteq mapped'
  <2>1. back[r] \in [data : HostPages, rower : Nat]
    BY <1>2 DEF AllocFromBack, HasRoom, AllocTypeOK
  <2>2. back[r].rower + pageSize \in Nat
    BY <2>1, AllocatorConstants
  <2>3. back' = [back EXCEPT ![r].rower = back[r].rower + pageSize]
    BY <1>2 DEF AllocFromBack
  <2>4. back' \in [Rams -> [data : HostPages, rower : Nat] \cup {NoChunk}]
    BY <2>1, <2>2, <2>3 DEF AllocTypeOK
  <2>5. pages' \in Seq(Nat) /\ mapped' = mapped
    BY <1>2 DEF AllocFromBack, AllocTypeOK
  <2> QED
    BY <2>4, <2>5 DEF AllocTypeOK, HostPages, hostMmapSize, NoChunk, Null
<1>3. ASSUME NEW r \in Rams, NEW page \in 0 .. HostSize, AllocFromNew(r, page)
      PROVE  AllocTypeOK' /\ mapped \subseteq mapped'
  <2>1. page \in HostPages /\ page + pageSize \in Nat
    BY <1>3, AllocatorConstants DEF AllocFromNew, Free
  <2>2. back' \in [Rams -> [data : HostPages, rower : Nat] \cup {NoChunk}]
    BY <1>3, <2>1 DEF AllocFromNew, AllocTypeOK
  <2>3. pages' \in Seq(Nat) /\ mapped' = mapped \cup {page}
    BY <1>3 DEF AllocFromNew, AllocTypeOK
  <2> QED
    BY <2>1, <2>2, <2>3 DEF AllocTypeOK, HostPages, hostMmapSize, NoChunk, Null
<1>4. ASSUME NEW r \in Rams, AllocFails(r)
      PROVE  AllocTypeOK' /\ mapped \subseteq mapped'
  BY <1>4 DEF AllocFails, AllocTypeOK, HostPages, hostMmapSize, NoChunk, Null
<1> QED
  BY <1>1, <1>2, <1>3, <1>4 DEF AllocNext

-----------------------------------------------------------------------------
(* The device that findDevice returns is mapped and contains the address.  *)
LEMMA FoundDevice ==
  ASSUME PMTypeOK, NEW a \in Addrs, NEW d \in findDevice(a)
  PROVE  /\ d \in devices /\ Contains(d, a)
         /\ d.left \in Addrs /\ d.right \in Addrs /\ d.ram \in Rams
         /\ a - d.left \in Addrs
<1>1. ASSUME Contains(lastAccessed, a) PROVE d \in devices /\ Contains(d, a)
  <2>1. d = lastAccessed
    BY <1>1 DEF findDevice
  <2>2. lastAccessed # NoDevice
    BY <1>1, PhysMemConstants DEF Contains, NoDevice, Addrs
  <2> QED
    BY <1>1, <2>1, <2>2 DEF PMTypeOK
<1>2. ASSUME ~Contains(lastAccessed, a) PROVE d \in devices /\ Contains(d, a)
  BY <1>2 DEF findDevice, Scan
<1>3. d \in devices /\ Contains(d, a)
  BY <1>1, <1>2
<1>4. d.left \in Addrs /\ d.right \in Addrs /\ d.ram \in Rams
  BY <1>3 DEF PMTypeOK
<1>5. a - d.left \in Addrs
  BY <1>3, <1>4, PhysMemConstants DEF Contains, Addrs
<1> QED
  BY <1>3, <1>4, <1>5

(* What touchPageAddress does to the page map: at most it adds one page.   *)
LEMMA TouchedPage ==
  ASSUME PMTypeOK, PMShape, NEW r \in Rams, NEW o \in Addrs,
         NEW page \in 0 .. HostSize - 1, touchPageAddress(r, o, page)
  PROVE  /\ [AllocNext]_allocVars
         /\ pagemap' = [q \in Rams |-> pagemap'[q]]
         /\ \A q \in Rams : pagemap'[q] = [i \in DOMAIN pagemap'[q] |-> pagemap'[q][i]]
         /\ PageId(o) \in DOMAIN pagemap'[r] /\ pagemap'[r][PageId(o)] = page
         /\ \A q \in Rams : \A i \in DOMAIN pagemap[q] :
              i \in DOMAIN pagemap'[q] /\ pagemap'[q][i] = pagemap[q][i]
         /\ \A q \in Rams : \A i \in DOMAIN pagemap'[q] :
              i \in DOMAIN pagemap[q] \/ (q = r /\ i = PageId(o))
<1>1. CASE Touched(r, o)
  BY <1>1 DEF touchPageAddress, Touched, PMShape
<1>2. CASE ~Touched(r, o)
  <2>1. pagemap' = [pagemap EXCEPT ![r] =
                      [i \in DOMAIN pagemap[r] \cup {PageId(o)} |->
                         IF i = PageId(o) THEN page ELSE pagemap[r][i]]]
    BY <1>2 DEF touchPageAddress
  <2>2. pagemap'[r] = [i \in DOMAIN pagemap[r] \cup {PageId(o)} |->
                         IF i = PageId(o) THEN page ELSE pagemap[r][i]]
    BY <2>1 DEF PMShape
  <2>3. \A q \in Rams : q # r => pagemap'[q] = pagemap[q]
    BY <2>1 DEF PMShape
  <2>4. pagemap' = [q \in Rams |-> pagemap'[q]]
    BY <2>1 DEF PMShape
  <2>5. AllocNext
    <3>1. page \in 0 .. HostSize
      BY AllocatorConstants
    <3>2. AllocFromBack(r, page) \/ AllocFromNew(r, page) \/ AllocFails(r)
      BY <1>2 DEF touchPageAddress
    <3> QED
      BY <3>1, <3>2 DEF AllocNext
  <2>6. PageId(o) \notin DOMAIN pagemap[r]
    BY <1>2 DEF Touched
  <2>7. \A q \in Rams : pagemap'[q] = [i \in DOMAIN pagemap'[q] |-> pagemap'[q][i]]
    BY <2>2, <2>3 DEF PMShape
  <2>8. /\ DOMAIN pagemap'[r] = DOMAIN pagemap[r] \cup {PageId(o)}
        /\ pagemap'[r][PageId(o)] = page
        /\ \A i \in DOMAIN pagemap[r] : pagemap'[r][i] = pagemap[r][i]
    BY <2>2, <2>6
  <2>9. ASSUME NEW q \in Rams
        PROVE  /\ \A i \in DOMAIN pagemap[q] :
                    i \in DOMAIN pagemap'[q] /\ pagemap'[q][i] = pagemap[q][i]
               /\ \A i \in DOMAIN pagemap'[q] :
                    i \in DOMAIN pagemap[q] \/ (q = r /\ i = PageId(o))
    <3>1. CASE q = r
      BY <3>1, <2>8
    <3>2. CASE q # r
      BY <3>2, <2>3
    <3> QED
      BY <3>1, <3>2
  <2> QED
    BY <2>4, <2>5, <2>7, <2>8, <2>9
<1> QED
  BY <1>1, <1>2

PagemapTyped ==
  \A r \in Rams : \A i \in DOMAIN pagemap[r] : i \in Addrs /\ pagemap[r][i] \in Nat

LEMMA TouchTyped ==
  ASSUME PMTypeOK, PMShape, NEW r \in Rams, NEW o \in Addrs,
         NEW page \in 0 .. HostSize - 1, touchPageAddress(r, o, page)
  PROVE  AllocTypeOK' /\ mapped \subseteq mapped' /\ PagemapTyped'
<1>1. AllocTypeOK' /\ mapped \subseteq mapped'
  BY TouchedPage, AllocTypeStep DEF PMTypeOK
<1>2. PageId(o) \in Addrs /\ page \in Nat
  <2>1. o \in Nat /\ o < ASize
    BY PhysMemConstants DEF Addrs
  <2> QED
    BY <2>1, OffsetOnPage, PhysMemConstants, AllocatorConstants DEF Addrs
<1>3. ASSUME NEW q \in Rams, NEW i \in DOMAIN pagemap'[q]
      PROVE  i \in Addrs /\ pagemap'[q][i] \in Nat
  <2>1. CASE i \in DOMAIN pagemap[q]
    BY <2>1, TouchedPage DEF PMTypeOK
  <2>2. CASE q = r /\ i = PageId(o)
    BY <2>2, <1>2, TouchedPage
  <2> QED
    BY <2>1, <2>2, TouchedPage
<1> QED
  BY <1>1, <1>3 DEF PagemapTyped, Addrs

(* Stores through touchHostAddress keep every type.                        *)
LEMMA WriteTyped ==
  ASSUME PMTypeOK, PMShape, NEW a \in Addrs, NEW d \in findDevice(a),
         NEW bytes \in Seq(Bytes), NEW then \in Phases, Write(d, a, bytes, then)
  PROVE  /\ AllocTypeOK' /\ mapped \subseteq mapped' /\ PagemapTyped'
         /\ pagemap' = [r \in Rams |-> pagemap'[r]]
         /\ \A r \in Rams : pagemap'[r] = [i \in DOMAIN pagemap'[r] |-> pagemap'[r][i]]
         /\ [AllocNext]_allocVars
         /\ host' \in [0 .. HostSize - 1 -> Bytes]
         /\ phase' \in Phases /\ result' \in Accesses
<1> DEFINE o == a - d.left
<1>1. d.ram \in Rams /\ o \in Addrs
  BY FoundDevice
<1>2. PICK page \in 0 .. HostSize - 1 :
        LET h == page + PageOffset(o)
            served == page # Null /\ Served(mapped', h, Len(bytes))
        IN  /\ touchPageAddress(d.ram, o, page)
            /\ host' = IF served
                       THEN [x \in DOMAIN host |->
                               IF x \in h .. h + Len(bytes) - 1
                               THEN bytes[x - h + 1] ELSE host[x]]
                       ELSE host
            /\ phase' = IF served THEN then ELSE "crashed"
            /\ result' = IF served THEN Access("stored", a, bytes) ELSE result
  BY DEF Write
<1>3. touchPageAddress(d.ram, o, page)
  BY <1>2
<1> DEFINE h == page + PageOffset(o)
<1>4. host' = host \/ host' = [x \in DOMAIN host |->
                                IF x \in h .. h + Len(bytes) - 1
                                THEN bytes[x - h + 1] ELSE host[x]]
  BY <1>2
<1>5. phase' \in Phases /\ (result' = result \/ result' = Access("stored", a, bytes))
  BY <1>2 DEF Phases
<1>6. result' \in Accesses
  BY <1>5 DEF PMTypeOK, Access, Accesses
<1>7. PageOffset(o) \in Nat /\ page \in Nat
  <2>1. o \in Nat
    BY <1>1, PhysMemConstants DEF Addrs
  <2>2. PageOffset(o) \in 0 .. pageSize - 1
    BY <2>1, OffsetOnPage
  <2> QED
    BY <2>2, AllocatorConstants
<1> HIDE DEF o
<1>8. host' \in [0 .. HostSize - 1 -> Bytes]
  <2>1. host \in [0 .. HostSize - 1 -> Bytes]
    BY DEF PMTypeOK
  <2>2. CASE host' = host
    BY <2>1, <2>2
  <2>3. CASE host' = [x \in DOMAIN host |->
                        IF x \in h .. h + Len(bytes) - 1 THEN bytes[x - h + 1] ELSE host[x]]
    <3>1. h \in Nat
      BY <1>7
    <3> HIDE DEF h
    <3>2. \A x \in h .. h + Len(bytes) - 1 : bytes[x - h + 1] \in Bytes
      <4> TAKE x \in h .. h + Len(bytes) - 1
      <4>1. x - h + 1 \in 1 .. Len(bytes)
        BY <3>1
      <4> QED
        BY <4>1
    <3> QED
      BY <2>1, <2>3, <3>2
  <2> QED
    BY <2>2, <2>3, <1>4
<1> QED
  BY <1>1, <1>3, <1>5, <1>6, <1>8, TouchedPage, TouchTyped

-----------------------------------------------------------------------------
(* A step that leaves the devices alone keeps the types if each of its     *)
(* results has its type.                                                   *)
LEMMA TypedStep ==
  ASSUME PMTyped, UNCHANGED <<config, next, devices>>,
         lastAccessed' \in devices \cup {NoDevice}, AllocTypeOK', PagemapTyped',
         pagemap' = [r \in Rams |-> pagemap'[r]],
         \A r \in Rams : pagemap'[r] = [i \in DOMAIN pagemap'[r] |-> pagemap'[r][i]],
         host' \in [0 .. HostSize - 1 -> Bytes], phase' \in Phases,
         area' \in [addr : Addrs, data : Seq(Bytes), pos : Nat],
         area'.pos <= Len(area'.data),
         window' \in [start : Addrs, len : 0 .. pageSize, saved : Nat],
         result' \in Accesses
  PROVE  PMTyped'
<1>1. area'.pos \in 0 .. Len(area'.data)
  <2>1. area'.pos \in Nat /\ Len(area'.data) \in Nat
    OBVIOUS
  <2> QED
    BY <2>1
<1>2. /\ window'.start \in Addrs /\ window'.len \in 0 .. pageSize
      /\ window'.saved \in Nat
  OBVIOUS
<1>3. PMTypeOK'
  BY <1>1, <1>2 DEF PMTyped, PMTypeOK, PagemapTyped, Addrs, Phases, Accesses, NoDevice,
                    AllocTypeOK
<1>4. PMShape'
  BY DEF PMTyped, PMShape, Addrs
<1>5. DevicesConfigured'
  BY DEF PMTyped, DevicesConfigured
<1> QED
  BY <1>3, <1>4, <1>5 DEF PMTyped

(* The parts that a step without a store to memory keeps.                  *)
LEMMA KeptTypes ==
  ASSUME PMTyped, UNCHANGED <<allocVars, pagemap, host>>
  PROVE  /\ AllocTypeOK' /\ PagemapTyped'
         /\ pagemap' = [r \in Rams |-> pagemap'[r]]
         /\ \A r \in Rams : pagemap'[r] = [i \in DOMAIN pagemap'[r] |-> pagemap'[r][i]]
         /\ host' \in [0 .. HostSize - 1 -> Bytes]
<1>1. AllocTypeOK'
  BY DEF PMTyped, PMTypeOK, allocVars, AllocTypeOK, HostPages, hostMmapSize, NoChunk, Null
<1> QED
  BY <1>1 DEF PMTyped, PMTypeOK, PMShape, PagemapTyped, Addrs

LEMMA EmptyMap == DOMAIN <<>> = {} /\ <<>> = [i \in DOMAIN <<>> |-> <<>>[i]]
<1>1. <<>> \in Seq(Nat) /\ Len(<<>>) = 0
  OBVIOUS
<1>2. DOMAIN <<>> = 1 .. Len(<<>>)
  BY <1>1
<1>3. <<>> \in [1 .. 0 -> Nat]
  BY <1>1
<1>4. <<>> = [i \in DOMAIN <<>> |-> <<>>[i]]
  BY <1>3
<1> QED
  BY <1>1, <1>2, <1>4

LEMMA InitTyped == ASSUME PMInit PROVE PMTyped
<1>1. AllocTypeOK
  BY AllocInitInv DEF PMInit, AllocInv
<1>2. config \in Seq(Ranges) /\ next \in 1 .. Len(config) + 1
  BY PhysMemConstants DEF PMInit
<1>3. result \in Accesses
  <2>1. <<>> \in Seq(Bytes) /\ 0 \in Addrs
    BY PhysMemConstants DEF Addrs
  <2> QED
    BY <2>1 DEF PMInit, Access, Accesses
<1>4. /\ area \in [addr : Addrs, data : Seq(Bytes), pos : Nat]
      /\ area.pos \in 0 .. Len(area.data)
  BY PhysMemConstants DEF PMInit, NoArea, Addrs
<1>5. window \in [start : Addrs, len : 0 .. pageSize, saved : Nat]
  BY PhysMemConstants, AllocatorConstants DEF PMInit, Addrs, Null
<1>6. host \in [0 .. HostSize - 1 -> Bytes]
  BY PhysMemConstants DEF PMInit
<1>7. /\ \A r \in Rams : pagemap[r] = <<>>
      /\ DOMAIN <<>> = {} /\ <<>> = [i \in DOMAIN <<>> |-> <<>>[i]]
  BY EmptyMap DEF PMInit
<1>8. PMTypeOK
  BY <1>1, <1>2, <1>3, <1>4, <1>5, <1>6, <1>7 DEF PMInit, PMTypeOK, Phases
<1>9. PMShape
  <2>1. pagemap = [r \in Rams |-> pagemap[r]]
    BY DEF PMInit
  <2>2. \A r \in Rams : pagemap[r] = [i \in DOMAIN pagemap[r] |-> pagemap[r][i]]
    BY <1>7
  <2> QED
    BY <2>1, <2>2, <1>4, <1>5 DEF PMShape
<1>10. DevicesConfigured
  BY SMT DEF PMInit, DevicesConfigured
<1> QED
  BY <1>8, <1>9, <1>10 DEF PMTyped

(* PhysMemBuilder keeps the device map in order.                           *)
LEMMA MapTyped == ASSUME PMTyped, mapRAM PROVE PMTyped'
<1> DEFINE range == config[next]
           dev == [left |-> range.left, right |-> range.right, ram |-> next]
<1>1. config \in Seq(Ranges) /\ DOMAIN config \subseteq Rams /\ next \in DOMAIN config
  BY PhysMemConstants DEF PMTyped, PMTypeOK, mapRAM
<1>2. range \in Ranges /\ next \in Rams
  BY <1>1
<1>3. dev \in [left : Addrs, right : Addrs, ram : Rams]
  BY <1>2 DEF Ranges
<1>4. UNCHANGED <<allocVars, config, lastAccessed, pagemap, host, area, window, result>>
  BY DEF mapRAM
<1>5. CASE phase' = "rejected" /\ UNCHANGED <<devices, next>>
  BY <1>4, <1>5, KeptTypes, TypedStep DEF PMTyped, PMTypeOK, PMShape, Phases
<1>6. CASE /\ UNCHANGED phase /\ next' = next + 1
           /\ devices' = devices \cup
                (IF \E d \in devices : d.left = range.left THEN {} ELSE {dev})
  <2>1. devices' \subseteq [left : Addrs, right : Addrs, ram : Rams]
    BY <1>3, <1>6 DEF PMTyped, PMTypeOK
  <2>2. next' \in 1 .. Len(config) + 1
    BY <1>1, <1>6
  <2>3. lastAccessed' \in devices' \cup {NoDevice}
    BY <1>4, <1>6 DEF PMTyped, PMTypeOK
  <2>4. PMTypeOK'
    BY <1>4, <1>6, <2>1, <2>2, <2>3, KeptTypes
       DEF PMTyped, PMTypeOK, PagemapTyped, Addrs, Phases, Accesses, NoDevice, AllocTypeOK
  <2>5. PMShape'
    BY <1>4 DEF PMTyped, PMShape, Addrs
  <2>6. DevicesConfigured'
    <3>1. /\ dev.ram = next /\ dev.ram \in DOMAIN config /\ dev.left = config[dev.ram].left
          /\ dev.right = config[dev.ram].right
          /\ dev.left = range.left /\ dev.right = range.right
          /\ next \in Nat /\ next' = next + 1 /\ dev.right \in Int
      BY <1>1, <1>3, <1>6, PhysMemConstants DEF Addrs
    <3>2. ~Rejects(range)
      BY <1>6 DEF mapRAM, PMTyped, PMTypeOK
    <3> HIDE DEF dev
    <3>3. \A d \in devices' : d \in devices \/ (d = dev /\ \A e \in devices : e.left # range.left)
      BY <1>6
    <3>4. ASSUME NEW d \in devices'
          PROVE  /\ d.ram \in DOMAIN config /\ d.ram < next'
                 /\ d.left = config[d.ram].left /\ d.right = config[d.ram].right
                 /\ \A j \in 1 .. d.ram - 1 : config[j].left # d.left
      <4>1. CASE d \in devices
        <5>1. d.ram \in DOMAIN config /\ d.ram < next
          BY <4>1 DEF PMTyped, DevicesConfigured
        <5>2. d.ram < next'
          BY <1>1, <3>1, <5>1
        <5> QED
          BY <4>1, <5>1, <5>2 DEF PMTyped, DevicesConfigured
      <4>2. CASE d = dev /\ \A e \in devices : e.left # range.left
        <5>1. \A j \in 1 .. next - 1 : config[j].left # range.left
          BY <4>2 DEF PMTyped, DevicesConfigured
        <5>2. dev.ram < next'
          BY <3>1
        <5> QED
          BY <3>1, <4>2, <5>1, <5>2
      <4> QED
        BY <3>3, <4>1, <4>2
    <3>5. ASSUME NEW j \in 1 .. next' - 1
          PROVE  \E d \in devices' : d.left = config[j].left /\ config[j].right <= d.right
      <4>1. CASE j \in 1 .. next - 1
        BY <1>6, <4>1 DEF PMTyped, DevicesConfigured
      <4>2. CASE j = next
        <5>1. CASE dev \in devices'
          BY <3>1, <4>2, <5>1
        <5>2. CASE dev \notin devices'
          <6>1. PICK d \in devices : d.left = range.left
            BY <1>6, <5>2 DEF dev
          <6>2. d.left \in Int /\ d.right \in Int /\ range.right \in Int
            <7>1. d.left \in Addrs /\ d.right \in Addrs
              BY DEF PMTyped, PMTypeOK
            <7> QED
              BY <3>1, <7>1, PhysMemConstants DEF Addrs
          <6>3. range.right <= d.right
            BY <3>2, <6>1, <6>2 DEF Rejects, ContainsRange
          <6> QED
            BY <1>6, <4>2, <6>1, <6>3
        <5> QED
          BY <5>1, <5>2
      <4> QED
        BY <3>1, <4>1, <4>2
    <3>6. \A d, e \in devices' : d.left = e.left => d = e
      BY <3>1, <3>3 DEF PMTyped, DevicesConfigured
    <3>7. config' = config
      BY <1>4
    <3> QED
      BY <3>4, <3>5, <3>6, <3>7 DEF DevicesConfigured
  <2> QED
    BY <2>4, <2>5, <2>6 DEF PMTyped
<1> QED
  BY <1>5, <1>6 DEF mapRAM

LEMMA CallTyped ==
  ASSUME PMTyped, build \/ copyEnd \/ \E c \in AnyArea : storeContArea(c)
  PROVE  PMTyped'
<1>1. UNCHANGED <<allocVars, config, next, devices, lastAccessed, pagemap, host, window,
                  result>> /\ phase' \in Phases
  BY DEF build, copyEnd, storeContArea, Phases
<1>2. area' \in [addr : Addrs, data : Seq(Bytes), pos : Nat] /\ area'.pos <= Len(area'.data)
  <2>1. CASE build
    BY <2>1 DEF build, PMTyped, PMTypeOK, PMShape
  <2>2. CASE copyEnd
    BY <2>2, PhysMemConstants DEF copyEnd, NoArea, Addrs
  <2>3. ASSUME NEW c \in AnyArea, storeContArea(c)
        PROVE  /\ area' \in [addr : Addrs, data : Seq(Bytes), pos : Nat]
               /\ area'.pos <= Len(area'.data)
    BY <2>3 DEF storeContArea, AnyArea
  <2> QED
    BY <2>1, <2>2, <2>3
<1> QED
  BY <1>1, <1>2, KeptTypes, TypedStep DEF PMTyped, PMTypeOK, PMShape

(* Refused and unaligned accesses have their type.                         *)
LEMMA RefusalTyped ==
  ASSUME NEW a \in Addrs, NEW kind \in {"InvalidAddress", "UnalignedAddress"}
  PROVE  Access(kind, a, <<>>) \in Accesses
  BY DEF Access, Accesses

LEMMA LoadTyped ==
  ASSUME PMTyped, NEW a \in Addrs, NEW n \in Nat, load(a, n)
  PROVE  PMTyped'
<1>1. UNCHANGED <<allocVars, config, next, devices, pagemap, host, area, window>>
  BY DEF load
<1>2. CASE NotFound(a) /\ UNCHANGED phase
  BY <1>1, <1>2, RefusalTyped, KeptTypes, TypedStep
     DEF NotFound, PMTyped, PMTypeOK, PMShape
<1>3. ASSUME NEW d \in findDevice(a), lastAccessed' = d,
             \/ /\ result' = Access("UnalignedAddress", a, <<>>)
                /\ UNCHANGED phase
             \/ IF Touched(d.ram, a - d.left)
                     => Served(mapped, getHostAddress(d.ram, a - d.left), n)
                THEN /\ result' = Access("loaded", a, LoadFrom(d.ram, a - d.left, n))
                     /\ UNCHANGED phase
                ELSE phase' = "crashed" /\ UNCHANGED result
      PROVE  PMTyped'
  <2> DEFINE o == a - d.left
             h == getHostAddress(d.ram, o)
  <2>1. d \in devices /\ d.ram \in Rams /\ o \in Addrs
    BY FoundDevice DEF PMTyped
  <2>2. ASSUME Touched(d.ram, o) => Served(mapped, h, n)
        PROVE  LoadFrom(d.ram, o, n) \in Seq(Bytes)
    <3>1. CASE Touched(d.ram, o)
      <4>1. pagemap[d.ram][PageId(o)] \in Nat
        BY <2>1, <3>1 DEF Touched, PMTyped, PMTypeOK
      <4>2. o \in Nat
        BY <2>1, PhysMemConstants DEF Addrs
      <4>3. PageOffset(o) \in 0 .. pageSize - 1
        BY <4>2, OffsetOnPage
      <4>4. h \in Nat
        BY <3>1, <4>1, <4>3, AllocatorConstants DEF getHostAddress
      <4> QED
        BY <2>2, <3>1, <4>4, HostBytesTyped
           DEF LoadFrom, PMTyped, PMTypeOK, AllocTypeOK
    <3>2. CASE ~Touched(d.ram, o)
      BY <3>2, PhysMemConstants DEF LoadFrom
    <3> QED
      BY <3>1, <3>2
  <2>3. result' \in Accesses /\ phase' \in Phases
    <3>1. CASE result' = Access("UnalignedAddress", a, <<>>) /\ UNCHANGED phase
      BY <3>1, RefusalTyped DEF PMTyped, PMTypeOK
    <3>2. CASE /\ Touched(d.ram, o) => Served(mapped, h, n)
               /\ result' = Access("loaded", a, LoadFrom(d.ram, o, n))
               /\ UNCHANGED phase
      BY <3>2, <2>2 DEF PMTyped, PMTypeOK, Access, Accesses
    <3>3. CASE phase' = "crashed" /\ UNCHANGED result
      BY <3>3 DEF PMTyped, PMTypeOK, Phases
    <3> QED
      BY <1>3, <3>1, <3>2, <3>3
  <2> QED
    BY <1>1, <1>3, <2>1, <2>3, KeptTypes, TypedStep DEF PMTyped, PMTypeOK, PMShape
<1> QED
  BY <1>2, <1>3 DEF load, translateAddress

LEMMA StoreTyped ==
  ASSUME PMTyped, NEW a \in Addrs, NEW n \in Nat, NEW bytes \in [1 .. n -> Bytes],
         store(a, bytes)
  PROVE  PMTyped'
<1>1. UNCHANGED <<config, next, devices, area, window>> /\ bytes \in Seq(Bytes)
  BY DEF store
<1>2. CASE NotFound(a) /\ UNCHANGED <<allocVars, phase, pagemap, host>>
  BY <1>1, <1>2, RefusalTyped, KeptTypes, TypedStep
     DEF NotFound, PMTyped, PMTypeOK, PMShape
<1>3. ASSUME NEW d \in findDevice(a), lastAccessed' = d,
             result' = Access("UnalignedAddress", a, <<>>),
             UNCHANGED <<allocVars, phase, pagemap, host>>
      PROVE  PMTyped'
  BY <1>1, <1>3, FoundDevice, RefusalTyped, KeptTypes, TypedStep
     DEF PMTyped, PMTypeOK, PMShape
<1>4. ASSUME NEW d \in findDevice(a), lastAccessed' = d, Write(d, a, bytes, "built")
      PROVE  PMTyped'
  <2>1. d \in devices /\ "built" \in Phases
    BY FoundDevice DEF PMTyped, Phases
  <2> QED
    BY <1>1, <1>4, <2>1, WriteTyped, TypedStep DEF PMTyped, PMTypeOK, PMShape
<1> QED
  BY <1>2, <1>3, <1>4 DEF store, translateAddress

(* One iteration of storeContArea copies at least one byte, and no more    *)
(* than the call or the page has left.                                     *)
LEMMA CopySize ==
  ASSUME PMTyped, area.pos < Len(area.data), NEW o \in Nat
  PROVE  /\ cpySize(o) \in Nat \ {0}
         /\ area.pos + cpySize(o) <= Len(area.data)
         /\ PageOffset(o) + cpySize(o) <= pageSize
<1>1. area.pos \in Nat /\ Len(area.data) \in Nat
  BY DEF PMTyped, PMShape
<1>2. PageOffset(o) \in 0 .. pageSize - 1 /\ pageSize \in Nat
  BY OffsetOnPage, AllocatorConstants
<1> DEFINE x == Len(area.data) - area.pos
           y == pageSize - PageOffset(o)
<1>3. x \in Nat \ {0} /\ y \in Nat \ {0}
  BY <1>1, <1>2
<1>4. cpySize(o) = Min({x, y})
  BY DEF cpySize
<1> HIDE DEF x, y
<1>5. cpySize(o) \in {x, y} /\ cpySize(o) <= x /\ cpySize(o) <= y
  <2>1. x \in Int /\ y \in Int
    BY <1>3
  <2>2. Min({x, y}) \in {x, y} /\ Min({x, y}) <= x /\ Min({x, y}) <= y
    BY <2>1, MinOfTwo
  <2> QED
    BY <1>4, <2>2
<1>6. cpySize(o) \in Nat \ {0}
  BY <1>3, <1>5
<1> QED
  BY <1>1, <1>2, <1>5, <1>6 DEF x, y

LEMMA CopyTyped == ASSUME PMTyped, copyStep PROVE PMTyped'
<1> DEFINE a == (area.addr + area.pos) % ASize
<1>1. /\ area.addr \in Nat /\ area.pos \in Nat /\ area.data \in Seq(Bytes)
      /\ area.addr \in Addrs /\ area.pos < Len(area.data)
  BY PhysMemConstants DEF PMTyped, PMShape, copyStep, Addrs
<1>2. a \in Addrs
  <2>1. area.addr + area.pos \in Nat
    BY <1>1
  <2>2. a \in 0 .. ASize - 1
    BY <2>1, Quotient, PhysMemConstants
  <2> QED
    BY <2>2 DEF Addrs
<1> HIDE DEF a
<1>3. UNCHANGED <<config, next, devices, window>>
  BY DEF copyStep
<1>4. CASE /\ NotFound(a) /\ phase' = "built" /\ area' = NoArea
           /\ UNCHANGED <<allocVars, pagemap, host>>
  <2>1. area' \in [addr : Addrs, data : Seq(Bytes), pos : Nat] /\ area'.pos <= Len(area'.data)
    BY <1>4, PhysMemConstants DEF NoArea, Addrs
  <2>2. result' \in Accesses /\ UNCHANGED lastAccessed /\ phase' \in Phases
    BY <1>2, <1>4, RefusalTyped DEF NotFound, Phases
  <2> QED
    BY <1>3, <1>4, <2>1, <2>2, KeptTypes, TypedStep DEF PMTyped, PMTypeOK, PMShape
<1>5. ASSUME NEW d \in findDevice(a), lastAccessed' = d,
             Write(d, a, SubSeq(area.data, area.pos + 1, area.pos + cpySize(a - d.left)),
                   "copying"),
             area' = [area EXCEPT !.pos = NextPos(a - d.left)]
      PROVE  PMTyped'
  <2> DEFINE o == a - d.left
             bytes == SubSeq(area.data, area.pos + 1, area.pos + cpySize(o))
  <2>1. d \in devices /\ "copying" \in Phases /\ o \in Nat
    BY <1>2, FoundDevice, PhysMemConstants DEF PMTyped, Phases, Addrs
  <2>2. cpySize(o) \in Nat \ {0} /\ area.pos + cpySize(o) <= Len(area.data)
    BY <1>1, <2>1, CopySize
  <2>3. bytes \in Seq(Bytes)
    BY <1>1, <2>2
  <2>4. area' \in [addr : Addrs, data : Seq(Bytes), pos : Nat] /\ area'.pos <= Len(area'.data)
    BY <1>1, <1>5, <2>2 DEF NextPos, PMTyped, PMShape
  <2> HIDE DEF bytes
  <2>5. Write(d, a, bytes, "copying")
    BY <1>5 DEF bytes
  <2> QED
    BY <1>2, <1>3, <1>5, <2>1, <2>3, <2>4, <2>5, WriteTyped, TypedStep
       DEF PMTyped, PMTypeOK, PMShape
<1> QED
  BY <1>4, <1>5 DEF copyStep, a

LEMMA HostAddressTyped ==
  ASSUME PMTyped, NEW r \in Rams, NEW o \in Nat, Touched(r, o)
  PROVE  /\ getHostAddress(r, o) = pagemap[r][PageId(o)] + PageOffset(o)
         /\ pagemap[r][PageId(o)] \in Nat /\ getHostAddress(r, o) \in Nat
<1>1. pagemap[r][PageId(o)] \in Nat
  BY DEF Touched, PMTyped, PMTypeOK
<1>2. PageOffset(o) \in 0 .. pageSize - 1
  BY OffsetOnPage
<1> QED
  BY <1>1, <1>2, AllocatorConstants DEF getHostAddress

LEMMA ReadWordTyped ==
  ASSUME PMTyped, NEW v \in Addrs, NEW h \in Nat, ReadWord(v, h)
  PROVE  phase' \in Phases /\ result' \in Accesses
<1>1. WordSize \in Nat
  BY PhysMemConstants
<1>2. CASE /\ Served(mapped, h, WordSize)
           /\ result' = Access("loaded", v, HostBytes(h, WordSize)) /\ UNCHANGED phase
  <2>1. HostBytes(h, WordSize) \in Seq(Bytes)
    BY <1>1, <1>2, HostBytesTyped DEF PMTyped, PMTypeOK, AllocTypeOK
  <2> QED
    BY <1>2, <2>1 DEF Access, Accesses, PMTyped, PMTypeOK
<1>3. CASE phase' = "crashed" /\ UNCHANGED result
  BY <1>3 DEF Phases, PMTyped, PMTypeOK
<1> QED
  BY <1>2, <1>3 DEF ReadWord

(* A hit lies above the start of the window, by less than its length.      *)
LEMMA HitInside ==
  ASSUME PMTyped, NEW v \in Addrs, InWindow(v)
  PROVE  /\ v - window.start \in 1 .. window.len - 1
         /\ window.start \in Nat /\ window.len \in Nat /\ window.saved \in Nat
<1>1. /\ window.start \in Nat /\ window.len \in Nat /\ window.saved \in Nat
      /\ v \in Nat /\ ASize \in Nat \ {0}
  BY PhysMemConstants, AllocatorConstants DEF PMTyped, PMShape, Addrs
<1> DEFINE e == window.start + window.len
<1>2. e \in Nat
  BY <1>1
<1> HIDE DEF e
<1>3. e % ASize <= e
  <2>1. /\ e \div ASize \in Nat /\ e % ASize \in 0 .. ASize - 1
        /\ e = ASize * (e \div ASize) + (e % ASize)
    BY <1>1, <1>2, Quotient
  <2> DEFINE q == e \div ASize
  <2>2. ASize * q \in Nat
    BY <1>1, <2>1
  <2> HIDE DEF q
  <2>3. e = ASize * q + (e % ASize)
    BY <2>1 DEF q
  <2> QED
    BY <1>1, <1>2, <2>1, <2>2, <2>3
<1>4. v > window.start /\ v < e % ASize /\ e % ASize \in Int
  BY <1>1, <1>2 DEF InWindow, e
<1> QED
  BY <1>1, <1>2, <1>3, <1>4 DEF e

LEMMA HitTyped ==
  ASSUME PMTyped, NEW v \in Addrs, prefetchHit(v)
  PROVE  PMTyped'
<1> DEFINE k == (v - window.start) \div WordSize
<1>1. v - window.start \in Nat /\ window.saved \in Nat /\ WordSize \in Nat \ {0}
  BY HitInside, PhysMemConstants DEF prefetchHit
<1>2. k \in Nat
  BY <1>1, Quotient
<1> HIDE DEF k
<1>3. WordSize * k \in Nat
  BY <1>1, <1>2
<1>4. window.saved + WordSize * k \in Nat /\ ReadWord(v, window.saved + WordSize * k)
  BY <1>1, <1>3 DEF prefetchHit, k
<1>5. phase' \in Phases /\ result' \in Accesses
  BY <1>4, ReadWordTyped
<1>6. UNCHANGED <<allocVars, config, next, devices, lastAccessed, pagemap, host, area, window>>
  BY DEF prefetchHit
<1> QED
  BY <1>5, <1>6, KeptTypes, TypedStep DEF PMTyped, PMTypeOK, PMShape

LEMMA MissTyped ==
  ASSUME PMTyped, NEW v \in Addrs, prefetchMiss(v)
  PROVE  PMTyped'
<1>1. UNCHANGED <<allocVars, config, next, devices, pagemap, host, area>>
  BY DEF prefetchMiss
<1>2. CASE NotFound(v) /\ UNCHANGED <<phase, window>>
  BY <1>1, <1>2, RefusalTyped, KeptTypes, TypedStep
     DEF NotFound, PMTyped, PMTypeOK, PMShape
<1>3. ASSUME NEW d \in findDevice(v), lastAccessed' = d, Touched(d.ram, v - d.left),
             window' = WindowAt(v, d), ReadWord(v, getHostAddress(d.ram, v - d.left))
      PROVE  PMTyped'
  <2> DEFINE o == v - d.left
  <2>1. d \in devices /\ d.ram \in Rams /\ o \in Nat
    BY FoundDevice, PhysMemConstants DEF PMTyped, Addrs
  <2>2. getHostAddress(d.ram, o) \in Nat
    BY <1>3, <2>1, HostAddressTyped
  <2>3. PageOffset(o) \in 0 .. pageSize - 1
    BY <2>1, OffsetOnPage
  <2>4. window' \in [start : Addrs, len : 0 .. pageSize, saved : Nat]
    BY <1>3, <2>2, <2>3, AllocatorConstants DEF WindowAt
  <2>5. phase' \in Phases /\ result' \in Accesses
    BY <1>3, <2>2, ReadWordTyped
  <2> QED
    BY <1>1, <1>3, <2>1, <2>4, <2>5, KeptTypes, TypedStep DEF PMTyped, PMTypeOK, PMShape
<1>4. ASSUME NEW d \in findDevice(v), lastAccessed' = d, ~Touched(d.ram, v - d.left),
             result' = IF Aligned(v - d.left, WordSize)
                       THEN Access("loaded", v, LoadFrom(d.ram, v - d.left, WordSize))
                       ELSE Access("UnalignedAddress", v, <<>>),
             UNCHANGED <<phase, window>>
      PROVE  PMTyped'
  <2>1. LoadFrom(d.ram, v - d.left, WordSize) \in Seq(Bytes)
    BY <1>4, PhysMemConstants DEF LoadFrom
  <2>2. result' \in Accesses
    BY <1>4, <2>1, RefusalTyped DEF Access, Accesses
  <2>3. d \in devices
    BY FoundDevice DEF PMTyped
  <2> QED
    BY <1>1, <1>4, <2>2, <2>3, KeptTypes, TypedStep DEF PMTyped, PMTypeOK, PMShape
<1> QED
  BY <1>2, <1>3, <1>4 DEF prefetchMiss, translateAddress

LEMMA MemTyped == ASSUME PMTyped, [MemNext]_pmVars PROVE PMTyped'
<1>1. /\ LoadAddrs \subseteq Addrs /\ StoreAddrs \subseteq Addrs
      /\ FetchAddrs \subseteq Addrs /\ AccessSizes \subseteq Nat
  BY PhysMemConstants
<1>2. CASE UNCHANGED pmVars
  <2>1. UNCHANGED <<allocVars, config, next, devices, phase, lastAccessed, pagemap, host,
                    area, window, result>>
    BY <1>2 DEF pmVars, allocVars
  <2> QED
    BY <2>1, KeptTypes, TypedStep DEF PMTyped, PMTypeOK, PMShape
<1>3. CASE MemNext
  <2>1. ASSUME NEW a \in LoadAddrs, NEW n \in AccessSizes, load(a, n) PROVE PMTyped'
    BY <1>1, <2>1, LoadTyped
  <2>2. ASSUME NEW a \in StoreAddrs, NEW n \in AccessSizes,
               NEW bytes \in [1 .. n -> Bytes], store(a, bytes)
        PROVE  PMTyped'
    BY <1>1, <2>2, StoreTyped
  <2>3. ASSUME NEW v \in FetchAddrs, prefetchHit(v) \/ prefetchMiss(v) PROVE PMTyped'
    BY <1>1, <2>3, HitTyped, MissTyped
  <2> QED
    BY <1>3, <2>1, <2>2, <2>3, MapTyped, CopyTyped, CallTyped DEF MemNext
<1> QED
  BY <1>2, <1>3

LEMMA PMNextIsMemNext == PMNext => MemNext
<1>1. Areas \subseteq AnyArea
  BY PhysMemConstants DEF AnyArea
<1> QED
  BY <1>1 DEF PMNext, MemNext

-----------------------------------------------------------------------------
(* The types and the device map of the memory system, through every call   *)
(* of PhysMemBuilder, PhysMem, RAM and Prefetcher, for every configuration.*)
THEOREM PMTypedInvariance == PMSpec => []PMTyped
<1>1. PMInit => PMTyped
  BY InitTyped
<1>2. PMTyped /\ [PMNext]_pmVars => PMTyped'
  BY MemTyped, PMNextIsMemNext
<1> QED
  BY <1>1, <1>2, PTL DEF PMSpec

(* The type invariant of the memory system: whatever page the host has     *)
(* given and whatever the window holds, an access that the host serves     *)
(* reads and writes bytes of host memory.                                  *)
THEOREM PMTyping == PMSpec => []PMTypeOK
<1>1. PMTyped => PMTypeOK
  BY DEF PMTyped
<1> QED
  BY <1>1, PMTypedInvariance, PTL

-----------------------------------------------------------------------------
(* A multiple of n below a multiple of n is below it by n.                 *)
LEMMA RoomForOneMore ==
  ASSUME NEW n \in Nat \ {0}, NEW x \in Int, NEW y \in Int, n * x < n * y
  PROVE  n * x + n <= n * y
<1>1. x + 1 <= y
  <2>1. SUFFICES ASSUME y <= x PROVE FALSE
    OBVIOUS
  <2>2. PICK e \in Nat : x = y + e
    BY <2>1
  <2>3. n * x = n * y + n * e /\ n * e >= 0
    BY <2>2
  <2> QED
    BY <2>3
<1>2. PICK e \in Nat : y = (x + 1) + e
  BY <1>1
<1>3. n * y = n * x + n + n * e /\ n * e >= 0
  BY <1>2
<1> QED
  BY <1>3

LEMMA WholeQuotient ==
  ASSUME NEW x \in Nat, NEW n \in Nat \ {0}, x % n = 0
  PROVE  x \div n \in Nat /\ x = n * (x \div n)
<1> DEFINE q == x \div n
<1>1. q \in Nat /\ x = n * q + 0
  BY Quotient
<1> HIDE DEF q
<1>2. n * q \in Nat
  BY <1>1
<1>3. x = n * q
  BY <1>1, <1>2
<1> QED
  BY <1>1, <1>3 DEF q

LEMMA MultipleMod ==
  ASSUME NEW x \in Nat, NEW n \in Nat \ {0}, NEW k \in Int, x = n * k
  PROVE  x % n = 0
<1> DEFINE g == x \div n
           h == x % n
<1>1. g \in Nat /\ h \in 0 .. n - 1 /\ x = n * g + h
  BY Quotient
<1> HIDE DEF g, h
<1>2. SUFFICES ASSUME h # 0 PROVE FALSE
  BY DEF h
<1>3. n * g \in Int /\ n * k \in Int
  BY <1>1
<1>4. n * g < n * k /\ n * k < n * g + n
  BY <1>1, <1>2, <1>3
<1>5. n * g + n <= n * k
  BY <1>1, <1>4, RoomForOneMore
<1> QED
  BY <1>3, <1>4, <1>5

(* The difference of multiples.                                            *)
LEMMA MultipleMinus ==
  ASSUME NEW x \in Nat, NEW y \in Nat, NEW n \in Nat \ {0}, x % n = 0, y % n = 0, y <= x
  PROVE  (x - y) % n = 0
<1> DEFINE p == x \div n
           q == y \div n
<1>1. p \in Nat /\ q \in Nat /\ x = n * p /\ y = n * q
  BY WholeQuotient
<1> HIDE DEF p, q
<1>2. x - y = n * (p - q) /\ p - q \in Int /\ x - y \in Nat
  BY <1>1
<1> QED
  BY <1>2, MultipleMod

(* An aligned access lies on one page.                                     *)
LEMMA AlignedOnPage ==
  ASSUME NEW o \in Nat, NEW n \in AccessSizes, o % n = 0
  PROVE  PageOffset(o) + n <= pageSize /\ PageOffset(o) % n = 0
<1> DEFINE q == o \div n
           s == pageSize \div n
           i == PageId(o)
           f == PageOffset(o)
<1>1. n \in Nat \ {0} /\ pageSize % n = 0 /\ pageSize \in Nat
  BY PhysMemConstants, AccessFitsPage, AllocatorConstants
<1>2. q \in Nat /\ o = n * q
  BY <1>1, WholeQuotient
<1>3. s \in Nat /\ pageSize = n * s
  BY <1>1, WholeQuotient
<1>4. i \in Nat /\ f \in 0 .. pageSize - 1 /\ o = pageSize * i + f
  BY OffsetOnPage
<1> DEFINE k == q - s * i
<1> HIDE DEF q, s, i, f
<1>5. k \in Int
  BY <1>2, <1>3, <1>4
<1>6. f = n * k
  <2>1. n * k = n * q - (n * s) * i
    BY <1>1, <1>2, <1>3, <1>4
  <2> QED
    BY <2>1, <1>1, <1>2, <1>3, <1>4
<1> HIDE DEF k
<1>7. n * k < n * s
  BY <1>1, <1>3, <1>4, <1>6
<1>8. n * k + n <= n * s
  BY <1>1, <1>3, <1>5, <1>7, RoomForOneMore
<1>9. f % n = 0
  <2>1. f \in Nat
    BY <1>1, <1>4
  <2> QED
    BY <2>1, <1>1, <1>5, <1>6, MultipleMod
<1>10. f + n <= pageSize
  BY <1>3, <1>6, <1>8
<1> QED
  BY <1>9, <1>10 DEF f

(* A store through touchHostAddress, on one page of a device.              *)
Stores(a, d, bytes) ==
  /\ a \in Addrs /\ d \in findDevice(a)
  /\ bytes \in Seq(Bytes) /\ Len(bytes) > 0
  /\ PageOffset(a - d.left) + Len(bytes) <= pageSize
  /\ \E then \in {"built", "copying"} : Write(d, a, bytes, then)
  /\ lastAccessed' = d
  /\ phase \in {"built", "copying"}
  /\ UNCHANGED <<config, next, devices, window>>

(* A load or a fetch. *)
Reads ==
  \/ \E a \in LoadAddrs, n \in AccessSizes : load(a, n)
  \/ \E v \in FetchAddrs : prefetchHit(v) \/ prefetchMiss(v)

(* A step that stores nothing; only a read can then crash.                 *)
Quiet ==
  /\ UNCHANGED <<allocVars, pagemap, host>>
  /\ phase' = "crashed" => phase = "crashed" \/ Reads

(* An iteration of storeContArea that finds a device stores to it.         *)
LEMMA CopyStores ==
  ASSUME PMTyped, copyStep,
         ~(NotFound((area.addr + area.pos) % ASize) /\ UNCHANGED <<pagemap, host>>)
  PROVE  \E a, d, bytes : Stores(a, d, bytes)
<1> DEFINE a == (area.addr + area.pos) % ASize
<1>1. /\ area.addr \in Nat /\ area.pos \in Nat /\ area.data \in Seq(Bytes)
      /\ area.pos < Len(area.data)
  BY PhysMemConstants DEF PMTyped, PMShape, copyStep, Addrs
<1>2. a \in Addrs
  <2>1. area.addr + area.pos \in Nat
    BY <1>1
  <2>2. a \in 0 .. ASize - 1
    BY <2>1, Quotient, PhysMemConstants
  <2> QED
    BY <2>2 DEF Addrs
<1> HIDE DEF a
<1>3. ASSUME NEW d \in findDevice(a), lastAccessed' = d,
             Write(d, a, SubSeq(area.data, area.pos + 1, area.pos + cpySize(a - d.left)),
                   "copying")
      PROVE  \E b : Stores(a, d, b)
  <2> DEFINE o == a - d.left
             bytes == SubSeq(area.data, area.pos + 1, area.pos + cpySize(o))
  <2>1. o \in Nat
    BY <1>2, FoundDevice, PhysMemConstants DEF PMTyped, Addrs
  <2>2. /\ cpySize(o) \in Nat \ {0} /\ area.pos + cpySize(o) <= Len(area.data)
        /\ PageOffset(o) + cpySize(o) <= pageSize
    BY <1>1, <2>1, CopySize
  <2>3. bytes \in Seq(Bytes) /\ Len(bytes) = cpySize(o)
    BY <1>1, <2>2
  <2>4. UNCHANGED <<config, next, devices, window>> /\ phase = "copying"
    BY DEF copyStep
  <2> HIDE DEF bytes
  <2>5. Write(d, a, bytes, "copying")
    BY <1>3 DEF bytes
  <2>6. Len(bytes) > 0 /\ PageOffset(o) + Len(bytes) <= pageSize
    BY <2>2, <2>3
  <2>7. Stores(a, d, bytes)
    BY <1>2, <1>3, <2>3, <2>4, <2>5, <2>6 DEF Stores
  <2> QED
    BY <2>7
<1> QED
  BY <1>3 DEF copyStep, a

(* The one way in which a step changes pages, page maps and host memory.   *)
LEMMA MemShapes ==
  ASSUME PMTyped, [MemNext]_pmVars
  PROVE  Quiet \/ \E a, d, bytes : Stores(a, d, bytes)
<1>1. CASE UNCHANGED pmVars
  BY <1>1 DEF pmVars, allocVars, Quiet
<1>2. ASSUME NEW a \in StoreAddrs, NEW n \in AccessSizes,
             NEW bytes \in [1 .. n -> Bytes], store(a, bytes)
      PROVE  Quiet \/ \E x, d, b : Stores(x, d, b)
  <2>1. a \in Addrs /\ n \in Nat \ {0} /\ bytes \in Seq(Bytes) /\ Len(bytes) = n
    BY PhysMemConstants
  <2>2. ASSUME NEW d \in findDevice(a), lastAccessed' = d, Aligned(a - d.left, n),
               Write(d, a, bytes, "built")
        PROVE  Stores(a, d, bytes)
    <3>1. a - d.left \in Nat
      BY <2>1, FoundDevice, PhysMemConstants DEF PMTyped, Addrs
    <3>2. PageOffset(a - d.left) + n <= pageSize
      BY <3>1, <2>2, AlignedOnPage DEF Aligned
    <3>3. UNCHANGED <<config, next, devices, window>> /\ phase = "built"
      BY <1>2 DEF store
    <3> QED
      BY <2>1, <2>2, <3>2, <3>3 DEF Stores
  <2> QED
    BY <1>2, <2>1, <2>2 DEF store, translateAddress, Quiet
<1>3. CASE copyStep
  <2>1. CASE NotFound((area.addr + area.pos) % ASize) /\ UNCHANGED <<pagemap, host>>
    BY <1>3, <2>1 DEF copyStep, NotFound, Quiet
  <2> QED
    BY <1>3, <2>1, CopyStores
<1>4. CASE mapRAM \/ build \/ copyEnd
  BY <1>4 DEF mapRAM, build, copyEnd, Quiet
<1>5. ASSUME NEW a \in LoadAddrs, NEW n \in AccessSizes, load(a, n) PROVE Quiet
  <2>1. UNCHANGED <<allocVars, pagemap, host>>
    BY <1>5 DEF load
  <2> QED
    BY <1>5, <2>1 DEF Quiet, Reads
<1>6. ASSUME NEW c \in AnyArea, storeContArea(c) PROVE Quiet
  BY <1>6 DEF storeContArea, Quiet
<1>7. ASSUME NEW v \in FetchAddrs, prefetchHit(v) \/ prefetchMiss(v) PROVE Quiet
  <2>1. UNCHANGED <<allocVars, pagemap, host>>
    BY <1>7 DEF prefetchHit, prefetchMiss
  <2> QED
    BY <1>7, <2>1 DEF Quiet, Reads
<1> QED
  BY <1>1, <1>2, <1>3, <1>4, <1>5, <1>6, <1>7 DEF MemNext

(* Every step of the memory system is a step of its page allocators.       *)
LEMMA MemAllocates ==
  ASSUME PMTyped, [MemNext]_pmVars
  PROVE  [AllocNext]_allocVars
<1>1. ASSUME NEW a, NEW d, NEW bytes, Stores(a, d, bytes) PROVE [AllocNext]_allocVars
  <2>1. PICK then \in {"built", "copying"} : Write(d, a, bytes, then)
    BY <1>1 DEF Stores
  <2>2. then \in Phases
    BY DEF Phases
  <2> QED
    BY <1>1, <2>1, <2>2, WriteTyped DEF PMTyped, Stores
<1> QED
  BY <1>1, MemShapes DEF Quiet

(* The memory system implements the specification of the page allocators,  *)
(* so that what is proved of RAMPageAllocator holds however RAM calls it.  *)
THEOREM PMImplementsAlloc == PMSpec => AllocSpec
<1>1. PMInit => AllocInit
  BY DEF PMInit
<1>2. PMTyped /\ [PMNext]_pmVars => [AllocNext]_allocVars
  BY MemAllocates, PMNextIsMemNext
<1> QED
  BY <1>1, <1>2, PMTypedInvariance, PTL DEF PMSpec, AllocSpec

-----------------------------------------------------------------------------
(* If ranges do not overlap, one device at most contains an address.       *)
LEMMA OneDevice ==
  ASSUME RangesApart, PMTyped, NEW a \in Addrs, NEW d \in devices, Contains(d, a)
  PROVE  Scan(a) = {d} /\ \A e \in devices : Contains(e, a) => e = d
<1>1. ASSUME NEW e \in devices, Contains(e, a) PROVE e = d
  <2>1. /\ d.ram \in DOMAIN config /\ e.ram \in DOMAIN config
        /\ d.left = config[d.ram].left /\ d.right = config[d.ram].right
        /\ e.left = config[e.ram].left /\ e.right = config[e.ram].right
    BY DEF PMTyped, DevicesConfigured
  <2>2. Contains(config[d.ram], a) /\ Contains(config[e.ram], a)
    BY <1>1, <2>1 DEF Contains
  <2>3. config \in Configs
    BY DEF PMTyped, PMTypeOK
  <2>4. d.left = e.left
    BY <2>1, <2>2, <2>3 DEF RangesApart
  <2> QED
    BY <2>4 DEF PMTyped, DevicesConfigured
<1>2. d.left \in Int
  BY PhysMemConstants DEF PMTyped, PMTypeOK, Addrs
<1>3. d.left <= d.left
  BY <1>2
<1> QED
  BY <1>1, <1>3 DEF Scan

LEMMA LookupIsScan ==
  ASSUME RangesApart, PMTyped, NEW a \in Addrs
  PROVE  findDevice(a) = Scan(a)
<1>1. CASE Contains(lastAccessed, a)
  <2>1. findDevice(a) = {lastAccessed}
    BY <1>1 DEF findDevice
  <2>2. lastAccessed \in devices
    BY <2>1, FoundDevice DEF PMTyped
  <2> QED
    BY <1>1, <2>1, <2>2, OneDevice
<1>2. CASE ~Contains(lastAccessed, a)
  BY <1>2 DEF findDevice
<1> QED
  BY <1>1, <1>2

(* The device cached by findDevice never changes which device serves an    *)
(* address, for every list of ranges that do not overlap and every order   *)
(* of accesses.                                                            *)
THEOREM PMLookupIgnoresHistory ==
  ASSUME RangesApart
  PROVE  PMSpec => []LookupIgnoresHistory
<1>1. PMTyped => LookupIgnoresHistory
  BY LookupIsScan DEF LookupIgnoresHistory
<1> QED
  BY <1>1, PMTypedInvariance, PTL

-----------------------------------------------------------------------------
(* The window is empty until the memory is built, and begins at a fetched  *)
(* address.                                                                *)
WindowInv ==
  /\ WindowOnPage
  /\ phase \in {"building", "rejected"} => window.len = 0
  /\ window.len > 0 => window.start \in FetchAddrs

(* Pages, once entered in a page map, stay where they are.                 *)
LEMMA PagesStay ==
  ASSUME PMTyped, [MemNext]_pmVars
  PROVE  \A r \in Rams : \A i \in DOMAIN pagemap[r] :
           i \in DOMAIN pagemap'[r] /\ pagemap'[r][i] = pagemap[r][i]
<1>1. CASE Quiet
  BY <1>1 DEF Quiet
<1>2. ASSUME NEW a, NEW d, NEW bytes, Stores(a, d, bytes)
      PROVE  \A r \in Rams : \A i \in DOMAIN pagemap[r] :
               i \in DOMAIN pagemap'[r] /\ pagemap'[r][i] = pagemap[r][i]
  <2>1. PICK page \in 0 .. HostSize - 1 : touchPageAddress(d.ram, a - d.left, page)
    BY <1>2 DEF Stores, Write
  <2>2. d.ram \in Rams /\ a - d.left \in Addrs
    BY <1>2, FoundDevice DEF Stores, PMTyped
  <2> QED
    BY <2>1, <2>2, TouchedPage DEF PMTyped
<1> QED
  BY <1>1, <1>2, MemShapes

(* A window whose device and page stay is still on its page.               *)
LEMMA WindowStays ==
  ASSUME PMTyped, WindowOnPage, [MemNext]_pmVars, UNCHANGED <<devices, window>>
  PROVE  WindowOnPage'
<1>1. SUFFICES ASSUME window.len > 0
               PROVE  \E d \in Scan(window.start)' :
                        /\ Touched(d.ram, window.start - d.left)'
                        /\ window.saved = getHostAddress(d.ram, window.start - d.left)'
                        /\ PageOffset(window.start - d.left) + window.len <= pageSize
  BY DEF WindowOnPage, PageOffset
<1>2. PICK d \in Scan(window.start) :
        /\ Touched(d.ram, window.start - d.left)
        /\ window.saved = getHostAddress(d.ram, window.start - d.left)
        /\ PageOffset(window.start - d.left) + window.len <= pageSize
  BY <1>1 DEF WindowOnPage
<1>3. Scan(window.start)' = Scan(window.start)
  BY DEF Scan, Contains
<1>4. d.ram \in Rams
  BY <1>2 DEF Scan, PMTyped, PMTypeOK
<1>5. /\ PageId(window.start - d.left) \in DOMAIN pagemap'[d.ram]
      /\ pagemap'[d.ram][PageId(window.start - d.left)]
           = pagemap[d.ram][PageId(window.start - d.left)]
  BY <1>2, <1>4, PagesStay DEF Touched
<1>6. /\ Touched(d.ram, window.start - d.left)'
      /\ getHostAddress(d.ram, window.start - d.left)'
           = getHostAddress(d.ram, window.start - d.left)
  BY <1>2, <1>5 DEF Touched, getHostAddress, PageId, PageOffset, Null
<1> QED
  BY <1>2, <1>3, <1>6

LEMMA WindowStep ==
  ASSUME RangesApart, PMTyped, WindowInv, [MemNext]_pmVars
  PROVE  WindowInv'
<1>1. CASE /\ UNCHANGED <<devices, window>>
           /\ phase' \in {"building", "rejected"} => phase \in {"building", "rejected"}
  <2>1. WindowOnPage'
    BY <1>1, WindowStays DEF WindowInv
  <2> QED
    BY <1>1, <2>1 DEF WindowInv
<1>2. CASE UNCHANGED pmVars
  BY <1>1, <1>2 DEF pmVars
<1>3. CASE mapRAM
  <2>1. window.len = 0 /\ UNCHANGED window
    BY <1>3 DEF mapRAM, WindowInv
  <2> QED
    BY <2>1 DEF WindowInv, WindowOnPage
<1>4. CASE build \/ copyStep \/ copyEnd
  <2>1. UNCHANGED <<devices, window>> /\ phase' \notin {"building", "rejected"}
    BY <1>4 DEF build, copyStep, copyEnd, Write
  <2> QED
    BY <1>1, <2>1
<1>5. ASSUME NEW a \in LoadAddrs, NEW n \in AccessSizes, load(a, n) PROVE WindowInv'
  <2>1. UNCHANGED <<devices, window>> /\ phase' \notin {"building", "rejected"}
    BY <1>5 DEF load
  <2> QED
    BY <1>1, <2>1
<1>6. ASSUME NEW a \in StoreAddrs, NEW n \in AccessSizes,
             NEW bytes \in [1 .. n -> Bytes], store(a, bytes)
      PROVE  WindowInv'
  <2>1. UNCHANGED <<devices, window>> /\ phase' \notin {"building", "rejected"}
    BY <1>6 DEF store, Write
  <2> QED
    BY <1>1, <2>1
<1>7. ASSUME NEW c \in AnyArea, storeContArea(c) PROVE WindowInv'
  <2>1. UNCHANGED <<devices, window>> /\ phase' \notin {"building", "rejected"}
    BY <1>7 DEF storeContArea
  <2> QED
    BY <1>1, <2>1
<1>8. ASSUME NEW v \in FetchAddrs, prefetchHit(v) PROVE WindowInv'
  <2>1. UNCHANGED <<devices, window>> /\ phase' \notin {"building", "rejected"}
    BY <1>8 DEF prefetchHit, ReadWord
  <2> QED
    BY <1>1, <2>1
<1>9. ASSUME NEW v \in FetchAddrs, prefetchMiss(v) PROVE WindowInv'
  <2>1. UNCHANGED <<devices, pagemap>> /\ phase' \notin {"building", "rejected"}
    BY <1>9 DEF prefetchMiss, ReadWord, NotFound
  <2>2. CASE UNCHANGED window
    BY <1>1, <2>1, <2>2
  <2>3. ASSUME NEW d \in findDevice(v), Touched(d.ram, v - d.left), window' = WindowAt(v, d)
        PROVE  WindowInv'
    <3>1. v \in Addrs
      BY PhysMemConstants
    <3>2. d \in Scan(v) /\ v - d.left \in Nat
      BY <3>1, LookupIsScan, FoundDevice, PhysMemConstants DEF PMTyped, Addrs
    <3>3. PageOffset(v - d.left) \in 0 .. pageSize - 1
      BY <3>2, OffsetOnPage
    <3>4. /\ window'.start = v /\ window'.len = pageSize - PageOffset(v - d.left)
          /\ window'.saved = getHostAddress(d.ram, v - d.left)
      BY <2>3 DEF WindowAt
    <3>5. PageOffset(v - d.left) + window'.len <= pageSize
      BY <3>3, <3>4, AllocatorConstants
    <3>6. /\ Scan(v)' = Scan(v) /\ Touched(d.ram, v - d.left)'
          /\ getHostAddress(d.ram, v - d.left)' = getHostAddress(d.ram, v - d.left)
      BY <2>1, <2>3 DEF Scan, Contains, Touched, getHostAddress, PageId, PageOffset, Null
    <3>7. WindowOnPage'
      BY <3>2, <3>4, <3>5, <3>6 DEF WindowOnPage, PageOffset, Scan, Touched, getHostAddress
    <3> QED
      BY <2>1, <3>4, <3>7 DEF WindowInv
  <2> QED
    BY <1>9, <2>2, <2>3 DEF prefetchMiss, translateAddress
<1> QED
  BY <1>2, <1>3, <1>4, <1>5, <1>6, <1>7, <1>8, <1>9 DEF MemNext

LEMMA WindowInit == ASSUME PMInit PROVE WindowInv
  BY DEF PMInit, WindowInv, WindowOnPage

(* The pointer of Prefetcher::loadWord stays on the page it was taken from *)
(* through every sequence of stores, copies and allocations.               *)
THEOREM PMWindowOnPage ==
  ASSUME RangesApart
  PROVE  PMSpec => []WindowOnPage
<1>1. PMInit => WindowInv
  BY WindowInit
<1>2. PMTyped /\ WindowInv /\ [PMNext]_pmVars => WindowInv'
  BY WindowStep, PMNextIsMemNext
<1>3. WindowInv => WindowOnPage
  BY DEF WindowInv
<1> QED
  BY <1>1, <1>2, <1>3, PMTypedInvariance, PTL DEF PMSpec

-----------------------------------------------------------------------------
(* What stands in a page map was handed out by an allocator, and nullptr   *)
(* stands there only in a simulator that the host has killed.              *)
PagesKnown ==
  \A r \in Rams : \A i \in DOMAIN pagemap[r] :
    pagemap[r][i] # Null => \E k \in DOMAIN pages : pages[k] = pagemap[r][i]

NoNullPage ==
  phase # "crashed" => \A r \in Rams : \A i \in DOMAIN pagemap[r] : pagemap[r][i] # Null

CrashInv ==
  /\ AllocInv
  /\ PagesKnown
  /\ NoNullPage
  /\ CrashOnlyWithoutMemory

(* The host serves what lies on a page.                                    *)
LEMMA PageIsServed ==
  ASSUME AllocInv, NEW k \in DOMAIN pages, NEW f \in Nat, NEW n \in Nat, f + n <= pageSize
  PROVE  Served(mapped, pages[k] + f, n)
<1>1. PICK m \in mapped : m <= pages[k] /\ pages[k] + pageSize <= m + hostMmapSize
  BY DEF AllocInv, PagesOwned
<1>2. m \in Nat /\ pages[k] \in Nat /\ pageSize \in Nat /\ hostMmapSize \in Nat
  BY AllocatorConstants, RegionSize DEF AllocInv, AllocTypeOK, HostPages
<1>3. ASSUME NEW x \in pages[k] + f .. pages[k] + f + n - 1
      PROVE  m <= x /\ x < m + hostMmapSize
  BY <1>1, <1>2
<1> QED
  BY <1>3 DEF Served

(* touchPageAddress hands out a page of an allocator or none at all.       *)
LEMMA TouchedKnown ==
  ASSUME PMTyped, PagesKnown, NEW r \in Rams, NEW o \in Addrs,
         NEW page \in 0 .. HostSize - 1, touchPageAddress(r, o, page)
  PROVE  /\ page # Null => \E k \in DOMAIN pages' : pages'[k] = page
         /\ PagesKnown'
<1>1. \A k \in DOMAIN pages : k \in DOMAIN pages' /\ pages'[k] = pages[k]
  <2>1. pages' = pages \/ pages' = Append(pages, page)
    BY DEF touchPageAddress, AllocFromBack, AllocFromNew, AllocFails, allocVars
  <2>2. pages \in Seq(Nat) /\ page \in Nat
    BY AllocatorConstants DEF PMTyped, PMTypeOK, AllocTypeOK
  <2> QED
    BY <2>1, <2>2
<1>2. ASSUME page # Null PROVE \E k \in DOMAIN pages' : pages'[k] = page
  <2>1. CASE Touched(r, o)
    <3>1. page = pagemap[r][PageId(o)] /\ pages' = pages
      BY <2>1 DEF touchPageAddress, allocVars
    <3> QED
      BY <1>2, <2>1, <3>1 DEF PagesKnown, Touched
  <2>2. CASE ~Touched(r, o)
    <3>1. pages' = Append(pages, page)
      BY <1>2, <2>2 DEF touchPageAddress, AllocFromBack, AllocFromNew
    <3>2. pages \in Seq(Nat) /\ page \in Nat
      BY AllocatorConstants DEF PMTyped, PMTypeOK, AllocTypeOK
    <3>3. Len(pages) + 1 \in DOMAIN pages' /\ pages'[Len(pages) + 1] = page
      BY <3>1, <3>2
    <3> QED
      BY <3>3
  <2> QED
    BY <2>1, <2>2
<1>3. ASSUME NEW q \in Rams, NEW i \in DOMAIN pagemap'[q], pagemap'[q][i] # Null
      PROVE  \E k \in DOMAIN pages' : pages'[k] = pagemap'[q][i]
  <2>1. CASE i \in DOMAIN pagemap[q]
    <3>1. pagemap'[q][i] = pagemap[q][i]
      BY <2>1, TouchedPage DEF PMTyped
    <3> QED
      BY <1>1, <1>3, <2>1, <3>1 DEF PagesKnown
  <2>2. CASE q = r /\ i = PageId(o)
    BY <1>2, <1>3, <2>2, TouchedPage DEF PMTyped
  <2> QED
    BY <2>1, <2>2, TouchedPage DEF PMTyped
<1> QED
  BY <1>2, <1>3 DEF PagesKnown, Null

(* A store crashes only for want of a page.                                *)
LEMMA StoreCrash ==
  ASSUME PageFitsHost, PMTyped, CrashInv, [MemNext]_pmVars,
         NEW a, NEW d, NEW bytes, Stores(a, d, bytes)
  PROVE  CrashInv'
<1> DEFINE o == a - d.left
           i == PageId(o)
<1>1. d.ram \in Rams /\ o \in Addrs
  BY FoundDevice DEF Stores, PMTyped
<1>2. PICK page \in 0 .. HostSize - 1, then \in {"built", "copying"} :
        LET h == page + PageOffset(o)
            served == page # Null /\ Served(mapped', h, Len(bytes))
        IN  /\ touchPageAddress(d.ram, o, page)
            /\ phase' = IF served THEN then ELSE "crashed"
  BY DEF Stores, Write
<1>3. touchPageAddress(d.ram, o, page)
  BY <1>2
<1>4. AllocInv'
  BY AllocStepInv, MemAllocates DEF CrashInv
<1>5. PagesKnown'
  BY <1>1, <1>3, TouchedKnown DEF CrashInv
<1>6. i \in DOMAIN pagemap'[d.ram] /\ pagemap'[d.ram][i] = page
  BY <1>1, <1>3, TouchedPage DEF PMTyped
<1>7. CASE page = Null
  <2>1. phase' = "crashed"
    BY <1>2, <1>7
  <2>2. CrashOnlyWithoutMemory'
    BY <1>1, <1>6, <1>7 DEF CrashOnlyWithoutMemory, Null
  <2> QED
    BY <1>4, <1>5, <2>1, <2>2 DEF CrashInv, NoNullPage
<1>8. CASE page # Null
  <2>1. PICK k \in DOMAIN pages' : pages'[k] = page
    BY <1>1, <1>3, <1>8, TouchedKnown DEF CrashInv
  <2>2. PageOffset(o) \in Nat /\ Len(bytes) \in Nat /\ PageOffset(o) + Len(bytes) <= pageSize
    <3>1. o \in Nat
      BY <1>1, PhysMemConstants DEF Addrs
    <3>2. PageOffset(o) \in 0 .. pageSize - 1
      BY <3>1, OffsetOnPage
    <3> QED
      BY <3>2, AllocatorConstants DEF Stores
  <2> HIDE DEF o
  <2>3. Served(mapped', page + PageOffset(o), Len(bytes))
    <3>1. PICK m \in mapped' : m <= page /\ page + pageSize <= m + hostMmapSize
      BY <1>4, <2>1 DEF AllocInv, PagesOwned, hostMmapSize
    <3>2. m \in Nat /\ page \in Nat /\ pageSize \in Nat /\ hostMmapSize \in Nat
      BY <1>4, AllocatorConstants, RegionSize DEF AllocInv, AllocTypeOK, HostPages
    <3>3. ASSUME NEW x \in page + PageOffset(o) .. page + PageOffset(o) + Len(bytes) - 1
          PROVE  m <= x /\ x < m + hostMmapSize
      BY <2>2, <3>1, <3>2
    <3> QED
      BY <3>3 DEF Served
  <2>4. phase' \in {"built", "copying"}
    BY <1>2, <1>8, <2>3
  <2>5. phase # "crashed"
    BY DEF Stores
  <2>6. ASSUME NEW q \in Rams, NEW j \in DOMAIN pagemap'[q] PROVE pagemap'[q][j] # Null
    <3>1. CASE j \in DOMAIN pagemap[q]
      BY <2>5, <3>1, PagesStay DEF CrashInv, NoNullPage
    <3>2. CASE q = d.ram /\ j = i
      BY <1>6, <1>8, <3>2
    <3> QED
      BY <1>1, <1>3, <3>1, <3>2, TouchedPage DEF PMTyped, o
  <2>7. NoNullPage' /\ CrashOnlyWithoutMemory'
    BY <2>4, <2>6 DEF NoNullPage, CrashOnlyWithoutMemory, Null
  <2> QED
    BY <1>4, <1>5, <2>7 DEF CrashInv
<1> QED
  BY <1>7, <1>8

LEMMA ReadIsServed ==
  ASSUME PMTyped, CrashInv, phase # "crashed", NEW r \in Rams, NEW i \in DOMAIN pagemap[r],
         NEW f \in Nat, NEW n \in Nat, f + n <= pageSize
  PROVE  Served(mapped, pagemap[r][i] + f, n)
<1>1. PICK k \in DOMAIN pages : pages[k] = pagemap[r][i]
  BY DEF CrashInv, PagesKnown, NoNullPage
<1> QED
  BY <1>1, PageIsServed DEF CrashInv

(* Device, offset and place on the page of a fetched address.              *)
LEMMA FetchedWord ==
  ASSUME AlignedFetches, PMTyped, NEW v \in FetchAddrs, NEW d \in devices, Contains(d, v)
  PROVE  /\ v - d.left \in Nat /\ (v - d.left) % WordSize = 0
         /\ PageOffset(v - d.left) \in Nat /\ PageOffset(v - d.left) % WordSize = 0
         /\ PageOffset(v - d.left) + WordSize <= pageSize
<1>1. /\ config \in Configs /\ d.ram \in DOMAIN config
      /\ d.left = config[d.ram].left /\ d.right = config[d.ram].right
  BY DEF PMTyped, PMTypeOK, DevicesConfigured
<1>2. (v - d.left) % WordSize = 0
  BY <1>1 DEF AlignedFetches, Contains
<1>3. v - d.left \in Nat
  <2>1. d.left \in Addrs /\ v \in Addrs /\ d.left <= v
    BY PhysMemConstants DEF Contains, PMTyped, PMTypeOK
  <2> QED
    BY <2>1, PhysMemConstants DEF Addrs
<1>4. PageOffset(v - d.left) \in 0 .. pageSize - 1
  BY <1>3, OffsetOnPage
<1> QED
  BY <1>2, <1>3, <1>4, AlignedOnPage, PhysMemConstants, AllocatorConstants

(* Where a hit in the window reads: a word of the page the window is on.   *)
LEMMA HitOnPage ==
  ASSUME AlignedFetches, PMTyped, WindowInv, NEW v \in Addrs, InWindow(v)
  PROVE  \E d \in Scan(window.start) :
           LET f == PageOffset(window.start - d.left)
               w == WordSize * ((v - window.start) \div WordSize)
           IN  /\ Touched(d.ram, window.start - d.left)
               /\ window.saved = getHostAddress(d.ram, window.start - d.left)
               /\ window.start \in FetchAddrs /\ window.start - d.left \in Nat
               /\ f \in Nat /\ w \in Nat /\ w <= v - window.start
               /\ f + window.len <= pageSize
               /\ f + w + WordSize <= pageSize
<1>1. /\ v - window.start \in 1 .. window.len - 1
      /\ window.start \in Nat /\ window.len \in Nat /\ window.saved \in Nat
  BY HitInside
<1>2. window.len > 0
  BY <1>1
<1>3. PICK d \in Scan(window.start) :
        /\ Touched(d.ram, window.start - d.left)
        /\ window.saved = getHostAddress(d.ram, window.start - d.left)
        /\ PageOffset(window.start - d.left) + window.len <= pageSize
  BY <1>2 DEF WindowInv, WindowOnPage
<1>4. window.start \in FetchAddrs /\ d \in devices /\ Contains(d, window.start)
  BY <1>2, <1>3 DEF WindowInv, Scan
<1> DEFINE f == PageOffset(window.start - d.left)
           x == v - window.start
           k == x \div WordSize
           g == f \div WordSize
           s == pageSize \div WordSize
<1>5. window.start - d.left \in Nat /\ f \in Nat /\ f % WordSize = 0
  BY <1>4, FetchedWord
<1>6. WordSize \in Nat \ {0} /\ WordSize \in AccessSizes /\ pageSize \in Nat
  BY PhysMemConstants, AllocatorConstants
<1>7. g \in Nat /\ f = WordSize * g
  BY <1>5, <1>6, WholeQuotient
<1>8. s \in Nat /\ pageSize = WordSize * s
  BY <1>6, AccessFitsPage, WholeQuotient
<1>9. k \in Nat /\ x % WordSize \in 0 .. WordSize - 1 /\ x = WordSize * k + (x % WordSize)
  <2>1. x \in Nat
    BY <1>1
  <2> QED
    BY <2>1, <1>6, Quotient
<1>10. x \in 1 .. window.len - 1 /\ f + window.len <= pageSize
  BY <1>1, <1>3
<1> HIDE DEF f, x, k, g, s
<1>11. WordSize * k \in Nat /\ WordSize * k <= x
  BY <1>6, <1>9, <1>10, <1>1
<1>12. WordSize * (g + k) = f + WordSize * k /\ g + k \in Int
  BY <1>6, <1>7, <1>9
<1>13. WordSize * (g + k) < WordSize * s
  BY <1>1, <1>5, <1>8, <1>10, <1>11, <1>12
<1>14. WordSize * (g + k) + WordSize <= WordSize * s
  BY <1>6, <1>8, <1>12, <1>13, RoomForOneMore
<1>15. f + WordSize * k + WordSize <= pageSize
  BY <1>8, <1>12, <1>14
<1> QED
  BY <1>3, <1>4, <1>5, <1>10, <1>11, <1>15 DEF f, x, k

(* Loads and fetches read from pages.                                      *)
LEMMA LoadIsServed ==
  ASSUME PMTyped, CrashInv, NEW a \in Addrs, NEW n \in AccessSizes, load(a, n)
  PROVE  phase' # "crashed"
<1>1. phase = "built" /\ n \in Nat
  BY PhysMemConstants DEF load
<1>2. SUFFICES ASSUME NEW d \in findDevice(a), Aligned(a - d.left, n),
                      Touched(d.ram, a - d.left)
               PROVE  Served(mapped, getHostAddress(d.ram, a - d.left), n)
  BY <1>1 DEF load, translateAddress
<1>3. d.ram \in Rams /\ a - d.left \in Nat
  BY FoundDevice, PhysMemConstants DEF PMTyped, Addrs
<1>4. PageOffset(a - d.left) \in Nat /\ PageOffset(a - d.left) + n <= pageSize
  <2>1. PageOffset(a - d.left) \in 0 .. pageSize - 1
    BY <1>3, OffsetOnPage
  <2> QED
    BY <2>1, <1>2, <1>3, AlignedOnPage, AllocatorConstants DEF Aligned
<1> QED
  BY <1>1, <1>2, <1>3, <1>4, ReadIsServed DEF getHostAddress, Touched

LEMMA HitIsServed ==
  ASSUME AlignedFetches, PMTyped, WindowInv, CrashInv, NEW v \in Addrs, prefetchHit(v)
  PROVE  phase' # "crashed"
<1> DEFINE w == WordSize * ((v - window.start) \div WordSize)
<1>1. phase = "built" /\ InWindow(v) /\ ReadWord(v, window.saved + w)
  BY DEF prefetchHit
<1>2. PICK d \in Scan(window.start) :
        LET f == PageOffset(window.start - d.left)
        IN  /\ Touched(d.ram, window.start - d.left)
            /\ window.saved = getHostAddress(d.ram, window.start - d.left)
            /\ f \in Nat /\ w \in Nat
            /\ f + w + WordSize <= pageSize
  BY <1>1, HitOnPage
<1> DEFINE f == PageOffset(window.start - d.left)
           i == PageId(window.start - d.left)
<1> HIDE DEF w, f, i
<1>3. d.ram \in Rams /\ i \in DOMAIN pagemap[d.ram] /\ pagemap[d.ram][i] \in Nat
  BY <1>2 DEF Scan, PMTyped, PMTypeOK, Touched, i
<1>4. window.saved = pagemap[d.ram][i] + f
  BY <1>2 DEF getHostAddress, f, i
<1>5. f \in Nat /\ w \in Nat /\ f + w + WordSize <= pageSize /\ WordSize \in Nat
  BY <1>2, PhysMemConstants DEF f
<1>6. f + w \in Nat /\ window.saved + w = pagemap[d.ram][i] + (f + w)
  BY <1>3, <1>4, <1>5
<1>7. Served(mapped, pagemap[d.ram][i] + (f + w), WordSize)
  BY <1>1, <1>3, <1>5, <1>6, ReadIsServed
<1> QED
  BY <1>1, <1>6, <1>7 DEF ReadWord

LEMMA MissIsServed ==
  ASSUME AlignedFetches, PMTyped, CrashInv, NEW v \in FetchAddrs, prefetchMiss(v)
  PROVE  phase' # "crashed"
<1>1. phase = "built" /\ v \in Addrs /\ WordSize \in Nat
  BY PhysMemConstants DEF prefetchMiss
<1>2. ASSUME NEW d \in findDevice(v), Touched(d.ram, v - d.left)
      PROVE  Served(mapped, getHostAddress(d.ram, v - d.left), WordSize)
  <2>1. d.ram \in Rams /\ d \in devices /\ Contains(d, v)
    BY <1>1, FoundDevice DEF PMTyped
  <2>2. PageOffset(v - d.left) \in Nat /\ PageOffset(v - d.left) + WordSize <= pageSize
    BY <2>1, FetchedWord
  <2> QED
    BY <1>1, <1>2, <2>1, <2>2, ReadIsServed DEF getHostAddress, Touched
<1> QED
  BY <1>1, <1>2 DEF prefetchMiss, translateAddress, ReadWord

LEMMA QuietCrash ==
  ASSUME CrashInv, Quiet, phase' = "crashed" => phase = "crashed",
         phase = "crashed" => phase' = "crashed"
  PROVE  CrashInv'
<1>1. AllocInv'
  BY DEF CrashInv, Quiet, allocVars, AllocInv, AllocTypeOK, RegionsApart, BackMapped,
         BacksApart, PagesOwned, PagesBelow, PagesApart, Apart, Multiple, NoChunk, Null,
         HostPages, hostMmapSize
<1> QED
  BY <1>1 DEF CrashInv, Quiet, allocVars, PagesKnown, NoNullPage, CrashOnlyWithoutMemory, Null

LEMMA CrashStep ==
  ASSUME PageFitsHost, AlignedFetches, PMTyped, WindowInv, CrashInv, [MemNext]_pmVars
  PROVE  CrashInv'
<1>1. ASSUME NEW a, NEW d, NEW bytes, Stores(a, d, bytes) PROVE CrashInv'
  BY <1>1, StoreCrash
<1>2. CASE Quiet
  <2>1. phase = "crashed" => phase' = "crashed"
    BY DEF MemNext, mapRAM, build, copyStep, copyEnd, load, store, storeContArea,
           prefetchHit, prefetchMiss, pmVars
  <2>2. SUFFICES ASSUME phase' = "crashed", phase # "crashed" PROVE FALSE
    BY <1>2, <2>1, QuietCrash
  <2>3. ASSUME NEW a \in LoadAddrs, NEW n \in AccessSizes, load(a, n) PROVE FALSE
    BY <2>2, <2>3, LoadIsServed, PhysMemConstants
  <2>4. ASSUME NEW v \in FetchAddrs, prefetchHit(v) \/ prefetchMiss(v) PROVE FALSE
    BY <2>2, <2>4, HitIsServed, MissIsServed, PhysMemConstants
  <2> QED
    BY <1>2, <2>2, <2>3, <2>4 DEF Quiet, Reads
<1> QED
  BY <1>1, <1>2, MemShapes

LEMMA CrashInit == ASSUME PMInit PROVE CrashInv
<1>1. AllocInv
  BY AllocInitInv DEF PMInit
<1>2. \A r \in Rams : DOMAIN pagemap[r] = {}
  BY EmptyMap DEF PMInit
<1> QED
  BY <1>1, <1>2 DEF PMInit, CrashInv, PagesKnown, NoNullPage, CrashOnlyWithoutMemory

(* The host kills the simulator only after an mmap that failed: every      *)
(* load, store, copy and fetch through a page, a chunk or the window stays *)
(* inside mapped memory, if ranges do not overlap, guest pages divide host *)
(* pages and instructions are fetched at whole words.                      *)
THEOREM PMCrashOnlyWithoutMemory ==
  ASSUME RangesApart, PageFitsHost, AlignedFetches
  PROVE  PMSpec => []CrashOnlyWithoutMemory
<1>1. PMInit => WindowInv /\ CrashInv
  BY WindowInit, CrashInit
<1>2. PMTyped /\ WindowInv /\ CrashInv /\ [PMNext]_pmVars => WindowInv' /\ CrashInv'
  BY WindowStep, CrashStep, PMNextIsMemNext
<1>3. CrashInv => CrashOnlyWithoutMemory
  BY DEF CrashInv
<1> QED
  BY <1>1, <1>2, <1>3, PMTypedInvariance, PTL DEF PMSpec

-----------------------------------------------------------------------------
(* In a device of whole pages the page of an address lies inside it.       *)
LEMMA PageFits ==
  ASSUME PMTyped, NEW a \in Addrs, NEW d \in devices, Contains(d, a),
         (d.right - d.left) % pageSize = 0
  PROVE  /\ a - d.left \in Nat
         /\ pageSize * PageId(a - d.left) + pageSize <= d.right - d.left
<1>1. d.left \in Nat /\ d.right \in Nat /\ a \in Nat /\ d.left <= a /\ a < d.right
  BY PhysMemConstants DEF PMTyped, PMTypeOK, Addrs, Contains
<1> DEFINE s == d.right - d.left
           o == a - d.left
           q == s \div pageSize
<1>2. s \in Nat /\ o \in Nat /\ o < s /\ s % pageSize = 0 /\ pageSize \in Nat \ {0}
  BY <1>1, AllocatorConstants
<1> HIDE DEF s, o
<1>3. q \in Nat /\ s = pageSize * q
  BY <1>2, WholeQuotient
<1>4. PageId(o) \in Nat /\ PageOffset(o) \in Nat /\ o = pageSize * PageId(o) + PageOffset(o)
  <2>1. /\ PageId(o) \in 0 .. o /\ PageOffset(o) \in 0 .. pageSize - 1
        /\ o = pageSize * PageId(o) + PageOffset(o)
    BY <1>2, OffsetOnPage, Zenon
  <2>2. PageId(o) \in Nat /\ PageOffset(o) \in Nat
    BY <1>2, <2>1
  <2> QED
    BY <2>1, <2>2, Zenon
<1> HIDE DEF q
<1> DEFINE i == PageId(o)
<1>5. i \in Nat /\ pageSize * i \in Nat /\ pageSize * q \in Nat
  BY <1>2, <1>3, <1>4
<1> DEFINE f == PageOffset(o)
<1>6. pageSize * i < pageSize * q
  <2>1. f \in Nat /\ o = pageSize * i + f
    BY <1>4
  <2> HIDE DEF i, f
  <2> QED
    BY <1>2, <1>3, <1>5, <2>1
<1> HIDE DEF i, f
<1>7. pageSize * i + pageSize <= pageSize * q
  BY <1>2, <1>3, <1>5, <1>6, RoomForOneMore
<1> QED
  BY <1>2, <1>3, <1>7 DEF s, o, i

LEMMA PageInDevice ==
  ASSUME WholePages, PMTyped, NEW a \in Addrs, NEW d \in devices, Contains(d, a)
  PROVE  /\ a - d.left \in Nat
         /\ pageSize * PageId(a - d.left) + pageSize <= d.right - d.left
         /\ \A n \in AccessSizes : d.left % n = 0
<1>1. d.left \in Nat /\ d.right \in Nat /\ a \in Nat /\ d.left <= a /\ a < d.right
  BY PhysMemConstants DEF PMTyped, PMTypeOK, Addrs, Contains
<1>2. /\ (d.right - d.left) % pageSize = 0
      /\ \A n \in AccessSizes : d.left % n = 0
  BY <1>1 DEF WholePages
<1> QED
  BY <1>2, PageFits

(* Addresses of one device next to each other lie on one page.             *)
LEMMA SamePageOfDevice ==
  ASSUME PMTyped, NEW a \in Addrs, NEW d \in devices, Contains(d, a),
         NEW b \in Int, a <= b, b < d.right, PageOffset(a - d.left) + (b - a) < pageSize
  PROVE  /\ b \in Addrs /\ Contains(d, b)
         /\ PageId(b - d.left) = PageId(a - d.left)
         /\ PageOffset(b - d.left) = PageOffset(a - d.left) + (b - a)
<1> DEFINE o == a - d.left
           i == PageId(o)
           f == PageOffset(o)
           e == b - d.left
<1>1. /\ d.left \in Nat /\ d.right \in Nat /\ d.right < ASize /\ a \in Nat /\ d.left <= a
      /\ ASize \in Nat /\ pageSize \in Nat \ {0}
  <2>1. d.left \in Addrs /\ d.right \in Addrs
    BY DEF PMTyped, PMTypeOK
  <2> QED
    BY <2>1, PhysMemConstants, AllocatorConstants DEF Addrs, Contains
<1>2. o \in Nat
  BY <1>1
<1>3. i \in Nat /\ f \in 0 .. pageSize - 1 /\ o = pageSize * i + f
  BY <1>2, OffsetOnPage
<1>4. e = o + (b - a) /\ e \in Nat
  BY <1>1
<1>5. /\ PageId(e) \in Nat /\ PageOffset(e) \in 0 .. pageSize - 1
      /\ e = pageSize * PageId(e) + PageOffset(e)
  BY <1>4, OffsetOnPage
<1> DEFINE j == PageId(e)
           g == PageOffset(e)
<1>6. j \in Nat /\ g \in 0 .. pageSize - 1 /\ e = pageSize * j + g
  BY <1>5
<1>7. f + (b - a) \in 0 .. pageSize - 1
  BY <1>1, <1>3
<1>8. b \in Addrs /\ Contains(d, b)
  BY <1>1 DEF Contains, Addrs
<1>9. pageSize * i + (f + (b - a)) = pageSize * j + g
  <2> HIDE DEF o, i, f, e, j, g
  <2>1. pageSize * i \in Nat
    BY <1>1, <1>3
  <2> QED
    BY <1>1, <1>3, <1>4, <1>6, <2>1
<1> DEFINE x == f + (b - a)
<1>10. pageSize * i + x = pageSize * j + g /\ x \in 0 .. pageSize - 1
  BY <1>7, <1>9
<1> HIDE DEF o, i, f, e, j, g, x
<1>11. ~(i < j) /\ ~(j < i)
  <2>1. pageSize * i \in Nat /\ pageSize * j \in Nat
    BY <1>1, <1>3, <1>6
  <2>2. ASSUME i < j PROVE FALSE
    <3>1. pageSize * i + pageSize <= pageSize * j
      <4>1. PICK k \in Nat : j = i + 1 + k
        BY <1>3, <1>6, <2>2
      <4>2. pageSize * j = pageSize * i + pageSize + pageSize * k /\ pageSize * k \in Nat
        BY <1>1, <1>3, <4>1
      <4> QED
        BY <1>1, <2>1, <4>2
    <3> QED
      BY <1>1, <1>6, <1>10, <2>1, <3>1
  <2>3. ASSUME j < i PROVE FALSE
    <3>1. pageSize * j + pageSize <= pageSize * i
      <4>1. PICK k \in Nat : i = j + 1 + k
        BY <1>3, <1>6, <2>3
      <4>2. pageSize * i = pageSize * j + pageSize + pageSize * k /\ pageSize * k \in Nat
        BY <1>1, <1>6, <4>1
      <4> QED
        BY <1>1, <2>1, <4>2
    <3> QED
      BY <1>1, <1>6, <1>10, <2>1, <3>1
  <2> QED
    BY <2>2, <2>3
<1>12. i = j
  BY <1>3, <1>6, <1>11
<1>13. x = g
  <2>1. pageSize * i \in Nat
    BY <1>1, <1>3
  <2> QED
    BY <1>6, <1>10, <1>12, <2>1
<1> QED
  BY <1>8, <1>12, <1>13 DEF o, i, f, e, j, g, x

-----------------------------------------------------------------------------
(* No two entries of the page maps share host memory.                      *)
PagemapApart ==
  \A r, q \in Rams : \A i \in DOMAIN pagemap[r] : \A j \in DOMAIN pagemap[q] :
    (r # q \/ i # j) /\ pagemap[r][i] # Null /\ pagemap[q][j] # Null
      => Apart(pagemap[r][i], pagemap[q][j], pageSize)

(* On whole pages, the page of an address of the device is on it.          *)
LEMMA SamePage ==
  ASSUME WholePages, PMTyped, NEW a \in Addrs, NEW d \in devices, Contains(d, a),
         NEW b \in Int, a <= b, PageOffset(a - d.left) + (b - a) < pageSize
  PROVE  /\ b \in Addrs /\ Contains(d, b) /\ b < d.right
         /\ PageId(b - d.left) = PageId(a - d.left)
         /\ PageOffset(b - d.left) = PageOffset(a - d.left) + (b - a)
<1> DEFINE o == a - d.left
           f == PageOffset(o)
           w == pageSize * PageId(o)
<1>1. o \in Nat /\ w + pageSize <= d.right - d.left
  BY PageInDevice
<1>2. d.left \in Nat /\ d.right \in Nat /\ a \in Nat
  BY PhysMemConstants DEF PMTyped, PMTypeOK, Addrs
<1>3. f \in Nat /\ w \in Nat /\ pageSize \in Nat /\ o = w + f
  <2>1. f \in 0 .. pageSize - 1 /\ PageId(o) \in Nat /\ o = w + f
    BY <1>1, OffsetOnPage
  <2> DEFINE i == PageId(o)
  <2>2. i \in Nat /\ pageSize \in Nat
    BY <2>1, AllocatorConstants
  <2> HIDE DEF i
  <2>3. pageSize * i \in Nat
    BY <2>2
  <2> QED
    BY <2>1, <2>2, <2>3 DEF i
<1>4. o = a - d.left /\ f + (b - a) < pageSize
  OBVIOUS
<1> HIDE DEF o, f, w
<1>5. b < d.right
  BY <1>1, <1>2, <1>3, <1>4
<1> QED
  BY <1>5, SamePageOfDevice

(* Outside the pages handed out, host memory is as mmap returns it.        *)
ZeroOutside ==
  \A x \in 0 .. HostSize - 1 :
    (\A k \in DOMAIN pages : x < pages[k] \/ pages[k] + pageSize <= x) => host[x] = 0

(* No page is allocated before the memory is built.                        *)
EmptyUntilBuilt ==
  phase \in {"building", "rejected"} => \A r \in Rams : DOMAIN pagemap[r] = {}

ContentInv == PagemapApart /\ ZeroOutside /\ EmptyUntilBuilt

(* What a store does, page and bytes named.                                *)
LEMMA StoreEffect ==
  ASSUME PMTyped, CrashInv, CrashInv', NEW a, NEW d, NEW bytes, Stores(a, d, bytes)
  PROVE  \E page \in 0 .. HostSize - 1 :
           LET o == a - d.left
               h == page + PageOffset(o)
           IN  /\ touchPageAddress(d.ram, o, page)
               /\ \/ /\ page # Null /\ phase' \in {"built", "copying"}
                     /\ result' = Access("stored", a, bytes)
                     /\ host' = [x \in 0 .. HostSize - 1 |->
                                   IF x \in h .. h + Len(bytes) - 1
                                   THEN bytes[x - h + 1] ELSE host[x]]
                  \/ /\ page = Null /\ phase' = "crashed" /\ ~Touched(d.ram, o)
                     /\ UNCHANGED <<host, result, mapped, pages>>
<1> DEFINE o == a - d.left
<1>1. d.ram \in Rams /\ o \in Addrs
  BY FoundDevice DEF Stores, PMTyped
<1>2. PICK page \in 0 .. HostSize - 1, then \in {"built", "copying"} :
        LET h == page + PageOffset(o)
            served == page # Null /\ Served(mapped', h, Len(bytes))
        IN  /\ touchPageAddress(d.ram, o, page)
            /\ host' = IF served
                       THEN [x \in DOMAIN host |->
                               IF x \in h .. h + Len(bytes) - 1
                               THEN bytes[x - h + 1] ELSE host[x]]
                       ELSE host
            /\ phase' = IF served THEN then ELSE "crashed"
            /\ result' = IF served THEN Access("stored", a, bytes) ELSE result
  BY DEF Stores, Write
<1>3. touchPageAddress(d.ram, o, page)
  BY <1>2
<1>4. DOMAIN host = 0 .. HostSize - 1
  BY DEF PMTyped, PMTypeOK
<1>5. PageId(o) \in DOMAIN pagemap'[d.ram] /\ pagemap'[d.ram][PageId(o)] = page
  BY <1>1, <1>3, TouchedPage DEF PMTyped
<1>6. phase # "crashed"
  BY DEF Stores
<1>7. CASE phase' # "crashed"
  BY <1>2, <1>4, <1>7
<1>8. CASE phase' = "crashed"
  <2>1. PICK r \in Rams : \E i \in DOMAIN pagemap'[r] : pagemap'[r][i] = Null
    BY <1>8 DEF CrashInv, CrashOnlyWithoutMemory, Null
  <2>2. PICK i \in DOMAIN pagemap'[r] : pagemap'[r][i] = Null
    BY <2>1
  <2>3. i \notin DOMAIN pagemap[r]
    <3>1. SUFFICES ASSUME i \in DOMAIN pagemap[r] PROVE FALSE
      OBVIOUS
    <3>2. pagemap[r][i] # Null
      BY <1>6, <3>1 DEF CrashInv, NoNullPage
    <3>3. pagemap'[r][i] = pagemap[r][i]
      BY <1>1, <1>3, <3>1, TouchedPage DEF PMTyped
    <3> QED
      BY <2>2, <3>2, <3>3
  <2>4. r = d.ram /\ i = PageId(o)
    BY <1>1, <1>3, <2>2, <2>3, TouchedPage DEF PMTyped
  <2>5. page = Null
    BY <1>5, <2>2, <2>4
  <2>6. ~Touched(d.ram, o)
    BY <2>3, <2>4 DEF Touched
  <2>7. UNCHANGED <<host, result>>
    BY <1>2, <2>5
  <2>8. UNCHANGED <<mapped, pages>>
    <3>1. \/ AllocFromBack(d.ram, page)
          \/ AllocFromNew(d.ram, page)
          \/ AllocFails(d.ram)
      BY <1>3, <2>6 DEF touchPageAddress
    <3>2. ~AllocFromBack(d.ram, page)
      <4>1. SUFFICES ASSUME AllocFromBack(d.ram, page) PROVE FALSE
        OBVIOUS
      <4>2. back[d.ram] # NoChunk /\ page = back[d.ram].rower
        BY <4>1 DEF AllocFromBack, HasRoom
      <4>3. back[d.ram].data \in Nat \ {0} /\ back[d.ram].rower \in Nat
        BY <1>1, <4>2, AllocatorConstants DEF CrashInv, AllocInv, AllocTypeOK, HostPages
      <4>4. PICK k \in Nat : back[d.ram].rower - back[d.ram].data = k * pageSize
        BY <1>1, <4>2 DEF CrashInv, AllocInv, BackMapped, Multiple
      <4>5. k * pageSize \in Nat
        BY AllocatorConstants
      <4>6. back[d.ram].rower > 0
        BY <4>3, <4>4, <4>5
      <4> QED
        BY <4>2, <4>6, <2>5 DEF Null
    <3>3. ~AllocFromNew(d.ram, page)
      BY <2>5, AllocatorConstants DEF AllocFromNew, Free, HostPages, Null
    <3> QED
      BY <3>1, <3>2, <3>3 DEF AllocFails
  <2> QED
    BY <1>3, <1>8, <2>5, <2>6, <2>7, <2>8
<1> QED
  BY <1>7, <1>8

(* A page that is new to a page map is new to host memory.                 *)
LEMMA NewPageApart ==
  ASSUME PMTyped, AllocInv', NEW r \in Rams, NEW o \in Addrs,
         NEW page \in 0 .. HostSize - 1, touchPageAddress(r, o, page), ~Touched(r, o),
         page # Null
  PROVE  /\ pages' = Append(pages, page)
         /\ \A k \in DOMAIN pages : /\ Apart(pages[k], page, pageSize)
                                    /\ Apart(page, pages[k], pageSize)
<1>1. pages' = Append(pages, page)
  BY DEF touchPageAddress, AllocFromBack, AllocFromNew
<1>2. pages \in Seq(Nat) /\ page \in Nat
  BY AllocatorConstants DEF PMTyped, PMTypeOK, AllocTypeOK
<1>3. /\ Len(pages) \in Nat /\ DOMAIN pages = 1 .. Len(pages)
      /\ DOMAIN pages' = 1 .. Len(pages) + 1 /\ pages'[Len(pages) + 1] = page
      /\ \A k \in DOMAIN pages : pages'[k] = pages[k]
  BY <1>1, <1>2
<1>4. ASSUME NEW k \in DOMAIN pages
      PROVE  Apart(pages[k], page, pageSize) /\ Apart(page, pages[k], pageSize)
  <2>1. k \in DOMAIN pages' /\ Len(pages) + 1 \in DOMAIN pages' /\ k # Len(pages) + 1
    BY <1>3
  <2> QED
    BY <2>1, <1>3 DEF AllocInv, PagesApart, Apart
<1> QED
  BY <1>1, <1>4

LEMMA StoreContent ==
  ASSUME PMTyped, CrashInv, CrashInv', ContentInv,
         NEW a, NEW d, NEW bytes, Stores(a, d, bytes)
  PROVE  ContentInv'
<1> DEFINE o == a - d.left
           n == Len(bytes)
<1>1. d.ram \in Rams /\ o \in Addrs /\ o \in Nat
  <2>1. PMTypeOK /\ a \in Addrs /\ d \in findDevice(a)
    BY DEF Stores, PMTyped
  <2>2. d.ram \in Rams /\ o \in Addrs
    BY <2>1, FoundDevice
  <2> QED
    BY <2>2, PhysMemConstants DEF Addrs
<1>2. PICK page \in 0 .. HostSize - 1 :
        LET h == page + PageOffset(o)
        IN  /\ touchPageAddress(d.ram, o, page)
            /\ \/ /\ page # Null /\ phase' \in {"built", "copying"}
                  /\ host' = [x \in 0 .. HostSize - 1 |->
                                IF x \in h .. h + n - 1 THEN bytes[x - h + 1] ELSE host[x]]
               \/ /\ page = Null /\ phase' = "crashed" /\ ~Touched(d.ram, o)
                  /\ UNCHANGED <<host, mapped, pages>>
  BY StoreEffect
<1>3. touchPageAddress(d.ram, o, page) /\ page \in Nat
  BY <1>2, AllocatorConstants
<1>4. AllocInv'
  BY DEF CrashInv
<1>5. PageOffset(o) \in Nat /\ n \in Nat /\ PageOffset(o) + n <= pageSize /\ pageSize \in Nat
  <2>1. PageOffset(o) \in 0 .. pageSize - 1
    BY <1>1, OffsetOnPage
  <2> QED
    BY <2>1, AllocatorConstants DEF Stores
<1>6. EmptyUntilBuilt'
  BY <1>2 DEF EmptyUntilBuilt
<1> DEFINE i0 == PageId(o)
<1>7. /\ i0 \in DOMAIN pagemap'[d.ram] /\ pagemap'[d.ram][i0] = page
      /\ \A q \in Rams : \A i \in DOMAIN pagemap[q] :
           i \in DOMAIN pagemap'[q] /\ pagemap'[q][i] = pagemap[q][i]
      /\ \A q \in Rams : \A i \in DOMAIN pagemap'[q] :
           i \in DOMAIN pagemap[q] \/ (q = d.ram /\ i = i0)
  BY <1>1, <1>3, TouchedPage DEF PMTyped
<1> HIDE DEF o, n, i0
<1>8. ASSUME NEW q \in Rams, NEW i \in DOMAIN pagemap[q], pagemap[q][i] # Null,
             q # d.ram \/ i # i0, page # Null
      PROVE  Apart(pagemap[q][i], page, pageSize) /\ Apart(page, pagemap[q][i], pageSize)
  <2>1. CASE Touched(d.ram, o)
    <3>1. i0 \in DOMAIN pagemap[d.ram] /\ pagemap[d.ram][i0] = page
      BY <1>3, <2>1 DEF touchPageAddress, Touched, i0
    <3> QED
      BY <1>1, <1>8, <3>1 DEF ContentInv, PagemapApart, Apart
  <2>2. CASE ~Touched(d.ram, o)
    <3>1. PICK k \in DOMAIN pages : pages[k] = pagemap[q][i]
      BY <1>8 DEF CrashInv, PagesKnown
    <3> QED
      BY <1>1, <1>3, <1>4, <1>8, <2>2, <3>1, NewPageApart
  <2> QED
    BY <2>1, <2>2
<1>9. PagemapApart'
  <2>1. ASSUME NEW r \in Rams, NEW q \in Rams, NEW i \in DOMAIN pagemap'[r],
               NEW j \in DOMAIN pagemap'[q], r # q \/ i # j,
               pagemap'[r][i] # Null, pagemap'[q][j] # Null
        PROVE  Apart(pagemap'[r][i], pagemap'[q][j], pageSize)
    <3>1. CASE r = d.ram /\ i = i0
      <4>1. j \in DOMAIN pagemap[q] /\ (q # d.ram \/ j # i0)
        BY <1>7, <2>1, <3>1
      <4> QED
        BY <1>7, <1>8, <2>1, <3>1, <4>1
    <3>2. CASE q = d.ram /\ j = i0
      <4>1. i \in DOMAIN pagemap[r] /\ (r # d.ram \/ i # i0)
        BY <1>7, <2>1, <3>2
      <4> QED
        BY <1>7, <1>8, <2>1, <3>2, <4>1
    <3>3. CASE ~(r = d.ram /\ i = i0) /\ ~(q = d.ram /\ j = i0)
      <4>1. i \in DOMAIN pagemap[r] /\ j \in DOMAIN pagemap[q]
        BY <1>7, <3>3
      <4>2. pagemap'[r][i] = pagemap[r][i] /\ pagemap'[q][j] = pagemap[q][j]
        BY <1>7, <4>1
      <4> QED
        BY <2>1, <4>1, <4>2 DEF ContentInv, PagemapApart
    <3> QED
      BY <3>1, <3>2, <3>3
  <2> QED
    BY <2>1 DEF PagemapApart, Apart, Null
<1>10. ZeroOutside'
  <2>1. ASSUME NEW x \in 0 .. HostSize - 1,
               \A k \in DOMAIN pages' : x < pages'[k] \/ pages'[k] + pageSize <= x
        PROVE  host'[x] = 0
    <3>1. \A k \in DOMAIN pages : k \in DOMAIN pages' /\ pages'[k] = pages[k]
      <4>1. pages' = pages \/ pages' = Append(pages, page)
        BY <1>3 DEF touchPageAddress, AllocFromBack, AllocFromNew, AllocFails, allocVars
      <4>2. pages \in Seq(Nat)
        BY DEF PMTyped, PMTypeOK, AllocTypeOK
      <4> QED
        BY <1>3, <4>1, <4>2
    <3>2. host[x] = 0
      BY <2>1, <3>1 DEF ContentInv, ZeroOutside
    <3>3. CASE page = Null
      BY <1>2, <3>2, <3>3
    <3>4. CASE page # Null
      <4>1. PICK k \in DOMAIN pages' : pages'[k] = page
        BY <1>1, <1>3, <3>4, TouchedKnown DEF CrashInv
      <4>2. x < page \/ page + pageSize <= x
        BY <2>1, <4>1
      <4>3. x \in Nat
        BY AllocatorConstants
      <4>4. x \notin page + PageOffset(o) .. page + PageOffset(o) + n - 1
        BY <1>3, <1>5, <4>2, <4>3
      <4> QED
        BY <1>2, <3>2, <3>4, <4>4
    <3> QED
      BY <3>3, <3>4
  <2> QED
    BY <2>1 DEF ZeroOutside
<1> QED
  BY <1>6, <1>9, <1>10 DEF ContentInv

LEMMA ContentStep ==
  ASSUME PMTyped, CrashInv, CrashInv', ContentInv, [MemNext]_pmVars
  PROVE  ContentInv'
<1>1. ASSUME NEW a, NEW d, NEW bytes, Stores(a, d, bytes) PROVE ContentInv'
  BY <1>1, StoreContent
<1>2. CASE Quiet
  <2>1. phase' \in {"building", "rejected"} => phase \in {"building", "rejected"}
    <3>1. CASE mapRAM \/ build \/ copyEnd \/ UNCHANGED pmVars
      BY <3>1 DEF mapRAM, build, copyEnd, pmVars
    <3>2. CASE copyStep
      BY <3>2 DEF copyStep, Write
    <3>3. ASSUME NEW a, NEW n, load(a, n)
          PROVE  phase' \in {"built", "crashed"}
      BY <3>3 DEF load
    <3>4. ASSUME NEW a, NEW bytes, store(a, bytes)
          PROVE  phase' \in {"built", "crashed"}
      BY <3>4 DEF store, Write
    <3>5. ASSUME NEW c, storeContArea(c)
          PROVE  phase' = "copying"
      BY <3>5 DEF storeContArea
    <3>6. ASSUME NEW v, prefetchHit(v) \/ prefetchMiss(v)
          PROVE  phase' \in {"built", "crashed"}
      BY <3>6 DEF prefetchHit, prefetchMiss, ReadWord
    <3> QED
      BY <3>1, <3>2, <3>3, <3>4, <3>5, <3>6 DEF MemNext
  <2> QED
    BY <1>2, <2>1 DEF Quiet, allocVars, ContentInv, PagemapApart, Apart, ZeroOutside,
                      EmptyUntilBuilt, Null
<1> QED
  BY <1>1, <1>2, MemShapes

LEMMA ContentInit == ASSUME PMInit PROVE ContentInv
<1>1. \A r \in Rams : DOMAIN pagemap[r] = {}
  BY EmptyMap DEF PMInit
<1> QED
  BY <1>1 DEF PMInit, ContentInv, PagemapApart, ZeroOutside, EmptyUntilBuilt

-----------------------------------------------------------------------------
(* The cell of an address, read through its device.                        *)
LEMMA CellOnDevice ==
  ASSUME PMTyped, NEW b \in Addrs, NEW e \in devices, Scan(b) = {e},
         NEW o, o = b - e.left
  PROVE  Cell(b) = IF Touched(e.ram, o) THEN host[pagemap[e.ram][PageId(o)] + PageOffset(o)]
                   ELSE 0
<1>1. Cell(b) = LoadFrom(e.ram, o, 1)[1]
  <2>1. (CHOOSE d \in Scan(b) : TRUE) = e
    OBVIOUS
  <2> QED
    BY <2>1 DEF Cell
<1>2. CASE Touched(e.ram, o)
  <2>1. e.ram \in Rams
    BY DEF PMTyped, PMTypeOK
  <2>2. b \in Nat /\ e.left \in Nat /\ e.left <= b
    BY PhysMemConstants DEF PMTyped, PMTypeOK, Addrs, Scan, Contains
  <2>3. o \in Nat
    BY <2>2
  <2>4. /\ getHostAddress(e.ram, o) = pagemap[e.ram][PageId(o)] + PageOffset(o)
        /\ getHostAddress(e.ram, o) \in Nat
    BY <1>2, <2>1, <2>3, HostAddressTyped
  <2>5. LoadFrom(e.ram, o, 1)[1] = host[getHostAddress(e.ram, o) + 1 - 1]
    BY <1>2 DEF LoadFrom, HostBytes
  <2> QED
    BY <1>1, <1>2, <2>4, <2>5
<1>3. CASE ~Touched(e.ram, o)
  BY <1>1, <1>3 DEF LoadFrom
<1> QED
  BY <1>2, <1>3

LEMMA CellOnDeviceNext ==
  ASSUME PMTyped', NEW b \in Addrs, NEW e \in devices', Scan(b)' = {e},
         NEW o, o = b - e.left
  PROVE  Cell(b)' = IF PageId(o) \in DOMAIN pagemap'[e.ram]
                    THEN host'[pagemap'[e.ram][PageId(o)] + PageOffset(o)] ELSE 0
<1>1. Cell(b)' = LoadFrom(e.ram, o, 1)'[1]
  <2>1. (CHOOSE d \in Scan(b)' : TRUE) = e
    OBVIOUS
  <2> QED
    BY <2>1 DEF Cell
<1>2. CASE PageId(o) \in DOMAIN pagemap'[e.ram]
  <2>1. e.ram \in Rams
    BY DEF PMTyped, PMTypeOK
  <2>2. b \in Nat /\ e.left \in Nat /\ e.left <= b
    BY PhysMemConstants DEF PMTyped, PMTypeOK, Addrs, Scan, Contains
  <2>3. o \in Nat
    BY <2>2
  <2>4. pagemap'[e.ram][PageId(o)] \in Nat
    BY <1>2, <2>1 DEF PMTyped, PMTypeOK
  <2>5. PageOffset(o) \in 0 .. pageSize - 1
    BY <2>3, OffsetOnPage
  <2> DEFINE h == pagemap'[e.ram][PageId(o)] + PageOffset(o)
  <2>6. h \in Int
    BY <2>4, <2>5, AllocatorConstants
  <2>7. LoadFrom(e.ram, o, 1)' = [k \in 1 .. 1 |-> host'[h + k - 1]]
    BY <1>2 DEF LoadFrom, HostBytes, Touched, getHostAddress, PageId, PageOffset
  <2> HIDE DEF h
  <2>8. LoadFrom(e.ram, o, 1)'[1] = host'[h]
    BY <2>6, <2>7
  <2> QED
    BY <1>1, <1>2, <2>8 DEF h
<1>3. CASE PageId(o) \notin DOMAIN pagemap'[e.ram]
  BY <1>1, <1>3 DEF LoadFrom, Touched, PageId
<1> QED
  BY <1>2, <1>3

LEMMA QuietCells ==
  ASSUME UNCHANGED <<devices, pagemap, host>>, NEW b
  PROVE  Scan(b)' = Scan(b) /\ Cell(b)' = Cell(b)
<1>1. Scan(b)' = Scan(b)
  BY DEF Scan, Contains
<1>2. \A r, o : LoadFrom(r, o, 1)' = LoadFrom(r, o, 1)
  BY DEF LoadFrom, HostBytes, getHostAddress, Touched, PageId, PageOffset, Null
<1> QED
  BY <1>1, <1>2 DEF Cell

(* Host memory below the first mapped page is never written.               *)
LEMMA NullPageIsZero ==
  ASSUME PageFitsHost, HostHasPage, AllocInv, ZeroOutside, NEW f \in 0 .. pageSize - 1
  PROVE  host[f] = 0
<1>1. pageSize <= hostPage
  <2> DEFINE q == hostPage \div pageSize
  <2>1. q \in Nat /\ hostPage = pageSize * q
    BY WholeQuotient, AllocatorConstants DEF PageFitsHost
  <2> HIDE DEF q
  <2>2. pageSize * 0 < pageSize * q
    BY <2>1, AllocatorConstants
  <2>3. pageSize * 0 + pageSize <= pageSize * q
    BY <2>1, <2>2, RoomForOneMore, AllocatorConstants
  <2> QED
    BY <2>1, <2>3, AllocatorConstants
<1>2. ASSUME NEW k \in DOMAIN pages PROVE f < pages[k]
  <2>1. PICK m \in mapped : m <= pages[k]
    BY DEF AllocInv, PagesOwned
  <2>2. m \in Nat /\ hostPage <= m /\ pages[k] \in Nat
    BY AllocatorConstants DEF AllocInv, AllocTypeOK, HostPages
  <2> QED
    BY <1>1, <2>1, <2>2, AllocatorConstants
<1>3. f \in 0 .. HostSize - 1
  BY AllocatorConstants DEF HostHasPage
<1> QED
  BY <1>2, <1>3 DEF ZeroOutside

(* A device is known by its RAM.                                           *)
LEMMA DeviceOfRam ==
  ASSUME PMTyped, NEW d \in devices, NEW e \in devices, d.ram = e.ram
  PROVE  d = e
  BY DEF PMTyped, DevicesConfigured

(* What a store does to the cells the guest sees.                          *)
LEMMA StoreCells ==
  ASSUME RangesApart, PageFitsHost, HostHasPage, PMTyped, PMTyped',
         CrashInv, CrashInv', ContentInv,
         NEW a, NEW d, NEW bytes, Stores(a, d, bytes), a + Len(bytes) <= d.right,
         NEW b \in Addrs
  PROVE  Cell(b)' = IF phase' # "crashed" /\ b \in a .. a + Len(bytes) - 1
                    THEN bytes[b - a + 1] ELSE Cell(b)
<1> DEFINE o == a - d.left
           n == Len(bytes)
           f == PageOffset(o)
           i == PageId(o)
<1>1. /\ a \in Addrs /\ d \in devices /\ Contains(d, a) /\ d.ram \in Rams
      /\ o \in Addrs /\ o \in Nat
  BY FoundDevice, PhysMemConstants DEF Stores, PMTyped, Addrs
<1>2. PICK page \in 0 .. HostSize - 1 :
        LET h == page + PageOffset(o)
        IN  /\ touchPageAddress(d.ram, o, page)
            /\ \/ /\ page # Null /\ phase' \in {"built", "copying"}
                  /\ host' = [x \in 0 .. HostSize - 1 |->
                                IF x \in h .. h + n - 1 THEN bytes[x - h + 1] ELSE host[x]]
               \/ /\ page = Null /\ phase' = "crashed" /\ ~Touched(d.ram, o)
                  /\ UNCHANGED <<host, mapped, pages>>
  BY StoreEffect
<1> DEFINE h == page + f
           Inside(x) == x \in h .. h + n - 1
<1>3. touchPageAddress(d.ram, o, page) /\ page \in Nat
  BY <1>2, AllocatorConstants
<1>4. /\ f \in 0 .. pageSize - 1 /\ n \in Nat \ {0} /\ f + n <= pageSize
      /\ pageSize \in Nat \ {0} /\ a \in Nat /\ b \in Nat
  <2>1. f \in 0 .. pageSize - 1
    BY <1>1, OffsetOnPage
  <2>2. a \in Nat /\ b \in Nat
    BY <1>1, PhysMemConstants DEF Addrs
  <2> QED
    BY <2>1, <2>2, AllocatorConstants DEF Stores
<1>5. /\ i \in DOMAIN pagemap'[d.ram] /\ pagemap'[d.ram][i] = page
      /\ \A q \in Rams : \A j \in DOMAIN pagemap[q] :
           j \in DOMAIN pagemap'[q] /\ pagemap'[q][j] = pagemap[q][j]
      /\ \A q \in Rams : \A j \in DOMAIN pagemap'[q] :
           j \in DOMAIN pagemap[q] \/ (q = d.ram /\ j = i)
  BY <1>1, <1>3, TouchedPage DEF PMTyped
<1>6. Scan(b)' = Scan(b) /\ devices' = devices
  BY DEF Stores, Scan, Contains
<1>7. ASSUME b \in a .. a + n - 1
      PROVE  /\ Contains(d, b) /\ PageId(b - d.left) = i
             /\ PageOffset(b - d.left) = f + (b - a)
  <2>1. a <= b /\ f + (b - a) < pageSize /\ b < a + n /\ b \in Int
    BY <1>4, <1>7
  <2>2. d.right \in Int
    BY <1>1, PhysMemConstants DEF PMTyped, PMTypeOK, Addrs
  <2>3. b < d.right
    BY <1>4, <2>1, <2>2
  <2> QED
    BY <1>1, <2>1, <2>3, SamePageOfDevice
<1>8. CASE \A e \in devices : ~Contains(e, b)
  <2>1. Scan(b) = {} /\ b \notin a .. a + n - 1
    BY <1>1, <1>7, <1>8 DEF Scan
  <2> QED
    BY <1>6, <2>1 DEF Cell
<1>9. ASSUME NEW e \in devices, Contains(e, b)
      PROVE  Cell(b)' = IF phase' # "crashed" /\ b \in a .. a + n - 1
                        THEN bytes[b - a + 1] ELSE Cell(b)
  <2> DEFINE u == b - e.left
             j == PageId(u)
             g == PageOffset(u)
  <2>1. Scan(b) = {e} /\ e.ram \in Rams
    BY <1>9, OneDevice DEF PMTyped, PMTypeOK
  <2>2. u \in Nat
    <3>1. e.left \in Addrs
      BY DEF PMTyped, PMTypeOK
    <3> QED
      BY <1>4, <1>9, <3>1, PhysMemConstants DEF Addrs, Contains
  <2>3. g \in 0 .. pageSize - 1 /\ j \in Nat /\ u = pageSize * j + g
    <3> HIDE DEF u
    <3>1. j \in 0 .. u /\ g \in 0 .. pageSize - 1 /\ u = pageSize * j + g
      BY <2>2, OffsetOnPage, Zenon
    <3>2. j \in Nat
      <4> HIDE DEF j, g
      <4> QED
        BY <2>2, <3>1
    <3> QED
      BY <3>1, <3>2, Zenon
  <2>4. Cell(b) = IF j \in DOMAIN pagemap[e.ram] THEN host[pagemap[e.ram][j] + g] ELSE 0
    BY <2>1, CellOnDevice DEF Touched
  <2>5. Cell(b)' = IF j \in DOMAIN pagemap'[e.ram] THEN host'[pagemap'[e.ram][j] + g] ELSE 0
    BY <1>6, <2>1, CellOnDeviceNext
  <2>6. CASE e.ram = d.ram /\ j = i
    <3>1. e = d
      BY <1>1, <2>6, DeviceOfRam
    <3>2. b - a = g - f
      <4>1. u = pageSize * i + g /\ o = pageSize * i + f /\ i \in Nat
        BY <1>1, <2>3, <2>6, OffsetOnPage
      <4> DEFINE p == pageSize * i
      <4>2. p \in Int
        BY <1>4, <4>1
      <4>3. b - d.left = p + g /\ a - d.left = p + f /\ d.left \in Int
        BY <3>1, <4>1, PhysMemConstants DEF PMTyped, PMTypeOK, Addrs
      <4>4. f \in Int /\ g \in Int /\ a \in Int /\ b \in Int
        BY <1>4, <2>3
      <4> HIDE DEF p, f, g
      <4> QED
        BY <4>2, <4>3, <4>4
    <3>3. Cell(b)' = host'[page + g]
      BY <1>5, <2>5, <2>6
    <3>4. Touched(d.ram, o) => pagemap[d.ram][i] = page
      BY <1>3 DEF touchPageAddress
    <3>5. CASE page = Null
      <4>1. ~Touched(d.ram, o) /\ phase' = "crashed" /\ host' = host
        BY <1>2, <3>5
      <4>2. Cell(b) = 0
        BY <2>4, <2>6, <4>1 DEF Touched
      <4>3. host[g] = 0
        BY <2>3, NullPageIsZero DEF CrashInv, ContentInv
      <4> QED
        BY <2>3, <3>3, <3>5, <4>1, <4>2, <4>3, AllocatorConstants DEF Null
    <3>6. CASE page # Null
      <4>1. phase' # "crashed"
            /\ host' = [x \in 0 .. HostSize - 1 |->
                          IF Inside(x) THEN bytes[x - h + 1] ELSE host[x]]
        BY <1>2, <3>6
      <4>2. PICK m \in mapped' : m <= page /\ page + pageSize <= m + hostMmapSize
        <5>1. PICK k \in DOMAIN pages' : pages'[k] = page
          BY <1>1, <1>3, <3>6, TouchedKnown DEF CrashInv
        <5> QED
          BY <5>1 DEF CrashInv, AllocInv, PagesOwned, hostMmapSize
      <4>3. m \in Nat /\ m + hostMmapSize <= HostSize
        BY AllocatorConstants, RegionSize DEF CrashInv, AllocInv, AllocTypeOK, HostPages
      <4>4. page + g \in 0 .. HostSize - 1
        BY <1>3, <2>3, <4>2, <4>3, RegionHoldsPage
      <4>5. Inside(page + g) <=> b \in a .. a + n - 1
        <5> HIDE DEF f, g, n
        <5> QED
          BY <1>3, <1>4, <2>3, <3>2
      <4>6. (page + g) - h + 1 = b - a + 1
        <5> HIDE DEF f, g, n
        <5> QED
          BY <1>3, <1>4, <2>3, <3>2
      <4>7. CASE b \in a .. a + n - 1
        BY <3>3, <4>1, <4>4, <4>5, <4>6, <4>7
      <4>8. CASE b \notin a .. a + n - 1
        <5>1. Cell(b)' = host[page + g]
          BY <3>3, <4>1, <4>4, <4>5, <4>8
        <5>2. CASE Touched(d.ram, o)
          BY <2>4, <2>6, <3>4, <4>8, <5>1, <5>2 DEF Touched
        <5>3. CASE ~Touched(d.ram, o)
          <6>1. Cell(b) = 0
            BY <2>4, <2>6, <5>3 DEF Touched
          <6>2. ASSUME NEW k \in DOMAIN pages
                PROVE  page + g < pages[k] \/ pages[k] + pageSize <= page + g
            <7>1. Apart(pages[k], page, pageSize)
              BY <1>1, <1>3, <3>6, <5>3, NewPageApart DEF CrashInv
            <7>2. pages[k] \in Nat
              <8>1. AllocTypeOK
                BY DEF PMTyped, PMTypeOK
              <8>2. pages \in Seq(Nat)
                BY <8>1 DEF AllocTypeOK
              <8> QED
                BY <6>2, <8>2
            <7>3. g \in Int /\ 0 <= g /\ g < pageSize /\ page \in Int /\ pageSize \in Int
              BY <1>3, <1>4, <2>3
            <7> HIDE DEF g
            <7> QED
              BY <7>1, <7>2, <7>3 DEF Apart
          <6>3. host[page + g] = 0
            BY <4>4, <6>2 DEF ContentInv, ZeroOutside
          <6> QED
            BY <4>8, <5>1, <6>1, <6>3
        <5> QED
          BY <5>2, <5>3
      <4> QED
        BY <4>7, <4>8
    <3> QED
      BY <3>5, <3>6
  <2>7. CASE ~(e.ram = d.ram /\ j = i)
    <3>1. b \notin a .. a + n - 1
      <4>1. SUFFICES ASSUME b \in a .. a + n - 1 PROVE FALSE
        OBVIOUS
      <4>2. Contains(d, b) /\ PageId(b - d.left) = i
        BY <1>7, <4>1
      <4>3. e = d
        BY <1>1, <1>9, <4>2, OneDevice
      <4> QED
        BY <2>7, <4>2, <4>3
    <3>2. j \in DOMAIN pagemap'[e.ram] <=> j \in DOMAIN pagemap[e.ram]
      BY <1>5, <2>1, <2>7
    <3>3. CASE j \notin DOMAIN pagemap[e.ram]
      BY <2>4, <2>5, <3>1, <3>2, <3>3
    <3>4. CASE j \in DOMAIN pagemap[e.ram]
      <4> DEFINE p == pagemap[e.ram][j]
      <4>1. pagemap'[e.ram][j] = p /\ p \in Nat /\ p # Null
        BY <1>5, <2>1, <3>4 DEF PMTyped, PMTypeOK, CrashInv, NoNullPage, Stores
      <4>2. Cell(b) = host[p + g] /\ Cell(b)' = host'[p + g]
        BY <2>4, <2>5, <3>2, <3>4, <4>1
      <4>3. CASE page = Null
        BY <1>2, <3>1, <4>2, <4>3
      <4>4. CASE page # Null
        <5>1. host' = [x \in 0 .. HostSize - 1 |->
                         IF Inside(x) THEN bytes[x - h + 1] ELSE host[x]]
          BY <1>2, <4>4
        <5>2. Apart(page, p, pageSize)
          <6>1. CASE Touched(d.ram, o)
            <7>1. i \in DOMAIN pagemap[d.ram] /\ pagemap[d.ram][i] = page
              BY <1>3, <6>1 DEF touchPageAddress, Touched
            <7> QED
              BY <1>1, <2>1, <2>7, <3>4, <4>1, <4>4, <7>1 DEF ContentInv, PagemapApart
          <6>2. CASE ~Touched(d.ram, o)
            <7>1. PICK k \in DOMAIN pages : pages[k] = p
              BY <2>1, <3>4, <4>1 DEF CrashInv, PagesKnown
            <7> QED
              BY <1>1, <1>3, <4>4, <6>2, <7>1, NewPageApart DEF CrashInv
          <6> QED
            BY <6>1, <6>2
        <5>3. PICK k \in DOMAIN pages : pages[k] = p
          BY <2>1, <3>4, <4>1 DEF CrashInv, PagesKnown
        <5>4. PICK m \in mapped : m <= p /\ p + pageSize <= m + hostMmapSize
          BY <5>3 DEF CrashInv, AllocInv, PagesOwned
        <5>5. m \in Nat /\ m + hostMmapSize <= HostSize
          BY AllocatorConstants, RegionSize DEF CrashInv, AllocInv, AllocTypeOK, HostPages
        <5> HIDE DEF p
        <5>6. p + g \in 0 .. HostSize - 1
          BY <2>3, <4>1, <5>4, <5>5, RegionHoldsPage
        <5>7. ~Inside(p + g)
          <6> HIDE DEF f, g, n
          <6> QED
            BY <1>3, <1>4, <2>3, <4>1, <5>2 DEF Apart
        <5> QED
          BY <3>1, <4>2, <5>1, <5>6, <5>7
      <4> QED
        BY <4>3, <4>4
    <3> QED
      BY <3>3, <3>4
  <2> QED
    BY <2>6, <2>7
<1> QED
  BY <1>8, <1>9

-----------------------------------------------------------------------------
(* OneDevice after a step.                                                 *)
LEMMA OneDeviceNext ==
  ASSUME RangesApart, PMTyped', NEW a \in Addrs, NEW d \in devices', Contains(d, a)
  PROVE  Scan(a)' = {d}
<1>1. ASSUME NEW e \in devices', Contains(e, a) PROVE e = d
  <2>1. /\ d.ram \in DOMAIN config' /\ e.ram \in DOMAIN config'
        /\ d.left = config'[d.ram].left /\ d.right = config'[d.ram].right
        /\ e.left = config'[e.ram].left /\ e.right = config'[e.ram].right
    BY DEF PMTyped, DevicesConfigured
  <2>2. Contains(config'[d.ram], a) /\ Contains(config'[e.ram], a)
    BY <1>1, <2>1 DEF Contains
  <2>3. config' \in Configs
    BY DEF PMTyped, PMTypeOK
  <2>4. d.left = e.left
    BY <2>1, <2>2, <2>3 DEF RangesApart
  <2> QED
    BY <2>4 DEF PMTyped, DevicesConfigured
<1>2. d.left \in Int
  BY PhysMemConstants DEF PMTyped, PMTypeOK, Addrs
<1>3. d.left <= d.left
  BY <1>2
<1> QED
  BY <1>1, <1>3 DEF Scan, Contains

LEMMA FlatSame ==
  ASSUME UNCHANGED <<devices, pagemap, host>>
  PROVE  FlatValid' = FlatValid /\ FlatCells' = FlatCells
<1>1. \A b \in Addrs : Scan(b)' = Scan(b) /\ Cell(b)' = Cell(b)
  BY QuietCells
<1> QED
  BY <1>1 DEF FlatValid, FlatCells, Addrs

(* PhysMemBuilder adds valid cells that hold zero.                         *)
LEMMA FlatMap ==
  ASSUME RangesApart, PMTyped, PMTyped', ContentInv, mapRAM
  PROVE  Flat!Map
<1>1. /\ devices \subseteq devices' /\ UNCHANGED <<pagemap, result>>
      /\ \A r \in Rams : DOMAIN pagemap[r] = {}
  BY DEF mapRAM, ContentInv, EmptyUntilBuilt
<1>2. ASSUME NEW b \in Addrs PROVE Cell(b) = 0 /\ Cell(b)' = 0
  <2>1. Cell(b) = 0
    <3>1. CASE Scan(b) = {}
      BY <3>1 DEF Cell
    <3>2. CASE Scan(b) # {}
      <4>1. PICK d : d = CHOOSE e \in Scan(b) : TRUE
        OBVIOUS
      <4>2. d \in Scan(b)
        BY <3>2, <4>1
      <4>3. d.ram \in Rams
        BY <4>2 DEF Scan, PMTyped, PMTypeOK
      <4>4. LoadFrom(d.ram, b - d.left, 1)[1] = 0
        BY <1>1, <4>3 DEF LoadFrom, Touched
      <4> QED
        BY <3>2, <4>1, <4>4 DEF Cell
    <3> QED
      BY <3>1, <3>2
  <2>2. Cell(b)' = 0
    <3>1. CASE Scan(b)' = {}
      BY <3>1 DEF Cell
    <3>2. CASE Scan(b)' # {}
      <4>1. PICK d : d = CHOOSE e \in Scan(b)' : TRUE
        OBVIOUS
      <4>2. d \in Scan(b)'
        BY <3>2, <4>1
      <4>3. d.ram \in Rams
        BY <4>2 DEF Scan, PMTyped, PMTypeOK
      <4>4. LoadFrom(d.ram, b - d.left, 1)'[1] = 0
        BY <1>1, <4>3 DEF LoadFrom, Touched
      <4> QED
        BY <3>2, <4>1, <4>4 DEF Cell
    <3> QED
      BY <3>1, <3>2
  <2> QED
    BY <2>1, <2>2
<1>3. FlatCells' = FlatCells
  BY <1>2 DEF FlatCells, Addrs
<1>4. ASSUME NEW b \in Addrs, Scan(b) # {} PROVE Scan(b)' # {}
  <2>1. PICK d \in devices : Contains(d, b)
    BY <1>4 DEF Scan
  <2>2. d \in devices'
    BY <1>1
  <2> QED
    BY <2>1, <2>2, OneDeviceNext
<1>5. FlatValid \subseteq FlatValid' /\ FlatValid' \in SUBSET Addrs
  BY <1>4 DEF FlatValid, Addrs
<1> QED
  BY <1>1, <1>3, <1>5 DEF Flat!Map

(* An address without a device is refused.                                 *)
LEMMA FlatNotFound ==
  ASSUME RangesApart, PMTyped, NEW a \in Addrs, NotFound(a),
         UNCHANGED <<devices, pagemap, host>>
  PROVE  Flat!Refuse
<1>1. result' = Access("InvalidAddress", a, <<>>) /\ Scan(a) = {}
  BY LookupIsScan DEF NotFound
<1>2. result' \in Accesses
  BY <1>1, RefusalTyped
<1>3. result'.kind = "InvalidAddress" /\ result'.addr = a
  BY <1>1 DEF Access
<1>4. a \notin FlatValid
  BY <1>1 DEF FlatValid
<1> QED
  BY <1>2, <1>3, <1>4, FlatSame DEF Flat!Refuse

(* A misaligned offset is a misaligned address.                            *)
LEMMA FlatUnaligned ==
  ASSUME RangesApart, WholePages, PMTyped, NEW a \in Addrs, NEW d \in findDevice(a),
         NEW n \in AccessSizes, ~Aligned(a - d.left, n),
         result' = Access("UnalignedAddress", a, <<>>), UNCHANGED <<devices, pagemap, host>>
  PROVE  Flat!Refuse
<1>1. d \in devices /\ Contains(d, a) /\ n \in Nat \ {0}
  BY FoundDevice, PhysMemConstants DEF PMTyped
<1>2. d.left \in Nat /\ a \in Nat /\ d.left <= a
  BY <1>1, PhysMemConstants DEF PMTyped, PMTypeOK, Addrs, Contains
<1>3. d.left % n = 0
  BY <1>1, PageInDevice
<1>4. a % n # 0
  BY <1>1, <1>2, <1>3, MultipleMinus DEF Aligned
<1>5. a \in FlatValid
  BY <1>1, OneDevice DEF FlatValid
<1>6. /\ result' \in Accesses /\ result'.kind = "UnalignedAddress" /\ result'.addr = a
  BY RefusalTyped DEF Access
<1> QED
  BY <1>4, <1>5, <1>6, FlatSame DEF Flat!Refuse

(* What RAM::load reads on one page are the cells of the addresses.        *)
LEMMA LoadedCells ==
  ASSUME RangesApart, WholePages, PMTyped, NEW a \in Addrs, NEW d \in devices,
         Contains(d, a), NEW n \in Nat, PageOffset(a - d.left) + n <= pageSize,
         NEW k \in 1 .. n
  PROVE  a + k - 1 \in FlatValid /\ LoadFrom(d.ram, a - d.left, n)[k] = Cell(a + k - 1)
<1> DEFINE o == a - d.left
           b == a + k - 1
           f == PageOffset(o)
<1>1. a \in Nat /\ d.ram \in Rams /\ o \in Nat
  BY PageInDevice, PhysMemConstants DEF PMTyped, PMTypeOK, Addrs
<1>2. f \in 0 .. pageSize - 1 /\ pageSize \in Nat
  BY <1>1, OffsetOnPage, AllocatorConstants
<1>3. b \in Int /\ a <= b /\ b - a = k - 1 /\ f + (b - a) < pageSize
  BY <1>1, <1>2
<1>4. /\ b \in Addrs /\ Contains(d, b) /\ PageId(b - d.left) = PageId(o)
      /\ PageOffset(b - d.left) = f + (b - a)
  BY <1>3, SamePage
<1>5. Scan(b) = {d}
  BY <1>4, OneDevice
<1>6. Cell(b) = IF PageId(o) \in DOMAIN pagemap[d.ram]
                THEN host[pagemap[d.ram][PageId(o)] + (f + (b - a))] ELSE 0
  BY <1>4, <1>5, CellOnDevice DEF Touched
<1>7. CASE Touched(d.ram, o)
  <2> DEFINE p == pagemap[d.ram][PageId(o)]
  <2>1. getHostAddress(d.ram, o) = p + f /\ p \in Nat
    BY <1>1, <1>7, HostAddressTyped
  <2>2. LoadFrom(d.ram, o, n)[k] = host[(p + f) + k - 1]
    BY <1>7, <2>1 DEF LoadFrom, HostBytes
  <2>3. Cell(b) = host[p + (f + (b - a))]
    BY <1>6, <1>7 DEF Touched
  <2> HIDE DEF p, f, b
  <2>4. p + (f + (b - a)) = (p + f) + k - 1
    BY <1>2, <1>3, <2>1
  <2> QED
    BY <1>4, <1>5, <2>2, <2>3, <2>4 DEF FlatValid, b
<1>8. CASE ~Touched(d.ram, o)
  <2>1. LoadFrom(d.ram, o, n)[k] = 0
    BY <1>8 DEF LoadFrom
  <2>2. Cell(b) = 0
    BY <1>6, <1>8 DEF Touched
  <2> QED
    BY <1>4, <1>5, <2>1, <2>2 DEF FlatValid
<1> QED
  BY <1>7, <1>8

LEMMA FlatLoaded ==
  ASSUME RangesApart, WholePages, PMTyped, PMTyped', NEW a \in Addrs, NEW d \in devices,
         Contains(d, a), NEW n \in Nat, PageOffset(a - d.left) + n <= pageSize,
         result' = Access("loaded", a, LoadFrom(d.ram, a - d.left, n)),
         UNCHANGED <<devices, pagemap, host>>
  PROVE  Flat!Load
<1> DEFINE bytes == LoadFrom(d.ram, a - d.left, n)
<1>1. /\ result' \in Accesses /\ result'.kind = "loaded" /\ result'.addr = a
      /\ result'.bytes = bytes
  BY DEF PMTyped, PMTypeOK, Access, Accesses
<1>2. bytes \in Seq(Bytes)
  BY <1>1 DEF Accesses
<1>3. DOMAIN bytes = 1 .. n
  BY DEF LoadFrom, HostBytes
<1> HIDE DEF bytes
<1>4. Len(bytes) = n
  BY <1>2, <1>3
<1>5. \A k \in 1 .. n : a + k - 1 \in FlatValid /\ bytes[k] = Cell(a + k - 1)
  BY LoadedCells DEF bytes
<1>6. a \in Nat
  BY PhysMemConstants DEF Addrs
<1>7. a .. a + n - 1 \subseteq FlatValid
  <2>1. ASSUME NEW b \in a .. a + n - 1 PROVE b \in FlatValid
    <3>1. b - a + 1 \in 1 .. n /\ a + (b - a + 1) - 1 = b
      BY <1>6
    <3> QED
      BY <1>5, <3>1
  <2> QED
    BY <2>1
<1>8. \A k \in DOMAIN bytes : bytes[k] = FlatCells[a + k - 1]
  BY <1>3, <1>5 DEF FlatCells, FlatValid
<1> QED
  BY <1>1, <1>4, <1>7, <1>8, FlatSame DEF Flat!Load, Flat!Covers

(* PhysMem::load, as a load of the array, or a refusal.                    *)
LEMMA FlatLoadStep ==
  ASSUME RangesApart, WholePages, PMTyped, PMTyped', CrashInv,
         NEW a \in Addrs, NEW n \in AccessSizes, load(a, n)
  PROVE  Flat!Refuse \/ Flat!Load
<1>1. UNCHANGED <<devices, pagemap, host>> /\ phase' # "crashed" /\ n \in Nat
  BY LoadIsServed, PhysMemConstants DEF load
<1>2. CASE NotFound(a)
  BY <1>1, <1>2, FlatNotFound
<1>3. ASSUME NEW d \in findDevice(a), ~Aligned(a - d.left, n),
             result' = Access("UnalignedAddress", a, <<>>)
      PROVE  Flat!Refuse
  BY <1>1, <1>3, FlatUnaligned
<1>4. ASSUME NEW d \in findDevice(a), Aligned(a - d.left, n),
             result' = Access("loaded", a, LoadFrom(d.ram, a - d.left, n))
      PROVE  Flat!Load
  <2>1. d \in devices /\ Contains(d, a) /\ a - d.left \in Nat
    BY FoundDevice, PhysMemConstants DEF PMTyped, Addrs
  <2>2. PageOffset(a - d.left) + n <= pageSize
    BY <1>4, <2>1, AlignedOnPage DEF Aligned
  <2> QED
    BY <1>1, <1>4, <2>1, <2>2, FlatLoaded
<1> QED
  BY <1>1, <1>2, <1>3, <1>4 DEF load, translateAddress

(* A hit reads the word of its own address.                                *)
LEMMA FlatHit ==
  ASSUME RangesApart, WholePages, AlignedFetches, PMTyped, PMTyped', WindowInv, CrashInv,
         NEW v \in FetchAddrs, prefetchHit(v)
  PROVE  Flat!Load
<1> DEFINE s == window.start
           w == WordSize * ((v - s) \div WordSize)
<1>1. /\ v \in Addrs /\ WordSize \in Nat \ {0} /\ InWindow(v) /\ phase' # "crashed"
      /\ UNCHANGED <<devices, pagemap, host>> /\ ReadWord(v, window.saved + w)
  BY HitIsServed, PhysMemConstants DEF prefetchHit
<1>2. /\ v - s \in 1 .. window.len - 1 /\ s \in Nat /\ window.len \in Nat
      /\ v \in Nat /\ s \in Addrs
  BY <1>1, HitInside, PhysMemConstants DEF Addrs, PMTyped, PMShape
<1>3. PICK d \in Scan(s) :
        /\ Touched(d.ram, s - d.left)
        /\ window.saved = getHostAddress(d.ram, s - d.left)
        /\ s \in FetchAddrs
        /\ PageOffset(s - d.left) \in Nat
        /\ PageOffset(s - d.left) + window.len <= pageSize
  BY <1>1, HitOnPage
<1>4. d \in devices /\ Contains(d, s) /\ d.ram \in Rams
  BY <1>3 DEF Scan, PMTyped, PMTypeOK
<1> DEFINE f == PageOffset(s - d.left)
<1>5. /\ Contains(d, v) /\ PageId(v - d.left) = PageId(s - d.left)
      /\ PageOffset(v - d.left) = f + (v - s)
  <2>1. v \in Int /\ s <= v /\ f + (v - s) < pageSize
    BY <1>2, <1>3, AllocatorConstants
  <2> QED
    BY <1>2, <1>4, <2>1, SamePage
<1>6. /\ s - d.left \in Nat /\ (s - d.left) % WordSize = 0
      /\ v - d.left \in Nat /\ (v - d.left) % WordSize = 0
      /\ PageOffset(v - d.left) + WordSize <= pageSize
  BY <1>3, <1>4, <1>5, FetchedWord
<1>7. d.left \in Int
  BY <1>4, PhysMemConstants DEF PMTyped, PMTypeOK, Addrs
<1>8. (v - s) % WordSize = 0 /\ v - s \in Nat
  <2> DEFINE x == v - d.left
             y == s - d.left
  <2>1. y <= x /\ x - y = v - s
    BY <1>2, <1>7
  <2>2. x \in Nat /\ y \in Nat /\ x % WordSize = 0 /\ y % WordSize = 0
    BY <1>6
  <2> HIDE DEF x, y
  <2>3. (x - y) % WordSize = 0
    BY <1>1, <2>1, <2>2, MultipleMinus
  <2> QED
    BY <1>2, <2>1, <2>3
<1>9. w = v - s
  BY <1>1, <1>8, WholeQuotient
<1> HIDE DEF w
<1>10. Touched(d.ram, v - d.left)
  BY <1>3, <1>5 DEF Touched
<1>11. getHostAddress(d.ram, v - d.left) = window.saved + w
  <2> DEFINE p == pagemap[d.ram][PageId(s - d.left)]
  <2>1. window.saved = p + f /\ p \in Nat
    BY <1>3, <1>4, <1>6, HostAddressTyped
  <2>2. getHostAddress(d.ram, v - d.left) = p + (f + (v - s))
    BY <1>5, <1>10 DEF getHostAddress
  <2> HIDE DEF p, f
  <2>3. f \in Nat
    BY <1>3 DEF f
  <2> QED
    BY <1>2, <1>9, <2>1, <2>2, <2>3
<1>12. result' = Access("loaded", v, LoadFrom(d.ram, v - d.left, WordSize))
  BY <1>1, <1>10, <1>11 DEF ReadWord, LoadFrom
<1> QED
  BY <1>1, <1>4, <1>5, <1>6, <1>12, FlatLoaded

LEMMA FlatMiss ==
  ASSUME RangesApart, WholePages, AlignedFetches, PMTyped, PMTyped', CrashInv,
         NEW v \in FetchAddrs, prefetchMiss(v)
  PROVE  Flat!Refuse \/ Flat!Load
<1>1. /\ UNCHANGED <<devices, pagemap, host>> /\ phase' # "crashed" /\ WordSize \in Nat
      /\ v \in Addrs /\ WordSize \in AccessSizes
  BY MissIsServed, PhysMemConstants DEF prefetchMiss
<1>2. CASE NotFound(v)
  BY <1>1, <1>2, FlatNotFound
<1>3. ASSUME NEW d \in findDevice(v),
             \/ Touched(d.ram, v - d.left) /\ ReadWord(v, getHostAddress(d.ram, v - d.left))
             \/ /\ ~Touched(d.ram, v - d.left)
                /\ result' = IF Aligned(v - d.left, WordSize)
                             THEN Access("loaded", v, LoadFrom(d.ram, v - d.left, WordSize))
                             ELSE Access("UnalignedAddress", v, <<>>)
      PROVE  Flat!Load
  <2>1. d \in devices /\ Contains(d, v)
    BY <1>1, FoundDevice DEF PMTyped
  <2>2. (v - d.left) % WordSize = 0 /\ PageOffset(v - d.left) + WordSize <= pageSize
    BY <2>1, FetchedWord
  <2>3. result' = Access("loaded", v, LoadFrom(d.ram, v - d.left, WordSize))
    BY <1>1, <1>3, <2>2 DEF ReadWord, LoadFrom, Aligned
  <2> QED
    BY <1>1, <2>1, <2>2, <2>3, FlatLoaded
<1> QED
  BY <1>2, <1>3 DEF prefetchMiss, translateAddress

(* A store, and what a copy stores on one page.                            *)
LEMMA FlatStored ==
  ASSUME RangesApart, PageFitsHost, WholePages, HostHasPage, PMTyped, PMTyped',
         CrashInv, CrashInv', ContentInv, NEW a, NEW d, NEW bytes, Stores(a, d, bytes)
  PROVE  [Flat!Store]_<<FlatValid, FlatCells, result>>
<1>1. devices' = devices
  BY DEF Stores
<1>2. FlatValid' = FlatValid
  BY <1>1 DEF FlatValid, Scan, Contains, Addrs
<1> DEFINE n == Len(bytes)
<1>3. /\ a \in Addrs /\ a \in Nat /\ d \in devices /\ Contains(d, a)
      /\ n \in Nat /\ a - d.left \in Nat
  BY FoundDevice, PhysMemConstants DEF Stores, PMTyped, Addrs
<1>4. \A b \in Addrs : Cell(b)' = IF phase' # "crashed" /\ b \in a .. a + n - 1
                                  THEN bytes[b - a + 1] ELSE Cell(b)
  <2> DEFINE b == a + n - 1
  <2>1. PageOffset(a - d.left) \in 0 .. pageSize - 1
    BY <1>3, OffsetOnPage
  <2>2. b \in Int /\ a <= b /\ b - a = n - 1 /\ PageOffset(a - d.left) + (b - a) < pageSize
    BY <1>3, <2>1, AllocatorConstants DEF Stores
  <2>3. d.right \in Int
    BY <1>3, PhysMemConstants DEF PMTyped, PMTypeOK, Addrs
  <2> HIDE DEF b
  <2>4. b < d.right
    BY <1>3, <2>2, SamePage
  <2>5. a + n <= d.right
    BY <1>3, <2>2, <2>3, <2>4
  <2> QED
    BY <2>5, StoreCells
<1>5. CASE phase' = "crashed"
  <2>1. FlatCells' = FlatCells
    BY <1>4, <1>5 DEF FlatCells, Addrs
  <2>2. result' = result
    BY <1>5, StoreEffect
  <2> QED
    BY <1>2, <2>1, <2>2
<1>6. CASE phase' # "crashed"
  <2>1. result' = Access("stored", a, bytes)
    BY <1>6, StoreEffect
  <2>2. /\ result' \in Accesses /\ result'.kind = "stored" /\ result'.addr = a
        /\ result'.bytes = bytes
    BY <2>1 DEF PMTyped, PMTypeOK, Access, Accesses
  <2>3. a .. a + n - 1 \subseteq FlatValid
    <3>1. ASSUME NEW b \in a .. a + n - 1 PROVE b \in FlatValid
      <4>1. PageOffset(a - d.left) \in 0 .. pageSize - 1
        BY <1>3, OffsetOnPage
      <4>2. b \in Int /\ a <= b /\ PageOffset(a - d.left) + (b - a) < pageSize
        BY <1>3, <4>1, AllocatorConstants DEF Stores
      <4>3. b \in Addrs /\ Contains(d, b)
        BY <1>3, <4>2, SamePage
      <4> QED
        BY <1>3, <4>3, OneDevice DEF FlatValid
    <3> QED
      BY <3>1
  <2>4. FlatCells' = [b \in Addrs |-> IF b \in a .. a + n - 1 THEN bytes[b - a + 1]
                                      ELSE FlatCells[b]]
    BY <1>4, <1>6 DEF FlatCells, Addrs
  <2> QED
    BY <1>2, <2>2, <2>3, <2>4 DEF Flat!Store, Flat!Covers
<1> QED
  BY <1>5, <1>6

LEMMA FlatStoreStep ==
  ASSUME RangesApart, PageFitsHost, WholePages, HostHasPage, PMTyped, PMTyped',
         CrashInv, CrashInv', ContentInv, NEW a \in StoreAddrs, NEW n \in AccessSizes,
         NEW bytes \in [1 .. n -> Bytes], store(a, bytes)
  PROVE  Flat!Refuse \/ [Flat!Store]_<<FlatValid, FlatCells, result>>
<1>1. a \in Addrs /\ n \in Nat \ {0} /\ bytes \in Seq(Bytes) /\ Len(bytes) = n
  BY PhysMemConstants
<1>2. devices' = devices
  BY DEF store
<1>3. CASE NotFound(a) /\ UNCHANGED <<pagemap, host>>
  BY <1>1, <1>2, <1>3, FlatNotFound
<1>4. ASSUME NEW d \in findDevice(a), ~Aligned(a - d.left, n),
             result' = Access("UnalignedAddress", a, <<>>), UNCHANGED <<pagemap, host>>
      PROVE  Flat!Refuse
  BY <1>1, <1>2, <1>4, FlatUnaligned
<1>5. ASSUME NEW d \in findDevice(a), lastAccessed' = d, Aligned(a - d.left, n),
             Write(d, a, bytes, "built")
      PROVE  [Flat!Store]_<<FlatValid, FlatCells, result>>
  <2>1. a - d.left \in Nat
    BY <1>1, FoundDevice, PhysMemConstants DEF PMTyped, Addrs
  <2>2. PageOffset(a - d.left) + n <= pageSize
    BY <1>5, <2>1, AlignedOnPage DEF Aligned
  <2>3. UNCHANGED <<config, next, devices, window>> /\ phase = "built"
    BY DEF store
  <2>4. Stores(a, d, bytes)
    BY <1>1, <1>5, <2>2, <2>3 DEF Stores
  <2> QED
    BY <2>4, FlatStored
<1> QED
  BY <1>1, <1>3, <1>4, <1>5 DEF store, translateAddress

LEMMA FlatCopyStep ==
  ASSUME RangesApart, PageFitsHost, WholePages, HostHasPage, PMTyped, PMTyped',
         CrashInv, CrashInv', ContentInv, copyStep
  PROVE  Flat!Refuse \/ [Flat!Store]_<<FlatValid, FlatCells, result>>
<1> DEFINE a == (area.addr + area.pos) % ASize
<1>1. a \in Addrs
  <2>1. area.addr + area.pos \in Nat
    <3>1. area.addr \in Addrs /\ area.pos \in Nat
      BY DEF PMTyped, PMShape
    <3> QED
      BY <3>1, PhysMemConstants DEF Addrs
  <2>2. a \in 0 .. ASize - 1
    BY <2>1, Quotient, PhysMemConstants
  <2> QED
    BY <2>2 DEF Addrs
<1>2. CASE NotFound(a) /\ UNCHANGED <<pagemap, host>>
  <2>1. devices' = devices
    BY DEF copyStep
  <2> HIDE DEF a
  <2> QED
    BY <1>1, <1>2, <2>1, FlatNotFound
<1>3. CASE ~(NotFound(a) /\ UNCHANGED <<pagemap, host>>)
  <2>1. \E x, d, bytes : Stores(x, d, bytes)
    BY <1>3, CopyStores DEF a
  <2> QED
    BY <2>1, FlatStored
<1> QED
  BY <1>2, <1>3

(* Every call of the memory system is a step of the array of bytes.        *)
LEMMA FlatStep ==
  ASSUME RangesApart, PageFitsHost, AlignedFetches, WholePages, HostHasPage,
         PMTyped, PMTyped', WindowInv, CrashInv, CrashInv', ContentInv, [MemNext]_pmVars
  PROVE  [Flat!Next]_Flat!vars
<1> USE DEF Flat!Next, Flat!vars
<1>1. CASE UNCHANGED pmVars
  BY <1>1, FlatSame DEF pmVars
<1>2. CASE build \/ copyEnd \/ \E c \in AnyArea : storeContArea(c)
  <2>1. UNCHANGED <<devices, pagemap, host, result>>
    BY <1>2 DEF build, copyEnd, storeContArea
  <2> QED
    BY <2>1, FlatSame
<1>3. CASE mapRAM
  BY <1>3, FlatMap
<1>4. CASE copyStep
  BY <1>4, FlatCopyStep
<1>5. ASSUME NEW a \in LoadAddrs, NEW n \in AccessSizes, load(a, n)
      PROVE  Flat!Refuse \/ Flat!Load
  BY <1>5, FlatLoadStep, PhysMemConstants
<1>6. ASSUME NEW a \in StoreAddrs, NEW n \in AccessSizes,
             NEW bytes \in [1 .. n -> Bytes], store(a, bytes)
      PROVE  Flat!Refuse \/ [Flat!Store]_<<FlatValid, FlatCells, result>>
  BY <1>6, FlatStoreStep
<1>7. ASSUME NEW v \in FetchAddrs, prefetchHit(v) \/ prefetchMiss(v)
      PROVE  Flat!Refuse \/ Flat!Load
  BY <1>7, FlatHit, FlatMiss
<1> QED
  BY <1>1, <1>2, <1>3, <1>4, <1>5, <1>6, <1>7 DEF MemNext

LEMMA FlatStart == ASSUME PMInit PROVE Flat!Init
<1>1. devices = {} /\ \A b : Scan(b) = {}
  BY DEF PMInit, Scan
<1>2. FlatValid = {} /\ FlatCells = [b \in Addrs |-> 0]
  BY <1>1 DEF FlatValid, FlatCells, Cell
<1>3. result \in Accesses /\ result.kind = "none"
  BY InitTyped DEF PMInit, PMTyped, PMTypeOK, Access
<1> QED
  BY <1>2, <1>3 DEF Flat!Init

(* The memory system is an array of bytes: pages, chunks, the cached       *)
(* device and the prefetcher's window are invisible to the guest, in every *)
(* order of calls, when devices do not overlap and as long as those that   *)
(* are mapped hold whole pages.                                            *)
THEOREM PMImplementsFlatMemory ==
  ASSUME RangesApart, PageFitsHost, AlignedFetches, HostHasPage
  PROVE  PMSpec => ImplementsFlatMemory
<1>1. PMInit => Flat!Init /\ WindowInv /\ CrashInv /\ ContentInv
  BY FlatStart, WindowInit, CrashInit, ContentInit
<1>2. PMTyped /\ WindowInv /\ CrashInv /\ ContentInv /\ [PMNext]_pmVars
        => WindowInv' /\ CrashInv' /\ ContentInv'
  BY WindowStep, CrashStep, ContentStep, PMNextIsMemNext
<1>3. PMTyped /\ PMTyped' /\ WindowInv /\ CrashInv /\ CrashInv' /\ ContentInv
        /\ [PMNext]_pmVars
        => [WholePages => Flat!Next]_Flat!vars
  BY FlatStep, PMNextIsMemNext
<1> QED
  BY <1>1, <1>2, <1>3, PMTypedInvariance, PTL DEF PMSpec, ImplementsFlatMemory
=============================================================================
