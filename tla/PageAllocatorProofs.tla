------------------------ MODULE PageAllocatorProofs ------------------------
(***************************************************************************)
(* No two guest pages overlap, for every number of RAMs and every size of  *)
(* host memory, provided that a host page holds a whole number of guest    *)
(* pages.  The argument: chunks are disjoint, a chunk is a whole number of *)
(* pages long, and everything handed out of the chunk in use lies below    *)
(* its rower.                                                              *)
(***************************************************************************)
EXTENDS PageAllocator, TLAPS

Multiple(x) == \E k \in Nat : x = k * pageSize

RegionsApart == \A m, n \in mapped : m # n => Apart(m, n, hostMmapSize)

(* The chunks in use are mapped regions, and their rowers stand between    *)
(* pages.                                                                  *)
BackMapped ==
  \A r \in Rams : back[r] # NoChunk =>
    /\ back[r].data \in mapped
    /\ Multiple(back[r].rower - back[r].data)

BacksApart ==
  \A r, q \in Rams :
    r # q /\ back[r] # NoChunk /\ back[q] # NoChunk => back[r].data # back[q].data

(* What was handed out of the chunk in use is below its rower.             *)
PagesBelow ==
  \A r \in Rams : \A i \in DOMAIN pages :
    (back[r] # NoChunk /\ back[r].data <= pages[i]
       /\ pages[i] + pageSize <= back[r].data + hostMmapSize)
      => pages[i] + pageSize <= back[r].rower

AllocInv ==
  /\ AllocTypeOK
  /\ RegionsApart
  /\ BackMapped
  /\ BacksApart
  /\ PagesOwned
  /\ PagesBelow
  /\ PagesApart

-----------------------------------------------------------------------------
(* What integer division computes.                                         *)
LEMMA Quotient ==
  ASSUME NEW a \in Nat, NEW b \in Nat \ {0}
  PROVE  /\ a \div b \in Nat
         /\ a % b \in 0 .. b - 1
         /\ a = b * (a \div b) + (a % b)
  OBVIOUS

(* A chunk holds at least one byte, and a whole number of pages: what      *)
(* Chunk::Chunk maps, rounded up to host pages, leaves no partial page.    *)
LEMMA ChunkOfPages ==
  ASSUME PageFitsHost
  PROVE  hostMmapSize \in Nat \ {0} /\ Multiple(hostMmapSize)
<1> DEFINE c == chunkSize \div hostPage
           q == hostPage \div pageSize
<1>1. /\ c \in Nat /\ chunkSize % hostPage \in 0 .. hostPage - 1
      /\ chunkSize = hostPage * c + (chunkSize % hostPage)
  BY Quotient, AllocatorConstants
<1>2. q \in Nat /\ hostPage = pageSize * q
  BY Quotient, AllocatorConstants DEF PageFitsHost
<1>3. hostMmapSize = hostPage * c + hostPage
  BY <1>1, AllocatorConstants DEF hostMmapSize
<1> HIDE DEF c, q
<1>4. hostMmapSize = (q * c + q) * pageSize
  BY <1>1, <1>2, <1>3, AllocatorConstants
<1>5. hostMmapSize \in Nat \ {0}
  BY <1>1, AllocatorConstants DEF hostMmapSize
<1>6. q * c + q \in Nat
  BY <1>1, <1>2
<1> QED
  BY <1>4, <1>5, <1>6 DEF Multiple

(* Between two multiples of the page size there is room for a page.        *)
LEMMA RoomForPage ==
  ASSUME NEW x, NEW y, Multiple(x), Multiple(y), x < y
  PROVE  x + pageSize <= y
<1>1. PICK k \in Nat : x = k * pageSize
  BY DEF Multiple
<1>2. PICK m \in Nat : y = m * pageSize
  BY DEF Multiple
<1>3. k + 1 <= m
  <2>1. SUFFICES ASSUME m <= k PROVE FALSE
    OBVIOUS
  <2>2. PICK e \in Nat : k = m + e
    BY <2>1
  <2>3. k * pageSize = m * pageSize + e * pageSize /\ e * pageSize >= 0
    BY <2>2, AllocatorConstants
  <2> QED
    BY <1>1, <1>2, <2>3, AllocatorConstants
<1>4. PICK e \in Nat : m = (k + 1) + e
  BY <1>3
<1>5. m * pageSize = k * pageSize + pageSize + e * pageSize /\ e * pageSize >= 0
  BY <1>4, AllocatorConstants
<1> QED
  BY <1>1, <1>2, <1>5, AllocatorConstants

LEMMA NextMultiple ==
  ASSUME NEW x, Multiple(x)
  PROVE  Multiple(x + pageSize)
<1>1. PICK k \in Nat : x = k * pageSize
  BY DEF Multiple
<1>2. x + pageSize = (k + 1) * pageSize /\ k + 1 \in Nat
  BY <1>1, AllocatorConstants
<1> QED
  BY <1>2 DEF Multiple

(* The page under the rower ends inside its chunk.                         *)
LEMMA PageUnderRower ==
  ASSUME PageFitsHost, AllocInv, NEW r \in Rams, HasRoom(r)
  PROVE  /\ back[r].data \in mapped /\ back[r].data \in Nat /\ back[r].rower \in Nat
         /\ back[r].data <= back[r].rower
         /\ back[r].rower + pageSize <= back[r].data + hostMmapSize
<1>1. back[r] # NoChunk /\ back[r].rower < back[r].data + hostMmapSize
  BY DEF HasRoom
<1>2. back[r].data \in HostPages /\ back[r].rower \in Nat
  BY <1>1 DEF AllocInv, AllocTypeOK
<1>3. back[r].data \in mapped /\ Multiple(back[r].rower - back[r].data)
  BY <1>1 DEF AllocInv, BackMapped
<1>4. back[r].data \in Nat
  BY <1>2, AllocatorConstants DEF HostPages
<1>5. back[r].rower - back[r].data >= 0
  <2>1. PICK k \in Nat : back[r].rower - back[r].data = k * pageSize
    BY <1>3 DEF Multiple
  <2>2. k * pageSize \in Nat
    BY AllocatorConstants
  <2> QED
    BY <2>1, <2>2
<1>6. hostMmapSize \in Nat \ {0} /\ Multiple(hostMmapSize)
  BY ChunkOfPages
<1>7. back[r].rower - back[r].data < hostMmapSize
  BY <1>1, <1>2, <1>4, <1>6
<1>8. (back[r].rower - back[r].data) + pageSize <= hostMmapSize
  BY <1>3, <1>6, <1>7, RoomForPage
<1> QED
  BY <1>2, <1>3, <1>4, <1>5, <1>6, <1>8, AllocatorConstants

-----------------------------------------------------------------------------
LEMMA AllocInitInv == ASSUME AllocInit PROVE AllocInv
  BY DEF AllocInit, AllocInv, AllocTypeOK, RegionsApart, BackMapped, BacksApart,
         PagesOwned, PagesBelow, PagesApart, NoChunk

(* The next page of the chunk in use: it lies above everything handed out  *)
(* of that chunk, and all other pages lie in other chunks.                 *)
LEMMA FromBackInv ==
  ASSUME PageFitsHost, AllocInv, NEW r \in Rams, NEW page, AllocFromBack(r, page)
  PROVE  AllocInv'
<1> DEFINE n == Len(pages)
           d == back[r].data
<1>1. /\ d \in mapped /\ d \in Nat /\ page \in Nat /\ d <= page
      /\ page + pageSize <= d + hostMmapSize
      /\ back[r] # NoChunk /\ page = back[r].rower
  BY PageUnderRower DEF AllocFromBack, HasRoom
<1>2. /\ back' = [back EXCEPT ![r].rower = page + pageSize]
      /\ pages' = Append(pages, page) /\ mapped' = mapped
  BY <1>1 DEF AllocFromBack
<1>3. hostMmapSize \in Nat \ {0} /\ pageSize \in Nat \ {0}
  BY ChunkOfPages, AllocatorConstants
<1>4. /\ pages \in Seq(Nat) /\ n \in Nat /\ DOMAIN pages = 1 .. n
      /\ DOMAIN pages' = 1 .. n + 1 /\ pages'[n + 1] = page
      /\ \A i \in 1 .. n : pages'[i] = pages[i] /\ pages[i] \in Nat
  BY <1>1, <1>2 DEF AllocInv, AllocTypeOK
<1>5. back[r] \in [data : HostPages, rower : Nat]
  BY <1>1 DEF AllocInv, AllocTypeOK
<1>6. back'[r] = [data |-> d, rower |-> page + pageSize]
  BY <1>1, <1>2, <1>5 DEF AllocInv, AllocTypeOK
<1>7. \A q \in Rams : q # r => back'[q] = back[q]
  BY <1>2 DEF AllocInv, AllocTypeOK
<1> HIDE DEF n, d
<1>8. AllocTypeOK'
  <2>1. page + pageSize \in Nat
    BY <1>1, <1>3
  <2>2. back' \in [Rams -> [data : HostPages, rower : Nat] \cup {NoChunk}]
    BY <1>2, <1>5, <2>1 DEF AllocInv, AllocTypeOK
  <2> QED
    BY <1>1, <1>2, <2>2 DEF AllocInv, AllocTypeOK, HostPages, hostMmapSize
<1>9. RegionsApart'
  BY <1>2 DEF AllocInv, RegionsApart, Apart, hostMmapSize
<1>10. BackMapped'
  <2>1. Multiple(page - d)
    BY <1>1 DEF AllocInv, BackMapped, d
  <2>2. Multiple((page - d) + pageSize)
    BY <2>1, NextMultiple
  <2>3. (page - d) + pageSize = (page + pageSize) - d
    BY <1>1, <1>3
  <2>4. ASSUME NEW q \in Rams, back'[q] # NoChunk
        PROVE  back'[q].data \in mapped' /\ Multiple(back'[q].rower - back'[q].data)
    <3>1. CASE q = r
      BY <3>1, <2>2, <2>3, <1>1, <1>2, <1>6
    <3>2. CASE q # r
      BY <3>2, <2>4, <1>2, <1>7 DEF AllocInv, BackMapped
    <3> QED
      BY <3>1, <3>2
  <2> QED
    BY <2>4 DEF BackMapped, Multiple, NoChunk, Null
<1>11. BacksApart'
  BY <1>1, <1>6, <1>7 DEF AllocInv, BacksApart, NoChunk, Null, d
<1>12. PagesOwned'
  BY <1>1, <1>2, <1>4 DEF AllocInv, PagesOwned, hostMmapSize
<1>13. PagesBelow'
  <2>1. ASSUME NEW q \in Rams, NEW i \in 1 .. n + 1, back'[q] # NoChunk,
               back'[q].data <= pages'[i],
               pages'[i] + pageSize <= back'[q].data + hostMmapSize
        PROVE  pages'[i] + pageSize <= back'[q].rower
    <3>1. CASE q = r /\ i = n + 1
      BY <3>1, <1>1, <1>3, <1>4, <1>6
    <3>2. CASE q = r /\ i # n + 1
      <4>1. pages'[i] + pageSize <= page /\ pages'[i] \in Nat
        BY <3>2, <2>1, <1>1, <1>4, <1>6 DEF AllocInv, PagesBelow, d
      <4> QED
        BY <3>2, <4>1, <1>1, <1>3, <1>6
    <3>3. CASE q # r /\ i # n + 1
      BY <3>3, <2>1, <1>4, <1>7 DEF AllocInv, PagesBelow
    <3>4. CASE q # r /\ i = n + 1
      <4>1. back[q] # NoChunk /\ back[q].data \in mapped /\ back[q].data # d
        BY <3>4, <2>1, <1>1, <1>7 DEF AllocInv, BackMapped, BacksApart, d
      <4>2. back[q].data \in Nat
        BY <4>1, AllocatorConstants DEF AllocInv, AllocTypeOK, HostPages
      <4>3. Apart(back[q].data, d, hostMmapSize)
        BY <4>1, <1>1 DEF AllocInv, RegionsApart
      <4>4. back'[q] = back[q] /\ pages'[i] = page
        BY <3>4, <1>4, <1>7
      <4>5. back[q].data <= page /\ page + pageSize <= back[q].data + hostMmapSize
        BY <2>1, <4>4
      <4>6. FALSE
        BY <4>2, <4>3, <4>5, <1>1, <1>3 DEF Apart
      <4> QED
        BY <4>6
    <3> QED
      BY <3>1, <3>2, <3>3, <3>4
  <2> QED
    BY <2>1, <1>4 DEF PagesBelow, NoChunk, Null, hostMmapSize
<1>14. PagesApart'
  <2>1. ASSUME NEW i \in 1 .. n
        PROVE  Apart(pages[i], page, pageSize) /\ Apart(page, pages[i], pageSize)
    <3>1. PICK m \in mapped : m <= pages[i] /\ pages[i] + pageSize <= m + hostMmapSize
      BY <1>4 DEF AllocInv, PagesOwned
    <3>2. m \in Nat /\ pages[i] \in Nat
      BY <1>4, AllocatorConstants DEF AllocInv, AllocTypeOK, HostPages
    <3>3. CASE m = d
      <4>1. pages[i] + pageSize <= page
        BY <3>1, <3>3, <1>1, <1>4 DEF AllocInv, PagesBelow, d
      <4> QED
        BY <4>1 DEF Apart
    <3>4. CASE m # d
      <4>1. Apart(m, d, hostMmapSize)
        BY <3>4, <1>1 DEF AllocInv, RegionsApart
      <4> QED
        BY <4>1, <3>1, <3>2, <1>1, <1>3 DEF Apart
    <3> QED
      BY <3>3, <3>4
  <2> QED
    BY <2>1, <1>4 DEF AllocInv, PagesApart, Apart
<1> QED
  BY <1>8, <1>9, <1>10, <1>11, <1>12, <1>13, <1>14 DEF AllocInv

(* The first page of a new chunk, which overlaps no other chunk.           *)
LEMMA FromNewInv ==
  ASSUME PageFitsHost, AllocInv, NEW r \in Rams, NEW page, AllocFromNew(r, page)
  PROVE  AllocInv'
<1> DEFINE n == Len(pages)
<1>1. /\ page \in HostPages /\ page \in Nat /\ page # Null
      /\ \A m \in mapped : Apart(page, m, hostMmapSize)
      /\ mapped' = mapped \cup {page} /\ pages' = Append(pages, page)
      /\ back' = [back EXCEPT ![r] = [data |-> page, rower |-> page + pageSize]]
  BY AllocatorConstants DEF AllocFromNew, Free, HostPages, Null
<1>2. hostMmapSize \in Nat \ {0} /\ pageSize \in Nat \ {0} /\ pageSize <= hostMmapSize
  <2>1. hostMmapSize \in Nat \ {0} /\ Multiple(hostMmapSize) /\ pageSize \in Nat \ {0}
    BY ChunkOfPages, AllocatorConstants
  <2>2. Multiple(0)
    BY AllocatorConstants DEF Multiple
  <2>3. 0 < hostMmapSize
    BY <2>1
  <2>4. 0 + pageSize <= hostMmapSize
    BY <2>1, <2>2, <2>3, RoomForPage
  <2> QED
    BY <2>1, <2>4
<1>3. /\ pages \in Seq(Nat) /\ n \in Nat /\ DOMAIN pages = 1 .. n
      /\ DOMAIN pages' = 1 .. n + 1 /\ pages'[n + 1] = page
      /\ \A i \in 1 .. n : pages'[i] = pages[i] /\ pages[i] \in Nat
  BY <1>1 DEF AllocInv, AllocTypeOK
<1>4. back'[r] = [data |-> page, rower |-> page + pageSize]
  BY <1>1 DEF AllocInv, AllocTypeOK
<1>5. \A q \in Rams : q # r => back'[q] = back[q]
  BY <1>1 DEF AllocInv, AllocTypeOK
<1>6. \A m \in mapped : m \in Nat
  BY AllocatorConstants DEF AllocInv, AllocTypeOK, HostPages
<1>7. page \notin mapped
  BY <1>1, <1>2 DEF Apart
<1> HIDE DEF n
<1>8. AllocTypeOK'
  <2>1. back' \in [Rams -> [data : HostPages, rower : Nat] \cup {NoChunk}]
    BY <1>1, <1>2 DEF AllocInv, AllocTypeOK
  <2> QED
    BY <1>1, <2>1 DEF AllocInv, AllocTypeOK, HostPages, hostMmapSize
<1>9. RegionsApart'
  BY <1>1 DEF AllocInv, RegionsApart, Apart, hostMmapSize
<1>10. BackMapped'
  <2>1. Multiple((page + pageSize) - page)
    <3>1. (page + pageSize) - page = 1 * pageSize
      BY <1>1, <1>2
    <3> QED
      BY <3>1 DEF Multiple
  <2>2. ASSUME NEW q \in Rams, back'[q] # NoChunk
        PROVE  back'[q].data \in mapped' /\ Multiple(back'[q].rower - back'[q].data)
    <3>1. CASE q = r
      BY <3>1, <2>1, <1>1, <1>4
    <3>2. CASE q # r
      BY <3>2, <2>2, <1>1, <1>5 DEF AllocInv, BackMapped
    <3> QED
      BY <3>1, <3>2
  <2> QED
    BY <2>2 DEF BackMapped, Multiple, NoChunk, Null
<1>11. BacksApart'
  BY <1>4, <1>5, <1>7 DEF AllocInv, BacksApart, BackMapped, NoChunk, Null
<1>12. PagesOwned'
  <2>1. ASSUME NEW i \in 1 .. n + 1
        PROVE  \E m \in mapped' :
                 m <= pages'[i] /\ pages'[i] + pageSize <= m + hostMmapSize
    <3>1. CASE i = n + 1
      <4>1. page \in mapped' /\ page + pageSize <= page + hostMmapSize /\ page <= page
        BY <1>1, <1>2
      <4> QED
        BY <3>1, <4>1, <1>3
    <3>2. CASE i # n + 1
      BY <3>2, <1>1, <1>3 DEF AllocInv, PagesOwned
    <3> QED
      BY <3>1, <3>2
  <2> QED
    BY <2>1, <1>3 DEF PagesOwned, hostMmapSize
<1>13. ASSUME NEW i \in 1 .. n
       PROVE  pages[i] + pageSize <= page \/ page + hostMmapSize <= pages[i]
  <2>1. PICK m \in mapped : m <= pages[i] /\ pages[i] + pageSize <= m + hostMmapSize
    BY <1>3 DEF AllocInv, PagesOwned
  <2>2. Apart(page, m, hostMmapSize) /\ m \in Nat /\ pages[i] \in Nat
    BY <1>1, <1>3, <1>6
  <2> QED
    BY <2>1, <2>2, <1>1, <1>2 DEF Apart
<1>14. PagesBelow'
  <2>1. ASSUME NEW q \in Rams, NEW i \in 1 .. n + 1, back'[q] # NoChunk,
               back'[q].data <= pages'[i],
               pages'[i] + pageSize <= back'[q].data + hostMmapSize
        PROVE  pages'[i] + pageSize <= back'[q].rower
    <3>1. CASE q = r /\ i = n + 1
      BY <3>1, <1>1, <1>2, <1>3, <1>4
    <3>2. CASE q = r /\ i # n + 1
      <4>1. pages'[i] \in Nat /\ pages'[i] = pages[i] /\ i \in 1 .. n
        BY <3>2, <1>3
      <4>2. page <= pages[i] /\ pages[i] + pageSize <= page + hostMmapSize
        BY <3>2, <2>1, <4>1, <1>4
      <4>3. FALSE
        BY <4>1, <4>2, <1>1, <1>2, <1>13
      <4> QED
        BY <4>3
    <3>3. CASE q # r /\ i # n + 1
      BY <3>3, <2>1, <1>3, <1>5 DEF AllocInv, PagesBelow
    <3>4. CASE q # r /\ i = n + 1
      <4>1. back'[q] = back[q] /\ pages'[i] = page
        BY <3>4, <1>3, <1>5
      <4>2. back[q].data <= page /\ page + pageSize <= back[q].data + hostMmapSize
        BY <2>1, <4>1
      <4>3. back[q].data \in mapped
        BY <2>1, <4>1 DEF AllocInv, BackMapped
      <4>4. Apart(page, back[q].data, hostMmapSize) /\ back[q].data \in Nat
        BY <4>3, <1>1, <1>6
      <4>5. FALSE
        BY <4>2, <4>4, <1>1, <1>2 DEF Apart
      <4> QED
        BY <4>5
    <3> QED
      BY <3>1, <3>2, <3>3, <3>4
  <2> QED
    BY <2>1, <1>3 DEF PagesBelow, NoChunk, Null, hostMmapSize
<1>15. PagesApart'
  <2>1. ASSUME NEW i \in 1 .. n
        PROVE  Apart(pages[i], page, pageSize) /\ Apart(page, pages[i], pageSize)
    BY <1>1, <1>2, <1>3, <1>13 DEF Apart
  <2> QED
    BY <2>1, <1>3 DEF AllocInv, PagesApart, Apart
<1> QED
  BY <1>8, <1>9, <1>10, <1>11, <1>12, <1>14, <1>15 DEF AllocInv

(* A failed mmap leaves the allocator without a chunk.                     *)
LEMMA FailsInv ==
  ASSUME AllocInv, NEW r \in Rams, AllocFails(r)
  PROVE  AllocInv'
<1>1. /\ mapped' = mapped /\ pages' = pages
      /\ back' \in [Rams -> [data : HostPages, rower : Nat] \cup {NoChunk}]
      /\ \A q \in Rams : back'[q] = IF q = r THEN NoChunk ELSE back[q]
  BY DEF AllocFails, AllocInv, AllocTypeOK
<1>2. AllocTypeOK'
  BY <1>1 DEF AllocInv, AllocTypeOK, HostPages, hostMmapSize, NoChunk, Null
<1>3. RegionsApart' /\ PagesOwned' /\ PagesApart'
  BY <1>1 DEF AllocInv, RegionsApart, PagesOwned, PagesApart, Apart, hostMmapSize
<1>4. BackMapped' /\ BacksApart'
  BY <1>1 DEF AllocInv, BackMapped, BacksApart, Multiple, NoChunk, Null
<1>5. PagesBelow'
  BY <1>1 DEF AllocInv, PagesBelow, NoChunk, Null, hostMmapSize
<1> QED
  BY <1>2, <1>3, <1>4, <1>5 DEF AllocInv

LEMMA AllocStepInv ==
  ASSUME PageFitsHost, AllocInv, [AllocNext]_allocVars
  PROVE  AllocInv'
<1>1. CASE AllocNext
  BY <1>1, FromBackInv, FromNewInv, FailsInv DEF AllocNext
<1>2. CASE UNCHANGED allocVars
  BY <1>2 DEF allocVars, AllocInv, AllocTypeOK, RegionsApart, BackMapped, BacksApart,
              PagesOwned, PagesBelow, PagesApart, Apart, Multiple, NoChunk, Null,
              HostPages, hostMmapSize
<1> QED
  BY <1>1, <1>2

-----------------------------------------------------------------------------
(* The inductive invariant of the allocators holds when guest pages divide *)
(* host pages.                                                             *)
THEOREM AllocInvariance ==
  ASSUME PageFitsHost
  PROVE  AllocSpec => []AllocInv
<1>1. AllocInit => AllocInv
  BY AllocInitInv
<1>2. AllocInv /\ [AllocNext]_allocVars => AllocInv'
  BY AllocStepInv
<1> QED
  BY <1>1, <1>2, PTL DEF AllocSpec

(* No two pages that RAMPageAllocator::allocPage returned overlap, across  *)
(* the allocators of all RAMs, when guest pages divide host pages.         *)
THEOREM AllocPagesApart ==
  ASSUME PageFitsHost
  PROVE  AllocSpec => []PagesApart
<1>1. AllocInv => PagesApart
  BY DEF AllocInv
<1> QED
  BY <1>1, AllocInvariance, PTL

(* Every page that allocPage returned lies inside memory that mmap gave to *)
(* the simulator, when guest pages divide host pages.                      *)
THEOREM AllocPagesOwned ==
  ASSUME PageFitsHost
  PROVE  AllocSpec => []PagesOwned
<1>1. AllocInv => PagesOwned
  BY DEF AllocInv
<1> QED
  BY <1>1, AllocInvariance, PTL
=============================================================================
