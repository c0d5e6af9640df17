--------------------------- MODULE PageAllocator ---------------------------
(***************************************************************************)
(* RAMPageAllocator (src/memory/ram.cpp): every RAM owns an allocator that *)
(* hands out pages of guest memory.  An allocator maps a chunk of host     *)
(* memory with mmap and moves a rower over it, one page at a time; when    *)
(* the rower has left the chunk the next chunk is mapped.  Only the last   *)
(* chunk of an allocator is ever looked at again, and no page is freed     *)
(* before the simulator ends.                                              *)
(***************************************************************************)
EXTENDS Integers, Sequences

CONSTANTS
  Rams,       (* the RAM devices, each with an allocator of its own        *)
  pageSize,   (* size of a page of guest memory             (default 4096) *)
  chunkSize,  (* size requested for a chunk                  (default 2 M) *)
  hostPage,   (* getpagesize()                                             *)
  HostSize    (* bound: host addresses are below it                        *)

ASSUME AllocatorConstants ==
  /\ pageSize \in Nat \ {0}
  /\ hostPage \in Nat \ {0}
  /\ chunkSize \in Nat /\ chunkSize >= pageSize
  /\ HostSize \in Nat

(* Conditions of the theorems, which nothing in the code enforces: a host  *)
(* page holds a whole number of guest pages,                               *)
PageFitsHost == hostPage % pageSize = 0

(* and the bound on host memory leaves room for the page at address zero.  *)
HostHasPage == pageSize <= HostSize

VARIABLES
  mapped,  (* start addresses of the regions that mmap returned            *)
  back,    (* RAM -> start and rower of its last chunk, or NoChunk         *)
  pages    (* history: the addresses of the pages in the order they were   *)
           (* handed out                                                   *)

allocVars == <<mapped, back, pages>>

-----------------------------------------------------------------------------
(* Nearest2PowDivident(chunkSize, hostPage): the host page that follows    *)
(* chunkSize is included even when chunkSize is a multiple of hostPage.    *)
hostMmapSize == chunkSize + hostPage - (chunkSize % hostPage)

HostPages == {a \in hostPage .. HostSize - hostMmapSize : a % hostPage = 0}

Apart(a, b, size) == a + size <= b \/ b + size <= a

(* mmap: a region of whole host pages that overlaps no other one.          *)
Free == {a \in HostPages : \A m \in mapped : Apart(a, m, hostMmapSize)}

(* nullptr: mmap never returns it here, HostPages starts above it.        *)
Null == 0

(* No chunk yet, or a chunk whose mmap returned MAP_FAILED, which is not   *)
(* recognised: its rower is not below its end.                             *)
NoChunk == [data |-> Null, rower |-> Null]

(* Mutant of HasRoom: the rower may stand on the end of the chunk.         *)
HasRoomAtEnd(r) == back[r] # NoChunk /\ back[r].rower <= back[r].data + hostMmapSize

(* The test of Chunk::allocPage. *)
HasRoom(r) == back[r] # NoChunk /\ back[r].rower < back[r].data + hostMmapSize

(* RAMPageAllocator::allocPage takes the next page of the last chunk, *)
AllocFromBack(r, page) ==
  /\ HasRoom(r)
  /\ page = back[r].rower
  /\ back' = [back EXCEPT ![r].rower = @ + pageSize]
  /\ pages' = Append(pages, page)
  /\ UNCHANGED mapped

(* Mutant of AllocFromNew: the rower is left on the page handed out.       *)
AllocFromNewInPlace(r, page) ==
  /\ ~HasRoom(r)
  /\ page \in Free
  /\ mapped' = mapped \cup {page}
  /\ back' = [back EXCEPT ![r] = [data |-> page, rower |-> page]]
  /\ pages' = Append(pages, page)

(* the first page of a new chunk, *)
AllocFromNew(r, page) ==
  /\ ~HasRoom(r)
  /\ page \in Free
  /\ mapped' = mapped \cup {page}
  /\ back' = [back EXCEPT ![r] = [data |-> page, rower |-> page + pageSize]]
  /\ pages' = Append(pages, page)

(* or returns nullptr, because the failure of mmap goes unnoticed. *)
AllocFails(r) ==
  /\ ~HasRoom(r)
  /\ back' = [back EXCEPT ![r] = NoChunk]
  /\ UNCHANGED <<mapped, pages>>

AllocInit ==
  /\ mapped = {}
  /\ back = [r \in Rams |-> NoChunk]
  /\ pages = <<>>

AllocNext ==
  \E r \in Rams :
    \/ \E page \in 0 .. HostSize : AllocFromBack(r, page) \/ AllocFromNew(r, page)
    \/ AllocFails(r)

AllocSpec == AllocInit /\ [][AllocNext]_allocVars

-----------------------------------------------------------------------------
(* Type invariant of the allocators.                                       *)
AllocTypeOK ==
  /\ mapped \subseteq HostPages
  /\ back \in [Rams -> [data : HostPages, rower : Nat] \cup {NoChunk}]
  /\ pages \in Seq(Nat)

(* No two pages overlap, whichever allocators and chunks they came from:   *)
(* a store to one guest page never changes another one.                    *)
PagesApart ==
  \A i, j \in DOMAIN pages : i # j => Apart(pages[i], pages[j], pageSize)

(* Every page lies inside one region that mmap returned: a guest access    *)
(* never touches host memory that the simulator does not own.              *)
PagesOwned ==
  \A i \in DOMAIN pages : \E m \in mapped :
    m <= pages[i] /\ pages[i] + pageSize <= m + hostMmapSize
=============================================================================
