---------------------------- MODULE PhysMemFlat ----------------------------
(***************************************************************************)
(* PhysMem as an implementation of FlatMemory: an address has memory when  *)
(* some device contains it, and its cell is what the page of that device   *)
(* holds.                                                                  *)
(***************************************************************************)
EXTENDS PhysMem

FlatCells == [a \in Addrs |-> Cell(a)]

FlatValid == {a \in Addrs : Scan(a) # {}}

Flat == INSTANCE FlatMemory WITH valid <- FlatValid, cells <- FlatCells

(* What a RAM needs to look like an array of bytes: it holds a whole       *)
(* number of pages, and its offsets are aligned as its addresses are.      *)
WholePages ==
  \A d \in devices :
    d.left < d.right => /\ (d.right - d.left) % pageSize = 0
                        /\ \A n \in AccessSizes : d.left % n = 0

(* On devices that do not overlap the pages, the cached device and the     *)
(* prefetcher's window are invisible: the memory is an array of bytes, as  *)
(* long as every device that has been mapped holds whole pages.            *)
ImplementsFlatMemory == Flat!Init /\ [][WholePages => Flat!Next]_Flat!vars
=============================================================================
