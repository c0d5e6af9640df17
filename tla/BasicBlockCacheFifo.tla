------------------------ MODULE BasicBlockCacheFifo ------------------------
(***************************************************************************)
(* The refinement mapping from the block array and its rowers to the       *)
(* queues of FifoSets.                                                     *)
(***************************************************************************)
EXTENDS BasicBlockCache

Full(h) == \A i \in Ways : bbs[SetPos(h) + i].pc # PoisonPC

(* The ways of set h from the oldest to the youngest: from the rower once  *)
(* around the set, or from way 0 up to the rower while the set fills.      *)
Queue(h) ==
  IF Full(h)
  THEN [i \in 1 .. kWays |->
          bbs[SetPos(h) + ((lruRowers[h] + i - 1) % kWays)].pc]
  ELSE [i \in 1 .. lruRowers[h] |-> bbs[SetPos(h) + i - 1].pc]

Fifo == INSTANCE FifoSets WITH queue <- [h \in Sets |-> Queue(h)]

(* The cache of basic-block.cpp implements first-in-first-out sets: a hit  *)
(* leaves the order alone, a miss (an interrupted assembly included)       *)
(* forgets exactly the oldest pc of a full set and of no other set.        *)
ImplementsFifo == Fifo!Spec
=============================================================================
