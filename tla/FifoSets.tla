------------------------------ MODULE FifoSets ------------------------------
(***************************************************************************)
(* What the basic block cache promises to a hart: every set remembers the  *)
(* last kWays program counters it missed, in the order of the misses.  A   *)
(* hit changes nothing, in particular not the order (the replacement is    *)
(* first in first out in spite of the name lruRowers_).                    *)
(***************************************************************************)
EXTENDS Sequences, Naturals

CONSTANTS
  Sets,     (* set numbers                         *)
  kWays,    (* program counters a set remembers    *)
  PCs,      (* program counters                    *)
  Hash(_)   (* the set a program counter belongs to *)

VARIABLE queue   (* set -> the remembered program counters, oldest first *)

Cached(pc) == \E i \in 1 .. Len(queue[Hash(pc)]) : queue[Hash(pc)][i] = pc

Hit(pc) == Cached(pc) /\ UNCHANGED queue

Miss(pc) ==
  /\ ~Cached(pc)
  /\ queue' = [queue EXCEPT ![Hash(pc)] =
                 Append(IF Len(@) < kWays THEN @ ELSE Tail(@), pc)]

Init == queue = [h \in Sets |-> << >>]

Next == \E pc \in PCs : Hit(pc) \/ Miss(pc)

Spec == Init /\ [][Next]_queue
=============================================================================
