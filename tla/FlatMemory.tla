----------------------------- MODULE FlatMemory -----------------------------
(***************************************************************************)
(* What the memory system promises the hart: an array of bytes that starts *)
(* with zeros.  A load returns what was stored last; an address without    *)
(* memory and a misaligned address are refused.                            *)
(***************************************************************************)
EXTENDS Integers, Sequences

CONSTANTS Addrs, Bytes, AccessSizes, Accesses

VARIABLES
  valid,  (* the addresses that have memory                                *)
  cells,  (* address -> byte                                               *)
  result  (* the last access: its outcome, its address and its bytes       *)

Init ==
  /\ valid = {}
  /\ cells = [a \in Addrs |-> 0]
  /\ result \in Accesses /\ result.kind = "none"

Map ==
  /\ valid' \in SUBSET Addrs
  /\ valid \subseteq valid'
  /\ UNCHANGED <<cells, result>>

Covers(a, n) == a .. a + n - 1

Refuse ==
  /\ result' \in Accesses
  /\ \/ result'.kind = "InvalidAddress" /\ result'.addr \notin valid
     \/ /\ result'.kind = "UnalignedAddress"
        /\ result'.addr \in valid /\ \E n \in AccessSizes : result'.addr % n # 0
  /\ UNCHANGED <<valid, cells>>

Load ==
  /\ result' \in Accesses /\ result'.kind = "loaded"
  /\ Covers(result'.addr, Len(result'.bytes)) \subseteq valid
  /\ \A k \in DOMAIN result'.bytes : result'.bytes[k] = cells[result'.addr + k - 1]
  /\ UNCHANGED <<valid, cells>>

Store ==
  /\ result' \in Accesses /\ result'.kind = "stored"
  /\ Covers(result'.addr, Len(result'.bytes)) \subseteq valid
  /\ cells' = [b \in Addrs |->
                 IF b \in Covers(result'.addr, Len(result'.bytes))
                 THEN result'.bytes[b - result'.addr + 1] ELSE cells[b]]
  /\ UNCHANGED valid

Next == Map \/ Refuse \/ Load \/ Store

vars == <<valid, cells, result>>

Spec == Init /\ [][Next]_vars
=============================================================================
