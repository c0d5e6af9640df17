-------------------------------- MODULE CSRF --------------------------------
(***************************************************************************)
(* The control and status registers of a hart (src/exec/csrf.cpp) and the  *)
(* fields they are made of (include/besm-666/exec/csr.hpp and csrs.hpp).   *)
(*                                                                         *)
(* A register is kept as the record of its fields.  Raw values are natural *)
(* numbers below XSize, the 2^XLEN of the simulated machine; `write' cuts  *)
(* a raw value into fields the way CSRField::extract does, and a WARL      *)
(* field whose validator rejects the new value keeps the old one.          *)
(***************************************************************************)
EXTENDS Integers

CONSTANTS
  XSize,         (* 2^XLEN: addresses and register values are below it     *)
  Operands,      (* values the operand of a CSR instruction can have       *)
  BitOr(_, _),   (* bitwise or of two raw values                           *)
  BitClear(_, _) (* bits of the first value that the second does not have  *)

Values == 0 .. XSize - 1

(* mstatus needs 13 bits.                                                  *)
ASSUME CSRConstants ==
  /\ XSize \in Nat /\ XSize >= 8192 /\ XSize % 8192 = 0
  /\ Operands \subseteq Values
  /\ \A a \in Values, b \in Operands :
       BitOr(a, b) \in Values /\ BitClear(a, b) \in Values

VARIABLES
  privillege,  (* current privilege mode     *)
  mstatus, mepc, mtvec, mcause

csrVars == <<privillege, mstatus, mepc, mtvec, mcause>>

-----------------------------------------------------------------------------
USER       == 0
SUPERVISOR == 1
MACHINE    == 3

Bits(v, low, size) == (v \div low) % size

MSTATUS == 768    (* 0x300 *)
MTVEC   == 773    (* 0x305 *)
MEPC    == 833    (* 0x341 *)
MCAUSE  == 834    (* 0x342 *)
MHARTID == 3860   (* 0xF14 *)

Registers == {MSTATUS, MTVEC, MEPC, MCAUSE, MHARTID}

(* The fields of the registers. *)
MStatus == [SIE : 0 .. 1, MIE : 0 .. 1, SPIE : 0 .. 1, MPIE : 0 .. 1,
            SPP : 0 .. 1, MPP : 0 .. 3]

MTVec == [Mode : 0 .. 1, Base : 0 .. (XSize \div 4) - 1]

MCause == [Interrupt : 0 .. 1, ExceptionCode : 0 .. (XSize \div 2) - 1]

-----------------------------------------------------------------------------
(* CSRField::set for the fields of each register. *)
MStatusOf(v) ==
  [SIE  |-> Bits(v, 2, 2),   MIE  |-> Bits(v, 8, 2),   SPIE |-> Bits(v, 32, 2),
   MPIE |-> Bits(v, 128, 2), SPP  |-> Bits(v, 256, 2), MPP  |-> Bits(v, 2048, 4)]

(* Mutant of MEPCOf: the validator of mepc is not consulted.               *)
MEPCUnchecked(v) == v

MEPCOf(v) == IF v % 4 = 0 THEN v ELSE mepc

(* Mutant of MTVecOf: the validator of the mode is not consulted.          *)
MTVecUnchecked(v) ==
  [Mode |-> Bits(v, 1, 4),
   Base |-> IF (v \div 4) % 4 = 0 THEN v \div 4 ELSE mtvec.Base]

MTVecOf(v) ==
  [Mode |-> IF Bits(v, 1, 4) <= 1 THEN Bits(v, 1, 4) ELSE mtvec.Mode,
   Base |-> IF (v \div 4) % 4 = 0 THEN v \div 4 ELSE mtvec.Base]

MCauseOf(v) == [Interrupt |-> v \div (XSize \div 2), ExceptionCode |-> v % (XSize \div 2)]

(* CSRStructure::read *)
Raw(id) ==
  CASE id = MSTATUS -> 2 * mstatus.SIE + 8 * mstatus.MIE + 32 * mstatus.SPIE
                         + 128 * mstatus.MPIE + 256 * mstatus.SPP + 2048 * mstatus.MPP
    [] id = MTVEC   -> 4 * mtvec.Base + mtvec.Mode
    [] id = MEPC    -> mepc
    [] id = MCAUSE  -> (XSize \div 2) * mcause.Interrupt + mcause.ExceptionCode
    [] OTHER        -> 0

(* CSRStructure::write *)
WriteReg(id, v) ==
  /\ mstatus' = IF id = MSTATUS THEN MStatusOf(v) ELSE mstatus
  /\ mepc'    = IF id = MEPC    THEN MEPCOf(v)    ELSE mepc
  /\ mtvec'   = IF id = MTVEC   THEN MTVecOf(v)   ELSE mtvec
  /\ mcause'  = IF id = MCAUSE  THEN MCauseOf(v)  ELSE mcause
  /\ UNCHANGED privillege

-----------------------------------------------------------------------------
registerPrivillege(id) == Bits(id, 256, 4)

registerReadOnly(id) == Bits(id, 1024, 4) = 3

(* Mutant of fitPrivillege: the privilege of the register is not checked.  *)
fitAnyPrivillege(id) == TRUE

fitPrivillege(id) == registerPrivillege(id) = privillege

Readable(id) == fitPrivillege(id) /\ id \in Registers

Writable(id) == Readable(id) /\ ~registerReadOnly(id)

(* CSRF::write, CSRF::setBits and CSRF::clearBits on success.              *)
write(id, v)        == Writable(id) /\ WriteReg(id, v)
setBits(id, mask)   == Writable(id) /\ WriteReg(id, BitOr(Raw(id), mask))
clearBits(id, mask) == Writable(id) /\ WriteReg(id, BitClear(Raw(id), mask))

CSRInit ==
  /\ privillege = MACHINE
  /\ mstatus = MStatusOf(0)
  /\ mepc = 0
  /\ mtvec = [Mode |-> 0, Base |-> 0]
  /\ mcause = MCauseOf(0)

-----------------------------------------------------------------------------
CSRTypeOK ==
  /\ privillege \in 0 .. 3
  /\ mstatus \in MStatus
  /\ mepc \in Values
  /\ mtvec \in MTVec
  /\ mcause \in MCause
=============================================================================
