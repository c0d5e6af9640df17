----------------------------- MODULE Assembled -----------------------------
(***************************************************************************)
(* The decoder on memory that holds assembled code and other words: a      *)
(* statement is encoded by the toolchain, decoded, and its immediate read  *)
(* by the handler; any other word may be reached by a jump into data.      *)
(***************************************************************************)
EXTENDS RV64IEncoding

CONSTANT Statements    (* what the programmer wrote *)

(* The statements of encoding e with registers regs and immediates imm.    *)
StatementsOf(e, regs, imm) ==
  [operation : {e[1]},
   rd  : IF e[2] \in {"S", "B", "P"} THEN {0} ELSE regs,
   rs1 : IF e[2] \in {"U", "J", "P"} THEN {0} ELSE regs,
   rs2 : IF e[2] \in {"R", "S", "B"} THEN regs ELSE {0},
   immidiate : imm]

(* The numbers of a two's complement field whose sign bit counts half.     *)
Signed(half) == -half .. half - 1

(* The immediates, even for jumps and branches, that come through decoder  *)
(* and handler unharmed.                                                   *)
Reach(e) ==
  CASE e[2] \in {"I", "S"} /\ e[3] # SYSTEM -> Signed(2048)
    [] e[2] = "I" /\ e[3] = SYSTEM          -> 0 .. 4095
    [] e[2] \in {"H", "W"}                  -> 0 .. 31
    [] e[2] = "B" -> Signed(2048)
    [] e[2] = "J" -> Signed(524288)
    [] e[2] = "U" -> 0 .. 255
    [] OTHER      -> Int

(* Condition of the theorem about ExecutesWhatWasWritten: it leaves out    *)
(* the statements that decoder or handler are known to take for others.    *)
InReach(s) ==
  \E e \in Encodings : /\ e[1] \notin {"SRLI", "FENCE", "SRAIW"}
                       /\ s \in StatementsOf(e, 0 .. 31, Reach(e))
                       /\ e[2] \in {"B", "J"} => s.immidiate % 2 = 0

VARIABLE statement     (* what the word was assembled from, if anything *)

NoStatement == NotParsed

assembledVars == <<statement, word, instr>>

AssembledInit ==
  /\ \/ statement \in Statements /\ word = Assemble(statement)
     \/ statement = NoStatement /\ word \in Words
  /\ instr = NotParsed

AssembledNext == decode /\ UNCHANGED statement

AssembledSpec == AssembledInit /\ [][AssembledNext]_assembledVars

(* The hart executes what was written: the operation, the registers and,   *)
(* as the handler of that operation extends it, the immediate come back    *)
(* from the word (parse and its parts, SignExtend, ExtractBits).           *)
ExecutesWhatWasWritten ==
  Decoded /\ statement # NoStatement =>
    /\ instr.operation = statement.operation
    /\ <<instr.rd, instr.rs1, instr.rs2>> = <<statement.rd, statement.rs1, statement.rs2>>
    /\ EncodingOf(statement.operation)[2] \notin {"R", "P"} =>
         Operand(instr) = statement.immidiate
=============================================================================
