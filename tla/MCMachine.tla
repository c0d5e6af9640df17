----------------------------- MODULE MCMachine -----------------------------
(***************************************************************************)
(* Machines with at most twelve bytes of memory, words of two bytes, pages *)
(* of four; a chunk has room for two pages, and the host for two chunks.   *)
(* The runner asks for one range of RAM, other users of the library for    *)
(* more.                                                                   *)
(***************************************************************************)
EXTENDS Machine

Seqs == INSTANCE SequencesExt

Ram(left, size) == [ok |-> TRUE, left |-> left, size |-> size]

Cmd(ram, flags) ==
  [ram |-> ram, verbose |-> "v" \in flags, trace |-> "t" \in flags,
   a0Validation |-> "a" \in flags]

(* A RAM of more pages than a chunk has; two devices side by side, with a *)
(* second request for the start of the first one; a hole between two       *)
(* devices, mapped from right to left; a range around an earlier one,      *)
(* which is rejected; an argument that does not parse; a range that ends   *)
(* at 2^XLEN; an empty one.  Then devices that end inside a page, alone,   *)
(* with another one and with a hole behind them.                           *)
MCCommands == {
  Cmd(<<Ram(0, 12)>>, {"v", "a"}),
  Cmd(<<Ram(0, 8), Ram(0, 2), Ram(8, 4)>>, {"v"}),
  Cmd(<<Ram(6, 4), Ram(0, 4)>>, {"a"}),
  Cmd(<<Ram(0, 4), Ram(0, 8)>>, {}),
  Cmd(<<Malformed>>, {"t"}),
  Cmd(<<Ram(0, 8), Ram(9, 4)>>, {}),
  Cmd(<<Ram(0, 0)>>, {}),
  Cmd(<<Ram(0, 6)>>, {}),
  Cmd(<<Ram(0, 6), Ram(6, 6)>>, {}),
  Cmd(<<Ram(0, 9), Ram(10, 2)>>, {}) }

MCConfigs ==
  UNION {{Seqs!FoldLeft(WithRamRange, <<>>, SubSeq(c.ram, 1, k)) : k \in 0 .. Len(c.ram)} :
           c \in MCCommands}

(* The conditions of the theorems about the memory hold here.              *)
ASSUME MCLayout == PageFitsHost /\ HostHasPage /\ RangesApart /\ AlignedFetches

Segment(type, addr, data, memsz) ==
  [type |-> type, addr |-> addr, data |-> data, memsz |-> memsz]

Elf(class, encoding, machine, segments) ==
  [elf |-> TRUE, class |-> class, encoding |-> encoding, machine |-> machine,
   segments |-> segments]

(* Text over the border of two pages or devices, data over its end, a note *)
(* and a segment of zeros; a segment that runs out of most memories; one   *)
(* over the middle of a page, where a device may end, and two that meet    *)
(* there; a program without contents; files that the parser rejects.       *)
MCFiles == {
  Elf(64, "LSB", "RISCV",
      << Segment("PT_LOAD", 7, <<1, 1, 1>>, 3), Segment("PT_NOTE", 0, <<1>>, 1),
         Segment("PT_LOAD", 8, <<0>>, 2), Segment("PT_LOAD", 1, <<>>, 2) >>),
  Elf(64, "LSB", "RISCV", << Segment("PT_LOAD", 2, <<1, 0, 1>>, 4) >>),
  Elf(64, "LSB", "RISCV", << Segment("PT_LOAD", 5, <<1, 1>>, 2) >>),
  Elf(64, "LSB", "RISCV",
      << Segment("PT_LOAD", 4, <<1, 1>>, 2), Segment("PT_LOAD", 6, <<0, 1>>, 4) >>),
  Elf(64, "LSB", "RISCV", <<>>),
  Elf(32, "LSB", "RISCV", <<>>),
  Elf(64, "MSB", "RISCV", <<>>),
  Elf(64, "LSB", "other", <<>>),
  [elf |-> FALSE, class |-> 32, encoding |-> "LSB", machine |-> "other", segments |-> <<>>] }
=============================================================================
