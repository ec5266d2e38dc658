------------------------------ MODULE MCProcess ------------------------------
(* Process on a small machine: 3 slots, windows of 3 pages. *)
EXTENDS ProcessRefinement

MCOffsets == {0, 1, 2}
MCUserOffsets == {0}
\* A flat binary, an ELF file whose two segments share a page, an ELF file
\* that does not parse, one that fills the arguments' page, one with a
\* segment in the next window, and other files.
MCBinaries ==
  {[magic |-> "bin", pages |-> <<<<0, 0>>>>],
   [magic |-> "elf", pages |-> <<<<0, 0>>, <<0, 0>>>>],
   [magic |-> "elf", pages |-> <<>>],
   [magic |-> "elf", pages |-> <<<<0, 0>>, <<0, 1>>>>],
   [magic |-> "elf", pages |-> <<<<1, 0>>>>],
   [magic |-> "unknown", pages |-> <<>>], [magic |-> "empty", pages |-> <<>>]}
=============================================================================
