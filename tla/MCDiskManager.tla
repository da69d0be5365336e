--------------------------- MODULE MCDiskManager ---------------------------
(***************************************************************************)
(* DiskManager for TLC: 8 stands for 2^63 and 2 for 1024.  Raw images are  *)
(* asked for with a size that fits, one that fits 64 bits and no file, one *)
(* that wraps around, one that does not parse and text that is no number.  *)
(***************************************************************************)
EXTENDS DiskManager, TLC

S(n, u) == [numeric |-> TRUE, number |-> n, unit |-> u]

MCRequested ==
  {S(1, "K"), S(3, "M"), S(5, "M"), S(16, ""),
   [numeric |-> FALSE, number |-> 0, unit |-> ""]}

Symmetry == Permutations(Images) \cup Permutations(Volumes) \cup Permutations(Goroutines)

=============================================================================
