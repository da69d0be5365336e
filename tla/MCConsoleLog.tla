---------------------------- MODULE MCConsoleLog ---------------------------
(***************************************************************************)
(* ConsoleLog for TLC: 16 stands for 2^63 and 2 for 1024.  The values of   *)
(* max_log_size are one that fits in each unit, one of them negative, one  *)
(* whose product overflows, and text that is no number.                    *)
(***************************************************************************)
EXTENDS ConsoleLog

S(n, u) == [numeric |-> TRUE, number |-> n, unit |-> u]

MCConfigured ==
  {S(1, ""), S(1, "K"), S(1, "M"), S(-1, "G"), S(9, "K"),
   [numeric |-> FALSE, number |-> 0, unit |-> ""]}

MCAsked == {-1, 2}

Symmetry == Permutations(Inodes) \cup Permutations(Goroutines)
=============================================================================
