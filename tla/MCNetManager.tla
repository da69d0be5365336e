---------------------------- MODULE MCNetManager ----------------------------
(* NetManager for TLC.                                                     *)
EXTENDS NetManager, TLC

Symmetry == Permutations(Switches) \cup Permutations(Goroutines)

=============================================================================
