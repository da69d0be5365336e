---------------------------- MODULE MCVMManager ----------------------------
(***************************************************************************)
(* VMManager for TLC: the symmetry of what is only ever compared.  Safety  *)
(* runs use it; a run with a temporal property does not.                   *)
(***************************************************************************)
EXTENDS VMManager, TLC

Symmetry == Permutations(Names) \cup Permutations(Objs) \cup Permutations(Procs)
            \cup Permutations(Goroutines)
=============================================================================
