---------------------------- MODULE MCMCPServer ----------------------------
(* MCPServer for TLC.                                                      *)
EXTENDS MCPServer, TLC

(* As Create leaves it, and with disks and a display added.                *)
MCEdits == {Created, [disks |-> 2, nets |-> 1, vnc |-> TRUE]}

Symmetry == Permutations(Names) \cup Permutations(Objs) \cup Permutations(Procs)
=============================================================================
