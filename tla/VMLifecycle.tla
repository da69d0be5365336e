---------------------------- MODULE VMLifecycle ----------------------------
(***************************************************************************)
(* What the VM manager promises for each VM name, whatever structs, locks, *)
(* files and processes it takes: the lifecycle of a VM and of the one      *)
(* bhyve process (guest) that runs it.  VMManager implements it.           *)
(***************************************************************************)
CONSTANT Names

VARIABLES
  life,   (* "absent", or the state the manager reports for the VM         *)
  guest   (* the process the manager started for it: "none", "alive", or   *)
          (* "dead" until the manager has collected its exit status        *)

lifeVars == <<life, guest>>

LifeInit ==
  /\ life = [n \in Names |-> "absent"]
  /\ guest = [n \in Names |-> "none"]

Become(n, l, g) ==
  /\ life' = [life EXCEPT ![n] = l]
  /\ guest' = [guest EXCEPT ![n] = g]

Settled(n) == life[n] \in {"defined", "stopped", "error"}

Define(n)   == life[n] = "absent" /\ Become(n, "defined", guest[n])
Boot(n)     == Settled(n) /\ Become(n, "starting", guest[n])
BootFails(n) == life[n] = "starting" /\ Become(n, "error", guest[n])
Up(n)       == /\ life[n] = "starting" /\ guest[n] = "none"
               /\ Become(n, "running", "alive")
PowerOff(n) == guest[n] = "alive" /\ Become(n, life[n], "dead")
Halt(n)     == life[n] = "running" /\ Become(n, "stopping", guest[n])
Down(n)     == /\ life[n] = "stopping" /\ guest[n] = "dead"
               /\ Become(n, "stopped", "none")
Remove(n)   == Settled(n) /\ Become(n, "absent", guest[n])

(* A new manager knows of no process, not even of one that runs on; a VM   *)
(* whose configuration it could not load it does not know either.          *)
NewManager ==
  /\ guest' = [n \in Names |-> "none"]
  /\ life' \in [Names -> {"absent", "defined"}]

LifeNext ==
  \/ NewManager
  \/ \E n \in Names :
       \/ Define(n) \/ Boot(n) \/ BootFails(n) \/ Up(n) \/ PowerOff(n)
       \/ Halt(n) \/ Down(n) \/ Remove(n)

LifeSpec == LifeInit /\ [][LifeNext]_lifeVars

(* A VM that is neither running nor stopping has no process, so that a VM  *)
(* gone from the manager has left none behind.                             *)
GuestOnlyWhenUp ==
  \A n \in Names : guest[n] # "none" <=> life[n] \in {"running", "stopping"}
=============================================================================
