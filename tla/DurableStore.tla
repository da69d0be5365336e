---------------------------- MODULE DurableStore ----------------------------
(***************************************************************************)
(* What the ISO and template databases promise, whatever locks, temporary  *)
(* files and snapshots it takes: each is in memory, and kept in one place  *)
(* that changes at once, for all of them, when an update of one succeeds.  *)
(* StateStore implements it.                                               *)
(***************************************************************************)
CONSTANTS DBs, Records

VARIABLES
  now,    (* what each database holds                                      *)
  saved,  (* what it would hold after a restart                            *)
  since   (* what it has held since its last update that succeeded         *)

storeVars == <<now, saved, since>>

Databases == [DBs -> SUBSET Records]

StoreInit ==
  /\ now = [d \in DBs |-> {}]
  /\ saved = [d \in DBs |-> {}]
  /\ since = [d \in DBs |-> {{}}]

(* An update, which is not known yet to succeed.                           *)
Change(d, records) ==
  /\ now' = [now EXCEPT ![d] = records]
  /\ since' = [since EXCEPT ![d] = @ \cup {records}]
  /\ UNCHANGED saved

(* An update of d succeeds: d is saved as it is, and of every other        *)
(* database nothing older than its own last success.                       *)
Succeed(d) ==
  /\ saved' \in Databases
  /\ saved'[d] = now[d]
  /\ \A e \in DBs : saved'[e] \in since[e]
  /\ since' = [since EXCEPT ![d] = {now[d]}]
  /\ UNCHANGED now

Reload ==
  /\ now' = saved
  /\ since' = [d \in DBs |-> {saved[d]}]
  /\ UNCHANGED saved

StoreNext ==
  \/ \E d \in DBs :
       \/ \E r \in Records : Change(d, now[d] \cup {r}) \/ Change(d, now[d] \ {r})
       \/ Succeed(d)
  \/ Reload

StoreSpec == StoreInit /\ [][StoreNext]_storeVars

=============================================================================
