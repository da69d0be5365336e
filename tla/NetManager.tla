----------------------------- MODULE NetManager -----------------------------
(***************************************************************************)
(* internal/net/manager.go: virtual switches, which are if_bridge(4)       *)
(* interfaces, and taps, through ifconfig(8).  A command takes effect or   *)
(* fails; CreateSwitch takes up to four and DeleteSwitch as many as the    *)
(* switch has members.  The manager keeps no state and takes no lock.      *)
(***************************************************************************)
CONSTANTS
  Switches,    (* names of bridges                                         *)
  Ports,       (* physical interfaces                                      *)
  Taps,        (* names the kernel gives taps                              *)
  Goroutines,  (* concurrent callers; the server of internal/mcp has one   *)
  Exclusive,   (* callers keep from working on one switch at a time        *)
  Faults,      (* "addm", "deletem", "up", "destroy": the command may be   *)
               (* refused for no reason the model has                      *)
  NoSwitch, NoIface

ASSUME NetManagerAssumption ==
  /\ Exclusive \in BOOLEAN
  /\ Faults \subseteq {"addm", "deletem", "up", "destroy"}
  /\ NoSwitch \notin Switches
  /\ Ports \cap Taps = {}
  /\ NoIface \notin Ports \cup Taps

Ifaces == Ports \cup Taps

VARIABLES
  bridge,  (* per switch: "absent", "down" or "up"                         *)
  member,  (* per interface: the bridge it is a member of, or NoSwitch     *)
  taps,    (* the taps there are                                           *)
  frame,   (* per goroutine: the CreateSwitch or DeleteSwitch it is in     *)
  want,    (* history: the interface the switch was created with and keeps *)
  refused  (* history: the command, "up" or "destroy", whose refusal ended *)
           (* the CreateSwitch of the switch, or "none"                    *)

vars == <<bridge, member, taps, frame, want, refused>>

Frame == [pc: {"idle", "addm", "clean_up", "up", "deletem"},
          sw: Switches \cup {NoSwitch}, iface: Ifaces \cup {NoIface},
          todo: SUBSET Ifaces]

Idle == [pc |-> "idle", sw |-> NoSwitch, iface |-> NoIface, todo |-> {}]

Init ==
  /\ bridge = [s \in Switches |-> "absent"]
  /\ member = [i \in Ifaces |-> NoSwitch]
  /\ taps = {}
  /\ frame = [g \in Goroutines |-> Idle]
  /\ want = [s \in Switches |-> NoIface]
  /\ refused = [s \in Switches |-> "none"]

At(g, l) == frame[g].pc = l

Goto(g, l) == frame' = [frame EXCEPT ![g].pc = l]

Return(g) == frame' = [frame EXCEPT ![g] = Idle]

Present(i) == i \in Ports \cup taps

Members(s) == {i \in Ifaces : member[i] = s}

May(g, s) ==
  /\ At(g, "idle")
  /\ Exclusive => \A h \in Goroutines : frame[h].sw # s

(* The bridge goes, and lets its members go.                               *)
Destroy(s) ==
  /\ bridge' = [bridge EXCEPT ![s] = "absent"]
  /\ member' = [i \in Ifaces |-> IF member[i] = s THEN NoSwitch ELSE member[i]]
  /\ want' = [want EXCEPT ![s] = NoIface]
  /\ refused' = [refused EXCEPT ![s] = "none"]

----------------------------------------------------------------------------
(* CreateSwitch                                                            *)

(* Mutant: the clean-up is also done when "create" fails.                  *)
CreateSwitchCleansUp(g, s, i) ==
  /\ May(g, s)
  /\ IF bridge[s] = "absent"
     THEN /\ bridge' = [bridge EXCEPT ![s] = "down"]
          /\ want' = [want EXCEPT ![s] = i]
          /\ frame' = [frame EXCEPT ![g] =
               [Idle EXCEPT !.pc = IF i = NoIface THEN "up" ELSE "addm",
                            !.sw = s, !.iface = i]]
     ELSE /\ frame' = [frame EXCEPT ![g] = [Idle EXCEPT !.pc = "clean_up", !.sw = s]]
          /\ UNCHANGED <<bridge, want>>
  /\ UNCHANGED <<member, taps, refused>>

(* Mutant: the interface is not looked at before it is added.              *)
CreateSwitchUnchecked(g, s, i) ==
  /\ May(g, s)
  /\ bridge[s] = "absent"
  /\ bridge' = [bridge EXCEPT ![s] = "down"]
  /\ want' = [want EXCEPT ![s] = i]
  /\ frame' = [frame EXCEPT ![g] = [Idle EXCEPT !.pc = "addm", !.sw = s, !.iface = i]]
  /\ UNCHANGED <<member, taps, refused>>

(* ifconfig create; on a bridge that exists it fails, and nothing is done. *)
CreateSwitch(g, s, i) ==
  /\ May(g, s)
  /\ bridge[s] = "absent"
  /\ bridge' = [bridge EXCEPT ![s] = "down"]
  /\ want' = [want EXCEPT ![s] = i]
  /\ frame' = [frame EXCEPT ![g] =
       [Idle EXCEPT !.pc = IF i = NoIface THEN "up" ELSE "addm",
                    !.sw = s, !.iface = i]]
  /\ UNCHANGED <<member, taps, refused>>

(* An interface can be a member of one bridge.  The interface is brought   *)
(* up afterwards, whatever comes of it.                                    *)
AddMember(g) ==
  LET i == frame[g].iface IN
  /\ At(g, "addm")
  /\ bridge[frame[g].sw] # "absent"
  /\ Present(i)
  /\ member[i] = NoSwitch
  /\ member' = [member EXCEPT ![i] = frame[g].sw]
  /\ Goto(g, "up")
  /\ UNCHANGED <<bridge, taps, want, refused>>

(* Mutant: CreateSwitch goes on when the interface cannot be added.        *)
AddMemberGoesOn(g) ==
  LET i == frame[g].iface IN
  /\ At(g, "addm")
  /\ \/ bridge[frame[g].sw] = "absent" \/ ~Present(i) \/ member[i] # NoSwitch
     \/ "addm" \in Faults
  /\ Goto(g, "up")
  /\ UNCHANGED <<bridge, member, taps, want, refused>>

AddMemberFails(g) ==
  LET i == frame[g].iface IN
  /\ At(g, "addm")
  /\ \/ bridge[frame[g].sw] = "absent" \/ ~Present(i) \/ member[i] # NoSwitch
     \/ "addm" \in Faults
  /\ Goto(g, "clean_up")
  /\ UNCHANGED <<bridge, member, taps, want, refused>>

(* ifconfig destroy; CreateSwitch fails, whatever comes of it.             *)
CleanUp(g) ==
  /\ At(g, "clean_up")
  /\ Destroy(frame[g].sw)
  /\ Return(g)
  /\ UNCHANGED taps

CleanUpFails(g) ==
  LET s == frame[g].sw IN
  /\ At(g, "clean_up")
  /\ bridge[s] = "absent" \/ "destroy" \in Faults
  /\ refused' = [refused EXCEPT ![s] = IF bridge[s] = "absent" THEN @ ELSE "destroy"]
  /\ Return(g)
  /\ UNCHANGED <<bridge, member, taps, want>>

BringUp(g) ==
  LET s == frame[g].sw IN
  /\ At(g, "up")
  /\ bridge[s] # "absent"
  /\ bridge' = [bridge EXCEPT ![s] = "up"]
  /\ Return(g)
  /\ UNCHANGED <<member, taps, want, refused>>

(* CreateSwitch fails, and what it has made stays.                         *)
BringUpFails(g) ==
  LET s == frame[g].sw IN
  /\ At(g, "up")
  /\ bridge[s] = "absent" \/ "up" \in Faults
  /\ refused' = [refused EXCEPT ![s] = IF bridge[s] = "absent" THEN @ ELSE "up"]
  /\ Return(g)
  /\ UNCHANGED <<bridge, member, taps, want>>

----------------------------------------------------------------------------
(* DeleteSwitch                                                            *)

(* GetSwitch; if it fails there is nothing to remove first.                *)
DeleteSwitch(g, s) ==
  /\ May(g, s)
  /\ frame' = [frame EXCEPT ![g] = [Idle EXCEPT !.pc = "deletem", !.sw = s,
                                                !.todo = Members(s)]]
  /\ UNCHANGED <<bridge, member, taps, want, refused>>

Leave(s, i) ==
  /\ member' = [member EXCEPT ![i] = NoSwitch]
  /\ want' = IF want[s] = i THEN [want EXCEPT ![s] = NoIface] ELSE want

DeleteMember(g) ==
  LET s == frame[g].sw IN
  /\ At(g, "deletem")
  /\ \E i \in frame[g].todo :
       /\ member[i] = s
       /\ Leave(s, i)
       /\ frame' = [frame EXCEPT ![g].todo = @ \ {i}]
  /\ UNCHANGED <<bridge, taps, refused>>

(* It fails if the interface is no member any more; nobody looks.          *)
DeleteMemberFails(g) ==
  /\ At(g, "deletem")
  /\ \E i \in frame[g].todo :
       /\ member[i] # frame[g].sw \/ "deletem" \in Faults
       /\ frame' = [frame EXCEPT ![g].todo = @ \ {i}]
  /\ UNCHANGED <<bridge, member, taps, want, refused>>

DestroySwitch(g) ==
  LET s == frame[g].sw IN
  /\ At(g, "deletem")
  /\ frame[g].todo = {}
  /\ bridge[s] # "absent"
  /\ Destroy(s)
  /\ Return(g)
  /\ UNCHANGED taps

DestroySwitchFails(g) ==
  /\ At(g, "deletem")
  /\ frame[g].todo = {}
  /\ bridge[frame[g].sw] = "absent" \/ "destroy" \in Faults
  /\ Return(g)
  /\ UNCHANGED <<bridge, member, taps, want, refused>>

----------------------------------------------------------------------------
(* Operations of one command                                               *)

AttachToBridge(s, t) ==
  /\ bridge[s] # "absent"
  /\ Present(t)
  /\ member[t] = NoSwitch
  /\ member' = [member EXCEPT ![t] = s]
  /\ UNCHANGED <<bridge, taps, want, refused>>

DetachFromBridge(s, t) ==
  /\ member[t] = s
  /\ Leave(s, t)
  /\ UNCHANGED <<bridge, taps, refused>>

CreateTAP(t) ==
  /\ t \notin taps
  /\ taps' = taps \cup {t}
  /\ UNCHANGED <<bridge, member, want, refused>>

(* A tap that goes leaves its bridge.                                      *)
DestroyTAP(t) ==
  /\ t \in taps
  /\ taps' = taps \ {t}
  /\ IF member[t] = NoSwitch THEN UNCHANGED <<member, want>>
                             ELSE Leave(member[t], t)
  /\ UNCHANGED <<bridge, refused>>

----------------------------------------------------------------------------
Command(g) ==
  \/ \E t \in Taps : CreateTAP(t) \/ DestroyTAP(t)
  \/ \E s \in Switches, i \in Ifaces :
       May(g, s) /\ (AttachToBridge(s, i) \/ DetachFromBridge(s, i))

Next ==
  \E g \in Goroutines :
    \/ At(g, "idle") /\ UNCHANGED frame /\ Command(g)
    \/ \E s \in Switches :
         DeleteSwitch(g, s) \/ \E i \in Ifaces \cup {NoIface} : CreateSwitch(g, s, i)
    \/ AddMember(g) \/ AddMemberFails(g) \/ CleanUp(g) \/ CleanUpFails(g)
    \/ BringUp(g) \/ BringUpFails(g)
    \/ DeleteMember(g) \/ DeleteMemberFails(g)
    \/ DestroySwitch(g) \/ DestroySwitchFails(g)

Spec == Init /\ [][Next]_vars

----------------------------------------------------------------------------
(* Properties                                                              *)

(* An interface is only added to a switch when CreateSwitch was given one. *)
TypeOK ==
  /\ bridge \in [Switches -> {"absent", "down", "up"}]
  /\ member \in [Ifaces -> Switches \cup {NoSwitch}]
  /\ taps \subseteq Taps
  /\ frame \in [Goroutines -> Frame]
  /\ want \in [Switches -> Ifaces \cup {NoIface}]
  /\ refused \in [Switches -> {"none", "up", "destroy"}]
  /\ \A g \in Goroutines : At(g, "addm") => frame[g].iface \in Ifaces

Creating(s) ==
  \E g \in Goroutines : frame[g].sw = s /\ frame[g].pc \in {"addm", "clean_up", "up"}

(* Callers on different switches may want the same interface, and commands *)
(* fail: a switch that is there when its CreateSwitch is over has its      *)
(* interface, unless that was taken away since, and is up.  Two refusals   *)
(* leave something else behind, each a switch that is down: that of the    *)
(* last command, which nobody cleans up after, and that of the clean-up.   *)
NoHalfSwitch == Exclusive =>
  \A s \in Switches : bridge[s] # "absent" /\ ~Creating(s) =>
    /\ bridge[s] = (IF refused[s] = "none" THEN "up" ELSE "down")
    /\ want[s] # NoIface /\ refused[s] # "destroy" => member[want[s]] = s

(* A switch that is up goes by a DeleteSwitch of its own only: no other    *)
(* operation, and no CreateSwitch that cleans up after itself, takes it.   *)
UpUntilDeleted ==
  [][Exclusive => \A s \in Switches :
       bridge[s] = "up" /\ bridge'[s] # "up" =>
         \E g \in Goroutines : At(g, "deletem") /\ frame[g].sw = s]_vars

=============================================================================
