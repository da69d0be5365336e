-------------------------- MODULE NetManagerProofs --------------------------
(***************************************************************************)
(* Theorems about NetManager, for any switches, interfaces and callers and *)
(* any refused commands.                                                   *)
(***************************************************************************)
EXTENDS NetManager, TLAPS

(* A goroutine that is not idle works on a switch.                         *)
Busy(g) == frame[g].pc # "idle"

Making(g) == frame[g].pc \in {"addm", "clean_up", "up"}

FrameOK(g) ==
  /\ IF Busy(g) THEN frame[g].sw \in Switches ELSE frame[g] = Idle
  /\ At(g, "addm") => frame[g].iface \in Ifaces

FramesOK == \A g \in Goroutines : FrameOK(g)

OneCaller ==
  \A g, h \in Goroutines : Busy(g) /\ frame[h].sw = frame[g].sw => g = h

(* What CreateSwitch relies on between its commands.                       *)
StageOK(g) ==
  LET s == frame[g].sw IN
  Making(g) =>
    /\ bridge[s] = "down" /\ refused[s] = "none"
    /\ At(g, "addm") => /\ frame[g].iface = want[s] /\ want[s] \in Ifaces
                        /\ \A i \in Ifaces : member[i] # s
    /\ At(g, "up") /\ want[s] # NoIface => member[want[s]] = s

SwitchOK(s) ==
  /\ bridge[s] = "absent" => /\ want[s] = NoIface /\ refused[s] = "none"
                             /\ \A i \in Ifaces : member[i] # s
  /\ bridge[s] # "absent" =>
       \/ \E g \in Goroutines : Making(g) /\ frame[g].sw = s
       \/ /\ bridge[s] = (IF refused[s] = "none" THEN "up" ELSE "down")
          /\ want[s] # NoIface /\ refused[s] # "destroy" => member[want[s]] = s

(* The inductive invariant: callers that work on one switch at a time find *)
(* between two commands what the one before has left.                      *)
NetInv ==
  /\ TypeOK
  /\ FramesOK
  /\ Exclusive =>
       /\ OneCaller
       /\ \A g \in Goroutines : StageOK(g)
       /\ \A s \in Switches : SwitchOK(s)

USE NetManagerAssumption

LEMMA InitNet == Init => NetInv
  BY DEF Init, NetInv, TypeOK, FramesOK, FrameOK, OneCaller, StageOK, SwitchOK, Busy,
         Making, At, Idle, Frame, Ifaces

(* A frame that one goroutine changes.                                     *)
LEMMA FrameStep ==
  ASSUME TypeOK, FramesOK, NEW g \in Goroutines, NEW f \in Frame,
         f = Idle \/ (f.pc # "idle" /\ f.sw \in Switches),
         f.pc = "addm" => f.iface \in Ifaces,
         frame' = [frame EXCEPT ![g] = f]
  PROVE  frame' \in [Goroutines -> Frame] /\ FramesOK'
<1>1. frame \in [Goroutines -> Frame]
  BY DEF TypeOK
<1>2. frame' \in [Goroutines -> Frame]
  BY <1>1
<1>3. ASSUME NEW h \in Goroutines
      PROVE  FrameOK(h)'
  <2>1. CASE h = g
    BY <1>1, <2>1 DEF FrameOK, Busy, Idle, At
  <2>2. CASE h # g
    <3>1. frame'[h] = frame[h]
      BY <1>1, <2>2
    <3> QED BY <3>1 DEF FramesOK, FrameOK, Busy, At
  <2> QED BY <2>1, <2>2
<1> QED BY <1>2, <1>3 DEF FramesOK

LEMMA FrameSteps ==
  ASSUME TypeOK, FramesOK, NEW g \in Goroutines
  PROVE  /\ Return(g) => frame' \in [Goroutines -> Frame] /\ FramesOK'
         /\ \A l \in {"clean_up", "up"} :
              Goto(g, l) /\ Busy(g) => frame' \in [Goroutines -> Frame] /\ FramesOK'
         /\ \A t \in SUBSET Ifaces :
              At(g, "deletem") /\ frame' = [frame EXCEPT ![g].todo = t]
                => frame' \in [Goroutines -> Frame] /\ FramesOK'
<1>0. frame[g] \in Frame /\ (Busy(g) => frame[g].sw \in Switches)
  BY DEF TypeOK, FramesOK, FrameOK
<1>1. Idle \in Frame /\ Idle.pc = "idle"
  BY DEF Idle, Frame
<1>2. Return(g) => frame' \in [Goroutines -> Frame] /\ FramesOK'
  BY <1>1, FrameStep DEF Return
<1>3. ASSUME NEW l \in {"clean_up", "up"}, Goto(g, l), Busy(g)
      PROVE  frame' \in [Goroutines -> Frame] /\ FramesOK'
  <2> DEFINE f == [frame[g] EXCEPT !.pc = l]
  <2>1. f \in Frame /\ f.pc \notin {"idle", "addm"} /\ f.sw \in Switches
    BY <1>0, <1>3 DEF Frame
  <2>2. frame' = [frame EXCEPT ![g] = f]
    BY <1>3 DEF Goto
  <2> HIDE DEF f
  <2> QED BY <2>1, <2>2, FrameStep
<1>4. ASSUME NEW t \in SUBSET Ifaces, At(g, "deletem"), frame' = [frame EXCEPT ![g].todo = t]
      PROVE  frame' \in [Goroutines -> Frame] /\ FramesOK'
  <2> DEFINE f == [frame[g] EXCEPT !.todo = t]
  <2>1. f \in Frame /\ f.pc = "deletem" /\ f.sw \in Switches
    BY <1>0, <1>4 DEF Frame, Busy, At
  <2>2. frame' = [frame EXCEPT ![g] = f]
    BY <1>4
  <2> HIDE DEF f
  <2> QED BY <2>1, <2>2, FrameStep
<1> QED BY <1>2, <1>3, <1>4

(* The actions of Next keep the types and the frames.                      *)
LEMMA TypeStep == TypeOK /\ FramesOK /\ [Next]_vars => TypeOK' /\ FramesOK'
<1> SUFFICES ASSUME TypeOK, FramesOK, [Next]_vars PROVE TypeOK' /\ FramesOK'
  OBVIOUS
<1>1. CASE UNCHANGED vars
  BY <1>1 DEF vars, TypeOK, FramesOK, FrameOK, Busy, At
<1>2. CASE Next
  <2> PICK g \in Goroutines :
        \/ At(g, "idle") /\ UNCHANGED frame /\ Command(g)
        \/ \E s \in Switches :
             DeleteSwitch(g, s) \/ \E i \in Ifaces \cup {NoIface} : CreateSwitch(g, s, i)
        \/ AddMember(g) \/ AddMemberFails(g) \/ CleanUp(g) \/ CleanUpFails(g)
        \/ BringUp(g) \/ BringUpFails(g)
        \/ DeleteMember(g) \/ DeleteMemberFails(g)
        \/ DestroySwitch(g) \/ DestroySwitchFails(g)
    BY <1>2 DEF Next
  <2> DEFINE F == frame' \in [Goroutines -> Frame] /\ FramesOK'
  <2>0. frame[g] \in Frame /\ (Busy(g) => frame[g].sw \in Switches)
    BY DEF TypeOK, FramesOK, FrameOK
  <2>a. FramesOK' => \A h \in Goroutines : (At(h, "addm") => frame[h].iface \in Ifaces)'
    BY DEF FramesOK, FrameOK
  <2>1. CASE At(g, "idle") /\ UNCHANGED frame /\ Command(g)
    BY <2>1 DEF TypeOK, FramesOK, FrameOK, Busy, At, Ifaces,
                Command, CreateTAP, DestroyTAP, AttachToBridge, DetachFromBridge, Leave
  <2>2. ASSUME NEW s \in Switches, DeleteSwitch(g, s)
        PROVE  TypeOK' /\ FramesOK'
    <3> DEFINE f == [Idle EXCEPT !.pc = "deletem", !.sw = s, !.todo = Members(s)]
    <3>1. f \in Frame /\ f.pc = "deletem" /\ f.sw \in Switches
      BY DEF Idle, Frame, Members
    <3>2. frame' = [frame EXCEPT ![g] = f]
      BY <2>2 DEF DeleteSwitch
    <3> HIDE DEF f
    <3>3. F
      BY <3>1, <3>2, FrameStep
    <3> QED BY <2>2, <2>a, <3>3 DEF DeleteSwitch, TypeOK
  <2>3. ASSUME NEW s \in Switches, NEW i \in Ifaces \cup {NoIface}, CreateSwitch(g, s, i)
        PROVE  TypeOK' /\ FramesOK'
    <3> DEFINE f == [Idle EXCEPT !.pc = IF i = NoIface THEN "up" ELSE "addm",
                                 !.sw = s, !.iface = i]
    <3>1. /\ f \in Frame /\ f.pc # "idle" /\ f.sw \in Switches
          /\ f.pc = "addm" => f.iface \in Ifaces
      BY DEF Idle, Frame
    <3>2. frame' = [frame EXCEPT ![g] = f]
      BY <2>3 DEF CreateSwitch
    <3> HIDE DEF f
    <3>3. F
      BY <3>1, <3>2, FrameStep
    <3> QED BY <2>3, <2>a, <3>3 DEF CreateSwitch, TypeOK
  <2>4. CASE AddMember(g) \/ AddMemberFails(g)
    <3>1. F
      BY <2>4, FrameSteps DEF AddMember, AddMemberFails, At, Busy
    <3>2. member' \in [Ifaces -> Switches \cup {NoSwitch}]
      BY <2>0, <2>4 DEF AddMember, AddMemberFails, At, Busy, TypeOK
    <3> QED BY <2>4, <2>a, <3>1, <3>2 DEF AddMember, AddMemberFails, TypeOK
  <2>5. CASE CleanUp(g) \/ CleanUpFails(g) \/ DestroySwitch(g) \/ DestroySwitchFails(g)
    <3>1. F
      BY <2>5, FrameSteps DEF CleanUp, CleanUpFails, DestroySwitch, DestroySwitchFails
    <3> QED BY <2>5, <2>a, <3>1 DEF CleanUp, CleanUpFails, DestroySwitch,
                                    DestroySwitchFails, Destroy, TypeOK
  <2>6. CASE BringUp(g) \/ BringUpFails(g)
    <3>1. F
      BY <2>6, FrameSteps DEF BringUp, BringUpFails
    <3> QED BY <2>6, <2>a, <3>1 DEF BringUp, BringUpFails, TypeOK
  <2>7. CASE DeleteMember(g) \/ DeleteMemberFails(g)
    <3>1. PICK i \in frame[g].todo :
            /\ frame' = [frame EXCEPT ![g].todo = @ \ {i}]
            /\ Leave(frame[g].sw, i) \/ UNCHANGED <<member, want>>
      BY <2>7 DEF DeleteMember, DeleteMemberFails
    <3>2. frame' = [frame EXCEPT ![g].todo = frame[g].todo \ {i}] /\ At(g, "deletem")
      BY <2>7, <3>1 DEF DeleteMember, DeleteMemberFails
    <3>3. frame[g].todo \ {i} \in SUBSET Ifaces /\ i \in Ifaces
      BY <2>0 DEF Frame
    <3>4. F
      BY <3>2, <3>3, FrameSteps
    <3> QED BY <2>7, <2>a, <3>1, <3>3, <3>4
            DEF DeleteMember, DeleteMemberFails, Leave, TypeOK
  <2> QED BY <2>1, <2>2, <2>3, <2>4, <2>5, <2>6, <2>7
<1> QED BY <1>1, <1>2

(* A caller starts on a switch nobody works on.                            *)
LEMMA CallerStep ==
  NetInv /\ Exclusive /\ [Next]_vars => OneCaller'
<1> SUFFICES ASSUME NetInv, Exclusive, [Next]_vars PROVE OneCaller'
  OBVIOUS
<1> USE DEF NetInv, TypeOK, FramesOK, FrameOK, OneCaller, Busy, Frame, Idle, At, Goto,
            Return
<1>1. CASE UNCHANGED frame
  BY <1>1
<1>2. ASSUME NEW g \in Goroutines, NEW s \in Switches, NEW f \in Frame, May(g, s),
             f.sw = s, frame' = [frame EXCEPT ![g] = f]
      PROVE  OneCaller'
  BY <1>2 DEF May
<1>3. ASSUME NEW g \in Goroutines, NEW f \in Frame, Busy(g), f.sw = frame[g].sw,
             frame' = [frame EXCEPT ![g] = f]
      PROVE  OneCaller'
  BY <1>3
<1>4. ASSUME NEW g \in Goroutines, Return(g)
      PROVE  OneCaller'
  BY <1>4
<1>5. ASSUME NEW g \in Goroutines, NEW s \in Switches, DeleteSwitch(g, s)
      PROVE  OneCaller'
  <2> DEFINE f == [Idle EXCEPT !.pc = "deletem", !.sw = s, !.todo = Members(s)]
  <2>1. f \in Frame /\ f.sw = s
    BY DEF Members, Ifaces
  <2> HIDE DEF f
  <2> QED BY <1>2, <1>5, <2>1 DEF DeleteSwitch, f
<1>6. ASSUME NEW g \in Goroutines, NEW s \in Switches, NEW i \in Ifaces \cup {NoIface},
             CreateSwitch(g, s, i)
      PROVE  OneCaller'
  <2> DEFINE f == [Idle EXCEPT !.pc = IF i = NoIface THEN "up" ELSE "addm",
                               !.sw = s, !.iface = i]
  <2>1. f \in Frame /\ f.sw = s
    OBVIOUS
  <2>2. May(g, s) /\ frame' = [frame EXCEPT ![g] = f]
    BY <1>6 DEF CreateSwitch
  <2> HIDE DEF f
  <2> QED BY <1>2, <2>1, <2>2
<1>7. ASSUME NEW g \in Goroutines, AddMember(g) \/ AddMemberFails(g)
      PROVE  OneCaller'
  BY <1>7 DEF AddMember, AddMemberFails
<1>8. ASSUME NEW g \in Goroutines, DeleteMember(g) \/ DeleteMemberFails(g)
      PROVE  OneCaller'
  BY <1>8 DEF DeleteMember, DeleteMemberFails
<1> QED
  BY <1>1, <1>4, <1>5, <1>6, <1>7, <1>8
  DEF Next, vars, CleanUp, CleanUpFails, BringUp, BringUpFails, DestroySwitch, DestroySwitchFails

(* An interface that leaves s leaves what s is to keep, if it was that.    *)
LEMMA LeaveChanges ==
  ASSUME TypeOK, NEW s \in Switches, NEW i \in Ifaces,
         (member[i] = s /\ Leave(s, i)) \/ UNCHANGED <<member, want>>
  PROVE  /\ \A x \in Switches \ {s} : want'[x] = want[x]
         /\ \A j \in Ifaces : member'[j] = member[j] \/ (member[j] = s /\ member'[j] = NoSwitch)
         /\ want'[s] # NoIface => want'[s] = want[s] /\ (member[want[s]] = s => member'[want[s]] = s)
         /\ want[s] = NoIface => want'[s] = NoIface
<1> want \in [Switches -> Ifaces \cup {NoIface}] /\ member \in [Ifaces -> Switches \cup {NoSwitch}]
  BY DEF TypeOK
<1>1. CASE UNCHANGED <<member, want>>
  BY <1>1
<1>2. CASE member[i] = s /\ Leave(s, i) /\ want[s] = i
  <2>1. member' = [member EXCEPT ![i] = NoSwitch] /\ want' = [want EXCEPT ![s] = NoIface]
    BY <1>2 DEF Leave
  <2> QED BY <1>2, <2>1
<1>3. CASE member[i] = s /\ Leave(s, i) /\ want[s] # i
  <2>1. member' = [member EXCEPT ![i] = NoSwitch] /\ want' = want
    BY <1>3 DEF Leave
  <2> QED BY <1>3, <2>1
<1> QED BY <1>1, <1>2, <1>3

LEMMA NetStep == NetInv /\ [Next]_vars => NetInv'
<1> SUFFICES ASSUME NetInv, [Next]_vars, Exclusive
             PROVE  (\A g \in Goroutines : StageOK(g))' /\ (\A s \in Switches : SwitchOK(s))'
  BY TypeStep, CallerStep DEF NetInv
<1>0. TypeOK' /\ FramesOK' /\ OneCaller'
  BY TypeStep, CallerStep DEF NetInv
<1> USE DEF NetInv, TypeOK, FramesOK, FrameOK, OneCaller, StageOK, SwitchOK, Busy, Making,
            Frame, Idle, Ifaces, At, Goto, Return
<1>1. CASE UNCHANGED vars
  BY <1>1 DEF vars
<1>2. CASE Next
  <2> PICK g \in Goroutines :
        \/ At(g, "idle") /\ UNCHANGED frame /\ Command(g)
        \/ \E s \in Switches :
             DeleteSwitch(g, s) \/ \E i \in Ifaces \cup {NoIface} : CreateSwitch(g, s, i)
        \/ AddMember(g) \/ AddMemberFails(g) \/ CleanUp(g) \/ CleanUpFails(g)
        \/ BringUp(g) \/ BringUpFails(g)
        \/ DeleteMember(g) \/ DeleteMemberFails(g)
        \/ DestroySwitch(g) \/ DestroySwitchFails(g)
    BY <1>2 DEF Next
  <2>0. ASSUME NEW t \in Taps, UNCHANGED frame, DestroyTAP(t)
        PROVE  (\A h \in Goroutines : StageOK(h))' /\ (\A x \in Switches : SwitchOK(x))'
    <3>1. CASE member[t] = NoSwitch
      BY <2>0, <3>1 DEF DestroyTAP
    <3>2. CASE member[t] # NoSwitch
      <4>1. /\ UNCHANGED <<bridge, frame, refused>>
            /\ member' = [member EXCEPT ![t] = NoSwitch]
            /\ member[t] \in Switches
            /\ want' = IF want[member[t]] = t
                       THEN [want EXCEPT ![member[t]] = NoIface] ELSE want
        BY <2>0, <3>2 DEF DestroyTAP, Leave
      <4>2. \A x \in Switches :
              /\ bridge'[x] = bridge[x] /\ refused'[x] = refused[x]
              /\ want'[x] = want[x] \/ want'[x] = NoIface
              /\ want[x] # NoIface /\ want'[x] = NoIface => member[t] = x
              /\ want'[x] # NoIface /\ member[want'[x]] = x => member'[want'[x]] = x
        BY <4>1
      <4>3. ASSUME NEW h \in Goroutines PROVE StageOK(h)'
        BY <4>1, <4>2, <2>0
      <4>4. ASSUME NEW x \in Switches PROVE SwitchOK(x)'
        BY <4>1, <4>2
      <4> QED BY <4>3, <4>4
    <3> QED BY <3>1, <3>2
  <2>1. CASE UNCHANGED frame /\ \E t \in Taps : CreateTAP(t) \/ DestroyTAP(t)
    BY <2>0, <2>1 DEF CreateTAP
  <2>2. ASSUME NEW s \in Switches, NEW i \in Ifaces, UNCHANGED frame, May(g, s),
               AttachToBridge(s, i)
        PROVE  (\A h \in Goroutines : StageOK(h))' /\ (\A x \in Switches : SwitchOK(x))'
    <3>1. UNCHANGED <<bridge, frame, want, refused>> /\ bridge[s] # "absent"
      BY <2>2 DEF AttachToBridge
    <3>2. member[i] = NoSwitch /\ member' = [member EXCEPT ![i] = s]
      BY <2>2 DEF AttachToBridge
    <3>3. \A h \in Goroutines : frame[h].sw # s
      BY <2>2 DEF May
    <3>4. ASSUME NEW h \in Goroutines PROVE StageOK(h)'
      BY <3>1, <3>2, <3>3
    <3>5. ASSUME NEW x \in Switches PROVE SwitchOK(x)'
      BY <3>1, <3>2
    <3> QED BY <3>4, <3>5
  <2>3. ASSUME NEW s \in Switches, NEW i \in Ifaces, UNCHANGED frame, May(g, s),
               DetachFromBridge(s, i)
        PROVE  (\A h \in Goroutines : StageOK(h))' /\ (\A x \in Switches : SwitchOK(x))'
    BY <2>3 DEF DetachFromBridge, Leave, May
  <2>4. CASE At(g, "idle") /\ UNCHANGED frame /\ Command(g)
    BY <2>1, <2>2, <2>3, <2>4 DEF Command
  <2>5. ASSUME NEW s \in Switches, DeleteSwitch(g, s)
        PROVE  (\A h \in Goroutines : StageOK(h))' /\ (\A x \in Switches : SwitchOK(x))'
    <3> DEFINE f == [Idle EXCEPT !.pc = "deletem", !.sw = s, !.todo = Members(s)]
    <3>0. f.pc = "deletem" /\ At(g, "idle")
      BY <2>5 DEF DeleteSwitch, May
    <3>a. frame' = [frame EXCEPT ![g] = f]
      BY <2>5 DEF DeleteSwitch
    <3> HIDE DEF f
    <3>1. \A h \in Goroutines : Making(h)' => h # g /\ frame'[h] = frame[h]
      BY <3>0, <3>a
    <3>2. \A h \in Goroutines : Making(h) => h # g /\ frame'[h] = frame[h]
      BY <3>0, <3>a
    <3>3. UNCHANGED <<bridge, member, want, refused>>
      BY <2>5 DEF DeleteSwitch
    <3>4. ASSUME NEW h \in Goroutines PROVE StageOK(h)'
      BY <3>1, <3>3
    <3>5. ASSUME NEW x \in Switches PROVE SwitchOK(x)'
      BY <3>2, <3>3
    <3> QED BY <3>4, <3>5
  <2>6. ASSUME NEW s \in Switches, NEW i \in Ifaces \cup {NoIface}, CreateSwitch(g, s, i)
        PROVE  (\A h \in Goroutines : StageOK(h))' /\ (\A x \in Switches : SwitchOK(x))'
    <3> DEFINE f == [Idle EXCEPT !.pc = IF i = NoIface THEN "up" ELSE "addm",
                                 !.sw = s, !.iface = i]
    <3>0. f.sw = s /\ f.iface = i /\ f.pc = IF i = NoIface THEN "up" ELSE "addm"
      OBVIOUS
    <3>a. frame' = [frame EXCEPT ![g] = f]
      BY <2>6 DEF CreateSwitch
    <3> HIDE DEF f
    <3>1. \A h \in Goroutines : h # g => frame'[h] = frame[h]
      BY <3>a
    <3>2. \A h \in Goroutines : Busy(h) => h # g /\ frame[h].sw # s
      BY <2>6 DEF CreateSwitch, May
    <3>3. /\ frame'[g].sw = s /\ frame'[g].iface = i
          /\ frame'[g].pc = IF i = NoIface THEN "up" ELSE "addm"
      BY <3>0, <3>a
    <3>b. /\ bridge' = [bridge EXCEPT ![s] = "down"] /\ want' = [want EXCEPT ![s] = i]
          /\ UNCHANGED <<member, refused>> /\ bridge[s] = "absent"
      BY <2>6 DEF CreateSwitch
    <3>4. /\ \A x \in Switches : x # s => bridge'[x] = bridge[x] /\ want'[x] = want[x]
          /\ bridge'[s] = "down" /\ want'[s] = i /\ member' = member /\ refused' = refused
      BY <3>b
    <3>c. SwitchOK(s)
      BY DEF NetInv
    <3>d. refused[s] = "none" /\ \A j \in Ifaces : member[j] # s
      BY <3>b, <3>c
    <3>5. StageOK(g)'
      <4>1. CASE i = NoIface
        BY <3>3, <3>4, <3>d, <4>1
      <4>2. CASE i # NoIface
        BY <3>3, <3>4, <3>d, <4>2
      <4> QED BY <4>1, <4>2
    <3>6. ASSUME NEW h \in Goroutines, h # g PROVE StageOK(h)'
      BY <3>1, <3>2, <3>4, <3>6
    <3>7. SwitchOK(s)'
      BY <3>3, <3>4
    <3>8. ASSUME NEW x \in Switches, x # s PROVE SwitchOK(x)'
      BY <3>1, <3>2, <3>4, <3>8
    <3> QED BY <3>5, <3>6, <3>7, <3>8
  <2>7. CASE AddMember(g)
    BY <2>7 DEF AddMember
  <2>8. CASE AddMemberFails(g)
    BY <2>8 DEF AddMemberFails
  <2>9. CASE CleanUp(g)
    BY <2>9 DEF CleanUp, Destroy
  <2>10. CASE BringUp(g)
    BY <2>10 DEF BringUp
  <2>11. CASE BringUpFails(g)
    <3>1. \A h \in Goroutines : h # g => frame'[h] = frame[h]
      BY <2>11 DEF BringUpFails
    <3>2. Making(g) /\ frame'[g] = Idle /\ bridge[frame[g].sw] = "down"
      BY <2>11 DEF BringUpFails
    <3>3. ASSUME NEW h \in Goroutines PROVE StageOK(h)'
      BY <2>11, <3>1, <3>2 DEF BringUpFails
    <3>4. refused' = [refused EXCEPT ![frame[g].sw] = "up"]
      BY <2>11, <3>2 DEF BringUpFails
    <3>5. StageOK(g) /\ At(g, "up") /\ UNCHANGED <<bridge, member, want>>
      BY <2>11 DEF BringUpFails
    <3>6. ASSUME NEW x \in Switches, x = frame[g].sw PROVE SwitchOK(x)'
      <4>1. refused'[x] = "up" /\ bridge'[x] = "down" /\ (want'[x] # NoIface => member'[want'[x]] = x)
        BY <3>4, <3>5, <3>6
      <4> QED BY <4>1
    <3>7. ASSUME NEW x \in Switches, x # frame[g].sw PROVE SwitchOK(x)'
      BY <3>1, <3>2, <3>4, <3>5, <3>7
    <3> QED BY <3>3, <3>6, <3>7
  <2>12. CASE DeleteMember(g) \/ DeleteMemberFails(g)
    <3> DEFINE s == frame[g].sw
    <3>1. PICK i \in frame[g].todo :
            /\ frame' = [frame EXCEPT ![g].todo = @ \ {i}]
            /\ (member[i] = s /\ Leave(s, i)) \/ UNCHANGED <<member, want>>
      BY <2>12 DEF DeleteMember, DeleteMemberFails
    <3>2. \A h \in Goroutines : /\ frame'[h].pc = frame[h].pc /\ frame'[h].sw = frame[h].sw
                               /\ frame'[h].iface = frame[h].iface
      BY <3>1
    <3>3. UNCHANGED <<bridge, refused>> /\ ~Making(g) /\ s \in Switches /\ i \in Ifaces
      BY <2>12 DEF DeleteMember, DeleteMemberFails
    <3>4. \A h \in Goroutines : Making(h) => frame[h].sw # s
      BY <2>12 DEF DeleteMember, DeleteMemberFails
    <3>5. /\ \A x \in Switches \ {s} : want'[x] = want[x]
          /\ \A j \in Ifaces : member'[j] = member[j] \/ (member[j] = s /\ member'[j] = NoSwitch)
          /\ want'[s] # NoIface => want'[s] = want[s] /\ (member[want[s]] = s => member'[want[s]] = s)
          /\ want[s] = NoIface => want'[s] = NoIface
      BY <3>1, <3>3, LeaveChanges
    <3>6. ASSUME NEW h \in Goroutines PROVE StageOK(h)'
      BY <3>2, <3>3, <3>4, <3>5
    <3>7. ASSUME NEW x \in Switches PROVE SwitchOK(x)'
      BY <3>2, <3>3, <3>4, <3>5
    <3> QED BY <3>6, <3>7
  <2>13. CASE DestroySwitch(g)
    <3> DEFINE s == frame[g].sw
    <3>1. /\ Busy(g) /\ ~Making(g) /\ s \in Switches /\ Destroy(s)
          /\ frame' = [frame EXCEPT ![g] = Idle]
      BY <2>13 DEF DestroySwitch
    <3>2. /\ \A h \in Goroutines : h # g => frame'[h] = frame[h]
          /\ ~Making(g)'
      BY <3>1
    <3>3. \A h \in Goroutines : Making(h) => h # g /\ frame[h].sw # s
      BY <3>1
    <3>4. /\ bridge'[s] = "absent" /\ want'[s] = NoIface /\ refused'[s] = "none"
          /\ \A x \in Switches : x # s => /\ bridge'[x] = bridge[x] /\ want'[x] = want[x]
                                         /\ refused'[x] = refused[x]
          /\ \A i \in Ifaces : member'[i] = IF member[i] = s THEN NoSwitch ELSE member[i]
      BY <3>1 DEF Destroy
    <3>5. ASSUME NEW h \in Goroutines PROVE StageOK(h)'
      BY <3>2, <3>3, <3>4
    <3>6. ASSUME NEW x \in Switches, x = s PROVE SwitchOK(x)'
      <4>1. /\ bridge'[x] = "absent" /\ want'[x] = NoIface /\ refused'[x] = "none"
            /\ \A i \in Ifaces : member'[i] # x
        BY <3>1, <3>4, <3>6
      <4> QED BY <4>1
    <3>7. ASSUME NEW x \in Switches, x # s PROVE SwitchOK(x)'
      BY <3>2, <3>3, <3>4, <3>7
    <3> QED BY <3>5, <3>6, <3>7
  <2>14. CASE DestroySwitchFails(g)
    BY <2>14 DEF DestroySwitchFails
  <2>15. CASE CleanUpFails(g)
    <3> DEFINE s == frame[g].sw
    <3>1. /\ Making(g) /\ s \in Switches /\ frame'[g] = Idle
          /\ \A h \in Goroutines : h # g => frame'[h] = frame[h]
      BY <2>15 DEF CleanUpFails
    <3>2. StageOK(g)
      OBVIOUS
    <3>3. bridge[s] = "down"
      BY <3>1, <3>2
    <3>4. refused' = [refused EXCEPT ![s] = "destroy"] /\ UNCHANGED <<bridge, member, want>>
      BY <2>15, <3>3 DEF CleanUpFails
    <3>5. \A h \in Goroutines : h # g /\ Busy(h) => frame[h].sw # s
      BY <3>1
    <3>6. ASSUME NEW h \in Goroutines PROVE StageOK(h)'
      BY <3>1, <3>4, <3>5
    <3>7. ASSUME NEW x \in Switches, x = s PROVE SwitchOK(x)'
      BY <3>3, <3>4, <3>7
    <3>8. ASSUME NEW x \in Switches, x # s PROVE SwitchOK(x)'
      BY <3>1, <3>4, <3>8
    <3> QED BY <3>6, <3>7, <3>8
  <2> QED
    BY <2>4, <2>5, <2>6, <2>7, <2>8, <2>9, <2>10, <2>11, <2>12, <2>13, <2>14, <2>15
<1> QED BY <1>1, <1>2

LEMMA NetInvariant == Spec => []NetInv
  BY InitNet, NetStep, PTL DEF Spec

(* The variables keep their types; a switch's members are interfaces and   *)
(* an interface is in one bridge (CreateSwitch, AttachToBridge).           *)
THEOREM TypeCorrect == Spec => []TypeOK
<1>1. NetInv => TypeOK
  BY DEF NetInv
<1> QED BY <1>1, NetInvariant, PTL

(* A switch that CreateSwitch is done with is whole, whoever else works on *)
(* other switches with the same interfaces; of the failures of commands    *)
(* two only leave less, a switch that is down: that of the last command    *)
(* and that of the clean-up.                                               *)
THEOREM NoSwitchIsLeftHalfMade == Spec => []NoHalfSwitch
<1>1. NetInv => NoHalfSwitch
  BY DEF NetInv, NoHalfSwitch, SwitchOK, Creating, Making, Ifaces
<1> QED BY <1>1, NetInvariant, PTL

(* A switch that is up goes by a DeleteSwitch only, by no CreateSwitch's   *)
(* clean-up.                                                               *)
THEOREM SwitchesStayUntilDeleted == Spec => UpUntilDeleted
<1>1. NetInv /\ [Next]_vars =>
        [Exclusive => \A s \in Switches :
           bridge[s] = "up" /\ bridge'[s] # "up" =>
             \E g \in Goroutines : At(g, "deletem") /\ frame[g].sw = s]_vars
  <2> SUFFICES ASSUME NetInv, Next, Exclusive, NEW s \in Switches,
                      bridge[s] = "up", bridge'[s] # "up"
               PROVE  \E g \in Goroutines : At(g, "deletem") /\ frame[g].sw = s
    OBVIOUS
  <2>1. ASSUME NEW g \in Goroutines, Command(g)
        PROVE  UNCHANGED bridge
    BY <2>1 DEF Command, CreateTAP, DestroyTAP, AttachToBridge, DetachFromBridge
  <2>2. PICK g \in Goroutines :
          \/ CleanUp(g) \/ DestroySwitch(g) \/ BringUp(g)
          \/ \E x \in Switches, i \in Ifaces \cup {NoIface} : CreateSwitch(g, x, i)
    BY <2>1 DEF Next, DeleteSwitch, AddMember, AddMemberFails, CleanUpFails, BringUpFails,
                DeleteMember, DeleteMemberFails, DestroySwitchFails
  <2>3. ~(CleanUp(g) /\ frame[g].sw = s)
    BY DEF NetInv, StageOK, CleanUp, Making, At
  <2> QED
    BY <2>2, <2>3 DEF CleanUp, DestroySwitch, BringUp, CreateSwitch, Destroy, At,
                      NetInv, TypeOK
<1> QED BY <1>1, NetInvariant, PTL DEF Spec, UpUntilDeleted

=============================================================================
