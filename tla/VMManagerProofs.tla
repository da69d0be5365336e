-------------------------- MODULE VMManagerProofs --------------------------
(***************************************************************************)
(* Safety of VMManager for every number of VMs, structs, processes and     *)
(* concurrent callers, every subset of the operations and every fault,     *)
(* server crashes and host reboots included.  Four invariants, the last    *)
(* two inductive together with LockInv, and LockInv with TypeInv:          *)
(*                                                                         *)
(*   TypeInv     types, and what the program point of a frame says of the  *)
(*               structs it refers to;                                     *)
(*   LockInv     vm.mu is held by who is past its Lock(), transient states *)
(*               are seen under it, names of structs and frames agree;     *)
(*   CycleInv    who holds m.mu, and which structs lead to which: no       *)
(*               callers wait for one another in a circle;                 *)
(*   ProcessInv  the process a struct records is a child that is still to  *)
(*               be waited for, recorded once.                             *)
(***************************************************************************)
EXTENDS VMManager, TLAPS

----------------------------------------------------------------------------
(* Types                                                                   *)

HasName == PCs \ {"idle", "shutdown_scan"}
InStop == {"stop_lock", "stop_signal", "stop_wait"}
HasVM == {"start_lock", "start_open", "start_fork", "query_lock", "destroy_lock",
          "destroy_kernel", "destroy_file", "destroy_unmap"}

(* An operation knows its VM's name and the struct it works on.            *)
FrameOK ==
  \A g \in Goroutines :
    /\ frame[g].pc \in HasName => frame[g].name \in Names
    /\ frame[g].pc \in InStop => frame[g].target \in Objs
    /\ frame[g].pc \notin InStop => frame[g].target = NoObj
    /\ frame[g].pc \in HasVM => frame[g].vm \in Objs
    /\ frame[g].pc = "shutdown_scan" => frame[g].vm = NoObj

TypeInv == TypeOK /\ FrameOK

(* A new server's registry is well typed.                                  *)
LEMMA InitTypeInv == Init => TypeInv
BY VMManagerAssumption
   DEF Init, TypeInv, TypeOK, FrameOK, Unused, Idle, NoProcess, VMStruct, Frame,
       Process, FileStates, States, PCs, HasName, InStop, HasVM

(* The struct Create and LoadVM allocate.                                  *)
LEMMA NewVMType == ASSUME NEW n \in Names PROVE NewVM(n) \in VMStruct
BY VMManagerAssumption DEF NewVM, Unused, VMStruct, States

(* What the operations change in a struct leaves it one.                   *)
LEMMA VMEdits ==
  ASSUME NEW v \in VMStruct
  PROVE  /\ [v EXCEPT !.handle = TRUE] \in VMStruct
         /\ [v EXCEPT !.handle = FALSE] \in VMStruct
         /\ [v EXCEPT !.state = "stopped", !.handle = FALSE] \in VMStruct
         /\ [v EXCEPT !.state = "stopped", !.process = NoProc, !.handle = FALSE,
                      !.mu = Free] \in VMStruct
         /\ \A m \in Goroutines \cup {Free} :
              /\ [v EXCEPT !.mu = m] \in VMStruct
              /\ \A s \in States : [v EXCEPT !.state = s, !.mu = m] \in VMStruct
<1>1. [v EXCEPT !.handle = TRUE] \in VMStruct BY DEF VMStruct
<1>2. [v EXCEPT !.handle = FALSE] \in VMStruct BY DEF VMStruct
<1>3. [v EXCEPT !.state = "stopped", !.handle = FALSE] \in VMStruct
  BY DEF VMStruct, States
<1>4. [v EXCEPT !.state = "stopped", !.process = NoProc, !.handle = FALSE,
               !.mu = Free] \in VMStruct
  BY DEF VMStruct, States
<1>5. ASSUME NEW m \in Goroutines \cup {Free} PROVE [v EXCEPT !.mu = m] \in VMStruct
  BY DEF VMStruct
<1>6. ASSUME NEW m \in Goroutines \cup {Free}, NEW s \in States
      PROVE  [v EXCEPT !.state = s, !.mu = m] \in VMStruct
  BY DEF VMStruct
<1> QED BY <1>1, <1>2, <1>3, <1>4, <1>5, <1>6

LEMMA ProcessEdits ==
  ASSUME NEW p \in Process
  PROVE  /\ [p EXCEPT !.child = FALSE] \in Process
         /\ NoProcess \in Process
BY DEF Process, NoProcess

(* So do the changes of a frame.                                           *)
LEMMA FrameEdits ==
  ASSUME frame \in [Goroutines -> Frame], NEW g \in Goroutines
  PROVE  /\ [frame EXCEPT ![g] = Idle] \in [Goroutines -> Frame]
         /\ \A l \in PCs :
              /\ [frame EXCEPT ![g].pc = l] \in [Goroutines -> Frame]
              /\ \A n \in Names : [frame EXCEPT ![g].pc = l, ![g].name = n]
                                    \in [Goroutines -> Frame]
              /\ \A t \in Objs \cup {NoObj} :
                   [frame EXCEPT ![g].target = t, ![g].pc = l] \in [Goroutines -> Frame]
         /\ \A n \in Names :
              [frame EXCEPT ![g].todo = @ \ {n}] \in [Goroutines -> Frame]
<1>1. frame[g] \in Frame OBVIOUS
<1>2. Idle \in Frame BY DEF Idle, Frame, PCs
<1>3. ASSUME NEW l \in PCs PROVE [frame[g] EXCEPT !.pc = l] \in Frame
  BY <1>1 DEF Frame
<1>4. ASSUME NEW l \in PCs, NEW n \in Names
      PROVE  [frame[g] EXCEPT !.pc = l, !.name = n] \in Frame
  BY <1>1 DEF Frame
<1>5. ASSUME NEW l \in PCs, NEW t \in Objs \cup {NoObj}
      PROVE  [frame[g] EXCEPT !.target = t, !.pc = l] \in Frame
  BY <1>1 DEF Frame
<1>6. ASSUME NEW n \in Names PROVE [frame[g] EXCEPT !.todo = @ \ {n}] \in Frame
  BY <1>1 DEF Frame
<1>7. [frame EXCEPT ![g] = Idle] \in [Goroutines -> Frame] BY <1>2
<1>8. ASSUME NEW l \in PCs
      PROVE  [frame EXCEPT ![g].pc = l] \in [Goroutines -> Frame]
  BY <1>3
<1>9. ASSUME NEW l \in PCs, NEW n \in Names
      PROVE  [frame EXCEPT ![g].pc = l, ![g].name = n] \in [Goroutines -> Frame]
  BY <1>4
<1>10. ASSUME NEW l \in PCs, NEW t \in Objs \cup {NoObj}
       PROVE  [frame EXCEPT ![g].target = t, ![g].pc = l] \in [Goroutines -> Frame]
  BY <1>5
<1>11. ASSUME NEW n \in Names
       PROVE  [frame EXCEPT ![g].todo = @ \ {n}] \in [Goroutines -> Frame]
  BY <1>6
<1> QED BY <1>7, <1>8, <1>9, <1>10, <1>11

(* One step of an operation keeps the types.                               *)
LEMMA StepTypeInv == ASSUME TypeInv, NEW g \in Goroutines, Step(g) PROVE TypeInv'
<1> USE VMManagerAssumption DEF TypeInv, At, Goto, Return
<1>1. CASE CreateSave(g)
  <2>3. (frame \in [Goroutines -> Frame])' BY <1>1, FrameEdits DEF CreateSave, TypeOK, PCs
  <2>4. TypeOK' BY <1>1, <2>3 DEF CreateSave, TypeOK, FileStates
  <2>5. FrameOK' BY <1>1 DEF CreateSave, TypeOK, FrameOK, Frame, Idle, PCs, HasName, InStop, HasVM
  <2> QED BY <2>4, <2>5
<1>2. CASE CreateWrite(g)
  <2>3. (frame \in [Goroutines -> Frame])' BY <1>2, FrameEdits DEF CreateWrite, TypeOK, PCs
  <2>4. TypeOK' BY <1>2, <2>3 DEF CreateWrite, TypeOK, FileStates
  <2>5. FrameOK' BY <1>2 DEF CreateWrite, TypeOK, FrameOK, Frame, Idle, PCs, HasName, InStop, HasVM
  <2> QED BY <2>4, <2>5
<1>3. CASE CreateKernel(g)
  <2>1. (heap \in [Objs -> VMStruct])' BY <1>3, NewVMType DEF CreateKernel, TypeOK, FrameOK, HasName, PCs
  <2>3. (frame \in [Goroutines -> Frame])' BY <1>3, FrameEdits DEF CreateKernel, TypeOK, PCs
  <2>4. TypeOK' BY <1>3, <2>1, <2>3 DEF CreateKernel, TypeOK
  <2>5. FrameOK' BY <1>3 DEF CreateKernel, TypeOK, FrameOK, Frame, Idle, PCs, HasName, InStop, HasVM
  <2> QED BY <2>4, <2>5
<1>4. CASE CreateFails(g)
  <2>3. (frame \in [Goroutines -> Frame])' BY <1>4, FrameEdits DEF CreateFails, TypeOK, PCs
  <2>4. TypeOK' BY <1>4, <2>3 DEF CreateFails, TypeOK
  <2>5. FrameOK' BY <1>4 DEF CreateFails, TypeOK, FrameOK, Frame, Idle, PCs, HasName, InStop, HasVM
  <2> QED BY <2>4, <2>5
<1>5. CASE StartRefused(g)
  <2>3. (frame \in [Goroutines -> Frame])' BY <1>5, FrameEdits DEF StartRefused, TypeOK, PCs
  <2>4. TypeOK' BY <1>5, <2>3 DEF StartRefused, TypeOK
  <2>5. FrameOK' BY <1>5 DEF StartRefused, TypeOK, FrameOK, Frame, Idle, PCs, HasName, InStop, HasVM
  <2> QED BY <2>4, <2>5
<1>6. CASE StartLock(g)
  <2>1. (heap \in [Objs -> VMStruct])'
    <3>1. frame[g].vm \in Objs
      BY <1>6 DEF StartLock, TypeOK, FrameOK, HasVM, InStop
    <3>2. heap' = [heap EXCEPT ![frame[g].vm].state = "starting", ![frame[g].vm].mu = g]
      BY <1>6 DEF StartLock
    <3>3. [heap[frame[g].vm] EXCEPT !.state = "starting", !.mu = g] \in VMStruct
      BY <3>1, VMEdits DEF TypeOK, States
    <3> QED BY <3>1, <3>2, <3>3 DEF TypeOK
  <2>3. (frame \in [Goroutines -> Frame])' BY <1>6, FrameEdits DEF StartLock, TypeOK, PCs
  <2>4. TypeOK' BY <1>6, <2>1, <2>3 DEF StartLock, TypeOK
  <2>5. FrameOK' BY <1>6 DEF StartLock, TypeOK, FrameOK, Frame, Idle, PCs, HasName, InStop, HasVM
  <2> QED BY <2>4, <2>5
<1>7. CASE StartOpen(g)
  <2>1. (heap \in [Objs -> VMStruct])'
    <3>1. frame[g].vm \in Objs BY <1>7 DEF StartOpen, TypeOK, FrameOK, HasVM, InStop
    <3>2. heap' = [heap EXCEPT ![frame[g].vm].handle = TRUE] BY <1>7 DEF StartOpen
    <3>3. [heap[frame[g].vm] EXCEPT !.handle = TRUE] \in VMStruct
      BY <3>1, VMEdits DEF TypeOK
    <3> QED BY <3>1, <3>2, <3>3 DEF TypeOK
  <2>3. (frame \in [Goroutines -> Frame])' BY <1>7, FrameEdits DEF StartOpen, TypeOK, PCs
  <2>4. TypeOK' BY <1>7, <2>1, <2>3 DEF StartOpen, TypeOK
  <2>5. FrameOK' BY <1>7 DEF StartOpen, TypeOK, FrameOK, Frame, Idle, PCs, HasName, InStop, HasVM
  <2> QED BY <2>4, <2>5
<1>8. CASE StartFork(g)
  <2>1. (heap \in [Objs -> VMStruct])'
    <3>1. frame[g].vm \in Objs BY <1>8 DEF StartFork, TypeOK, FrameOK, HasVM, InStop
    <3>2. PICK p \in Procs :
            heap' = [heap EXCEPT ![frame[g].vm].process = p,
                                 ![frame[g].vm].state = "running",
                                 ![frame[g].vm].mu = Free]
      BY <1>8 DEF StartFork
    <3>3. [heap[frame[g].vm] EXCEPT !.process = p, !.state = "running",
                                    !.mu = Free] \in VMStruct
      <4> DEFINE vm == heap[frame[g].vm]
      <4>1. vm \in VMStruct BY <3>1 DEF TypeOK
      <4> HIDE DEF vm
      <4>2. [vm EXCEPT !.process = p, !.state = "running", !.mu = Free]
              \in VMStruct
        BY <4>1 DEF VMStruct, States
      <4> QED BY <4>2 DEF vm
    <3> QED BY <3>1, <3>2, <3>3 DEF TypeOK
  <2>2. (proc \in [Procs -> Process])' BY <1>8 DEF StartFork, TypeOK, FrameOK, HasName, PCs, Process
  <2>3. (frame \in [Goroutines -> Frame])' BY <1>8, FrameEdits DEF StartFork, TypeOK, PCs
  <2>4. TypeOK' BY <1>8, <2>1, <2>2, <2>3 DEF StartFork, TypeOK
  <2>5. FrameOK' BY <1>8 DEF StartFork, TypeOK, FrameOK, Frame, Idle, PCs, HasName, InStop, HasVM
  <2> QED BY <2>4, <2>5
<1>9. CASE StartFails(g)
  <2>1. (heap \in [Objs -> VMStruct])'
    <3>1. frame[g].vm \in Objs
      BY <1>9 DEF StartFails, TypeOK, FrameOK, HasVM, InStop
    <3>2. heap' = [heap EXCEPT ![frame[g].vm].state = "error", ![frame[g].vm].mu = Free]
      BY <1>9 DEF StartFails
    <3>3. [heap[frame[g].vm] EXCEPT !.state = "error", !.mu = Free] \in VMStruct
      BY <3>1, VMEdits DEF TypeOK, States
    <3> QED BY <3>1, <3>2, <3>3 DEF TypeOK
  <2>3. (frame \in [Goroutines -> Frame])' BY <1>9, FrameEdits DEF StartFails, TypeOK, PCs
  <2>4. TypeOK' BY <1>9, <2>1, <2>3 DEF StartFails, TypeOK
  <2>5. FrameOK' BY <1>9 DEF StartFails, TypeOK, FrameOK, Frame, Idle, PCs, HasName, InStop, HasVM
  <2> QED BY <2>4, <2>5
<1>10. CASE StopGet(g)
  <2>3. (frame \in [Goroutines -> Frame])'
    <3>1. vms[frame[g].name] \in Objs
      <4>1. At(g, "stop_get") /\ vms[frame[g].name] # NoObj BY <1>10 DEF StopGet
      <4>2. frame[g].name \in Names BY <4>1 DEF FrameOK, HasName, PCs
      <4> QED BY <4>1, <4>2 DEF TypeOK
    <3>2. frame' = [frame EXCEPT ![g].target = vms[frame[g].name], ![g].pc = "stop_lock"]
      BY <1>10 DEF StopGet
    <3> QED BY <3>1, <3>2, FrameEdits DEF TypeOK, PCs
  <2>4. TypeOK' BY <1>10, <2>3 DEF StopGet, TypeOK
  <2>5. FrameOK'
    <3>1. /\ frame[g] \in Frame /\ frame[g].pc = "stop_get"
          /\ vms[frame[g].name] \in Objs
      <4>1. At(g, "stop_get") /\ vms[frame[g].name] # NoObj BY <1>10 DEF StopGet
      <4>2. frame[g].name \in Names BY <4>1 DEF FrameOK, HasName, PCs
      <4> QED BY <4>1, <4>2 DEF TypeOK
    <3>2. /\ frame'[g].pc = "stop_lock"
          /\ frame'[g].target = vms[frame[g].name]
          /\ frame'[g].name = frame[g].name
          /\ frame'[g].vm = frame[g].vm
          /\ \A h \in Goroutines : h # g => frame'[h] = frame[h]
      BY <1>10, <3>1 DEF StopGet, TypeOK, Frame
    <3>3. /\ frame[g].name \in Names
          /\ "stop_lock" \in HasVM => frame[g].vm \in Objs
      BY <3>1 DEF FrameOK, HasName, HasVM, PCs
    <3>4. "stop_lock" \in InStop BY DEF InStop
    <3> QED BY <3>1, <3>2, <3>3, <3>4 DEF FrameOK
  <2> QED BY <2>4, <2>5
<1>11. CASE StopRefused(g)
  <2>1. (heap \in [Objs -> VMStruct])'
    <3>1. UNCHANGED heap \/ heap' = [heap EXCEPT ![frame[g].vm].mu = Free]
      BY <1>11 DEF StopRefused
    <3>2. \A o \in Objs : [heap[o] EXCEPT !.mu = Free] \in VMStruct
      BY VMEdits DEF TypeOK
    <3> QED BY <3>1, <3>2 DEF TypeOK
  <2>3. (frame \in [Goroutines -> Frame])' BY <1>11, FrameEdits DEF StopRefused, TypeOK, PCs
  <2>4. TypeOK' BY <1>11, <2>1, <2>3 DEF StopRefused, TypeOK
  <2>5. FrameOK' BY <1>11 DEF StopRefused, TypeOK, FrameOK, Frame, Idle, PCs, HasName, InStop, HasVM
  <2> QED BY <2>4, <2>5
<1>12. CASE StopLock(g)
  <2>1. (heap \in [Objs -> VMStruct])'
    <3>1. frame[g].target \in Objs
      BY <1>12 DEF StopLock, TypeOK, FrameOK, HasVM, InStop
    <3>2. heap' = [heap EXCEPT ![frame[g].target].state = "stopping", ![frame[g].target].mu = g]
      BY <1>12 DEF StopLock
    <3>3. [heap[frame[g].target] EXCEPT !.state = "stopping", !.mu = g] \in VMStruct
      BY <3>1, VMEdits DEF TypeOK, States
    <3> QED BY <3>1, <3>2, <3>3 DEF TypeOK
  <2>3. (frame \in [Goroutines -> Frame])' BY <1>12, FrameEdits DEF StopLock, TypeOK, PCs
  <2>4. TypeOK' BY <1>12, <2>1, <2>3 DEF StopLock, TypeOK
  <2>5. FrameOK' BY <1>12 DEF StopLock, TypeOK, FrameOK, Frame, Idle, PCs, HasName, InStop, HasVM
  <2> QED BY <2>4, <2>5
<1>13. CASE StopSignal(g)
  <2>3. (frame \in [Goroutines -> Frame])' BY <1>13, FrameEdits DEF StopSignal, TypeOK, PCs
  <2>4. TypeOK' BY <1>13, <2>3 DEF StopSignal, TypeOK
  <2>5. FrameOK' BY <1>13 DEF StopSignal, TypeOK, FrameOK, Frame, Idle, PCs, HasName, InStop, HasVM
  <2> QED BY <2>4, <2>5
<1>14. CASE StopSignalRefused(g)
  <2>1. (heap \in [Objs -> VMStruct])'
    <3>1. heap' = [o \in Objs |->
            IF o = frame[g].target THEN [heap[o] EXCEPT !.state = "error", !.mu = Free]
            ELSE IF o = frame[g].vm THEN [heap[o] EXCEPT !.mu = Free]
            ELSE heap[o]]
      BY <1>14 DEF StopSignalRefused
    <3>2. ASSUME NEW o \in Objs PROVE heap'[o] \in VMStruct
      <4>1. heap[o] \in VMStruct BY DEF TypeOK
      <4>2. heap'[o] \in {heap[o], [heap[o] EXCEPT !.mu = Free],
                         [heap[o] EXCEPT !.state = "error", !.mu = Free]}
        BY <3>1
      <4> QED BY <4>1, <4>2 DEF VMStruct, States
    <3> QED BY <3>1, <3>2
  <2>3. (frame \in [Goroutines -> Frame])' BY <1>14, FrameEdits DEF StopSignalRefused, TypeOK, PCs
  <2>4. TypeOK' BY <1>14, <2>1, <2>3 DEF StopSignalRefused, TypeOK
  <2>5. FrameOK' BY <1>14 DEF StopSignalRefused, TypeOK, FrameOK, Frame, Idle, PCs, HasName, InStop, HasVM
  <2> QED BY <2>4, <2>5
<1>15. CASE StopWait(g)
  <2>1. (heap \in [Objs -> VMStruct])'
    <3>1. frame[g].target \in Objs
      BY <1>15 DEF StopWait, TypeOK, FrameOK, InStop
    <3>2. heap' = [heap EXCEPT ![frame[g].target].state = "stopped",
                               ![frame[g].target].process = NoProc,
                               ![frame[g].target].handle = FALSE,
                               ![frame[g].target].mu = Free]
      BY <1>15 DEF StopWait
    <3>3. [heap[frame[g].target] EXCEPT !.state = "stopped", !.process = NoProc,
                                        !.handle = FALSE, !.mu = Free] \in VMStruct
      BY <3>1, VMEdits DEF TypeOK
    <3> QED BY <3>1, <3>2, <3>3 DEF TypeOK
  <2>2. (proc \in [Procs -> Process])' BY <1>15 DEF StopWait, TypeOK, FrameOK, HasName, PCs, Process, NoProcess
  <2>3. (frame \in [Goroutines -> Frame])'
    <3>1. \/ frame' = [frame EXCEPT ![g].target = NoObj, ![g].pc = "destroy_kernel"]
          \/ frame' = [frame EXCEPT ![g] = Idle]
      BY <1>15 DEF StopWait
    <3>2. "destroy_kernel" \in PCs BY DEF PCs
    <3>3. [frame EXCEPT ![g].target = NoObj, ![g].pc = "destroy_kernel"]
            \in [Goroutines -> Frame]
      BY <3>2, FrameEdits DEF TypeOK
    <3>4. [frame EXCEPT ![g] = Idle] \in [Goroutines -> Frame]
      BY FrameEdits DEF TypeOK
    <3> QED BY <3>1, <3>3, <3>4
  <2>4. TypeOK' BY <1>15, <2>1, <2>2, <2>3 DEF StopWait, TypeOK
  <2>5. FrameOK' BY <1>15 DEF StopWait, TypeOK, FrameOK, Frame, Idle, PCs, HasName, InStop, HasVM
  <2> QED BY <2>4, <2>5
<1>16. CASE DestroyLock(g)
  <2>1. (heap \in [Objs -> VMStruct])'
    <3>1. frame[g].vm \in Objs
      BY <1>16 DEF DestroyLock, TypeOK, FrameOK, HasVM, InStop
    <3>2. heap' = [heap EXCEPT ![frame[g].vm].mu = g]
      BY <1>16 DEF DestroyLock
    <3>3. [heap[frame[g].vm] EXCEPT !.mu = g] \in VMStruct
      BY <3>1, VMEdits DEF TypeOK, States
    <3> QED BY <3>1, <3>2, <3>3 DEF TypeOK
  <2>3. (frame \in [Goroutines -> Frame])' BY <1>16, FrameEdits DEF DestroyLock, TypeOK, PCs
  <2>4. TypeOK' BY <1>16, <2>1, <2>3 DEF DestroyLock, TypeOK
  <2>5. FrameOK' BY <1>16 DEF DestroyLock, TypeOK, FrameOK, Frame, Idle, PCs, HasName, InStop, HasVM
  <2> QED BY <2>4, <2>5
<1>17. CASE DestroyKernel(g)
  <2>1. (heap \in [Objs -> VMStruct])'
    <3>1. frame[g].vm \in Objs BY <1>17 DEF DestroyKernel, TypeOK, FrameOK, HasVM, InStop
    <3>2. heap' = [heap EXCEPT ![frame[g].vm].handle = FALSE] BY <1>17 DEF DestroyKernel
    <3>3. [heap[frame[g].vm] EXCEPT !.handle = FALSE] \in VMStruct
      BY <3>1, VMEdits DEF TypeOK
    <3> QED BY <3>1, <3>2, <3>3 DEF TypeOK
  <2>3. (frame \in [Goroutines -> Frame])' BY <1>17, FrameEdits DEF DestroyKernel, TypeOK, PCs
  <2>4. TypeOK' BY <1>17, <2>1, <2>3 DEF DestroyKernel, TypeOK
  <2>5. FrameOK' BY <1>17 DEF DestroyKernel, TypeOK, FrameOK, Frame, Idle, PCs, HasName, InStop, HasVM
  <2> QED BY <2>4, <2>5
<1>18. CASE DestroyFile(g)
  <2>3. (frame \in [Goroutines -> Frame])' BY <1>18, FrameEdits DEF DestroyFile, TypeOK, PCs
  <2>4. TypeOK' BY <1>18, <2>3 DEF DestroyFile, TypeOK, FileStates
  <2>5. FrameOK' BY <1>18 DEF DestroyFile, TypeOK, FrameOK, Frame, Idle, PCs, HasName, InStop, HasVM
  <2> QED BY <2>4, <2>5
<1>19. CASE DestroyFileFails(g)
  <2>1. (heap \in [Objs -> VMStruct])'
    <3>1. frame[g].vm \in Objs
      BY <1>19 DEF DestroyFileFails, TypeOK, FrameOK, HasVM, InStop
    <3>2. heap' = [heap EXCEPT ![frame[g].vm].mu = Free]
      BY <1>19 DEF DestroyFileFails
    <3>3. [heap[frame[g].vm] EXCEPT !.mu = Free] \in VMStruct
      BY <3>1, VMEdits DEF TypeOK, States
    <3> QED BY <3>1, <3>2, <3>3 DEF TypeOK
  <2>3. (frame \in [Goroutines -> Frame])' BY <1>19, FrameEdits DEF DestroyFileFails, TypeOK, PCs
  <2>4. TypeOK' BY <1>19, <2>1, <2>3 DEF DestroyFileFails, TypeOK
  <2>5. FrameOK' BY <1>19 DEF DestroyFileFails, TypeOK, FrameOK, Frame, Idle, PCs, HasName, InStop, HasVM
  <2> QED BY <2>4, <2>5
<1>20. CASE DestroyUnmap(g)
  <2>1. (heap \in [Objs -> VMStruct])'
    <3>1. frame[g].vm \in Objs
      BY <1>20 DEF DestroyUnmap, TypeOK, FrameOK, HasVM, InStop
    <3>2. heap' = [heap EXCEPT ![frame[g].vm].mu = Free]
      BY <1>20 DEF DestroyUnmap
    <3>3. [heap[frame[g].vm] EXCEPT !.mu = Free] \in VMStruct
      BY <3>1, VMEdits DEF TypeOK, States
    <3> QED BY <3>1, <3>2, <3>3 DEF TypeOK
  <2>3. (frame \in [Goroutines -> Frame])' BY <1>20, FrameEdits DEF DestroyUnmap, TypeOK, PCs
  <2>4. TypeOK' BY <1>20, <2>1, <2>3 DEF DestroyUnmap, TypeOK
  <2>5. FrameOK' BY <1>20 DEF DestroyUnmap, TypeOK, FrameOK, Frame, Idle, PCs, HasName, InStop, HasVM
  <2> QED BY <2>4, <2>5
<1>21. CASE Query(g)
  <2>3. (frame \in [Goroutines -> Frame])' BY <1>21, FrameEdits DEF Query, TypeOK, PCs
  <2>4. TypeOK' BY <1>21, <2>3 DEF Query, TypeOK
  <2>5. FrameOK' BY <1>21 DEF Query, TypeOK, FrameOK, Frame, Idle, PCs, HasName, InStop, HasVM
  <2> QED BY <2>4, <2>5
<1>22. CASE QuerySignalRefused(g)
  <2>1. (heap \in [Objs -> VMStruct])'
    <3>1. frame[g].vm \in Objs BY <1>22 DEF QuerySignalRefused, TypeOK, FrameOK, HasVM, InStop
    <3>2. heap' = [heap EXCEPT ![frame[g].vm].state = "stopped",
                            ![frame[g].vm].handle = FALSE]
      BY <1>22 DEF QuerySignalRefused
    <3>3. [heap[frame[g].vm] EXCEPT !.state = "stopped", !.handle = FALSE] \in VMStruct
      BY <3>1, VMEdits DEF TypeOK
    <3> QED BY <3>1, <3>2, <3>3 DEF TypeOK
  <2>3. (frame \in [Goroutines -> Frame])' BY <1>22, FrameEdits DEF QuerySignalRefused, TypeOK, PCs
  <2>4. TypeOK' BY <1>22, <2>1, <2>3 DEF QuerySignalRefused, TypeOK
  <2>5. FrameOK' BY <1>22 DEF QuerySignalRefused, TypeOK, FrameOK, Frame, Idle, PCs, HasName, InStop, HasVM
  <2> QED BY <2>4, <2>5
<1>23. CASE ShutdownScan(g)
  <2>3. (frame \in [Goroutines -> Frame])'
    <3>1. PICK n \in Names :
            \/ frame' = [frame EXCEPT ![g].pc = "stop_get", ![g].name = n]
            \/ frame' = [frame EXCEPT ![g].todo = @ \ {n}]
      BY <1>23 DEF ShutdownScan, TypeOK, Frame
    <3>2. "stop_get" \in PCs BY DEF PCs
    <3>3. [frame EXCEPT ![g].pc = "stop_get", ![g].name = n] \in [Goroutines -> Frame]
      BY <3>2, FrameEdits DEF TypeOK
    <3>4. [frame EXCEPT ![g].todo = @ \ {n}] \in [Goroutines -> Frame]
      BY FrameEdits DEF TypeOK
    <3> QED BY <3>1, <3>3, <3>4
  <2>4. TypeOK' BY <1>23, <2>3 DEF ShutdownScan, TypeOK
  <2>5. FrameOK' BY <1>23 DEF ShutdownScan, TypeOK, FrameOK, Frame, Idle, PCs, HasName, InStop, HasVM
  <2> QED BY <2>4, <2>5
<1>24. CASE ShutdownReturn(g)
  <2>3. (frame \in [Goroutines -> Frame])' BY <1>24, FrameEdits DEF ShutdownReturn, TypeOK, PCs
  <2>4. TypeOK' BY <1>24, <2>3 DEF ShutdownReturn, TypeOK
  <2>5. FrameOK' BY <1>24 DEF ShutdownReturn, TypeOK, FrameOK, Frame, Idle, PCs, HasName, InStop, HasVM
  <2> QED BY <2>4, <2>5
<1> QED BY <1>1, <1>2, <1>3, <1>4, <1>5, <1>6, <1>7, <1>8, <1>9, <1>10, <1>11, <1>12, <1>13, <1>14, <1>15, <1>16, <1>17, <1>18, <1>19, <1>20, <1>21, <1>22, <1>23, <1>24 DEF Step

(* What a call begins with is a frame.                                     *)
LEMMA CallFrames ==
  ASSUME NEW l \in PCs
  PROVE  /\ \A n \in Names :
              /\ [Idle EXCEPT !.pc = l, !.name = n] \in Frame
              /\ \A o \in Objs :
                   /\ [Idle EXCEPT !.pc = l, !.name = n, !.vm = o] \in Frame
                   /\ [Idle EXCEPT !.pc = l, !.name = n, !.target = o] \in Frame
         /\ \A N \in SUBSET Names :
              [Idle EXCEPT !.pc = l, !.todo = N] \in Frame
BY DEF Idle, Frame

(* So does a call.                                                         *)
LEMMA CallsTypeInv == ASSUME TypeInv, NEW g \in Goroutines, Calls(g) PROVE TypeInv'
<1> USE VMManagerAssumption
    DEF TypeInv, At, TypeOK, FrameOK, HasName, InStop, HasVM
<1>1. ASSUME NEW n \in Names, CreateCall(g, n) PROVE TypeInv'
  <2>1. frame'[g] = [Idle EXCEPT !.pc = "create_save", !.name = n]
    BY <1>1 DEF CreateCall
  <2>2. frame' \in [Goroutines -> Frame]
    <3>0. "create_save" \in PCs BY DEF PCs
    <3>1. [Idle EXCEPT !.pc = "create_save", !.name = n] \in Frame
      BY <2>1, <3>0, CallFrames
    <3>3. frame'[g] \in Frame BY <2>1, <3>1
    <3>2. frame' = [frame EXCEPT ![g] = frame'[g]] BY <1>1 DEF CreateCall
    <3> QED BY <3>2, <3>3
  <2>3. TypeOK' BY <1>1, <2>2 DEF CreateCall
  <2>4. FrameOK' BY <1>1, <2>1 DEF CreateCall, Idle
  <2> QED BY <2>3, <2>4
<1>2. ASSUME NEW n \in Names,
             NEW l \in {"start_lock", "destroy_lock", "query_lock"}, Call(g, n, l)
      PROVE  TypeInv'
  <2>1. /\ vms[n] \in Objs
        /\ frame'[g] = [Idle EXCEPT !.pc = l, !.name = n, !.vm = vms[n]]
    BY <1>2 DEF Call
  <2>2. frame' \in [Goroutines -> Frame]
    <3>0. l \in PCs BY DEF PCs
    <3>1. [Idle EXCEPT !.pc = l, !.name = n, !.vm = vms[n]] \in Frame
      BY <2>1, <3>0, CallFrames
    <3>3. frame'[g] \in Frame BY <2>1, <3>1
    <3>2. frame' = [frame EXCEPT ![g] = frame'[g]] BY <1>2 DEF Call
    <3> QED BY <3>2, <3>3
  <2>3. TypeOK' BY <1>2, <2>2 DEF Call
  <2>4. FrameOK' BY <1>2, <2>1 DEF Call, Idle
  <2> QED BY <2>3, <2>4
<1>3. ASSUME NEW n \in Names, StopCall(g, n) PROVE TypeInv'
  <2>1. /\ vms[n] \in Objs
        /\ frame'[g] = [Idle EXCEPT !.pc = "stop_lock", !.name = n, !.target = vms[n]]
    BY <1>3 DEF StopCall
  <2>2. frame' \in [Goroutines -> Frame]
    <3>0. "stop_lock" \in PCs BY DEF PCs
    <3>1. [Idle EXCEPT !.pc = "stop_lock", !.name = n, !.target = vms[n]] \in Frame
      BY <2>1, <3>0, CallFrames
    <3>3. frame'[g] \in Frame BY <2>1, <3>1
    <3>2. frame' = [frame EXCEPT ![g] = frame'[g]] BY <1>3 DEF StopCall
    <3> QED BY <3>2, <3>3
  <2>3. TypeOK' BY <1>3, <2>2 DEF StopCall
  <2>4. FrameOK' BY <1>3, <2>1 DEF StopCall, Idle
  <2> QED BY <2>3, <2>4
<1>4. CASE ShutdownCall(g)
  <2>1. frame'[g] = [Idle EXCEPT !.pc = "shutdown_scan",
                                 !.todo = {n \in Names : vms[n] # NoObj}]
    BY <1>4 DEF ShutdownCall
  <2>2. frame' \in [Goroutines -> Frame]
    <3>0. "shutdown_scan" \in PCs BY DEF PCs
    <3>1. [Idle EXCEPT !.pc = "shutdown_scan", !.todo = {n \in Names : vms[n] # NoObj}]
             \in Frame
      BY <2>1, <3>0, CallFrames
    <3>3. frame'[g] \in Frame BY <2>1, <3>1
    <3>2. frame' = [frame EXCEPT ![g] = frame'[g]] BY <1>4 DEF ShutdownCall
    <3> QED BY <3>2, <3>3
  <2>3. TypeOK' BY <1>4, <2>2 DEF ShutdownCall
  <2>4. FrameOK' BY <1>4, <2>1 DEF ShutdownCall, Idle
  <2> QED BY <2>3, <2>4
<1> QED
  BY <1>1, <1>2, <1>3, <1>4 DEF Calls, StartCall, DestroyCall, QueryCall

(* What a server finds when it starts.                                     *)
LEMMA LoadedVMs ==
  ASSUME TypeInv, LoadAllVMs
  PROVE  /\ (vms \in [Names -> Objs \cup {NoObj}])'
         /\ (heap \in [Objs -> VMStruct])'
         /\ \A n \in Names : vms'[n] # NoObj => heap'[vms'[n]].name = n
         /\ \A o \in Objs : /\ heap'[o].state \in {"none", "defined"}
                            /\ heap'[o].process = NoProc
                            /\ heap'[o].mu = Free
<1>0. PICK L \in SUBSET Names : \E at \in [L -> Objs] :
        /\ \A m, n \in L : at[m] = at[n] => m = n
        /\ vms' = [n \in Names |-> IF n \in L THEN at[n] ELSE NoObj]
        /\ heap' = [o \in Objs |->
                      IF \E n \in L : at[n] = o
                      THEN NewVM(CHOOSE n \in L : at[n] = o) ELSE Unused]
  BY DEF LoadAllVMs
<1>1. PICK at \in [L -> Objs] :
        /\ \A m, n \in L : at[m] = at[n] => m = n
        /\ vms' = [n \in Names |-> IF n \in L THEN at[n] ELSE NoObj]
        /\ heap' = [o \in Objs |->
                      IF \E n \in L : at[n] = o
                      THEN NewVM(CHOOSE n \in L : at[n] = o) ELSE Unused]
  BY <1>0
<1>2. ASSUME NEW o \in Objs
      PROVE  /\ heap'[o] \in VMStruct
             /\ heap'[o].state \in {"none", "defined"}
             /\ heap'[o].process = NoProc
             /\ heap'[o].mu = Free
  <2>1. CASE \E n \in L : at[n] = o
    <3>1. PICK m \in Names : heap'[o] = NewVM(m) BY <1>1, <2>1
    <3> QED BY <3>1, NewVMType DEF NewVM, Unused
  <2>2. CASE ~ \E n \in L : at[n] = o
    BY <1>1, <2>2, VMManagerAssumption DEF Unused, VMStruct, States
  <2> QED BY <2>1, <2>2
<1>3. ASSUME NEW n \in Names, vms'[n] # NoObj PROVE heap'[vms'[n]].name = n
  <2>1. n \in L /\ vms'[n] = at[n] BY <1>1, <1>3
  <2>2. (CHOOSE m \in L : at[m] = at[n]) = n BY <1>1, <2>1
  <2>3. heap'[at[n]] = NewVM(n) BY <1>1, <2>1, <2>2
  <2> QED BY <2>1, <2>3 DEF NewVM, Unused
<1> QED BY <1>1, <1>2, <1>3

(* And what the environment does.                                          *)
LEMMA NextTypeInv == TypeInv /\ [Next]_vars => TypeInv'
<1> SUFFICES ASSUME TypeInv, [Next]_vars PROVE TypeInv'
  OBVIOUS
<1> USE VMManagerAssumption
    DEF TypeInv, TypeOK, FrameOK, HasName, InStop, HasVM
<1>1. ASSUME NEW p \in Procs, ProcExit(p) PROVE TypeInv'
  BY <1>1 DEF ProcExit, Process, NoProcess
<1>2. CASE Restart
  <2>1. ASSUME NEW p \in Procs PROVE proc'[p] \in Process
    <3>0. proc[p] \in Process OBVIOUS
    <3>1. proc'[p] \in {[proc[p] EXCEPT !.child = FALSE], NoProcess} BY <1>2 DEF Restart
    <3> QED BY <3>0, <3>1, ProcessEdits
  <2>2. (proc \in [Procs -> Process])' BY <1>2, <2>1 DEF Restart
  <2> QED
    BY <1>2, <2>2, LoadedVMs DEF Restart, Frame, Idle, PCs
<1>3. CASE Reboot
  BY <1>3, LoadedVMs DEF Reboot, Frame, Idle, PCs, Process, NoProcess
<1>4. CASE UNCHANGED vars
  BY <1>4 DEF vars
<1> QED
  BY <1>1, <1>2, <1>3, <1>4, StepTypeInv, CallsTypeInv DEF Next

(* The manager's state, and that of the host as it uses it, is well typed. *)
THEOREM TypeCorrect == Spec => []TypeOK
<1>1. Init => TypeInv BY InitTypeInv
<1>2. TypeInv /\ [Next]_vars => TypeInv' BY NextTypeInv
<1>3. TypeInv => TypeOK BY DEF TypeInv
<1> QED BY <1>1, <1>2, <1>3, PTL DEF Spec

----------------------------------------------------------------------------
(* Names                                                                   *)

(* A step of one goroutine leaves the frames of the others alone.          *)
LEMMA OtherFrames ==
  ASSUME TypeInv, NEW g \in Goroutines, Step(g) \/ Calls(g),
         NEW h \in Goroutines, h # g
  PROVE  frame'[h] = frame[h]
<1>1. \E f : frame' = [frame EXCEPT ![g] = f]
  <2>1. CASE CreateSave(g) BY <2>1 DEF CreateSave, Goto, Return
  <2>2. CASE CreateWrite(g) BY <2>2 DEF CreateWrite, Goto, Return
  <2>3. CASE CreateKernel(g) BY <2>3 DEF CreateKernel, Goto, Return
  <2>4. CASE CreateFails(g) BY <2>4 DEF CreateFails, Goto, Return
  <2>5. CASE StartRefused(g) BY <2>5 DEF StartRefused, Goto, Return
  <2>6. CASE StartLock(g) BY <2>6 DEF StartLock, Goto, Return
  <2>7. CASE StartOpen(g) BY <2>7 DEF StartOpen, Goto, Return
  <2>8. CASE StartFork(g) BY <2>8 DEF StartFork, Goto, Return
  <2>9. CASE StartFails(g) BY <2>9 DEF StartFails, Goto, Return
  <2>10. CASE StopGet(g) BY <2>10 DEF StopGet, Goto, Return
  <2>11. CASE StopRefused(g) BY <2>11 DEF StopRefused, Goto, Return
  <2>12. CASE StopLock(g) BY <2>12 DEF StopLock, Goto, Return
  <2>13. CASE StopSignal(g) BY <2>13 DEF StopSignal, Goto, Return
  <2>14. CASE StopSignalRefused(g) BY <2>14 DEF StopSignalRefused, Goto, Return
  <2>15. CASE StopWait(g) BY <2>15 DEF StopWait, Goto, Return
  <2>16. CASE DestroyLock(g) BY <2>16 DEF DestroyLock, Goto, Return
  <2>17. CASE DestroyKernel(g) BY <2>17 DEF DestroyKernel, Goto, Return
  <2>18. CASE DestroyFile(g) BY <2>18 DEF DestroyFile, Goto, Return
  <2>19. CASE DestroyFileFails(g) BY <2>19 DEF DestroyFileFails, Goto, Return
  <2>20. CASE DestroyUnmap(g) BY <2>20 DEF DestroyUnmap, Goto, Return
  <2>21. CASE Query(g) BY <2>21 DEF Query, Goto, Return
  <2>22. CASE QuerySignalRefused(g) BY <2>22 DEF QuerySignalRefused, Goto, Return
  <2>23. CASE ShutdownScan(g) BY <2>23 DEF ShutdownScan, Goto, Return
  <2>24. CASE ShutdownReturn(g) BY <2>24 DEF ShutdownReturn, Goto, Return
  <2>50. CASE Calls(g)
    BY <2>50 DEF Calls, Call, CreateCall, StartCall, StopCall, DestroyCall,
                 QueryCall, ShutdownCall
  <2> QED BY <2>50, <2>1, <2>2, <2>3, <2>4, <2>5, <2>6, <2>7, <2>8, <2>9, <2>10, <2>11, <2>12, <2>13, <2>14, <2>15, <2>16, <2>17, <2>18, <2>19, <2>20, <2>21, <2>22, <2>23, <2>24 DEF Step
<1> QED BY <1>1 DEF TypeInv, TypeOK

(* The name of a struct changes only when it is allocated.                 *)
LEMMA NamesKept ==
  ASSUME TypeInv, NEW g \in Goroutines, Step(g), ~CreateKernel(g), NEW o \in Objs
  PROVE  heap'[o].name = heap[o].name
<1> USE DEF TypeInv, TypeOK, VMStruct
<1>1. CASE CreateSave(g) BY <1>1 DEF CreateSave
<1>2. CASE CreateWrite(g) BY <1>2 DEF CreateWrite
<1>3. CASE CreateFails(g) BY <1>3 DEF CreateFails
<1>4. CASE StartRefused(g) BY <1>4 DEF StartRefused
<1>5. CASE StartLock(g) BY <1>5 DEF StartLock
<1>6. CASE StartOpen(g) BY <1>6 DEF StartOpen
<1>7. CASE StartFork(g) BY <1>7 DEF StartFork
<1>8. CASE StartFails(g) BY <1>8 DEF StartFails
<1>9. CASE StopGet(g) BY <1>9 DEF StopGet
<1>10. CASE StopRefused(g) BY <1>10 DEF StopRefused
<1>11. CASE StopLock(g) BY <1>11 DEF StopLock
<1>12. CASE StopSignal(g) BY <1>12 DEF StopSignal
<1>13. CASE StopSignalRefused(g) BY <1>13 DEF StopSignalRefused
<1>14. CASE StopWait(g) BY <1>14 DEF StopWait
<1>15. CASE DestroyLock(g) BY <1>15 DEF DestroyLock
<1>16. CASE DestroyKernel(g) BY <1>16 DEF DestroyKernel
<1>17. CASE DestroyFile(g) BY <1>17 DEF DestroyFile
<1>18. CASE DestroyFileFails(g) BY <1>18 DEF DestroyFileFails
<1>19. CASE DestroyUnmap(g) BY <1>19 DEF DestroyUnmap
<1>20. CASE Query(g) BY <1>20 DEF Query
<1>21. CASE QuerySignalRefused(g) BY <1>21 DEF QuerySignalRefused
<1>22. CASE ShutdownScan(g) BY <1>22 DEF ShutdownScan
<1>23. CASE ShutdownReturn(g) BY <1>23 DEF ShutdownReturn
<1> QED BY <1>1, <1>2, <1>3, <1>4, <1>5, <1>6, <1>7, <1>8, <1>9, <1>10, <1>11, <1>12, <1>13, <1>14, <1>15, <1>16, <1>17, <1>18, <1>19, <1>20, <1>21, <1>22, <1>23 DEF Step

(* Registry, frames and structs agree on names.                            *)
NamesMatch ==
  /\ \A n \in Names : vms[n] # NoObj => heap[vms[n]].name = n
  /\ \A g \in Goroutines :
       /\ frame[g].vm # NoObj => heap[frame[g].vm].name = frame[g].name
       /\ frame[g].target # NoObj => heap[frame[g].target].name = frame[g].name

(* What a step of g does to the structs its frame refers to.               *)
LEMMA OwnFrame ==
  ASSUME TypeInv, NEW g \in Goroutines, Step(g), ~StopGet(g)
  PROVE  \/ frame'[g] = Idle
         \/ /\ frame'[g].vm \in {frame[g].vm, NoObj}
            /\ frame'[g].target \in {frame[g].target, NoObj}
            /\ frame'[g].name = frame[g].name
         \/ frame'[g].vm = NoObj /\ frame'[g].target = NoObj
<1> USE DEF TypeInv, TypeOK, Frame, Goto, Return
<1>1. CASE CreateSave(g) BY <1>1 DEF CreateSave
<1>2. CASE CreateWrite(g) BY <1>2 DEF CreateWrite
<1>3. CASE CreateKernel(g) BY <1>3 DEF CreateKernel
<1>4. CASE CreateFails(g) BY <1>4 DEF CreateFails
<1>5. CASE StartRefused(g) BY <1>5 DEF StartRefused
<1>6. CASE StartLock(g) BY <1>6 DEF StartLock
<1>7. CASE StartOpen(g) BY <1>7 DEF StartOpen
<1>8. CASE StartFork(g) BY <1>8 DEF StartFork
<1>9. CASE StartFails(g) BY <1>9 DEF StartFails
<1>10. CASE StopRefused(g) BY <1>10 DEF StopRefused
<1>11. CASE StopLock(g) BY <1>11 DEF StopLock
<1>12. CASE StopSignal(g) BY <1>12 DEF StopSignal
<1>13. CASE StopSignalRefused(g) BY <1>13 DEF StopSignalRefused
<1>14. CASE StopWait(g) BY <1>14 DEF StopWait
<1>15. CASE DestroyLock(g) BY <1>15 DEF DestroyLock
<1>16. CASE DestroyKernel(g) BY <1>16 DEF DestroyKernel
<1>17. CASE DestroyFile(g) BY <1>17 DEF DestroyFile
<1>18. CASE DestroyFileFails(g) BY <1>18 DEF DestroyFileFails
<1>19. CASE DestroyUnmap(g) BY <1>19 DEF DestroyUnmap
<1>20. CASE Query(g) BY <1>20 DEF Query
<1>21. CASE QuerySignalRefused(g) BY <1>21 DEF QuerySignalRefused
<1>22. CASE ShutdownScan(g) BY <1>22 DEF ShutdownScan, At, FrameOK, InStop
<1>23. CASE ShutdownReturn(g) BY <1>23 DEF ShutdownReturn
<1> QED BY <1>1, <1>2, <1>3, <1>4, <1>5, <1>6, <1>7, <1>8, <1>9, <1>10, <1>11, <1>12, <1>13, <1>14, <1>15, <1>16, <1>17, <1>18, <1>19, <1>20, <1>21, <1>22, <1>23 DEF Step

(* Only Create registers a struct.                                         *)
LEMMA RegistryShrinks ==
  ASSUME TypeInv, NEW g \in Goroutines, Step(g), ~CreateKernel(g),
         NEW n \in Names, vms'[n] # NoObj
  PROVE  vms'[n] = vms[n]
<1> USE DEF TypeInv, TypeOK
<1>1. CASE CreateSave(g) BY <1>1 DEF CreateSave
<1>2. CASE CreateWrite(g) BY <1>2 DEF CreateWrite
<1>3. CASE CreateFails(g) BY <1>3 DEF CreateFails
<1>4. CASE StartRefused(g) BY <1>4 DEF StartRefused
<1>5. CASE StartLock(g) BY <1>5 DEF StartLock
<1>6. CASE StartOpen(g) BY <1>6 DEF StartOpen
<1>7. CASE StartFork(g) BY <1>7 DEF StartFork
<1>8. CASE StartFails(g) BY <1>8 DEF StartFails
<1>9. CASE StopGet(g) BY <1>9 DEF StopGet
<1>10. CASE StopRefused(g) BY <1>10 DEF StopRefused
<1>11. CASE StopLock(g) BY <1>11 DEF StopLock
<1>12. CASE StopSignal(g) BY <1>12 DEF StopSignal
<1>13. CASE StopSignalRefused(g) BY <1>13 DEF StopSignalRefused
<1>14. CASE StopWait(g) BY <1>14 DEF StopWait
<1>15. CASE DestroyLock(g) BY <1>15 DEF DestroyLock
<1>16. CASE DestroyKernel(g) BY <1>16 DEF DestroyKernel
<1>17. CASE DestroyFile(g) BY <1>17 DEF DestroyFile
<1>18. CASE DestroyFileFails(g) BY <1>18 DEF DestroyFileFails
<1>19. CASE DestroyUnmap(g) BY <1>19 DEF DestroyUnmap
<1>20. CASE Query(g) BY <1>20 DEF Query
<1>21. CASE QuerySignalRefused(g) BY <1>21 DEF QuerySignalRefused
<1>22. CASE ShutdownScan(g) BY <1>22 DEF ShutdownScan
<1>23. CASE ShutdownReturn(g) BY <1>23 DEF ShutdownReturn
<1> QED BY <1>1, <1>2, <1>3, <1>4, <1>5, <1>6, <1>7, <1>8, <1>9, <1>10, <1>11, <1>12, <1>13, <1>14, <1>15, <1>16, <1>17, <1>18, <1>19, <1>20, <1>21, <1>22, <1>23 DEF Step

(* No operation mistakes one VM for another.                               *)
LEMMA StepNames ==
  ASSUME TypeInv, NamesMatch, NEW g \in Goroutines, Step(g) PROVE NamesMatch'
<1> USE VMManagerAssumption DEF TypeInv, TypeOK
<1>1. CASE CreateKernel(g)
  <2>1. PICK o \in Objs :
          /\ Unreachable(o)
          /\ heap' = [heap EXCEPT ![o] = NewVM(frame[g].name)]
          /\ vms' = [vms EXCEPT ![frame[g].name] = o]
    BY <1>1 DEF CreateKernel
  <2>2. /\ frame[g].name \in Names
        /\ frame'[g] = Idle
    BY <1>1 DEF CreateKernel, FrameOK, HasName, At, PCs, Return
  <2>3. ASSUME NEW n \in Names, vms'[n] # NoObj PROVE heap'[vms'[n]].name = n
    BY <2>1, <2>2, <2>3 DEF NamesMatch, Unreachable, NewVM, Unused
  <2>4. ASSUME NEW h \in Goroutines
        PROVE  /\ frame'[h].vm # NoObj => heap'[frame'[h].vm].name = frame'[h].name
               /\ frame'[h].target # NoObj
                    => heap'[frame'[h].target].name = frame'[h].name
    <3>1. CASE h = g BY <2>2, <3>1 DEF Idle
    <3>2. CASE h # g
      <4>1. frame'[h] = frame[h] BY <3>2, OtherFrames
      <4>2. /\ frame[h].vm # o /\ frame[h].target # o
            /\ frame[h].vm \in Objs \cup {NoObj}
            /\ frame[h].target \in Objs \cup {NoObj}
        BY <2>1 DEF Unreachable, Frame
      <4> QED BY <2>1, <4>1, <4>2 DEF NamesMatch
    <3> QED BY <3>1, <3>2
  <2> QED BY <2>3, <2>4 DEF NamesMatch
<1>2. CASE ~CreateKernel(g)
  <2>1. \A o \in Objs : heap'[o].name = heap[o].name BY <1>2, NamesKept
  <2>2. ASSUME NEW n \in Names, vms'[n] # NoObj PROVE vms'[n] = vms[n]
    BY <1>2, <2>2, RegistryShrinks
  <2>3. ASSUME NEW n \in Names, vms'[n] # NoObj PROVE heap'[vms'[n]].name = n
    BY <2>1, <2>2, <2>3 DEF NamesMatch
  <2>4. ASSUME NEW h \in Goroutines
        PROVE  /\ frame'[h].vm # NoObj => heap'[frame'[h].vm].name = frame'[h].name
               /\ frame'[h].target # NoObj
                    => heap'[frame'[h].target].name = frame'[h].name
    <3>0. /\ frame[h].vm \in Objs \cup {NoObj}
          /\ frame[h].target \in Objs \cup {NoObj}
      BY DEF Frame
    <3>1. CASE h # g
      <4>1. frame'[h] = frame[h] BY <3>1, OtherFrames
      <4> QED BY <2>1, <3>0, <4>1 DEF NamesMatch
    <3>2. CASE h = g /\ StopGet(g)
      <4>1. /\ frame'[g].vm = frame[g].vm
            /\ frame'[g].name = frame[g].name
            /\ frame'[g].target = vms[frame[g].name]
            /\ frame[g].name \in Names
            /\ vms[frame[g].name] \in Objs
        BY <3>2 DEF StopGet, At, FrameOK, HasName, PCs, Frame
      <4> QED BY <2>1, <3>0, <3>2, <4>1 DEF NamesMatch
    <3>3. CASE h = g /\ ~StopGet(g)
      BY <2>1, <3>0, <3>3, OwnFrame DEF NamesMatch, Idle
    <3> QED BY <3>1, <3>2, <3>3
  <2> QED BY <2>3, <2>4 DEF NamesMatch
<1> QED BY <1>1, <1>2

(* Nor does a call, a crash or a reboot.                                   *)
LEMMA NextNames == TypeInv /\ NamesMatch /\ [Next]_vars => NamesMatch'
<1> SUFFICES ASSUME TypeInv, NamesMatch, [Next]_vars PROVE NamesMatch'
  OBVIOUS
<1> USE VMManagerAssumption DEF TypeInv
<1>1. ASSUME NEW g \in Goroutines, Calls(g) PROVE NamesMatch'
  <2>1. UNCHANGED <<vms, heap>>
    BY <1>1 DEF Calls, Call, CreateCall, StartCall, StopCall, DestroyCall,
                QueryCall, ShutdownCall
  <2>2. \/ \E n \in Names :
             /\ frame'[g].name = n
             /\ frame'[g].vm \in {vms[n], NoObj}
             /\ frame'[g].target \in {vms[n], NoObj}
        \/ frame'[g].vm = NoObj /\ frame'[g].target = NoObj
    <3>1. CASE ShutdownCall(g)
      BY <3>1 DEF ShutdownCall, TypeOK, Idle
    <3>2. ASSUME NEW n \in Names, CreateCall(g, n)
          PROVE  frame'[g].vm = NoObj /\ frame'[g].target = NoObj
      BY <3>2 DEF CreateCall, TypeOK, Idle
    <3>3. ASSUME NEW n \in Names, NEW l, Call(g, n, l) \/ StopCall(g, n)
          PROVE  /\ frame'[g].name = n
                 /\ frame'[g].vm \in {vms[n], NoObj}
                 /\ frame'[g].target \in {vms[n], NoObj}
      <4>1. CASE Call(g, n, l) BY <4>1 DEF Call, TypeOK, Idle
      <4>2. CASE StopCall(g, n) BY <4>2 DEF StopCall, TypeOK, Idle
      <4> QED BY <3>3, <4>1, <4>2
    <3> QED
      BY <1>1, <3>1, <3>2, <3>3 DEF Calls, StartCall, DestroyCall, QueryCall
  <2>3. \A h \in Goroutines : h # g => frame'[h] = frame[h] BY <1>1, OtherFrames
  <2> QED BY <2>1, <2>2, <2>3 DEF NamesMatch
<1>2. ASSUME NEW p \in Procs, ProcExit(p) PROVE NamesMatch'
  BY <1>2 DEF ProcExit, NamesMatch
<1>3. CASE Restart \/ Reboot
  BY <1>3, LoadedVMs DEF Restart, Reboot, NamesMatch, Idle
<1>4. CASE UNCHANGED vars
  BY <1>4 DEF vars, NamesMatch
<1> QED
  BY <1>1, <1>2, <1>3, <1>4, StepNames DEF Next

----------------------------------------------------------------------------
(* Locks                                                                   *)

(* A stopping goroutine has two structs when Destroy called Stop.          *)
TargetApart ==
  \A g \in Goroutines :
    frame[g].pc \in {"stop_signal", "stop_wait"} => frame[g].target # frame[g].vm

LockInv == TypeInv /\ NamesMatch /\ TransientUnderLock /\ TargetApart

(* A step of g is none of o's lock and state's business ...                *)
Untouched(g, o) ==
  /\ heap'[o].mu = heap[o].mu
  /\ heap'[o].state = heap[o].state
  /\ Starting(g, o)' <=> Starting(g, o)
  /\ Stopping(g, o)' <=> Stopping(g, o)
  /\ Destroying(g, o)' <=> Destroying(g, o)

(* ... or is made by the only goroutine that may change them.              *)
Touched(g, o) ==
  /\ heap[o].mu \in {Free, g}
  /\ heap'[o].mu \in {Free, g}
  /\ heap'[o].mu = g <=> Starting(g, o)' \/ Stopping(g, o)' \/ Destroying(g, o)'
  /\ heap'[o].state = "starting" <=> Starting(g, o)'
  /\ heap'[o].state = "stopping" <=> Stopping(g, o)'

(* There is no third case: what no other goroutine may break holds again.  *)
LEMMA TouchedOrNot ==
  ASSUME LockInv, NEW g \in Goroutines, Step(g), NEW o \in Objs
  PROVE  Untouched(g, o) \/ Touched(g, o)
<1> USE VMManagerAssumption DEF At, Goto, Return
<1>0. /\ heap \in [Objs -> VMStruct]
      /\ frame \in [Goroutines -> Frame]
      /\ heap[o].mu \in Goroutines \cup {Free}
      /\ FrameOK
      /\ \A h \in Goroutines :
           heap[o].mu = h <=> Starting(h, o) \/ Stopping(h, o) \/ Destroying(h, o)
      /\ heap[o].state = "starting" <=> \E h \in Goroutines : Starting(h, o)
      /\ heap[o].state = "stopping" <=> \E h \in Goroutines : Stopping(h, o)
      /\ frame[g].pc \in {"stop_signal", "stop_wait"} => frame[g].target # frame[g].vm
  BY DEF LockInv, TypeInv, TypeOK, TransientUnderLock, TargetApart, VMStruct
<1>1. CASE CreateSave(g)
  BY <1>0, <1>1 DEF CreateSave, Untouched, Touched, Starting, Stopping, Destroying,
     FrameOK, HasVM, InStop, HasName, Frame, Idle, VMStruct
<1>2. CASE CreateWrite(g)
  BY <1>0, <1>2 DEF CreateWrite, Untouched, Touched, Starting, Stopping, Destroying,
     FrameOK, HasVM, InStop, HasName, Frame, Idle, VMStruct
<1>3. CASE CreateKernel(g)
  <2>1. PICK x \in Objs :
          Unreachable(x) /\ heap' = [heap EXCEPT ![x] = NewVM(frame[g].name)]
    BY <1>3 DEF CreateKernel
  <2>2. frame'[g] = Idle /\ At(g, "create_kernel") BY <1>0, <1>3 DEF CreateKernel
  <2>3. CASE o = x
    <3>1. heap[o].mu = Free
      BY <1>0, <2>1, <2>3 DEF Unreachable, Starting, Stopping, Destroying
    <3>2. heap'[o] = NewVM(frame[g].name) BY <1>0, <2>1, <2>3
    <3> QED
      BY <2>2, <3>1, <3>2 DEF Touched, Starting, Stopping, Destroying, NewVM, Unused, Idle
  <2>4. CASE o # x
    BY <1>0, <2>1, <2>2, <2>4 DEF Untouched, Starting, Stopping, Destroying, Idle
  <2> QED BY <2>3, <2>4
<1>4. CASE CreateFails(g)
  BY <1>0, <1>4 DEF CreateFails, Untouched, Touched, Starting, Stopping, Destroying,
     FrameOK, HasVM, InStop, HasName, Frame, Idle, VMStruct
<1>5. CASE StartRefused(g)
  BY <1>0, <1>5 DEF StartRefused, Untouched, Touched, Starting, Stopping, Destroying,
     FrameOK, HasVM, InStop, HasName, Frame, Idle, VMStruct
<1>6. CASE StartLock(g)
  BY <1>0, <1>6 DEF StartLock, Untouched, Touched, Starting, Stopping, Destroying,
     FrameOK, HasVM, InStop, HasName, Frame, Idle, VMStruct
<1>7. CASE StartOpen(g)
  BY <1>0, <1>7 DEF StartOpen, Untouched, Touched, Starting, Stopping, Destroying,
     FrameOK, HasVM, InStop, HasName, Frame, Idle, VMStruct
<1>8. CASE StartFork(g)
  <2>1. PICK p \in Procs :
          heap' = [heap EXCEPT ![frame[g].vm].process = p,
                               ![frame[g].vm].state = "running",
                               ![frame[g].vm].mu = Free]
    BY <1>8 DEF StartFork
  <2>2. frame[g].pc = "start_fork" /\ frame'[g] = Idle
    BY <1>0, <1>8 DEF StartFork
  <2>3. CASE o = frame[g].vm
    <3>1. heap'[o] = [heap[o] EXCEPT !.process = p, !.state = "running", !.mu = Free]
      BY <1>0, <2>1, <2>3
    <3>2. heap'[o].state = "running" /\ heap'[o].mu = Free
      BY <1>0, <3>1 DEF VMStruct
    <3>3. heap[o].mu = g BY <1>0, <2>2, <2>3 DEF Starting
    <3> QED
      BY <2>2, <3>2, <3>3 DEF Touched, Starting, Stopping, Destroying, Idle
  <2>4. CASE o # frame[g].vm
    <3>1. heap'[o] = heap[o] BY <1>0, <2>1, <2>4
    <3>2. frame[g].target = NoObj BY <1>0, <2>2 DEF FrameOK, InStop
    <3> QED
      BY <2>2, <2>4, <3>1, <3>2 DEF Untouched, Starting, Stopping, Destroying, Idle
  <2> QED BY <2>3, <2>4
<1>9. CASE StartFails(g)
  BY <1>0, <1>9 DEF StartFails, Untouched, Touched, Starting, Stopping, Destroying,
     FrameOK, HasVM, InStop, HasName, Frame, Idle, VMStruct
<1>10. CASE StopGet(g)
  BY <1>0, <1>10 DEF StopGet, Untouched, Touched, Starting, Stopping, Destroying,
     FrameOK, HasVM, InStop, HasName, Frame, Idle, VMStruct
<1>11. CASE StopRefused(g)
  <2>1. /\ frame'[g] = Idle
        /\ frame[g].pc \in {"stop_get", "stop_lock"}
        /\ heap' = IF frame[g].vm # NoObj
                   THEN [heap EXCEPT ![frame[g].vm].mu = Free] ELSE heap
    BY <1>0, <1>11 DEF StopRefused, Nested
  <2>2. CASE o = frame[g].vm
    <3>1. heap'[o] = [heap[o] EXCEPT !.mu = Free] BY <1>0, <2>1, <2>2
    <3>2. heap[o].mu = g BY <1>0, <2>1, <2>2 DEF Destroying
    <3>3. \A h \in Goroutines : h # g =>
            ~Starting(h, o) /\ ~Stopping(h, o)
      BY <1>0, <3>2
    <3>4. heap[o].state \notin {"starting", "stopping"}
      BY <1>0, <2>1, <3>3 DEF Starting, Stopping
    <3> QED
      BY <1>0, <2>1, <3>1, <3>2, <3>4
      DEF Touched, Starting, Stopping, Destroying, Idle, VMStruct
  <2>3. CASE o # frame[g].vm
    BY <1>0, <2>1, <2>3 DEF Untouched, Starting, Stopping, Destroying, Idle
  <2> QED BY <2>2, <2>3
<1>12. CASE StopLock(g)
  BY <1>0, <1>12 DEF StopLock, Untouched, Touched, Starting, Stopping, Destroying,
     FrameOK, HasVM, InStop, HasName, Frame, Idle, VMStruct
<1>13. CASE StopSignal(g)
  BY <1>0, <1>13 DEF StopSignal, Untouched, Touched, Starting, Stopping, Destroying,
     FrameOK, HasVM, InStop, HasName, Frame, Idle, VMStruct
<1>14. CASE StopSignalRefused(g)
  <2>1. /\ frame'[g] = Idle
        /\ frame[g].pc = "stop_signal"
        /\ heap'[o] = IF o = frame[g].target
                       THEN [heap[o] EXCEPT !.state = "error", !.mu = Free]
                       ELSE IF o = frame[g].vm THEN [heap[o] EXCEPT !.mu = Free]
                       ELSE heap[o]
    BY <1>0, <1>14 DEF StopSignalRefused
  <2>2. CASE o = frame[g].target
    BY <1>0, <2>1, <2>2
    DEF Touched, Starting, Stopping, Destroying, Idle, VMStruct
  <2>3. CASE o # frame[g].target /\ o = frame[g].vm
    <3>1. heap[o].mu = g BY <1>0, <2>1, <2>3 DEF Destroying
    <3>2. \A h \in Goroutines : h # g =>
            ~Starting(h, o) /\ ~Stopping(h, o)
      BY <1>0, <3>1
    <3>3. heap[o].state \notin {"starting", "stopping"}
      BY <1>0, <2>1, <2>3, <3>2 DEF Starting, Stopping
    <3> QED
      BY <1>0, <2>1, <2>3, <3>1, <3>3
      DEF Touched, Starting, Stopping, Destroying, Idle, VMStruct
  <2>4. CASE o # frame[g].target /\ o # frame[g].vm
    BY <1>0, <2>1, <2>4 DEF Untouched, Starting, Stopping, Destroying, Idle
  <2> QED BY <2>2, <2>3, <2>4
<1>15. CASE StopWait(g)
  <2>1. /\ frame[g].pc = "stop_wait"
        /\ heap' = [heap EXCEPT ![frame[g].target].state = "stopped",
                                ![frame[g].target].process = NoProc,
                                ![frame[g].target].handle = FALSE,
                                ![frame[g].target].mu = Free]
        /\ \/ frame'[g] = Idle /\ frame[g].vm = NoObj
           \/ /\ frame[g].vm # NoObj
              /\ frame'[g].vm = frame[g].vm
              /\ frame'[g].target = NoObj
              /\ frame'[g].pc = "destroy_kernel"
    BY <1>0, <1>15 DEF StopWait, Nested, Frame
  <2>2. CASE o = frame[g].target
    <3>1. heap'[o] = [heap[o] EXCEPT !.state = "stopped", !.process = NoProc,
                                     !.handle = FALSE, !.mu = Free]
      BY <1>0, <2>1, <2>2
    <3>2. heap'[o].state = "stopped" /\ heap'[o].mu = Free
      BY <1>0, <3>1 DEF VMStruct
    <3>3. heap[o].mu = g BY <1>0, <2>1, <2>2 DEF Stopping
    <3>4. frame[g].vm # o BY <1>0, <2>1, <2>2
    <3>5. CASE frame'[g] = Idle
      BY <3>2, <3>3, <3>5 DEF Touched, Starting, Stopping, Destroying, Idle
    <3>6. CASE /\ frame'[g].vm = frame[g].vm
               /\ frame'[g].target = NoObj
               /\ frame'[g].pc = "destroy_kernel"
      BY <3>2, <3>3, <3>4, <3>6 DEF Touched, Starting, Stopping, Destroying
    <3> QED BY <2>1, <3>5, <3>6
  <2>3. CASE o # frame[g].target
    BY <1>0, <2>1, <2>3 DEF Untouched, Starting, Stopping, Destroying, Idle
  <2> QED BY <2>2, <2>3
<1>16. CASE DestroyLock(g)
  BY <1>0, <1>16 DEF DestroyLock, Untouched, Touched, Starting, Stopping, Destroying,
     FrameOK, HasVM, InStop, HasName, Frame, Idle, VMStruct
<1>17. CASE DestroyKernel(g)
  BY <1>0, <1>17 DEF DestroyKernel, Untouched, Touched, Starting, Stopping, Destroying,
     FrameOK, HasVM, InStop, HasName, Frame, Idle, VMStruct
<1>18. CASE DestroyFile(g)
  BY <1>0, <1>18 DEF DestroyFile, Untouched, Touched, Starting, Stopping, Destroying,
     FrameOK, HasVM, InStop, HasName, Frame, Idle, VMStruct
<1>19. CASE DestroyFileFails(g)
  BY <1>0, <1>19 DEF DestroyFileFails, Untouched, Touched, Starting, Stopping, Destroying,
     FrameOK, HasVM, InStop, HasName, Frame, Idle, VMStruct
<1>20. CASE DestroyUnmap(g)
  BY <1>0, <1>20 DEF DestroyUnmap, Untouched, Touched, Starting, Stopping, Destroying,
     FrameOK, HasVM, InStop, HasName, Frame, Idle, VMStruct
<1>21. CASE Query(g)
  BY <1>0, <1>21 DEF Query, Untouched, Touched, Starting, Stopping, Destroying,
     FrameOK, HasVM, InStop, HasName, Frame, Idle, VMStruct
<1>22. CASE QuerySignalRefused(g)
  BY <1>0, <1>22 DEF QuerySignalRefused, Untouched, Touched, Starting, Stopping, Destroying,
     FrameOK, HasVM, InStop, HasName, Frame, Idle, VMStruct
<1>23. CASE ShutdownScan(g)
  BY <1>0, <1>23 DEF ShutdownScan, Untouched, Touched, Starting, Stopping, Destroying,
     FrameOK, HasVM, InStop, HasName, Frame, Idle, VMStruct
<1>24. CASE ShutdownReturn(g)
  BY <1>0, <1>24 DEF ShutdownReturn, Untouched, Touched, Starting, Stopping, Destroying,
     FrameOK, HasVM, InStop, HasName, Frame, Idle, VMStruct
<1> QED BY <1>1, <1>2, <1>3, <1>4, <1>5, <1>6, <1>7, <1>8, <1>9, <1>10, <1>11, <1>12, <1>13, <1>14, <1>15, <1>16, <1>17, <1>18, <1>19, <1>20, <1>21, <1>22, <1>23, <1>24 DEF Step

(* A step of one goroutine keeps every struct's lock discipline.           *)
LEMMA StepLock ==
  ASSUME LockInv, NEW g \in Goroutines, Step(g) PROVE TransientUnderLock'
<1>1. ASSUME NEW h \in Goroutines, h # g, NEW o \in Objs
      PROVE  /\ Starting(h, o)' <=> Starting(h, o)
             /\ Stopping(h, o)' <=> Stopping(h, o)
             /\ Destroying(h, o)' <=> Destroying(h, o)
  BY <1>1, OtherFrames DEF LockInv, Starting, Stopping, Destroying
<1>2. ASSUME NEW o \in Objs
      PROVE  /\ \A h \in Goroutines :
                  heap'[o].mu = h <=>
                    Starting(h, o)' \/ Stopping(h, o)' \/ Destroying(h, o)'
             /\ heap'[o].state = "starting" <=> \E h \in Goroutines : Starting(h, o)'
             /\ heap'[o].state = "stopping" <=> \E h \in Goroutines : Stopping(h, o)'
  <2>0. /\ \A h \in Goroutines :
             heap[o].mu = h <=> Starting(h, o) \/ Stopping(h, o) \/ Destroying(h, o)
        /\ heap[o].state = "starting" <=> \E h \in Goroutines : Starting(h, o)
        /\ heap[o].state = "stopping" <=> \E h \in Goroutines : Stopping(h, o)
    BY DEF LockInv, TransientUnderLock
  <2>1. CASE Untouched(g, o)
    <3>1. ASSUME NEW h \in Goroutines
          PROVE  /\ Starting(h, o)' <=> Starting(h, o)
                 /\ Stopping(h, o)' <=> Stopping(h, o)
                 /\ Destroying(h, o)' <=> Destroying(h, o)
      <4>1. CASE h = g
        BY <2>1, <4>1 DEF Untouched, Starting, Stopping, Destroying
      <4>2. CASE h # g BY <1>1, <4>2
      <4> QED BY <4>1, <4>2
    <3>2. heap'[o].mu = heap[o].mu /\ heap'[o].state = heap[o].state
      BY <2>1 DEF Untouched
    <3> QED BY <2>0, <3>1, <3>2
  <2>2. CASE Touched(g, o)
    <3>1. \A h \in Goroutines : h # g =>
            ~Starting(h, o)' /\ ~Stopping(h, o)' /\ ~Destroying(h, o)'
      BY <1>1, <2>0, <2>2, VMManagerAssumption DEF Touched
    <3> QED BY <2>2, <3>1, VMManagerAssumption DEF Touched
  <2> QED BY <2>1, <2>2, TouchedOrNot
<1> QED BY <1>2 DEF TransientUnderLock

(* Stop never gets a lock its caller holds already.                        *)
LEMMA StepApart ==
  ASSUME LockInv, NEW g \in Goroutines, Step(g) PROVE TargetApart'
<1> SUFFICES ASSUME NEW h \in Goroutines,
                    frame'[h].pc \in {"stop_signal", "stop_wait"}
             PROVE  frame'[h].target # frame'[h].vm
  BY DEF TargetApart
<1> USE VMManagerAssumption DEF LockInv, TypeInv, TypeOK, Frame
<1>1. CASE h # g
  BY <1>1, OtherFrames DEF TargetApart
<1>2. CASE h = g /\ StopLock(g)
  <2>1. /\ frame[g].pc = "stop_lock"
        /\ frame[g].target \in Objs
        /\ heap[frame[g].target].mu = Free
        /\ frame'[g].vm = frame[g].vm
        /\ frame'[g].target = frame[g].target
    BY <1>2 DEF StopLock, At, Goto, FrameOK, InStop
  <2>2. frame[g].vm = frame[g].target => heap[frame[g].target].mu = g
    BY <2>1 DEF TransientUnderLock, Destroying
  <2> QED BY <1>2, <2>1, <2>2
<1>3. CASE h = g /\ StopSignal(g)
  BY <1>3 DEF StopSignal, At, Goto, TargetApart
<1>4. CASE h = g /\ ~StopLock(g) /\ ~StopSignal(g)
  <2>1. CASE CreateSave(g) BY <1>4, <2>1 DEF CreateSave, Goto, Return, Idle
  <2>2. CASE CreateWrite(g) BY <1>4, <2>2 DEF CreateWrite, Goto, Return, Idle
  <2>3. CASE CreateKernel(g) BY <1>4, <2>3 DEF CreateKernel, Goto, Return, Idle
  <2>4. CASE CreateFails(g) BY <1>4, <2>4 DEF CreateFails, Goto, Return, Idle
  <2>5. CASE StartRefused(g) BY <1>4, <2>5 DEF StartRefused, Goto, Return, Idle
  <2>6. CASE StartLock(g) BY <1>4, <2>6 DEF StartLock, Goto, Return, Idle
  <2>7. CASE StartOpen(g) BY <1>4, <2>7 DEF StartOpen, Goto, Return, Idle
  <2>8. CASE StartFork(g) BY <1>4, <2>8 DEF StartFork, Goto, Return, Idle
  <2>9. CASE StartFails(g) BY <1>4, <2>9 DEF StartFails, Goto, Return, Idle
  <2>10. CASE StopGet(g) BY <1>4, <2>10 DEF StopGet, Goto, Return, Idle
  <2>11. CASE StopRefused(g) BY <1>4, <2>11 DEF StopRefused, Goto, Return, Idle
  <2>12. CASE StopSignalRefused(g) BY <1>4, <2>12 DEF StopSignalRefused, Goto, Return, Idle
  <2>13. CASE StopWait(g) BY <1>4, <2>13 DEF StopWait, Goto, Return, Idle
  <2>14. CASE DestroyLock(g) BY <1>4, <2>14 DEF DestroyLock, Goto, Return, Idle
  <2>15. CASE DestroyKernel(g) BY <1>4, <2>15 DEF DestroyKernel, Goto, Return, Idle
  <2>16. CASE DestroyFile(g) BY <1>4, <2>16 DEF DestroyFile, Goto, Return, Idle
  <2>17. CASE DestroyFileFails(g) BY <1>4, <2>17 DEF DestroyFileFails, Goto, Return, Idle
  <2>18. CASE DestroyUnmap(g) BY <1>4, <2>18 DEF DestroyUnmap, Goto, Return, Idle
  <2>19. CASE Query(g) BY <1>4, <2>19 DEF Query, Goto, Return, Idle
  <2>20. CASE QuerySignalRefused(g) BY <1>4, <2>20 DEF QuerySignalRefused, Goto, Return, Idle
  <2>21. CASE ShutdownScan(g)
    BY <1>4, <2>21 DEF ShutdownScan, At
  <2>22. CASE ShutdownReturn(g) BY <1>4, <2>22 DEF ShutdownReturn, Goto, Return, Idle
  <2> QED BY <1>4, <2>1, <2>2, <2>3, <2>4, <2>5, <2>6, <2>7, <2>8, <2>9, <2>10, <2>11, <2>12, <2>13, <2>14, <2>15, <2>16, <2>17, <2>18, <2>19, <2>20, <2>21, <2>22 DEF Step
<1> QED BY <1>1, <1>2, <1>3, <1>4

(* What a call begins with; a Stop that is called has only its target.     *)
LEMMA CallOpens ==
  ASSUME TypeInv, NEW g \in Goroutines, Calls(g)
  PROVE  /\ frame[g].pc = "idle"
         /\ frame'[g].pc \in {"create_save", "start_lock", "stop_lock", "destroy_lock",
                             "query_lock", "shutdown_scan"}
         /\ frame'[g].pc = "stop_lock" => frame'[g].vm = NoObj
<1> USE DEF TypeInv, TypeOK, Idle, At
<1>1. CASE ShutdownCall(g) BY <1>1 DEF ShutdownCall
<1>2. ASSUME NEW n \in Names, CreateCall(g, n)
      PROVE  At(g, "idle") /\ frame'[g].pc = "create_save"
  BY <1>2 DEF CreateCall
<1>3. ASSUME NEW n \in Names, NEW l, Call(g, n, l)
      PROVE  At(g, "idle") /\ frame'[g].pc = l
  BY <1>3 DEF Call
<1>4. ASSUME NEW n \in Names, StopCall(g, n)
      PROVE  /\ At(g, "idle")
             /\ frame'[g].pc = "stop_lock"
             /\ frame'[g].vm = NoObj
  BY <1>4 DEF StopCall
<1> QED
  BY <1>1, <1>2, <1>3, <1>4 DEF Calls, StartCall, DestroyCall, QueryCall

(* LockInv is inductive.                                                   *)
LEMMA NextLockInv == LockInv /\ [Next]_vars => LockInv'
<1> SUFFICES ASSUME LockInv, [Next]_vars PROVE LockInv'
  OBVIOUS
<1> USE VMManagerAssumption
<1>0. TypeInv' /\ NamesMatch' BY NextTypeInv, NextNames DEF LockInv
<1>1. ASSUME NEW g \in Goroutines, Calls(g)
      PROVE  TransientUnderLock' /\ TargetApart'
  <2>1. UNCHANGED heap
    BY <1>1 DEF Calls, Call, CreateCall, StartCall, StopCall, DestroyCall,
                QueryCall, ShutdownCall
  <2>2. /\ frame[g].pc = "idle"
        /\ frame'[g].pc \in {"create_save", "start_lock", "stop_lock", "destroy_lock",
                            "query_lock", "shutdown_scan"}
        /\ frame'[g].pc = "stop_lock" => frame'[g].vm = NoObj
    BY <1>1, CallOpens DEF LockInv
  <2>3. \A h \in Goroutines : h # g => frame'[h] = frame[h]
    BY <1>1, OtherFrames DEF LockInv
  <2>4. ASSUME NEW h \in Goroutines, NEW o \in Objs
        PROVE  /\ Starting(h, o)' <=> Starting(h, o)
               /\ Stopping(h, o)' <=> Stopping(h, o)
               /\ Destroying(h, o)' <=> Destroying(h, o)
    BY <2>2, <2>3 DEF Starting, Stopping, Destroying
  <2>5. TransientUnderLock' BY <2>1, <2>4 DEF LockInv, TransientUnderLock
  <2>6. TargetApart' BY <2>2, <2>3 DEF LockInv, TargetApart
  <2> QED BY <2>5, <2>6
<1>2. ASSUME NEW p \in Procs, ProcExit(p)
      PROVE  TransientUnderLock' /\ TargetApart'
  BY <1>2 DEF ProcExit, LockInv, TransientUnderLock, TargetApart, Starting, Stopping,
              Destroying
<1>3. ASSUME Restart \/ Reboot
      PROVE  TransientUnderLock' /\ TargetApart'
  <2>1. \A h \in Goroutines : frame'[h].pc = "idle"
    BY <1>3 DEF Restart, Reboot, Idle
  <2>2. \A o \in Objs : heap'[o].mu = Free /\ heap'[o].state \in {"none", "defined"}
    BY <1>3, LoadedVMs DEF Restart, Reboot, LockInv
  <2>3. \A h \in Goroutines, o \in Objs :
          ~Starting(h, o)' /\ ~Stopping(h, o)' /\ ~Destroying(h, o)'
    BY <2>1 DEF Starting, Stopping, Destroying
  <2>4. TransientUnderLock' BY <2>2, <2>3 DEF TransientUnderLock
  <2>5. TargetApart' BY <2>1 DEF TargetApart
  <2> QED BY <2>4, <2>5
<1>4. ASSUME UNCHANGED vars
      PROVE  TransientUnderLock' /\ TargetApart'
  <2>1. UNCHANGED <<heap, frame>> BY <1>4 DEF vars
  <2>2. TransientUnderLock'
    BY <2>1 DEF LockInv, TransientUnderLock, Starting, Stopping, Destroying
  <2>3. TargetApart' BY <2>1 DEF LockInv, TargetApart
  <2> QED BY <2>2, <2>3
<1>5. ASSUME NEW g \in Goroutines, Step(g)
      PROVE  TransientUnderLock' /\ TargetApart'
  BY <1>5, StepLock, StepApart
<1>6. TransientUnderLock' /\ TargetApart'
  BY <1>1, <1>2, <1>3, <1>4, <1>5 DEF Next
<1> QED BY <1>0, <1>6 DEF LockInv

(* It holds of a new server.                                               *)
LEMMA InitLockInv == Init => LockInv
<1> SUFFICES ASSUME Init PROVE LockInv
  OBVIOUS
<1>1. TypeInv BY InitTypeInv
<1>2. NamesMatch BY DEF Init, NamesMatch, Idle
<1>3. TransientUnderLock /\ TargetApart
  BY VMManagerAssumption
  DEF Init, TransientUnderLock, TargetApart, Starting, Stopping, Destroying, Idle,
      Unused
<1> QED BY <1>1, <1>2, <1>3 DEF LockInv

(* vm.mu is held by exactly the operation that is past its Lock(), and     *)
(* nobody else finds a VM half started or half stopped, however many       *)
(* callers and VMs there are and whatever fails.                           *)
THEOREM LocksGuardTransients == Spec => []TransientUnderLock
<1>1. Init => LockInv BY InitLockInv
<1>2. LockInv /\ [Next]_vars => LockInv' BY NextLockInv
<1>3. LockInv => TransientUnderLock BY DEF LockInv
<1> QED BY <1>1, <1>2, <1>3, PTL DEF Spec

----------------------------------------------------------------------------
(* Lock cycles                                                             *)

(* Who can hold m.mu for writing: Create, Shutdown, and the Stop that      *)
(* Shutdown calls.                                                         *)
HoldsMu(g) ==
  \/ frame[g].pc \in {"create_save", "create_write", "create_kernel", "shutdown_scan"}
  \/ At(g, "stop_get") /\ ~Nested(g)

MuOwner == \A g \in Goroutines : mu = g => HoldsMu(g)

(* A Destroy of o waits, in Stop, for another struct p.                    *)
Elsewhere(g, o, p) ==
  /\ At(g, "stop_lock")
  /\ frame[g].vm = o
  /\ frame[g].target = p
  /\ o # p

(* It found p under the name of o, so that o has left the registry.        *)
Retired ==
  \A g \in Goroutines, o, p \in Objs : Elsewhere(g, o, p) =>
    \A n \in Names : vms[n] # o

(* Registered structs lead nowhere, and those that lead somewhere were     *)
(* registered before the one they lead to: no set of structs leads into    *)
(* itself.                                                                 *)
Acyclic ==
  \A S \in SUBSET Objs : S # {} =>
    \E o \in S : \A p \in S, g \in Goroutines : ~Elsewhere(g, o, p)

CycleInv == LockInv /\ MuOwner /\ Retired /\ Acyclic

(* Only its m.Get brings an operation that is under way to Stop's lock.    *)
LEMMA OnlyGetReachesTheLock ==
  ASSUME TypeInv, NEW g \in Goroutines, Step(g), ~StopGet(g)
  PROVE  frame'[g].pc # "stop_lock"
<1> USE DEF TypeInv, TypeOK, Frame, Idle, Goto, Return
<1>1. CASE CreateSave(g) BY <1>1 DEF CreateSave
<1>2. CASE CreateWrite(g) BY <1>2 DEF CreateWrite
<1>3. CASE CreateKernel(g) BY <1>3 DEF CreateKernel
<1>4. CASE CreateFails(g) BY <1>4 DEF CreateFails
<1>5. CASE StartRefused(g) BY <1>5 DEF StartRefused
<1>6. CASE StartLock(g) BY <1>6 DEF StartLock
<1>7. CASE StartOpen(g) BY <1>7 DEF StartOpen
<1>8. CASE StartFork(g) BY <1>8 DEF StartFork
<1>9. CASE StartFails(g) BY <1>9 DEF StartFails
<1>10. CASE StopRefused(g) BY <1>10 DEF StopRefused
<1>11. CASE StopLock(g) BY <1>11 DEF StopLock
<1>12. CASE StopSignal(g) BY <1>12 DEF StopSignal
<1>13. CASE StopSignalRefused(g) BY <1>13 DEF StopSignalRefused
<1>14. CASE StopWait(g) BY <1>14 DEF StopWait
<1>15. CASE DestroyLock(g) BY <1>15 DEF DestroyLock
<1>16. CASE DestroyKernel(g) BY <1>16 DEF DestroyKernel
<1>17. CASE DestroyFile(g) BY <1>17 DEF DestroyFile
<1>18. CASE DestroyFileFails(g) BY <1>18 DEF DestroyFileFails
<1>19. CASE DestroyUnmap(g) BY <1>19 DEF DestroyUnmap
<1>20. CASE Query(g) BY <1>20 DEF Query
<1>21. CASE QuerySignalRefused(g) BY <1>21 DEF QuerySignalRefused
<1>22. CASE ShutdownScan(g) BY <1>22 DEF ShutdownScan, At
<1>23. CASE ShutdownReturn(g) BY <1>23 DEF ShutdownReturn
<1> QED BY <1>1, <1>2, <1>3, <1>4, <1>5, <1>6, <1>7, <1>8, <1>9, <1>10, <1>11, <1>12, <1>13, <1>14, <1>15, <1>16, <1>17, <1>18, <1>19, <1>20, <1>21, <1>22, <1>23 DEF Step

(* m.mu is only let go, and by an operation that ends.                     *)
LEMMA StepMu ==
  ASSUME TypeInv, MuOwner, NEW g \in Goroutines, Step(g)
  PROVE  mu' \in {mu, Free} /\ (mu' = g => HoldsMu(g)')
<1> USE VMManagerAssumption
    DEF TypeInv, TypeOK, Frame, Idle, At, Goto, Return, MuOwner, HoldsMu, Nested,
        FrameOK
<1>1. CASE CreateSave(g) BY <1>1 DEF CreateSave
<1>2. CASE CreateWrite(g) BY <1>2 DEF CreateWrite
<1>3. CASE CreateKernel(g) BY <1>3 DEF CreateKernel
<1>4. CASE CreateFails(g) BY <1>4 DEF CreateFails
<1>5. CASE StartRefused(g) BY <1>5 DEF StartRefused
<1>6. CASE StartLock(g) BY <1>6 DEF StartLock
<1>7. CASE StartOpen(g) BY <1>7 DEF StartOpen
<1>8. CASE StartFork(g) BY <1>8 DEF StartFork
<1>9. CASE StartFails(g) BY <1>9 DEF StartFails
<1>10. CASE StopGet(g) BY <1>10 DEF StopGet
<1>11. CASE StopRefused(g) BY <1>11 DEF StopRefused
<1>12. CASE StopLock(g) BY <1>12 DEF StopLock
<1>13. CASE StopSignal(g) BY <1>13 DEF StopSignal
<1>14. CASE StopSignalRefused(g) BY <1>14 DEF StopSignalRefused
<1>15. CASE StopWait(g) BY <1>15 DEF StopWait
<1>16. CASE DestroyLock(g) BY <1>16 DEF DestroyLock
<1>17. CASE DestroyKernel(g) BY <1>17 DEF DestroyKernel
<1>18. CASE DestroyFile(g) BY <1>18 DEF DestroyFile
<1>19. CASE DestroyFileFails(g) BY <1>19 DEF DestroyFileFails
<1>20. CASE DestroyUnmap(g) BY <1>20 DEF DestroyUnmap
<1>21. CASE Query(g) BY <1>21 DEF Query
<1>22. CASE QuerySignalRefused(g) BY <1>22 DEF QuerySignalRefused
<1>23. CASE ShutdownScan(g) BY <1>23 DEF ShutdownScan
<1>24. CASE ShutdownReturn(g) BY <1>24 DEF ShutdownReturn
<1> QED BY <1>1, <1>2, <1>3, <1>4, <1>5, <1>6, <1>7, <1>8, <1>9, <1>10, <1>11, <1>12, <1>13, <1>14, <1>15, <1>16, <1>17, <1>18, <1>19, <1>20, <1>21, <1>22, <1>23, <1>24 DEF Step

(* Who holds it is still in Create or Shutdown.                            *)
LEMMA StepMuOwner ==
  ASSUME TypeInv, MuOwner, NEW g \in Goroutines, Step(g) PROVE MuOwner'
<1> SUFFICES ASSUME NEW h \in Goroutines, mu' = h PROVE HoldsMu(h)'
  BY DEF MuOwner
<1>1. CASE h = g BY <1>1, StepMu
<1>2. CASE h # g
  <2>1. frame'[h] = frame[h] BY <1>2, OtherFrames
  <2>2. mu = h BY StepMu, VMManagerAssumption
  <2>3. HoldsMu(h) BY <2>2 DEF MuOwner
  <2> QED BY <2>1, <2>3 DEF HoldsMu, At, Nested
<1> QED BY <1>1, <1>2

(* A Destroy that waits for another struct than its own waited for it      *)
(* already, or has just found it registered where its own is not.          *)
LEMMA NewWait ==
  ASSUME TypeInv, NamesMatch, NEW g \in Goroutines, Step(g),
         NEW h \in Goroutines, NEW o \in Objs, NEW p \in Objs,
         Elsewhere(h, o, p)', ~Elsewhere(h, o, p)
  PROVE  /\ h = g /\ StopGet(g)
         /\ frame[g].vm = o
         /\ \E n \in Names : vms[n] = p
         /\ \A n \in Names : vms[n] # o
<1>1. h = g
  <2>1. h # g => frame'[h] = frame[h] BY OtherFrames
  <2> QED BY <2>1 DEF Elsewhere, At
<1>2. StopGet(g)
  <2>1. frame'[g].pc = "stop_lock" BY <1>1 DEF Elsewhere, At
  <2> QED BY <2>1, OnlyGetReachesTheLock
<1>3. /\ frame[g].name \in Names
      /\ frame'[g].vm = frame[g].vm
      /\ frame'[g].target = vms[frame[g].name]
  BY <1>2 DEF StopGet, At, TypeInv, TypeOK, FrameOK, HasName, PCs, Frame
<1>4. frame[g].vm = o /\ vms[frame[g].name] = p /\ o # p
  BY <1>1, <1>3 DEF Elsewhere
<1>5. ASSUME NEW n \in Names, vms[n] = o PROVE FALSE
  <2>1. heap[o].name = n /\ heap[o].name = frame[g].name
    BY <1>4, <1>5, VMManagerAssumption DEF NamesMatch
  <2> QED BY <1>4, <1>5, <2>1
<1> QED BY <1>1, <1>2, <1>3, <1>4, <1>5

(* A struct that left the registry does not come back while it is in use.  *)
LEMMA StepRetired ==
  ASSUME TypeInv, NamesMatch, Retired, NEW g \in Goroutines, Step(g)
  PROVE  Retired'
<1> SUFFICES ASSUME NEW h \in Goroutines, NEW o \in Objs, NEW p \in Objs,
                    Elsewhere(h, o, p)', NEW n \in Names
             PROVE  vms'[n] # o
  BY DEF Retired
<1>1. /\ frame[h].vm = o
      /\ \A m \in Names : vms[m] # o
  <2>1. CASE Elsewhere(h, o, p) BY <2>1 DEF Retired, Elsewhere
  <2>2. CASE ~Elsewhere(h, o, p) BY <2>2, NewWait
  <2> QED BY <2>1, <2>2
<1>2. CASE CreateKernel(g)
  <2>1. PICK x \in Objs : Unreachable(x) /\ vms' = [vms EXCEPT ![frame[g].name] = x]
    BY <1>2 DEF CreateKernel
  <2>2. x # o BY <1>1, <2>1 DEF Unreachable
  <2> QED BY <1>1, <2>1, <2>2 DEF TypeInv, TypeOK
<1>3. CASE ~CreateKernel(g)
  <2>1. vms'[n] # NoObj => vms'[n] = vms[n] BY <1>3, RegistryShrinks
  <2> QED BY <1>1, <2>1, VMManagerAssumption
<1> QED BY <1>2, <1>3

(* The one new wait is for a registered struct, which leads nowhere.       *)
LEMMA StepAcyclic ==
  ASSUME TypeInv, NamesMatch, Retired, Acyclic, NEW g \in Goroutines, Step(g)
  PROVE  Acyclic'
<1> SUFFICES ASSUME NEW S \in SUBSET Objs, S # {}
             PROVE  \E o \in S : \A p \in S, h \in Goroutines : ~Elsewhere(h, o, p)'
  BY DEF Acyclic
<1>1. PICK o \in S : \A p \in S, h \in Goroutines : ~Elsewhere(h, o, p)
  BY DEF Acyclic
<1>2. CASE \A p \in S, h \in Goroutines : ~Elsewhere(h, o, p)'
  BY <1>2
<1>3. ASSUME NEW p \in S, NEW h \in Goroutines, Elsewhere(h, o, p)'
      PROVE  \A q \in S, k \in Goroutines : ~Elsewhere(k, p, q)'
  <2>0. o \in Objs /\ p \in Objs OBVIOUS
  <2>1. /\ h = g /\ frame[g].vm = o
        /\ \E n \in Names : vms[n] = p
    BY <1>1, <1>3, <2>0, NewWait
  <2>2. o # p BY <1>3 DEF Elsewhere
  <2>3. SUFFICES ASSUME NEW q \in S, NEW k \in Goroutines, Elsewhere(k, p, q)'
                 PROVE  FALSE
    OBVIOUS
  <2>4. q \in Objs OBVIOUS
  <2>5. CASE Elsewhere(k, p, q)
    BY <2>0, <2>1, <2>4, <2>5 DEF Retired
  <2>6. CASE ~Elsewhere(k, p, q)
    <3>1. frame[g].vm = p BY <2>0, <2>3, <2>4, <2>6, NewWait
    <3> QED BY <2>1, <2>2, <3>1
  <2> QED BY <2>5, <2>6
<1> QED BY <1>2, <1>3

(* CycleInv is inductive.                                                  *)
LEMMA NextCycleInv == CycleInv /\ [Next]_vars => CycleInv'
<1> SUFFICES ASSUME CycleInv, [Next]_vars PROVE CycleInv'
  OBVIOUS
<1> USE VMManagerAssumption
<1>0. /\ LockInv' /\ TypeInv /\ NamesMatch
      /\ MuOwner /\ Retired /\ Acyclic
  BY NextLockInv DEF CycleInv, LockInv
<1>1. ASSUME NEW g \in Goroutines, Step(g) PROVE MuOwner' /\ Retired' /\ Acyclic'
  BY <1>0, <1>1, StepMuOwner, StepRetired, StepAcyclic
<1>2. ASSUME NEW g \in Goroutines, Calls(g) PROVE MuOwner' /\ Retired' /\ Acyclic'
  <2>1. \A h \in Goroutines : h # g => frame'[h] = frame[h]
    BY <1>0, <1>2, OtherFrames
  <2>2. frame'[g].pc = "stop_lock" => frame'[g].vm = NoObj
    BY <1>0, <1>2, CallOpens
  <2>3. \A h \in Goroutines, o, p \in Objs :
          Elsewhere(h, o, p)' => Elsewhere(h, o, p)
    BY <2>1, <2>2 DEF Elsewhere, At
  <2>4. UNCHANGED vms /\ (UNCHANGED mu \/ mu' = g)
    BY <1>2 DEF Calls, Call, CreateCall, StartCall, StopCall, DestroyCall,
                QueryCall, ShutdownCall
  <2>5. MuOwner'
    <3> SUFFICES ASSUME NEW h \in Goroutines, mu' = h PROVE HoldsMu(h)'
      BY DEF MuOwner
    <3>1. CASE h = g
      <4>1. HoldsMu(g) => frame[g].pc # "idle" BY DEF HoldsMu, At
      <4>2. mu # g BY <1>0, <1>2, <4>1, CallOpens DEF MuOwner
      <4>3. CASE ShutdownCall(g)
        BY <1>0, <3>1, <4>3 DEF ShutdownCall, HoldsMu, Idle, TypeInv, TypeOK
      <4>4. ASSUME NEW n \in Names, CreateCall(g, n) PROVE HoldsMu(g)'
        BY <1>0, <4>4 DEF CreateCall, HoldsMu, Idle, TypeInv, TypeOK
      <4>5. ASSUME NEW n \in Names, NEW l, Call(g, n, l) \/ StopCall(g, n)
            PROVE  FALSE
        BY <3>1, <4>2, <4>5 DEF Call, StopCall
      <4> QED BY <1>2, <3>1, <4>3, <4>4, <4>5
                 DEF Calls, StartCall, DestroyCall, QueryCall
    <3>2. CASE h # g
      BY <1>0, <2>1, <2>4, <3>2 DEF MuOwner, HoldsMu, At, Nested
    <3> QED BY <3>1, <3>2
  <2>6. Retired' BY <1>0, <2>3, <2>4 DEF Retired
  <2>7. Acyclic' BY <1>0, <2>3 DEF Acyclic
  <2> QED BY <2>5, <2>6, <2>7
<1>3. ASSUME Restart \/ Reboot PROVE MuOwner' /\ Retired' /\ Acyclic'
  <2>1. mu' = Free /\ \A h \in Goroutines : frame'[h].pc = "idle"
    BY <1>3 DEF Restart, Reboot, Idle
  <2>2. \A h \in Goroutines, o, p \in Objs : ~Elsewhere(h, o, p)'
    BY <2>1 DEF Elsewhere, At
  <2> QED BY <2>1, <2>2 DEF MuOwner, Retired, Acyclic
<1>4. ASSUME UNCHANGED <<mu, vms, frame>> PROVE MuOwner' /\ Retired' /\ Acyclic'
  BY <1>0, <1>4 DEF MuOwner, Retired, Acyclic, HoldsMu, Nested, Elsewhere, At
<1>5. MuOwner' /\ Retired' /\ Acyclic'
  BY <1>1, <1>2, <1>3, <1>4 DEF Next, ProcExit, vars
<1> QED BY <1>0, <1>5 DEF CycleInv

(* It holds of a new server.                                               *)
LEMMA InitCycleInv == Init => CycleInv
<1> SUFFICES ASSUME Init PROVE CycleInv
  OBVIOUS
<1>1. LockInv BY InitLockInv
<1>2. mu = Free /\ \A g \in Goroutines : frame[g].pc = "idle"
  BY DEF Init, Idle
<1> QED
  BY <1>1, <1>2, VMManagerAssumption DEF CycleInv, MuOwner, Retired, Acyclic, Elsewhere, At

(* Create and Shutdown wait for nobody while they hold m.mu, but that      *)
(* Shutdown waits for itself.                                              *)
LEMMA MuHolderRuns ==
  ASSUME CycleInv, NEW h \in Goroutines, NEW k, WaitsFor(h, k), ~SelfDeadlock(h)
  PROVE  mu # h
BY DEF CycleInv, MuOwner, HoldsMu, WaitsFor, SelfDeadlock, At

(* Who is waited for and waits, neither for m.mu nor for itself, is a      *)
(* Destroy whose Stop found another struct.                                *)
LEMMA WaitedFor ==
  ASSUME CycleInv, NEW g \in Goroutines, NEW h \in Goroutines, WaitsFor(g, h), mu # h,
         NEW k \in Goroutines, WaitsFor(h, k), mu # k, ~SelfDeadlock(h)
  PROVE  \E o, p \in Objs :
           Elsewhere(h, o, p) /\ (At(g, "stop_lock") => frame[g].target = o)
<1> USE VMManagerAssumption
<1>0. /\ FrameOK
      /\ \A o \in Objs :
           heap[o].mu = h <=> Starting(h, o) \/ Stopping(h, o) \/ Destroying(h, o)
  BY DEF CycleInv, LockInv, TypeInv, TransientUnderLock
<1>1. PICK o \in Objs : heap[o].mu = h /\ (At(g, "stop_lock") => frame[g].target = o)
  <2>1. CASE At(g, "stop_lock") /\ heap[frame[g].target].mu = h
    BY <1>0, <2>1 DEF FrameOK, InStop, At
  <2>2. CASE /\ frame[g].pc \in {"start_lock", "destroy_lock", "query_lock"}
             /\ heap[frame[g].vm].mu = h
    BY <1>0, <2>2 DEF FrameOK, HasVM, At
  <2> QED BY <2>1, <2>2 DEF WaitsFor
<1>2. /\ frame[h].pc \in {"start_lock", "destroy_lock", "query_lock", "stop_lock"}
      /\ At(h, "stop_lock") => frame[h].target \in Objs /\ heap[frame[h].target].mu # h
  BY <1>0 DEF WaitsFor, SelfDeadlock, At, FrameOK, InStop
<1>3. At(h, "stop_lock") /\ frame[h].vm = o
  BY <1>0, <1>1, <1>2 DEF Starting, Stopping, Destroying, At
<1>4. Elsewhere(h, o, frame[h].target) BY <1>1, <1>2, <1>3 DEF Elsewhere
<1> QED BY <1>1, <1>2, <1>3, <1>4

(* No callers wait for one another in a circle, whatever they call and     *)
(* however many they are: the locks of the registry and of the structs     *)
(* alone make nobody hang but a Destroy of a running VM or a Shutdown that *)
(* waits for itself, and who is queued behind it.                          *)
THEOREM CallersNeverLockCircularly == Spec => []NoLockCycle
<1>1. ASSUME CycleInv PROVE NoLockCycle
  <2> SUFFICES ASSUME NEW W \in SUBSET Goroutines, W # {},
                      \A g \in W : \E h \in W : WaitsFor(g, h),
                      \A g \in W : ~SelfDeadlock(g)
               PROVE  FALSE
    BY DEF NoLockCycle
  <2>1. \A h \in W : mu # h BY <1>1, MuHolderRuns
  <2>2. ASSUME NEW g \in W
        PROVE  \E h \in W, o, p \in Objs :
                 Elsewhere(h, o, p) /\ (At(g, "stop_lock") => frame[g].target = o)
    <3>1. PICK h \in W : WaitsFor(g, h) OBVIOUS
    <3>2. PICK k \in W : WaitsFor(h, k) OBVIOUS
    <3>3. g \in Goroutines /\ h \in Goroutines /\ k \in Goroutines OBVIOUS
    <3>4. mu # h /\ mu # k /\ ~SelfDeadlock(h) BY <2>1
    <3> QED BY <1>1, <3>1, <3>2, <3>3, <3>4, WaitedFor
  <2> DEFINE S == {o \in Objs : \E h \in W, p \in Objs : Elsewhere(h, o, p)}
  <2>3. S # {} /\ S \in SUBSET Objs BY <2>2
  <2>4. PICK o \in S : \A p \in S, h \in Goroutines : ~Elsewhere(h, o, p)
    BY <1>1, <2>3 DEF CycleInv, Acyclic
  <2>5. PICK h \in W, p \in Objs : Elsewhere(h, o, p) BY <2>4
  <2>6. p \in S
    <3>1. PICK k \in W, q, r \in Objs :
            Elsewhere(k, q, r) /\ (At(h, "stop_lock") => frame[h].target = q)
      BY <2>2
    <3>2. q = p BY <2>5, <3>1 DEF Elsewhere
    <3> QED BY <3>1, <3>2
  <2> QED BY <2>4, <2>5, <2>6
<1>2. Spec => []CycleInv BY InitCycleInv, NextCycleInv, PTL DEF Spec
<1> QED BY <1>1, <1>2, PTL

----------------------------------------------------------------------------
(* Processes                                                               *)

(* A struct's process is a child of its name that is still to be waited    *)
(* for, and a VM that is up has one.                                       *)
ProcessKnown ==
  \A o \in Objs :
    /\ heap[o].process # NoProc =>
         /\ proc[heap[o].process].st # "free"
         /\ proc[heap[o].process].child
         /\ proc[heap[o].process].name = heap[o].name
    /\ heap[o].state \in {"running", "stopping"} => heap[o].process # NoProc

ProcessInv == LockInv /\ ProcessKnown /\ ProcessOwnedOnce

(* Only Create, Start and Stop change what process a struct has.           *)
LEMMA ProcessKept ==
  ASSUME ProcessInv, NEW g \in Goroutines, Step(g),
         ~CreateKernel(g), ~StartFork(g), ~StopWait(g)
  PROVE  /\ \A o \in Objs :
              /\ heap'[o].process = heap[o].process
              /\ heap'[o].state \in {"running", "stopping"}
                   => heap[o].state \in {"running", "stopping"}
         /\ \A p \in Procs : /\ proc'[p].st = proc[p].st
                             /\ proc'[p].child = proc[p].child
                             /\ proc'[p].name = proc[p].name
<1> USE DEF ProcessInv, LockInv, TypeInv, TypeOK, VMStruct, Process
<1>1. CASE CreateSave(g) BY <1>1 DEF CreateSave
<1>2. CASE CreateWrite(g) BY <1>2 DEF CreateWrite
<1>3. CASE CreateFails(g) BY <1>3 DEF CreateFails
<1>4. CASE StartRefused(g) BY <1>4 DEF StartRefused
<1>5. CASE StartLock(g) BY <1>5 DEF StartLock
<1>6. CASE StartOpen(g) BY <1>6 DEF StartOpen
<1>7. CASE StartFails(g) BY <1>7 DEF StartFails
<1>8. CASE StopGet(g) BY <1>8 DEF StopGet
<1>9. CASE StopRefused(g) BY <1>9 DEF StopRefused
<1>10. CASE StopLock(g) BY <1>10 DEF StopLock
<1>11. CASE StopSignal(g) BY <1>11 DEF StopSignal
<1>12. CASE StopSignalRefused(g)
  <2>1. UNCHANGED proc BY <1>12 DEF StopSignalRefused
  <2>2. ASSUME NEW o \in Objs
        PROVE  /\ heap'[o].process = heap[o].process
               /\ heap'[o].state \in {"running", "stopping"}
                    => heap[o].state \in {"running", "stopping"}
    <3>1. heap'[o] \in {heap[o], [heap[o] EXCEPT !.mu = Free],
                       [heap[o] EXCEPT !.state = "error", !.mu = Free]}
      BY <1>12 DEF StopSignalRefused
    <3>2. heap[o] \in VMStruct OBVIOUS
    <3> QED BY <3>1, <3>2
  <2> QED BY <2>1, <2>2
<1>13. CASE DestroyLock(g) BY <1>13 DEF DestroyLock
<1>14. CASE DestroyKernel(g) BY <1>14 DEF DestroyKernel
<1>15. CASE DestroyFile(g) BY <1>15 DEF DestroyFile
<1>16. CASE DestroyFileFails(g) BY <1>16 DEF DestroyFileFails
<1>17. CASE DestroyUnmap(g) BY <1>17 DEF DestroyUnmap
<1>18. CASE Query(g) BY <1>18 DEF Query
<1>19. CASE QuerySignalRefused(g) BY <1>19 DEF QuerySignalRefused
<1>20. CASE ShutdownScan(g) BY <1>20 DEF ShutdownScan
<1>21. CASE ShutdownReturn(g) BY <1>21 DEF ShutdownReturn
<1> QED BY <1>1, <1>2, <1>3, <1>4, <1>5, <1>6, <1>7, <1>8, <1>9, <1>10, <1>11, <1>12, <1>13, <1>14, <1>15, <1>16, <1>17, <1>18, <1>19, <1>20, <1>21 DEF Step

(* They keep ProcessKnown: a slot a process is forked into was nobody's,   *)
(* one that is reaped was nobody else's.                                   *)
LEMMA StepProcess ==
  ASSUME ProcessInv, NEW g \in Goroutines, Step(g)
  PROVE  ProcessKnown' /\ ProcessOwnedOnce'
<1> USE VMManagerAssumption
<1>0. /\ heap \in [Objs -> VMStruct]
      /\ proc \in [Procs -> Process]
      /\ \A o \in Objs : heap[o].process \in Procs \cup {NoProc}
      /\ FrameOK /\ NamesMatch
  BY DEF ProcessInv, LockInv, TypeInv, TypeOK, VMStruct
<1>1. CASE CreateKernel(g)
  <2>1. PICK x \in Objs : heap' = [heap EXCEPT ![x] = NewVM(frame[g].name)]
    BY <1>1 DEF CreateKernel
  <2>2. UNCHANGED proc BY <1>1 DEF CreateKernel
  <2>3. \A o \in Objs : o # x => heap'[o] = heap[o] BY <1>0, <2>1
  <2>4. heap'[x].process = NoProc /\ heap'[x].state = "defined"
    BY <1>0, <2>1 DEF NewVM, Unused
  <2> QED
    BY <1>0, <2>2, <2>3, <2>4 DEF ProcessInv, ProcessKnown, ProcessOwnedOnce
<1>2. CASE StartFork(g)
  <2> DEFINE x == frame[g].vm
  <2>1. PICK p \in Procs :
          /\ proc[p].st = "free"
          /\ proc' = [proc EXCEPT ![p] = [st |-> "alive", name |-> frame[g].name,
                                         child |-> TRUE]]
          /\ heap' = [heap EXCEPT ![x].process = p, ![x].state = "running",
                                  ![x].mu = Free]
    BY <1>2 DEF StartFork
  <2>2. x \in Objs /\ heap[x].name = frame[g].name
    BY <1>0, <1>2 DEF StartFork, At, FrameOK, HasVM, NamesMatch
  <2>3. \A o \in Objs : o # x => heap'[o] = heap[o] BY <1>0, <2>1
  <2>4. /\ heap'[x].process = p
        /\ heap'[x].name = frame[g].name
    BY <1>0, <2>1, <2>2 DEF VMStruct
  <2>5. /\ proc'[p].st = "alive" /\ proc'[p].child /\ proc'[p].name = frame[g].name
        /\ \A r \in Procs : r # p => proc'[r] = proc[r]
    BY <1>0, <2>1
  <2>6. \A o \in Objs : heap[o].process # p
    BY <2>1 DEF ProcessInv, ProcessKnown
  <2>7. ProcessKnown'
    BY <1>0, <2>3, <2>4, <2>5, <2>6 DEF ProcessInv, ProcessKnown
  <2>8. ProcessOwnedOnce'
    BY <2>3, <2>4, <2>6 DEF ProcessInv, ProcessOwnedOnce
  <2> QED BY <2>7, <2>8
<1>3. CASE StopWait(g)
  <2> DEFINE x == frame[g].target
             p == heap[x].process
  <2>1. /\ proc' = [proc EXCEPT ![p] = NoProcess]
        /\ heap' = [heap EXCEPT ![x].state = "stopped", ![x].process = NoProc,
                                ![x].handle = FALSE, ![x].mu = Free]
    BY <1>3 DEF StopWait
  <2>2. x \in Objs BY <1>0, <1>3 DEF StopWait, At, FrameOK, InStop
  <2>3. \A o \in Objs : o # x => heap'[o] = heap[o] BY <1>0, <2>1
  <2>4. heap'[x].process = NoProc /\ heap'[x].state = "stopped"
    <3>1. heap'[x] = [heap[x] EXCEPT !.state = "stopped", !.process = NoProc,
                                     !.handle = FALSE, !.mu = Free]
      BY <1>0, <2>1, <2>2
    <3>2. heap[x] \in VMStruct BY <1>0, <2>2
    <3> QED BY <3>1, <3>2 DEF VMStruct
  <2>5. \A r \in Procs : r # p => proc'[r] = proc[r] BY <1>0, <2>1
  <2>6. \A o \in Objs : o # x => heap[o].process # p \/ heap[o].process = NoProc
    BY <2>2 DEF ProcessInv, ProcessOwnedOnce
  <2> HIDE DEF x, p
  <2>7. ProcessKnown'
    BY <1>0, <2>3, <2>4, <2>5, <2>6 DEF ProcessInv, ProcessKnown
  <2>8. ProcessOwnedOnce'
    BY <2>3, <2>4 DEF ProcessInv, ProcessOwnedOnce
  <2> QED BY <2>7, <2>8
<1>4. CASE ~CreateKernel(g) /\ ~StartFork(g) /\ ~StopWait(g)
  <2>1. \A o \in Objs : heap'[o].name = heap[o].name
    BY <1>4, NamesKept DEF ProcessInv, LockInv
  <2> QED
    BY <1>0, <1>4, <2>1, ProcessKept DEF ProcessInv, ProcessKnown, ProcessOwnedOnce
<1> QED BY <1>1, <1>2, <1>3, <1>4

(* ProcessInv is inductive.                                                *)
LEMMA NextProcessInv == ProcessInv /\ [Next]_vars => ProcessInv'
<1> SUFFICES ASSUME ProcessInv, [Next]_vars PROVE ProcessInv'
  OBVIOUS
<1> USE VMManagerAssumption
<1>0. LockInv' BY NextLockInv DEF ProcessInv
<1>1. ASSUME NEW g \in Goroutines, Calls(g)
      PROVE  ProcessKnown' /\ ProcessOwnedOnce'
  <2>1. UNCHANGED <<heap, proc>>
    BY <1>1 DEF Calls, Call, CreateCall, StartCall, StopCall, DestroyCall,
                QueryCall, ShutdownCall
  <2> QED BY <2>1 DEF ProcessInv, ProcessKnown, ProcessOwnedOnce
<1>2. ASSUME NEW p \in Procs, ProcExit(p)
      PROVE  ProcessKnown' /\ ProcessOwnedOnce'
  <2>1. /\ UNCHANGED heap
        /\ \A r \in Procs : proc[r].child => /\ proc'[r].child
                                             /\ proc'[r].name = proc[r].name
                                             /\ proc[r].st # "free" => proc'[r].st # "free"
    BY <1>2 DEF ProcExit, ProcessInv, LockInv, TypeInv, TypeOK, Process
  <2>2. \A o \in Objs : heap[o].process \in Procs \cup {NoProc}
    BY DEF ProcessInv, LockInv, TypeInv, TypeOK, VMStruct
  <2> QED BY <2>1, <2>2 DEF ProcessInv, ProcessKnown, ProcessOwnedOnce
<1>3. ASSUME Restart \/ Reboot
      PROVE  ProcessKnown' /\ ProcessOwnedOnce'
  <2>1. \A o \in Objs : /\ heap'[o].process = NoProc
                        /\ heap'[o].state \in {"none", "defined"}
    BY <1>3, LoadedVMs DEF Restart, Reboot, ProcessInv, LockInv
  <2> QED BY <2>1 DEF ProcessKnown, ProcessOwnedOnce
<1>4. ASSUME UNCHANGED vars
      PROVE  ProcessKnown' /\ ProcessOwnedOnce'
  BY <1>4 DEF vars, ProcessInv, ProcessKnown, ProcessOwnedOnce
<1>5. ASSUME NEW g \in Goroutines, Step(g)
      PROVE  ProcessKnown' /\ ProcessOwnedOnce'
  BY <1>5, StepProcess
<1>6. ProcessKnown' /\ ProcessOwnedOnce'
  BY <1>1, <1>2, <1>3, <1>4, <1>5 DEF Next
<1> QED BY <1>0, <1>6 DEF ProcessInv

(* It holds of a new server.                                               *)
LEMMA InitProcessInv == Init => ProcessInv
<1> SUFFICES ASSUME Init PROVE ProcessInv
  OBVIOUS
<1>1. LockInv BY InitLockInv
<1>2. ProcessKnown /\ ProcessOwnedOnce
  BY DEF Init, ProcessKnown, ProcessOwnedOnce, Unused
<1> QED BY <1>1, <1>2 DEF ProcessInv

LEMMA ProcessSafety == Spec => []ProcessInv
BY InitProcessInv, NextProcessInv, PTL DEF Spec

(* A VM that is running or stopping has an unreaped bhyve process of its   *)
(* own name: Stop signals and waits for the right process, for every       *)
(* number of callers and every fault.                                      *)
THEOREM RunningVMsHaveTheirProcess == Spec => []RunningHasProcess
<1>1. ProcessInv => RunningHasProcess
  <2>1. ProcessInv => \A o \in Objs : heap[o].process \in Procs \cup {NoProc}
    BY DEF ProcessInv, LockInv, TypeInv, TypeOK, VMStruct
  <2> QED BY <2>1 DEF ProcessInv, RunningHasProcess, ProcessKnown
<1> QED BY <1>1, ProcessSafety, PTL

(* No two VM structs record one process: two Stops never wait for the same *)
(* child, also not those of an old and a new struct of one name.           *)
THEOREM ProcessesHaveOneOwner == Spec => []ProcessOwnedOnce
<1>1. ProcessInv => ProcessOwnedOnce
  BY DEF ProcessInv
<1> QED BY <1>1, ProcessSafety, PTL

=============================================================================
