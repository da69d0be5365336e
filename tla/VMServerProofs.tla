--------------------------- MODULE VMServerProofs ---------------------------
(***************************************************************************)
(* Safety of MCPServer for every number of VMs and processes, with server  *)
(* crashes and host reboots.  The server is the manager of VMManager with  *)
(* one caller (ServerRefinesManager), so that the theorems about any       *)
(* number of callers hold of it; and one caller is told the truth: in the  *)
(* inductive ServerInv,                                                    *)
(*                                                                         *)
(*   MainInv     says, for each place in an operation, what the operation  *)
(*               has made of its VM so far;                                *)
(*   VMOK        is the invariants of one caller, for one name.            *)
(*                                                                         *)
(* A step changes the VM of its operation alone (OtherVMs), so that only   *)
(* that VM has to be looked at, action by action (ThisVM).                 *)
(***************************************************************************)
EXTENDS MCPServer, VMManagerProofs, FiniteSetTheorems

----------------------------------------------------------------------------
(* The server is a caller of the manager                                   *)

(* Every step of the server is one of the manager, or leaves it alone.     *)
LEMMA ServerStep == [MCPNext]_mcpVars => [Next]_vars
<1> SUFFICES ASSUME [MCPNext]_mcpVars PROVE [Next]_vars
  OBVIOUS
<1>0. Main \in Goroutines BY MCPServerAssumption
<1>1. ASSUME NEW m \in Methods, NEW n \in Names, Decode(m, n) PROVE Calls(Main)
  BY <1>1 DEF Decode, Dispatch, Calls
<1>2. ASSUME NEW a \in {"ok", "error"}, DecodeAndAnswer(a) PROVE UNCHANGED vars
  BY <1>2 DEF DecodeAndAnswer
<1>3. CASE Handle BY <1>0, <1>3 DEF Handle, Next
<1>4. CASE Encode BY <1>4 DEF Encode
<1>5. ASSUME NEW p \in Procs, Exit(p) PROVE Next
  BY <1>5 DEF Exit, Next
<1>6. CASE Initialize BY <1>6 DEF Initialize, Next
<1>7. CASE UNCHANGED mcpVars BY <1>7 DEF mcpVars
<1> QED BY <1>0, <1>1, <1>2, <1>3, <1>4, <1>5, <1>6, <1>7 DEF MCPNext, Next

(* The request loop uses the VM manager as VMManager's callers do: what    *)
(* holds for any number of them holds of the server.                       *)
THEOREM ServerRefinesManager == MCPSpec => Spec
<1>1. MCPInit => Init BY DEF MCPInit
<1> QED BY <1>1, ServerStep, PTL DEF MCPSpec, Spec

----------------------------------------------------------------------------
(* One caller                                                              *)

Creating == {"create_save", "create_write", "create_kernel"}
Removing == {"destroy_kernel", "destroy_file", "destroy_unmap"}

MainInv ==
  LET f == frame[Main] IN
  /\ f.pc # "shutdown_scan"
  /\ f.pc \in Creating => vms[f.name] = NoObj
  /\ f.pc = "create_kernel" => file[f.name] = "full"
  /\ f.pc \in HasVM \cup {"stop_get"} => f.vm \in Objs /\ vms[f.name] = f.vm
  /\ f.pc \in InStop => vms[f.name] = f.target
  /\ f.pc \in InStop => f.vm \in {NoObj, f.target}
  /\ f.pc = "start_fork" => heap[f.vm].handle /\ kern[f.name]
  /\ f.pc \in Removing => heap[f.vm].state \notin {"running", "stopping", "starting"}
  /\ f.pc = "destroy_unmap" => file[f.name] = "absent"

VMOK(n) ==
  /\ vms[n] # NoObj => \/ file[n] # "absent"
                       \/ At(Main, "destroy_unmap") /\ frame[Main].name = n
  /\ vms[n] # NoObj =>
       /\ heap[vms[n]].state # "none"
       /\ heap[vms[n]].state \in {"running", "stopping"}
            => heap[vms[n]].handle
       /\ heap[vms[n]].state \in {"defined", "stopped"} => ~heap[vms[n]].handle
  /\ \/ Unreaped(n) = {}
     \/ /\ vms[n] # NoObj
        /\ Unreaped(n) = {heap[vms[n]].process}
        /\ heap[vms[n]].state \in {"running", "stopping"}

ServerInv == ProcessInv /\ MainInv /\ \A n \in Names : VMOK(n)

(* What one caller's steps need to know of the types.                      *)
LEMMA ServerTypes ==
  ASSUME ServerInv
  PROVE  /\ Main \in Goroutines
         /\ mu \in Goroutines \cup {Free}
         /\ vms \in [Names -> Objs \cup {NoObj}]
         /\ heap \in [Objs -> VMStruct]
         /\ frame \in [Goroutines -> Frame]
         /\ kern \in [Names -> BOOLEAN]
         /\ file \in [Names -> FileStates]
         /\ proc \in [Procs -> Process]
         /\ FrameOK
         /\ \A n \in Names : vms[n] # NoObj => heap[vms[n]].name = n
BY MCPServerAssumption
   DEF ServerInv, ProcessInv, LockInv, TypeInv, TypeOK, NamesMatch

(* What Stop leaves of its struct.                                         *)
LEMMA StoppedStruct ==
  ASSUME heap \in [Objs -> VMStruct], frame[Main].target \in Objs, StopWait(Main)
  PROVE  /\ heap'[frame[Main].target].state = "stopped"
         /\ ~heap'[frame[Main].target].handle
         /\ heap'[frame[Main].target].process = NoProc
<1> DEFINE o == frame[Main].target
<1>1. heap' = [heap EXCEPT ![o].state = "stopped", ![o].process = NoProc,
                           ![o].handle = FALSE, ![o].mu = Free]
  BY DEF StopWait
<1>2. heap'[o] = [heap[o] EXCEPT !.state = "stopped", !.process = NoProc,
                                 !.handle = FALSE, !.mu = Free]
  BY <1>1
<1>3. heap[o] \in VMStruct OBVIOUS
<1> QED BY <1>2, <1>3 DEF VMStruct

(* The server's kernel accepts the signals of its owner.                   *)
LEMMA NoRefusals == "signal" \notin Faults
BY MCPServerAssumption

(* The steps of an operation that one caller can take.                     *)
LEMMA ServerSteps ==
  ASSUME ServerInv, Step(Main)
  PROVE  ~QuerySignalRefused(Main) /\ ~StopSignalRefused(Main)
         /\ ~ShutdownScan(Main) /\ ~ShutdownReturn(Main)
BY NoRefusals
   DEF ServerInv, MainInv, QuerySignalRefused, StopSignalRefused, ShutdownScan,
       ShutdownReturn, At

(* An operation changes the structs it has got hold of, and Create one     *)
(* that nobody has.                                                        *)
LEMMA OtherStructs ==
  ASSUME ServerInv, Step(Main), NEW o \in Objs,
         o # frame[Main].vm, o # frame[Main].target, ~Unreachable(o)
  PROVE  heap'[o] = heap[o]
<1> USE ServerTypes
<1>0. heap \in [Objs -> VMStruct] OBVIOUS
<1>1. CASE CreateKernel(Main) BY <1>0, <1>1 DEF CreateKernel
<1>2. CASE CreateSave(Main) BY <1>0, <1>2 DEF CreateSave
<1>3. CASE CreateWrite(Main) BY <1>0, <1>3 DEF CreateWrite
<1>4. CASE CreateFails(Main) BY <1>0, <1>4 DEF CreateFails
<1>5. CASE StartRefused(Main) BY <1>0, <1>5 DEF StartRefused
<1>6. CASE StartLock(Main) BY <1>0, <1>6 DEF StartLock
<1>7. CASE StartOpen(Main) BY <1>0, <1>7 DEF StartOpen
<1>8. CASE StartFork(Main) BY <1>0, <1>8 DEF StartFork
<1>9. CASE StartFails(Main) BY <1>0, <1>9 DEF StartFails
<1>10. CASE StopGet(Main) BY <1>0, <1>10 DEF StopGet
<1>11. CASE StopRefused(Main) BY <1>0, <1>11 DEF StopRefused
<1>12. CASE StopLock(Main) BY <1>0, <1>12 DEF StopLock
<1>13. CASE StopSignal(Main) BY <1>0, <1>13 DEF StopSignal
<1>14. CASE StopWait(Main) BY <1>0, <1>14 DEF StopWait
<1>15. CASE DestroyLock(Main) BY <1>0, <1>15 DEF DestroyLock
<1>16. CASE DestroyKernel(Main) BY <1>0, <1>16 DEF DestroyKernel
<1>17. CASE DestroyFile(Main) BY <1>0, <1>17 DEF DestroyFile
<1>18. CASE DestroyFileFails(Main) BY <1>0, <1>18 DEF DestroyFileFails
<1>19. CASE DestroyUnmap(Main) BY <1>0, <1>19 DEF DestroyUnmap
<1>20. CASE Query(Main) BY <1>0, <1>20 DEF Query
<1> QED BY <1>1, <1>2, <1>3, <1>4, <1>5, <1>6, <1>7, <1>8, <1>9, <1>10, <1>11, <1>12, <1>13, <1>14, <1>15, <1>16, <1>17, <1>18, <1>19, <1>20, ServerSteps DEF Step

(* The rest of a VM that the operation is not about.                       *)
LEMMA OtherFiles ==
  ASSUME ServerInv, Step(Main), NEW m \in Names, m # frame[Main].name
  PROVE  vms'[m] = vms[m] /\ kern'[m] = kern[m] /\ file'[m] = file[m]
<1> USE ServerTypes
<1>0. /\ vms \in [Names -> Objs \cup {NoObj}]
      /\ kern \in [Names -> BOOLEAN]
      /\ file \in [Names -> FileStates]
  OBVIOUS
<1>1. CASE CreateSave(Main) BY <1>0, <1>1 DEF CreateSave
<1>2. CASE CreateWrite(Main) BY <1>0, <1>2 DEF CreateWrite
<1>3. CASE CreateKernel(Main) BY <1>0, <1>3 DEF CreateKernel
<1>4. CASE CreateFails(Main) BY <1>0, <1>4 DEF CreateFails
<1>5. CASE StartRefused(Main) BY <1>0, <1>5 DEF StartRefused
<1>6. CASE StartLock(Main) BY <1>0, <1>6 DEF StartLock
<1>7. CASE StartOpen(Main) BY <1>0, <1>7 DEF StartOpen
<1>8. CASE StartFails(Main) BY <1>0, <1>8 DEF StartFails
<1>9. CASE StopGet(Main) BY <1>0, <1>9 DEF StopGet
<1>10. CASE StopRefused(Main) BY <1>0, <1>10 DEF StopRefused
<1>11. CASE StopLock(Main) BY <1>0, <1>11 DEF StopLock
<1>12. CASE DestroyLock(Main) BY <1>0, <1>12 DEF DestroyLock
<1>13. CASE DestroyKernel(Main) BY <1>0, <1>13 DEF DestroyKernel
<1>14. CASE DestroyFile(Main) BY <1>0, <1>14 DEF DestroyFile
<1>15. CASE DestroyFileFails(Main) BY <1>0, <1>15 DEF DestroyFileFails
<1>16. CASE DestroyUnmap(Main) BY <1>0, <1>16 DEF DestroyUnmap
<1>17. CASE Query(Main) BY <1>0, <1>17 DEF Query
<1>18. CASE StartFork(Main) BY <1>0, <1>18 DEF StartFork
<1>19. CASE StopSignal(Main) BY <1>0, <1>19 DEF StopSignal
<1>20. CASE StopWait(Main) BY <1>0, <1>20 DEF StopWait
<1> QED BY <1>1, <1>2, <1>3, <1>4, <1>5, <1>6, <1>7, <1>8, <1>9, <1>10, <1>11, <1>12, <1>13, <1>14, <1>15, <1>16, <1>17, <1>18, <1>19, <1>20, ServerSteps DEF Step

(* Only Start and Stop change which children a VM has.                     *)
LEMMA SameChildren ==
  ASSUME ServerInv, Step(Main), ~StartFork(Main), ~StopWait(Main)
  PROVE  \A m \in Names : /\ Unreaped(m)' = Unreaped(m)
                          /\ \A p \in Procs : proc'[p].st = proc[p].st
<1>1. \A p \in Procs : /\ proc'[p].st = proc[p].st
                       /\ proc'[p].child = proc[p].child
                       /\ proc'[p].name = proc[p].name
  <2>1. CASE CreateKernel(Main) BY <2>1 DEF CreateKernel
  <2>2. CASE ~CreateKernel(Main)
    BY <2>2, ServerTypes, ProcessKept DEF ServerInv
  <2> QED BY <2>1, <2>2
<1> QED BY <1>1 DEF Unreaped

(* A child of m stays one, and dead or alive, until it is waited for by an *)
(* operation on m.                                                         *)
LEMMA OtherChildren ==
  ASSUME ServerInv, Step(Main), NEW m \in Names, m # frame[Main].name
  PROVE  /\ Unreaped(m)' = Unreaped(m)
         /\ \A p \in Unreaped(m) : proc'[p].st = proc[p].st
<1> USE ServerTypes
<1>0. proc \in [Procs -> Process] /\ FrameOK /\ heap \in [Objs -> VMStruct]
  OBVIOUS
<1> SUFFICES ASSUME NEW p \in Procs
             PROVE  /\ p \in Unreaped(m)' <=> p \in Unreaped(m)
                    /\ p \in Unreaped(m) => proc'[p].st = proc[p].st
  BY DEF Unreaped
<1>1. CASE StartFork(Main)
  BY <1>0, <1>1 DEF StartFork, Unreaped
<1>2. CASE StopWait(Main)
  <2> DEFINE o == frame[Main].target
  <2>0. At(Main, "stop_wait") BY <1>2 DEF StopWait
  <2>1. o \in Objs /\ heap[o].name = frame[Main].name /\ heap[o].state = "stopping"
    <3>1. o \in Objs BY <1>0, <2>0 DEF At, FrameOK, InStop
    <3>2. NamesMatch /\ TransientUnderLock
      BY DEF ServerInv, ProcessInv, LockInv
    <3>3. heap[o].name = frame[Main].name
      BY <3>1, <3>2, VMManagerAssumption DEF NamesMatch
    <3>4. Stopping(Main, o) BY <2>0 DEF Stopping, At
    <3> QED BY <3>1, <3>2, <3>3, <3>4 DEF TransientUnderLock
  <2>2. /\ heap[o].process # NoProc
        /\ proc[heap[o].process].name = heap[o].name
    BY <2>1 DEF ServerInv, ProcessInv, ProcessKnown
  <2>3. proc' = [proc EXCEPT ![heap[o].process] = NoProcess]
    BY <1>2 DEF StopWait
  <2>4. p = heap[o].process => p \notin Unreaped(m) /\ p \notin Unreaped(m)'
    BY <1>0, <2>1, <2>2, <2>3 DEF Unreaped, NoProcess
  <2>5. p # heap[o].process => proc'[p] = proc[p]
    BY <1>0, <2>3
  <2> QED BY <2>4, <2>5 DEF Unreaped
<1>3. CASE ~StartFork(Main) /\ ~StopWait(Main)
  BY <1>3, SameChildren
<1> QED BY <1>1, <1>2, <1>3

(* The VMs an operation is not about stay as they are.                     *)
LEMMA OtherVMs ==
  ASSUME ServerInv, Step(Main), NEW m \in Names, m # frame[Main].name
  PROVE  /\ VMOK(m)'
         /\ vms'[m] = vms[m]
         /\ vms[m] # NoObj => heap'[vms[m]] = heap[vms[m]]
<1>1. vms'[m] = vms[m] /\ kern'[m] = kern[m] /\ file'[m] = file[m]
  BY OtherFiles
<1>2. Unreaped(m)' = Unreaped(m) BY OtherChildren
<1>3. ASSUME vms[m] # NoObj PROVE heap'[vms[m]] = heap[vms[m]]
  <2>1. vms[m] \in Objs /\ heap[vms[m]].name = m
    BY <1>3, ServerTypes
  <2>2. /\ frame[Main].vm # NoObj => heap[frame[Main].vm].name = frame[Main].name
        /\ frame[Main].target # NoObj
             => heap[frame[Main].target].name = frame[Main].name
    BY ServerTypes DEF ServerInv, ProcessInv, LockInv, NamesMatch
  <2>3. vms[m] # frame[Main].vm /\ vms[m] # frame[Main].target
    BY <1>3, <2>1, <2>2
  <2>4. ~Unreachable(vms[m]) BY DEF Unreachable
  <2> QED BY <2>1, <2>3, <2>4, OtherStructs
<1>4. VMOK(m) BY DEF ServerInv
<1>5. VMOK(m)' BY <1>1, <1>2, <1>3, <1>4 DEF VMOK
<1> QED BY <1>1, <1>3, <1>5

----------------------------------------------------------------------------
(* The VM an operation is about                                            *)

(* Locks and transient states, with one caller.                            *)
LEMMA OneCaller ==
  ASSUME ServerInv, NEW o \in Objs
  PROVE  /\ heap[o].mu = Main
              <=> Starting(Main, o) \/ Stopping(Main, o) \/ Destroying(Main, o)
         /\ heap[o].state = "starting" <=> Starting(Main, o)
         /\ heap[o].state = "stopping" <=> Stopping(Main, o)
<1>1. TransientUnderLock BY DEF ServerInv, ProcessInv, LockInv
<1> QED BY <1>1, MCPServerAssumption DEF TransientUnderLock

(* Nothing is claimed of a caller that is in no operation.                 *)
LEMMA IdleMain == ASSUME ServerInv, Return(Main) PROVE MainInv'
<1>1. frame'[Main] = Idle BY ServerTypes DEF Return
<1> QED BY <1>1 DEF MainInv, Idle, Creating, Removing, HasVM, InStop

(* Create.                                                                 *)
LEMMA CreateOK ==
  ASSUME ServerInv, Step(Main), NEW n \in Names, n = frame[Main].name,
         CreateSave(Main) \/ CreateWrite(Main) \/ CreateKernel(Main)
           \/ CreateFails(Main)
  PROVE  MainInv' /\ VMOK(n)'
<1> USE ServerTypes
<1>0. /\ Main \in Goroutines
      /\ vms \in [Names -> Objs \cup {NoObj}]
      /\ heap \in [Objs -> VMStruct]
      /\ frame \in [Goroutines -> Frame]
      /\ kern \in [Names -> BOOLEAN]
      /\ file \in [Names -> FileStates]
      /\ VMOK(n)
  BY DEF ServerInv
<1>1. frame[Main].pc \in Creating /\ vms[n] = NoObj
  BY DEF CreateSave, CreateWrite, CreateKernel, CreateFails, At, ServerInv, MainInv,
         Creating
<1>2. Unreaped(n) = {}
  BY <1>0, <1>1 DEF VMOK
<1>3. Unreaped(n)' = Unreaped(n)
  BY <1>1, SameChildren DEF Creating, StartFork, StopWait, At
<1>4. CASE CreateSave(Main) \/ CreateWrite(Main)
  <2>1. /\ UNCHANGED <<vms, kern, heap>>
        /\ frame'[Main].name = n
        /\ frame'[Main].pc \in {"create_write", "create_kernel"}
        /\ frame'[Main].pc = "create_kernel" => file'[n] = "full"
    BY <1>0, <1>4 DEF CreateSave, CreateWrite, Goto, Frame
  <2>3. MainInv'
    BY <1>1, <2>1 DEF MainInv, Creating, Removing, HasVM, InStop
  <2>4. VMOK(n)' BY <1>1, <1>2, <1>3, <2>1 DEF VMOK
  <2> QED BY <2>3, <2>4
<1>5. CASE CreateKernel(Main)
  <2>1. MainInv' BY <1>5, IdleMain DEF CreateKernel
  <2>2. PICK o \in Objs : /\ heap' = [heap EXCEPT ![o] = NewVM(n)]
                          /\ vms' = [vms EXCEPT ![n] = o]
    BY <1>5 DEF CreateKernel
  <2>3. vms'[n] = o /\ heap'[o] = NewVM(n) BY <1>0, <2>2
  <2>4. file'[n] = "full"
    BY <1>5 DEF CreateKernel, ServerInv, MainInv, At
  <2>5. VMOK(n)'
    <3>1. vms'[n] # NoObj BY <2>3, VMManagerAssumption
    <3>2. heap'[o].state = "defined" /\ heap'[o].handle = FALSE
      BY <2>3 DEF NewVM, Unused
    <3> QED BY <1>2, <1>3, <2>3, <2>4, <3>1, <3>2 DEF VMOK
  <2> QED BY <2>1, <2>5
<1>6. CASE CreateFails(Main)
  <2>1. MainInv' BY <1>6, IdleMain DEF CreateFails
  <2>2. UNCHANGED <<vms, kern, heap>> BY <1>6 DEF CreateFails
  <2>3. VMOK(n)' BY <1>1, <1>2, <1>3, <2>2 DEF VMOK
  <2> QED BY <2>1, <2>3
<1> QED BY <1>4, <1>5, <1>6

(* Start.                                                                  *)
LEMMA StartOK ==
  ASSUME ServerInv, Step(Main), NEW n \in Names, n = frame[Main].name,
         StartRefused(Main) \/ StartLock(Main) \/ StartOpen(Main)
           \/ StartFork(Main) \/ StartFails(Main)
  PROVE  MainInv' /\ VMOK(n)'
<1> DEFINE o == frame[Main].vm
<1>0. /\ Main \in Goroutines
      /\ vms \in [Names -> Objs \cup {NoObj}]
      /\ heap \in [Objs -> VMStruct]
      /\ frame \in [Goroutines -> Frame]
      /\ kern \in [Names -> BOOLEAN]
      /\ proc \in [Procs -> Process]
      /\ VMOK(n)
  BY ServerTypes DEF ServerInv
<1>1. /\ frame[Main].pc \in {"start_lock", "start_open", "start_fork"}
      /\ UNCHANGED <<vms, kern, file>>
  BY DEF StartRefused, StartLock, StartOpen, StartFork, StartFails, At
<1>2. o \in Objs /\ vms[n] = o /\ o # NoObj
  BY <1>1, VMManagerAssumption DEF ServerInv, MainInv, HasVM
<1>3. At(Main, "start_open") \/ At(Main, "start_fork") => heap[o].state = "starting"
  BY <1>2, OneCaller DEF Starting, At
<1>4. CASE StartRefused(Main)
  <2>1. MainInv' BY <1>4, IdleMain DEF StartRefused
  <2>2. UNCHANGED heap /\ ~StartFork(Main) /\ ~StopWait(Main)
    BY <1>4 DEF StartRefused, StartFork, StopWait, At
  <2>3. VMOK(n)' BY <1>0, <1>1, <2>2, SameChildren DEF VMOK, At
  <2> QED BY <2>1, <2>3
<1>5. CASE StartLock(Main)
  <2>1. /\ frame'[Main].pc = "start_open"
        /\ frame'[Main].name = n
        /\ frame'[Main].vm = o
    BY <1>0, <1>5 DEF StartLock, Goto, Frame
  <2>2. heap'[o].state = "starting"
    BY <1>0, <1>2, <1>5 DEF StartLock, VMStruct
  <2>3. MainInv'
    BY <1>1, <1>2, <2>1 DEF MainInv, Creating, Removing, HasVM, InStop
  <2>4. heap[o].state \notin {"running", "stopping"}
    BY <1>2, <1>5, OneCaller DEF StartLock, At, Stopping
  <2>5. ~StartFork(Main) /\ ~StopWait(Main)
    BY <1>5 DEF StartLock, StartFork, StopWait, At
  <2>6. Unreaped(n)' = {} BY <1>0, <1>2, <2>4, <2>5, SameChildren DEF VMOK
  <2>7. VMOK(n)' BY <1>0, <1>1, <1>2, <1>5, <2>2, <2>6 DEF VMOK, At, StartLock
  <2> QED BY <2>3, <2>7
<1>6. CASE StartOpen(Main)
  <2>1. /\ frame'[Main].pc = "start_fork"
        /\ frame'[Main].name = n
        /\ frame'[Main].vm = o
        /\ kern[n]
    BY <1>0, <1>6 DEF StartOpen, Goto, Frame
  <2>2. heap'[o].state = "starting" /\ heap'[o].handle
    BY <1>0, <1>2, <1>3, <1>6 DEF StartOpen, VMStruct
  <2>3. MainInv'
    BY <1>1, <1>2, <2>1, <2>2 DEF MainInv, Creating, Removing, HasVM, InStop
  <2>4. heap[o].state = "starting" BY <1>3, <1>6 DEF StartOpen
  <2>5. ~StartFork(Main) /\ ~StopWait(Main)
    BY <1>6 DEF StartOpen, StartFork, StopWait, At
  <2>6. Unreaped(n)' = {} BY <1>0, <1>2, <2>4, <2>5, SameChildren DEF VMOK
  <2>7. VMOK(n)' BY <1>0, <1>1, <1>2, <1>6, <2>2, <2>6 DEF VMOK, At, StartOpen
  <2> QED BY <2>3, <2>7
<1>7. CASE StartFork(Main)
  <2>1. MainInv' BY <1>7, IdleMain DEF StartFork
  <2>2. PICK p \in Procs :
          /\ proc[p].st = "free"
          /\ proc' = [proc EXCEPT ![p] = [st |-> "alive", name |-> n,
                                         child |-> TRUE]]
          /\ heap' = [heap EXCEPT ![o].process = p, ![o].state = "running",
                                  ![o].mu = Free]
    BY <1>7 DEF StartFork
  <2>3. /\ heap'[o].state = "running"
        /\ heap'[o].process = p
        /\ heap'[o].handle = heap[o].handle
    BY <1>0, <1>2, <2>2 DEF VMStruct
  <2>4. Unreaped(n) = {}
    BY <1>0, <1>2, <1>3, <1>7 DEF VMOK, StartFork
  <2>5. Unreaped(n)' = {p}
    BY <1>0, <2>2, <2>4 DEF Unreaped
  <2>6. heap[o].handle /\ kern[n] BY <1>7 DEF StartFork, ServerInv, MainInv, At
  <2>7. file[n] # "absent" BY <1>0, <1>2, <1>7 DEF VMOK, StartFork, At
  <2>8. VMOK(n)' BY <1>0, <1>1, <1>2, <2>3, <2>5, <2>6, <2>7 DEF VMOK
  <2> QED BY <2>1, <2>8
<1>8. CASE StartFails(Main)
  <2>1. MainInv' BY <1>8, IdleMain DEF StartFails
  <2>2. heap'[o].state = "error"
    BY <1>0, <1>2, <1>8 DEF StartFails, VMStruct
  <2>3. heap[o].state = "starting" BY <1>3, <1>8 DEF StartFails
  <2>4. CASE StartFork(Main)
    BY <1>8, <2>4, <2>3, <1>7
  <2>5. CASE ~StartFork(Main)
    <3>1. Unreaped(n)' = {}
      BY <1>0, <1>1, <1>2, <2>3, <2>5, SameChildren DEF VMOK, StopWait, At
    <3>2. file[n] # "absent"
      BY <1>0, <1>1, <1>2 DEF VMOK, At
    <3> QED BY <1>0, <1>1, <1>2, <2>1, <2>2, <3>1, <3>2 DEF VMOK
  <2> QED BY <2>4, <2>5
<1> QED BY <1>4, <1>5, <1>6, <1>7, <1>8

(* Stop: a Destroy that called it holds the lock it waits for.             *)
LEMMA StopLockFree ==
  ASSUME ServerInv, At(Main, "stop_lock"), heap[frame[Main].target].mu = Free
  PROVE  frame[Main].vm = NoObj
<1> SUFFICES ASSUME frame[Main].vm # NoObj PROVE FALSE
  OBVIOUS
<1>1. frame[Main].vm = frame[Main].target /\ frame[Main].target \in Objs
  BY ServerTypes DEF ServerInv, MainInv, At, InStop, FrameOK
<1>2. Destroying(Main, frame[Main].target) BY <1>1 DEF Destroying, At
<1>3. heap[frame[Main].target].mu = Main BY <1>1, <1>2, OneCaller
<1> QED BY <1>3, VMManagerAssumption, ServerTypes

LEMMA StopOK ==
  ASSUME ServerInv, Step(Main), NEW n \in Names, n = frame[Main].name,
         StopGet(Main) \/ StopRefused(Main) \/ StopLock(Main)
           \/ StopSignal(Main) \/ StopWait(Main)
  PROVE  MainInv' /\ VMOK(n)'
<1> DEFINE o == vms[n]
<1>0. /\ Main \in Goroutines
      /\ vms \in [Names -> Objs \cup {NoObj}]
      /\ heap \in [Objs -> VMStruct]
      /\ frame \in [Goroutines -> Frame]
      /\ proc \in [Procs -> Process]
      /\ FrameOK
      /\ VMOK(n)
  BY ServerTypes DEF ServerInv
<1>1. /\ frame[Main].pc \in {"stop_get"} \cup InStop
      /\ UNCHANGED <<vms, kern, file>>
  BY DEF StopGet, StopRefused, StopLock, StopSignal, StopWait, At, InStop
<1>2. o \in Objs /\ o # NoObj
  BY <1>0, <1>1, VMManagerAssumption DEF ServerInv, MainInv, FrameOK
<1>3. file[n] # "absent" BY <1>0, <1>1, <1>2 DEF VMOK, At, InStop
<1>4. frame[Main].pc \in InStop => frame[Main].target = o
  BY DEF ServerInv, MainInv
<1>5. CASE StopGet(Main)
  <2>1. /\ frame'[Main].pc = "stop_lock"
        /\ frame'[Main].name = n
        /\ frame'[Main].vm = o
        /\ frame'[Main].target = o
    BY <1>0, <1>5 DEF StopGet, Frame, At, ServerInv, MainInv
  <2>2. MainInv'
    BY <1>1, <1>2, <2>1 DEF MainInv, Creating, Removing, HasVM, InStop
  <2>3. UNCHANGED heap /\ ~StartFork(Main) /\ ~StopWait(Main)
    BY <1>5 DEF StopGet, StartFork, StopWait, At
  <2>4. VMOK(n)' BY <1>0, <1>1, <1>3, <2>3, SameChildren DEF VMOK
  <2> QED BY <2>2, <2>4
<1>6. CASE StopRefused(Main)
  <2>1. MainInv' BY <1>6, IdleMain DEF StopRefused
  <2>2. /\ ~At(Main, "stop_get")
        /\ At(Main, "stop_lock") /\ heap[frame[Main].target].mu = Free
    BY <1>2, <1>6 DEF StopRefused, At
  <2>3. UNCHANGED heap
    BY <1>6, <2>2, StopLockFree DEF StopRefused, Nested
  <2>4. ~StartFork(Main) /\ ~StopWait(Main)
    BY <2>2 DEF StartFork, StopWait, At
  <2>5. VMOK(n)' BY <1>0, <1>1, <1>3, <2>3, <2>4, SameChildren DEF VMOK
  <2> QED BY <2>1, <2>5
<1>7. CASE StopLock(Main)
  <2>1. /\ frame[Main].pc = "stop_lock"
        /\ frame[Main].target = o
        /\ frame[Main].vm = NoObj
    BY <1>4, <1>7, StopLockFree DEF StopLock, At, InStop
  <2>2. /\ frame'[Main].pc = "stop_signal"
        /\ frame'[Main].name = n
        /\ frame'[Main].vm = NoObj
        /\ frame'[Main].target = o
    BY <1>0, <1>7, <2>1 DEF StopLock, Goto, Frame
  <2>3. MainInv'
    BY <1>1, <1>2, <2>2 DEF MainInv, Creating, Removing, HasVM, InStop
  <2>4. /\ heap[o].state = "running"
        /\ heap'[o].state = "stopping"
        /\ heap'[o].process = heap[o].process
        /\ heap'[o].handle = heap[o].handle
    <3>1. /\ heap[o].state = "running"
          /\ heap' = [heap EXCEPT ![o].state = "stopping", ![o].mu = Main]
      BY <1>7, <2>1 DEF StopLock
    <3>2. o \in DOMAIN heap
      BY <1>0, <1>2
    <3> QED BY <3>1, <3>2
  <2>5. ~StartFork(Main) /\ ~StopWait(Main)
    BY <2>1 DEF StartFork, StopWait, At
  <2>6. VMOK(n)' BY <1>0, <1>1, <1>3, <2>4, <2>5, SameChildren DEF VMOK
  <2> QED BY <2>3, <2>6
<1>8. CASE StopSignal(Main)
  <2>1. /\ frame[Main].pc = "stop_signal"
        /\ frame[Main].target = o
        /\ frame[Main].vm \in {NoObj, o}
    BY <1>4, <1>8 DEF StopSignal, At, InStop, ServerInv, MainInv
  <2>2. /\ frame'[Main].pc = "stop_wait"
        /\ frame'[Main].name = n
        /\ frame'[Main].vm \in {NoObj, o}
        /\ frame'[Main].target = o
    BY <1>0, <1>8, <2>1 DEF StopSignal, Goto, Frame
  <2>3. MainInv'
    BY <1>1, <1>2, <2>2 DEF MainInv, Creating, Removing, HasVM, InStop
  <2>4. UNCHANGED heap BY <1>8 DEF StopSignal
  <2>5. ~StartFork(Main) /\ ~StopWait(Main)
    BY <2>1 DEF StartFork, StopWait, At
  <2>6. VMOK(n)' BY <1>0, <1>1, <1>3, <2>4, <2>5, SameChildren DEF VMOK
  <2> QED BY <2>3, <2>6
<1>9. CASE StopWait(Main)
  <2>1. /\ frame[Main].pc = "stop_wait"
        /\ frame[Main].target = o
        /\ frame[Main].vm \in {NoObj, o}
        /\ frame[Main].target # frame[Main].vm
    <3>1. frame[Main].pc = "stop_wait" BY <1>9 DEF StopWait, At
    <3>2. TargetApart /\ MainInv BY DEF ServerInv, ProcessInv, LockInv
    <3> QED BY <1>0, <1>4, <3>1, <3>2 DEF TargetApart, MainInv, InStop
  <2>2. Return(Main) BY <1>9, <2>1 DEF StopWait, Nested
  <2>3. MainInv' BY <2>2, IdleMain
  <2>4. heap[o].state = "stopping" /\ heap[o].process # NoProc
    <3>1. heap[o].state = "stopping"
      BY <1>2, <2>1, OneCaller DEF Stopping
    <3> QED BY <1>2, <3>1 DEF ServerInv, ProcessInv, ProcessKnown
  <2>5. /\ heap'[o].state = "stopped"
        /\ ~heap'[o].handle
        /\ proc' = [proc EXCEPT ![heap[o].process] = NoProcess]
    BY <1>0, <1>2, <1>9, <2>1, StoppedStruct DEF StopWait
  <2>6. Unreaped(n) \in {{}, {heap[o].process}} BY <1>0 DEF VMOK
  <2>7. ASSUME NEW p \in Unreaped(n)' PROVE FALSE
    <3>1. p = heap[o].process => proc'[p] = NoProcess BY <1>0, <2>5, <2>7 DEF Unreaped
    <3>2. p # heap[o].process => p \in Unreaped(n)
      BY <1>0, <2>5, <2>7 DEF Unreaped
    <3> QED BY <2>6, <2>7, <3>1, <3>2 DEF Unreaped, NoProcess
  <2>8. VMOK(n)' BY <1>0, <1>1, <1>3, <2>5, <2>7 DEF VMOK
  <2> QED BY <2>3, <2>8
<1> QED BY <1>5, <1>6, <1>7, <1>8, <1>9

(* Destroy, of a VM that is not running; and GetStatus.                    *)
LEMMA DestroyOK ==
  ASSUME ServerInv, Step(Main), NEW n \in Names, n = frame[Main].name,
         DestroyLock(Main) \/ DestroyKernel(Main) \/ DestroyFile(Main)
           \/ DestroyFileFails(Main) \/ DestroyUnmap(Main) \/ Query(Main)
  PROVE  MainInv' /\ VMOK(n)'
<1> DEFINE o == vms[n]
<1>0. /\ Main \in Goroutines
      /\ vms \in [Names -> Objs \cup {NoObj}]
      /\ heap \in [Objs -> VMStruct]
      /\ frame \in [Goroutines -> Frame]
      /\ kern \in [Names -> BOOLEAN]
      /\ file \in [Names -> FileStates]
      /\ VMOK(n)
      /\ MainInv
  BY ServerTypes DEF ServerInv
<1>1. frame[Main].pc \in {"destroy_lock", "query_lock"} \cup Removing
  BY DEF DestroyLock, DestroyKernel, DestroyFile, DestroyFileFails, DestroyUnmap,
         Query, At, Removing
<1>2. o \in Objs /\ o # NoObj /\ frame[Main].vm = o
  BY <1>0, <1>1, VMManagerAssumption DEF MainInv, HasVM, Removing
<1>3. Unreaped(n)' = Unreaped(n) /\ UNCHANGED proc
  BY <1>1, SameChildren
  DEF StartFork, StopWait, At, Removing, DestroyLock, DestroyKernel, DestroyFile,
      DestroyFileFails, DestroyUnmap, Query
<1>4. frame[Main].pc \in Removing
        => heap[o].state \notin {"running", "stopping", "starting"} /\ Unreaped(n) = {}
  BY <1>0, <1>2 DEF MainInv, VMOK
<1>5. CASE DestroyLock(Main)
  <2>1. /\ frame'[Main].pc = IF heap[o].state = "running" THEN "stop_get"
                             ELSE "destroy_kernel"
        /\ frame'[Main].name = n
        /\ frame'[Main].vm = o
        /\ frame'[Main].target = frame[Main].target
    BY <1>0, <1>2, <1>5 DEF DestroyLock, Goto, Frame
  <2>2. /\ heap'[o].state = heap[o].state
        /\ heap'[o].handle = heap[o].handle
        /\ heap'[o].process = heap[o].process
        /\ UNCHANGED <<vms, kern, file>>
        /\ At(Main, "destroy_lock")
    BY <1>0, <1>2, <1>5 DEF DestroyLock, VMStruct
  <2>3. heap[o].state \notin {"starting", "stopping"}
    BY <1>2, <2>2, OneCaller DEF Starting, Stopping, At
  <2>4. MainInv'
    BY <1>2, <2>1, <2>2, <2>3 DEF MainInv, Creating, Removing, HasVM, InStop
  <2>5. VMOK(n)' BY <1>0, <1>3, <2>2 DEF VMOK, At
  <2> QED BY <2>4, <2>5
<1>6. CASE DestroyKernel(Main)
  <2>1. /\ frame'[Main].pc = "destroy_file"
        /\ frame'[Main].name = n
        /\ frame'[Main].vm = o
    BY <1>0, <1>2, <1>6 DEF DestroyKernel, Goto, Frame
  <2>2. /\ heap'[o].state = heap[o].state
        /\ ~heap'[o].handle
        /\ UNCHANGED <<vms, file>>
        /\ At(Main, "destroy_kernel")
    BY <1>0, <1>2, <1>6 DEF DestroyKernel, VMStruct
  <2>4. frame[Main].pc \in Removing BY <2>2 DEF At, Removing
  <2>5. MainInv'
    BY <1>2, <1>4, <2>1, <2>2, <2>4 DEF MainInv, Creating, Removing, HasVM, InStop
  <2>6. VMOK(n)' BY <1>0, <1>3, <1>4, <2>2, <2>4 DEF VMOK, At
  <2> QED BY <2>5, <2>6
<1>7. CASE DestroyFile(Main)
  <2>1. /\ frame'[Main].pc = "destroy_unmap"
        /\ frame'[Main].name = n
        /\ frame'[Main].vm = o
    BY <1>0, <1>2, <1>7 DEF DestroyFile, Goto, Frame
  <2>2. /\ UNCHANGED <<heap, vms, kern>>
        /\ file'[n] = "absent"
        /\ frame[Main].pc \in Removing
    BY <1>0, <1>7 DEF DestroyFile, MainInv, At, Removing
  <2>3. MainInv'
    BY <1>2, <1>4, <2>1, <2>2 DEF MainInv, Creating, Removing, HasVM, InStop
  <2>4. VMOK(n)' BY <1>0, <1>3, <1>4, <2>1, <2>2 DEF VMOK, At
  <2> QED BY <2>3, <2>4
<1>8. CASE DestroyFileFails(Main)
  <2>1. MainInv' BY <1>8, IdleMain DEF DestroyFileFails
  <2>2. /\ heap'[o].state = heap[o].state
        /\ heap'[o].handle = heap[o].handle
        /\ heap'[o].process = heap[o].process
        /\ UNCHANGED <<vms, kern, file>>
        /\ file[n] # "absent"
    BY <1>0, <1>2, <1>8 DEF DestroyFileFails, VMStruct
  <2>3. VMOK(n)' BY <1>0, <1>3, <2>2 DEF VMOK
  <2> QED BY <2>1, <2>3
<1>9. CASE DestroyUnmap(Main)
  <2>1. MainInv' BY <1>9, IdleMain DEF DestroyUnmap
  <2>2. /\ vms'[n] = NoObj
        /\ frame[Main].pc \in Removing
    BY <1>0, <1>9 DEF DestroyUnmap, MainInv, At, Removing
  <2>3. VMOK(n)' BY <1>3, <1>4, <2>2 DEF VMOK
  <2> QED BY <2>1, <2>3
<1>10. CASE Query(Main)
  <2>1. MainInv' BY <1>10, IdleMain DEF Query
  <2>2. UNCHANGED <<vms, heap, kern, file>> /\ ~At(Main, "destroy_unmap")
    BY <1>10 DEF Query, At
  <2>3. VMOK(n)' BY <1>0, <1>3, <2>2 DEF VMOK
  <2> QED BY <2>1, <2>3
<1> QED BY <1>5, <1>6, <1>7, <1>8, <1>9, <1>10

----------------------------------------------------------------------------
(* ServerInv is inductive                                                  *)

(* A call begins an operation on a VM that is, or, of Create, is not.      *)
LEMMA CallOK ==
  ASSUME ServerInv, Calls(Main)
  PROVE  MainInv' /\ \A n \in Names : VMOK(n)'
<1> USE VMManagerAssumption
<1>0. /\ Main \in Goroutines
      /\ vms \in [Names -> Objs \cup {NoObj}]
      /\ frame \in [Goroutines -> Frame]
      /\ \A n \in Names : VMOK(n)
  BY ServerTypes DEF ServerInv
<1>1. At(Main, "idle") /\ UNCHANGED <<vms, heap, kern, file, proc>>
  BY DEF Calls, ShutdownCall, CreateCall, StartCall, StopCall, DestroyCall,
         QueryCall, Call
<1>2. \A n \in Names : VMOK(n)'
  BY <1>0, <1>1 DEF VMOK, At, Unreaped
<1>3. ~ShutdownCall(Main) BY MCPServerAssumption DEF ShutdownCall
<1>4. ASSUME NEW n \in Names, CreateCall(Main, n) PROVE MainInv'
  BY <1>0, <1>1, <1>4 DEF CreateCall, MainInv, Idle, Creating, Removing, HasVM, InStop
<1>5. ASSUME NEW n \in Names, StopCall(Main, n) PROVE MainInv'
  BY <1>0, <1>1, <1>5 DEF StopCall, MainInv, Idle, Creating, Removing, HasVM, InStop
<1>6. ASSUME NEW n \in Names, NEW l \in {"start_lock", "destroy_lock", "query_lock"},
             Call(Main, n, l)
      PROVE  MainInv'
  BY <1>0, <1>1, <1>6 DEF Call, MainInv, Idle, Creating, Removing, HasVM, InStop
<1>7. MainInv'
  BY <1>3, <1>4, <1>5, <1>6 DEF Calls, StartCall, DestroyCall, QueryCall
<1> QED BY <1>2, <1>7

(* A new server registers nothing but what has a configuration on disk.    *)
LEMMA LoadOK ==
  ASSUME ServerInv, LoadAllVMs
  PROVE  \A n \in Names :
           vms'[n] # NoObj => /\ file[n] # "absent"
                              /\ heap'[vms'[n]] = NewVM(n)
<1>1. PICK L \in SUBSET Names :
        /\ \A n \in L : file[n] # "absent"
        /\ \E at \in [L -> Objs] :
             /\ \A m, n \in L : at[m] = at[n] => m = n
             /\ vms' = [n \in Names |-> IF n \in L THEN at[n] ELSE NoObj]
             /\ heap' = [o \in Objs |->
                           IF \E n \in L : at[n] = o
                           THEN NewVM(CHOOSE n \in L : at[n] = o) ELSE Unused]
  BY DEF LoadAllVMs
<1>2. PICK at \in [L -> Objs] :
        /\ \A m, n \in L : at[m] = at[n] => m = n
        /\ vms' = [n \in Names |-> IF n \in L THEN at[n] ELSE NoObj]
        /\ heap' = [o \in Objs |->
                      IF \E n \in L : at[n] = o
                      THEN NewVM(CHOOSE n \in L : at[n] = o) ELSE Unused]
  BY <1>1
<1>3. ASSUME NEW n \in Names
      PROVE  vms'[n] # NoObj => /\ file[n] # "absent"
                                /\ heap'[vms'[n]] = NewVM(n)
  <2>1. CASE n \in L
    <3>1. vms'[n] = at[n] /\ at[n] \in Objs BY <1>2, <2>1
    <3>2. (CHOOSE m \in L : at[m] = at[n]) = n BY <1>2, <2>1
    <3>3. heap'[at[n]] = NewVM(n) BY <1>2, <2>1, <3>2
    <3> QED BY <1>1, <2>1, <3>1, <3>3, VMManagerAssumption
  <2>2. CASE n \notin L BY <1>1, <1>2, <2>2
  <2> QED BY <2>1, <2>2
<1> QED BY <1>3

LEMMA NewServerOK ==
  ASSUME ServerInv, Restart \/ Reboot
  PROVE  MainInv' /\ \A n \in Names : VMOK(n)'
<1>1. frame'[Main] = Idle /\ UNCHANGED file /\ LoadAllVMs
  BY ServerTypes DEF Restart, Reboot
<1>2. MainInv' BY <1>1 DEF MainInv, Idle, Creating, Removing, HasVM, InStop
<1>3. ASSUME NEW p \in Procs PROVE proc'[p].st = "free" \/ ~proc'[p].child
  BY ServerTypes DEF Restart, Reboot, NoProcess, Process
<1>4. ASSUME NEW n \in Names PROVE VMOK(n)'
  <2>1. Unreaped(n)' = {} BY <1>3 DEF Unreaped
  <2>3. vms'[n] # NoObj => heap'[vms'[n]].state = "defined" /\ ~heap'[vms'[n]].handle
    BY <1>1, LoadOK DEF NewVM, Unused
  <2> QED BY <1>1, <2>1, <2>3, LoadOK DEF VMOK
<1> QED BY <1>2, <1>4

(* A process that exits is a child still, until it is waited for.          *)
LEMMA ExitOK ==
  ASSUME ServerInv, NEW p \in Procs, ProcExit(p)
  PROVE  MainInv' /\ \A n \in Names : VMOK(n)'
<1>1. UNCHANGED <<vms, heap, frame, kern, file>> BY DEF ProcExit
<1>2. ASSUME NEW n \in Names PROVE Unreaped(n)' = Unreaped(n)
  <2>1. ASSUME NEW q \in Procs PROVE q \in Unreaped(n)' <=> q \in Unreaped(n)
    BY ServerTypes DEF ProcExit, Unreaped, NoProcess, Process
  <2> QED BY <2>1 DEF Unreaped
<1>3. MainInv' BY <1>1 DEF MainInv, ServerInv
<1>4. \A n \in Names : VMOK(n)' BY <1>1, <1>2 DEF VMOK, ServerInv, At
<1> QED BY <1>3, <1>4

(* An operation has a VM's name.                                           *)
LEMMA StepNamed == ASSUME ServerInv, Step(Main) PROVE frame[Main].name \in Names
<1>1. frame[Main].pc # "idle"
  BY ServerSteps
  DEF Step, At, CreateSave, CreateWrite, CreateKernel, CreateFails, StartRefused,
      StartLock, StartOpen, StartFork, StartFails, StopGet, StopRefused, StopLock,
      StopSignal, StopWait, DestroyLock, DestroyKernel, DestroyFile,
      DestroyFileFails, DestroyUnmap, Query
<1> QED BY <1>1, ServerTypes DEF ServerInv, MainInv, FrameOK, HasName, Frame

(* An operation's step.                                                    *)
LEMMA StepOK ==
  ASSUME ServerInv, Step(Main)
  PROVE  MainInv' /\ \A n \in Names : VMOK(n)'
<1> PICK n \in Names : n = frame[Main].name BY StepNamed
<1>2. MainInv' /\ VMOK(n)'
  BY ServerSteps, CreateOK, StartOK, StopOK, DestroyOK DEF Step
<1>3. \A m \in Names : m # n => VMOK(m)' BY OtherVMs
<1> QED BY <1>2, <1>3

LEMMA NextServerInv == ServerInv /\ [Next]_vars => ServerInv'
<1> SUFFICES ASSUME ServerInv, [Next]_vars PROVE ServerInv'
  OBVIOUS
<1>1. ProcessInv' BY NextProcessInv DEF ServerInv
<1>2. CASE UNCHANGED vars
  BY <1>2 DEF vars, ServerInv, ProcessInv, LockInv, TypeInv, TypeOK, FrameOK, NamesMatch,
              TransientUnderLock, TargetApart, ProcessKnown, ProcessOwnedOnce,
              Starting, Stopping, Destroying, MainInv, VMOK, Unreaped, At
<1>3. Goroutines = {Main} BY MCPServerAssumption
<1>4. MainInv' /\ (\A n \in Names : VMOK(n)') => ServerInv'
  BY <1>1 DEF ServerInv
<1> QED
  BY <1>2, <1>3, <1>4, CallOK, StepOK, ExitOK, NewServerOK DEF Next

LEMMA InitServerInv == Init => ServerInv
<1> SUFFICES ASSUME Init PROVE ServerInv
  OBVIOUS
<1>1. ProcessInv BY InitProcessInv
<1>2. MainInv
  BY MCPServerAssumption DEF Init, MainInv, Idle, Creating, Removing, HasVM, InStop
<1>3. \A n \in Names : VMOK(n)
  BY DEF Init, VMOK, Unreaped, NoProcess
<1> QED BY <1>1, <1>2, <1>3 DEF ServerInv

LEMMA ServerSafety == MCPSpec => []ServerInv
BY ServerRefinesManager, InitServerInv, NextServerInv, PTL DEF Spec

(* Start never gives a VM a second process and Destroy never leaves one    *)
(* behind: every bhyve process of the server is the one its VM is running  *)
(* on, whatever failed before.                                             *)
THEOREM NoProcessIsLost == MCPSpec => []NoUnmanagedProcess
<1>1. ServerInv => NoUnmanagedProcess
  BY DEF ServerInv, VMOK, NoUnmanagedProcess
<1> QED BY <1>1, ServerSafety, PTL

(* The libvmmapi handle is open from Start to Stop, and not after: Stop    *)
(* leaks none, through failed Starts too.                                  *)
THEOREM HandlesFollowStates == MCPSpec => []HandleFollowsState
<1>1. ServerInv => HandleFollowsState
  BY DEF ServerInv, VMOK, HandleFollowsState
<1> QED BY <1>1, ServerSafety, PTL

(* A VM's configuration is on disk until Destroy can no longer fail: there *)
(* is a file for every VM the server has, whenever it ends.                *)
THEOREM ConfigurationsSurvive == MCPSpec => []ConfigOutlivesVM
<1>1. ServerInv => ConfigOutlivesVM
  BY MCPServerAssumption DEF ServerInv, VMOK, ConfigOutlivesVM
<1> QED BY <1>1, ServerSafety, PTL

----------------------------------------------------------------------------
(* The lifecycle                                                           *)

(* What a step shows of a VM, when the others are shown unchanged.         *)
LEMMA Becomes ==
  ASSUME NEW n \in Names, NEW l, NEW g, Life'[n] = l, Guest'[n] = g,
         \A m \in Names : m # n => Life'[m] = Life[m] /\ Guest'[m] = Guest[m]
  PROVE  Lifecycle!Become(n, l, g)
<1>1. Life' = [Life EXCEPT ![n] = l] BY DEF Life
<1>2. Guest' = [Guest EXCEPT ![n] = g] BY DEF Guest
<1> QED BY <1>1, <1>2 DEF Lifecycle!Become

LEMMA Stutters ==
  ASSUME \A m \in Names : Life'[m] = Life[m] /\ Guest'[m] = Guest[m]
  PROVE  UNCHANGED <<Life, Guest>>
<1>1. Life' = Life BY DEF Life
<1>2. Guest' = Guest BY DEF Guest
<1> QED BY <1>1, <1>2

(* Guest is what Unreaped and the state of those children make it.         *)
LEMMA SameGuest ==
  ASSUME NEW m \in Names, Unreaped(m)' = Unreaped(m),
         \A p \in Unreaped(m) : proc'[p].st = proc[p].st
  PROVE  Guest'[m] = Guest[m]
BY DEF Guest

LEMMA OtherLives ==
  ASSUME ServerInv, Step(Main), NEW m \in Names, m # frame[Main].name
  PROVE  Life'[m] = Life[m] /\ Guest'[m] = Guest[m]
<1>1. Guest'[m] = Guest[m] BY OtherChildren, SameGuest
<1>2. Life'[m] = Life[m] BY OtherVMs DEF Life
<1> QED BY <1>1, <1>2

LEMMA SameGuests ==
  ASSUME ServerInv, Step(Main), ~StartFork(Main), ~StopWait(Main), NEW m \in Names
  PROVE  Guest'[m] = Guest[m]
BY SameChildren, SameGuest DEF Unreaped

(* An operation's step is a step of its VM's lifecycle, or shows nothing.  *)
LEMMA StepLives ==
  ASSUME ServerInv, Step(Main)
  PROVE  Lifecycle!LifeNext \/ UNCHANGED <<Life, Guest>>
<1> PICK n \in Names : n = frame[Main].name BY StepNamed
<1> DEFINE o == vms[n]
<1>0. /\ Main \in Goroutines
      /\ vms \in [Names -> Objs \cup {NoObj}]
      /\ heap \in [Objs -> VMStruct]
      /\ proc \in [Procs -> Process]
      /\ VMOK(n) /\ VMOK(n)'
      /\ MainInv
  BY ServerTypes, StepOK DEF ServerInv
<1>1. \A m \in Names : m # n => Life'[m] = Life[m] /\ Guest'[m] = Guest[m]
  BY OtherLives
<1>2. CASE CreateKernel(Main)
  <2>1. vms[n] = NoObj
    BY <1>0, <1>2 DEF CreateKernel, MainInv, At, Creating
  <2>2. PICK x \in Objs : /\ heap' = [heap EXCEPT ![x] = NewVM(n)]
                          /\ vms' = [vms EXCEPT ![n] = x]
    BY <1>2 DEF CreateKernel
  <2>3. vms'[n] = x /\ heap'[x].state = "defined" BY <1>0, <2>2 DEF NewVM, Unused
  <2>4. Life[n] = "absent" /\ Life'[n] = "defined"
    BY <2>1, <2>3, VMManagerAssumption DEF Life
  <2>5. Guest'[n] = Guest[n]
    BY <1>2, SameGuests DEF CreateKernel, StartFork, StopWait, At
  <2> QED
    BY <1>1, <2>4, <2>5, Becomes DEF Lifecycle!LifeNext, Lifecycle!Define
<1>3. CASE StartLock(Main) \/ StartFails(Main) \/ StartFork(Main)
  <2>0. /\ frame[Main].vm = o /\ o \in Objs /\ o # NoObj
        /\ UNCHANGED vms
    BY <1>0, <1>3, VMManagerAssumption
    DEF StartLock, StartFails, StartFork, At, MainInv, HasVM
  <2>1. Life[n] = heap[o].state /\ Life'[n] = heap'[o].state
    BY <2>0 DEF Life
  <2>2. At(Main, "start_open") \/ At(Main, "start_fork") => heap[o].state = "starting"
    BY <2>0, OneCaller DEF Starting, At
  <2>3. CASE StartLock(Main)
    <3>1. heap'[o].state = "starting"
      BY <1>0, <2>0, <2>3 DEF StartLock, VMStruct
    <3>2. heap[o].state \notin {"none", "starting", "running", "stopping"}
      BY <1>0, <2>0, <2>3, OneCaller DEF StartLock, At, Starting, Stopping, VMOK
    <3>3. heap[o].state \in States BY <1>0, <2>0 DEF VMStruct
    <3>4. Lifecycle!Settled(n)
      BY <2>1, <3>2, <3>3 DEF Lifecycle!Settled, States
    <3>5. Guest'[n] = Guest[n]
      BY <2>3, SameGuests DEF StartLock, StartFork, StopWait, At
    <3> QED
      BY <1>1, <2>1, <3>1, <3>4, <3>5, Becomes DEF Lifecycle!LifeNext, Lifecycle!Boot
  <2>4. CASE StartFork(Main)
    <3>1. PICK p \in Procs :
            /\ proc' = [proc EXCEPT ![p] = [st |-> "alive", name |-> n,
                                           child |-> TRUE]]
            /\ heap' = [heap EXCEPT ![o].process = p, ![o].state = "running",
                                    ![o].mu = Free]
      BY <2>0, <2>4 DEF StartFork
    <3>2. heap[o].state = "starting" /\ heap'[o].state = "running"
      <4>1. heap[o].state = "starting" BY <2>2, <2>4 DEF StartFork
      <4>2. heap'[o].state = "running" BY <1>0, <2>0, <3>1 DEF VMStruct
      <4> QED BY <4>1, <4>2
    <3>3. Unreaped(n) = {} BY <1>0, <2>0, <3>2 DEF VMOK
    <3>4. p \in Unreaped(n)' /\ proc'[p].st = "alive" BY <1>0, <3>1 DEF Unreaped
    <3>5. Guest[n] = "none" BY <3>3 DEF Guest
    <3>6. Guest'[n] = "alive" BY <3>4 DEF Guest
    <3> QED
      BY <1>1, <2>1, <3>2, <3>5, <3>6, Becomes DEF Lifecycle!LifeNext, Lifecycle!Up
  <2>5. CASE StartFails(Main) /\ ~StartFork(Main)
    <3>1. heap'[o].state = "error"
      BY <1>0, <2>0, <2>5 DEF StartFails, VMStruct
    <3>2. heap[o].state = "starting"
      BY <2>2, <2>5 DEF StartFails
    <3>3. Guest'[n] = Guest[n]
      BY <2>5, SameGuests DEF StartFails, StopWait, At
    <3> QED
      BY <1>1, <2>1, <3>1, <3>2, <3>3, Becomes
      DEF Lifecycle!LifeNext, Lifecycle!BootFails
  <2> QED BY <1>3, <2>3, <2>4, <2>5
<1>4. CASE StopLock(Main) \/ StopWait(Main)
  <2>0. /\ frame[Main].target = o /\ o \in Objs /\ o # NoObj
        /\ UNCHANGED vms
    <3>1. frame[Main].pc \in InStop /\ UNCHANGED vms
      BY <1>4 DEF StopLock, StopWait, At, InStop
    <3>2. frame[Main].target \in Objs BY <3>1, ServerTypes DEF FrameOK
    <3>3. frame[Main].target = o BY <1>0, <3>1 DEF MainInv
    <3> QED BY <3>1, <3>2, <3>3, VMManagerAssumption
  <2>1. Life[n] = heap[o].state /\ Life'[n] = heap'[o].state
    BY <2>0 DEF Life
  <2>2. CASE StopLock(Main)
    <3>1. heap[o].state = "running" /\ heap'[o].state = "stopping"
      BY <1>0, <2>0, <2>2 DEF StopLock, VMStruct
    <3>2. Guest'[n] = Guest[n]
      BY <2>2, SameGuests DEF StopLock, StartFork, StopWait, At
    <3> QED
      BY <1>1, <2>1, <3>1, <3>2, Becomes DEF Lifecycle!LifeNext, Lifecycle!Halt
  <2>3. CASE StopWait(Main)
    <3>1. heap[o].state = "stopping"
      BY <2>0, <2>3, OneCaller DEF StopWait, At, Stopping
    <3>2. heap'[o].state = "stopped"
      BY <1>0, <2>0, <2>3, StoppedStruct DEF StopWait
    <3>3. /\ heap[o].process \in Procs
          /\ proc[heap[o].process].child
          /\ proc[heap[o].process].name = heap[o].name
      <4>1. heap[o].process # NoProc
        BY <2>0, <3>1 DEF ServerInv, ProcessInv, ProcessKnown
      <4>2. heap[o].process \in Procs BY <1>0, <2>0, <4>1 DEF VMStruct
      <4> QED BY <2>0, <4>1, <4>2 DEF ServerInv, ProcessInv, ProcessKnown
    <3>4. heap[o].name = n BY <2>0, ServerTypes
    <3>5. proc[heap[o].process].st = "zombie" BY <2>0, <2>3 DEF StopWait
    <3>6. Unreaped(n) = {heap[o].process}
      BY <1>0, <3>3, <3>4, <3>5 DEF VMOK, Unreaped
    <3>7. Guest[n] = "dead"
      BY <3>5, <3>6 DEF Guest
    <3>8. Unreaped(n)' = {} BY <1>0, <2>0, <3>2 DEF VMOK
    <3>9. Guest'[n] = "none" BY <3>8 DEF Guest
    <3> QED
      BY <1>1, <2>1, <3>1, <3>2, <3>7, <3>9, Becomes
      DEF Lifecycle!LifeNext, Lifecycle!Down
  <2> QED BY <1>4, <2>2, <2>3
<1>5. CASE DestroyUnmap(Main)
  <2>1. /\ o \in Objs /\ o # NoObj
        /\ heap[o].state \notin {"running", "stopping", "starting", "none"}
    BY <1>0, <1>5, VMManagerAssumption
    DEF DestroyUnmap, At, MainInv, HasVM, Removing, VMOK
  <2>2. heap[o].state \in States BY <1>0, <2>1 DEF VMStruct
  <2>3. Lifecycle!Settled(n)
    BY <2>1, <2>2 DEF Lifecycle!Settled, States, Life
  <2>4. Life'[n] = "absent" BY <1>0, <1>5 DEF DestroyUnmap, Life
  <2>5. Guest'[n] = Guest[n]
    BY <1>5, SameGuests DEF DestroyUnmap, StartFork, StopWait, At
  <2> QED
    BY <1>1, <2>3, <2>4, <2>5, Becomes DEF Lifecycle!LifeNext, Lifecycle!Remove
<1>6. CASE /\ ~CreateKernel(Main) /\ ~StartLock(Main) /\ ~StartFails(Main)
           /\ ~StartFork(Main) /\ ~StopLock(Main) /\ ~StopWait(Main)
           /\ ~DestroyUnmap(Main)
  <2>1. Guest'[n] = Guest[n] BY <1>6, SameGuests
  <2>2. /\ UNCHANGED vms
        /\ \A x \in Objs : heap'[x].state = heap[x].state
    <3> USE <1>0 DEF VMStruct
    <3>1. CASE CreateSave(Main) BY <3>1 DEF CreateSave
    <3>2. CASE CreateWrite(Main) BY <3>2 DEF CreateWrite
    <3>3. CASE CreateFails(Main) BY <3>3 DEF CreateFails
    <3>4. CASE StartRefused(Main) BY <3>4 DEF StartRefused
    <3>5. CASE StartOpen(Main) BY <3>5 DEF StartOpen
    <3>6. CASE StopGet(Main) BY <3>6 DEF StopGet
    <3>7. CASE StopRefused(Main) BY <3>7 DEF StopRefused
    <3>8. CASE StopSignal(Main) BY <3>8 DEF StopSignal
    <3>9. CASE DestroyLock(Main) BY <3>9 DEF DestroyLock
    <3>10. CASE DestroyKernel(Main) BY <3>10 DEF DestroyKernel
    <3>11. CASE DestroyFile(Main) BY <3>11 DEF DestroyFile
    <3>12. CASE DestroyFileFails(Main) BY <3>12 DEF DestroyFileFails
    <3>13. CASE Query(Main) BY <3>13 DEF Query
    <3> QED BY <1>6, <3>1, <3>2, <3>3, <3>4, <3>5, <3>6, <3>7, <3>8, <3>9, <3>10,
               <3>11, <3>12, <3>13, ServerSteps DEF Step
  <2>3. Life'[n] = Life[n] BY <1>0, <2>2 DEF Life
  <2> QED BY <1>1, <2>1, <2>3, Stutters
<1> QED BY <1>2, <1>3, <1>4, <1>5, <1>6

(* A child's exit is its VM's PowerOff.                                    *)
LEMMA ExitLives ==
  ASSUME ServerInv, NEW p \in Procs, ProcExit(p)
  PROVE  Lifecycle!LifeNext \/ UNCHANGED <<Life, Guest>>
<1>0. proc \in [Procs -> Process] BY ServerTypes
<1>1. UNCHANGED <<vms, heap>> BY DEF ProcExit
<1>2. \A m \in Names : Life'[m] = Life[m] BY <1>1 DEF Life
<1>3. \A q \in Procs : q # p => proc'[q] = proc[q] BY <1>0 DEF ProcExit
<1>4. ASSUME NEW m \in Names, p \notin Unreaped(m) PROVE Guest'[m] = Guest[m]
  <2>1. p \notin Unreaped(m)'
    BY <1>0, <1>4 DEF ProcExit, Unreaped, NoProcess, Process
  <2>2. Unreaped(m)' = Unreaped(m) BY <1>3, <1>4, <2>1 DEF Unreaped
  <2>3. \A q \in Unreaped(m) : proc'[q].st = proc[q].st
    BY <1>3, <1>4 DEF Unreaped
  <2> QED BY <2>2, <2>3, SameGuest
<1>5. CASE \A m \in Names : p \notin Unreaped(m)
  BY <1>2, <1>4, <1>5, Stutters
<1>6. ASSUME NEW n \in Names, p \in Unreaped(n)
      PROVE  Lifecycle!LifeNext
  <2>1. \A m \in Names : m # n => p \notin Unreaped(m) BY <1>6 DEF Unreaped
  <2>2. proc[p].child /\ proc[p].st = "alive" BY <1>6 DEF ProcExit, Unreaped
  <2>3. proc'[p].st = "zombie" BY <1>0, <2>2 DEF ProcExit, Process
  <2>4. Unreaped(n) = {p} BY <1>6 DEF ServerInv, VMOK
  <2>5. Unreaped(n)' = {p}
    BY <1>0, <1>3, <1>6, <2>2, <2>4 DEF ProcExit, Unreaped, Process
  <2>6. Guest[n] = "alive" BY <2>2, <2>4 DEF Guest
  <2>7. Guest'[n] = "dead" BY <2>3, <2>5 DEF Guest
  <2>8. Lifecycle!Become(n, Life[n], "dead")
    BY <1>2, <1>4, <2>1, <2>7, Becomes
  <2> QED BY <2>6, <2>8 DEF Lifecycle!LifeNext, Lifecycle!PowerOff
<1> QED BY <1>5, <1>6

(* A new server is a new manager.                                          *)
LEMMA NewServerLives ==
  ASSUME ServerInv, Restart \/ Reboot
  PROVE  Lifecycle!LifeNext
<1>1. ASSUME NEW p \in Procs PROVE proc'[p].st = "free" \/ ~proc'[p].child
  BY ServerTypes DEF Restart, Reboot, NoProcess, Process
<1>2. Guest' = [n \in Names |-> "none"]
  BY <1>1 DEF Guest, Unreaped
<1>3. LoadAllVMs BY DEF Restart, Reboot
<1>4. ASSUME NEW n \in Names PROVE Life'[n] \in {"absent", "defined"}
  BY <1>3, LoadOK DEF Life, NewVM, Unused
<1>5. Life' \in [Names -> {"absent", "defined"}] BY <1>4 DEF Life
<1> QED BY <1>2, <1>5 DEF Lifecycle!LifeNext, Lifecycle!NewManager

(* The server implements the lifecycle: each step of it, of failing calls  *)
(* and new servers too, is one step of one VM's lifecycle or shows         *)
(* nothing, for any number of VMs.                                         *)
THEOREM ServerImplementsLifecycle == MCPSpec => ImplementsLifecycle
<1>1. Init => Lifecycle!LifeInit
  BY DEF Init, Lifecycle!LifeInit, Life, Guest, Unreaped, NoProcess
<1>2. ServerInv /\ [Next]_vars => [Lifecycle!LifeNext]_(Lifecycle!lifeVars)
  <2> SUFFICES ASSUME ServerInv, [Next]_vars
               PROVE  Lifecycle!LifeNext \/ UNCHANGED <<Life, Guest>>
    BY DEF Lifecycle!lifeVars
  <2>1. ASSUME UNCHANGED <<vms, heap, proc>> PROVE UNCHANGED <<Life, Guest>>
    BY <2>1 DEF Life, Guest, Unreaped
  <2>2. Calls(Main) => UNCHANGED <<vms, heap, proc>>
    BY DEF Calls, ShutdownCall, CreateCall, StartCall, StopCall, DestroyCall,
           QueryCall, Call
  <2>3. UNCHANGED vars => UNCHANGED <<vms, heap, proc>> BY DEF vars
  <2>4. Goroutines = {Main} BY MCPServerAssumption
  <2> QED
    BY <2>1, <2>2, <2>3, <2>4, StepLives, ExitLives, NewServerLives DEF Next
<1> QED
  BY <1>1, <1>2, ServerRefinesManager, ServerSafety, PTL
  DEF Spec, ImplementsLifecycle, Lifecycle!LifeSpec

LifeType ==
  /\ Life \in [Names -> {"absent", "defined", "starting", "running", "stopping",
                         "stopped", "error"}]
  /\ Guest \in [Names -> {"none", "alive", "dead"}]

LifeInv == LifeType /\ Lifecycle!GuestOnlyWhenUp

(* The abstract lifecycle keeps a VM's process to the time it is up.       *)
LEMMA LifecycleSafety == Lifecycle!LifeSpec => []Lifecycle!GuestOnlyWhenUp
<1>1. Lifecycle!LifeInit => LifeInv
  BY DEF Lifecycle!LifeInit, LifeInv, LifeType, Lifecycle!GuestOnlyWhenUp
<1>2. LifeInv /\ [Lifecycle!LifeNext]_(Lifecycle!lifeVars) => LifeInv'
  <2> SUFFICES ASSUME LifeInv, [Lifecycle!LifeNext]_(Lifecycle!lifeVars) PROVE LifeInv'
    OBVIOUS
  <2> USE DEF LifeInv, LifeType, Lifecycle!GuestOnlyWhenUp, Lifecycle!Settled,
              Lifecycle!Become
  <2>1. ASSUME NEW n \in Names, Lifecycle!Define(n) \/ Lifecycle!Boot(n)
                                \/ Lifecycle!BootFails(n)
        PROVE  LifeInv'
    BY <2>1 DEF Lifecycle!Define, Lifecycle!Boot, Lifecycle!BootFails
  <2>2. ASSUME NEW n \in Names, Lifecycle!Up(n) \/ Lifecycle!PowerOff(n)
        PROVE  LifeInv'
    BY <2>2 DEF Lifecycle!Up, Lifecycle!PowerOff
  <2>3. ASSUME NEW n \in Names, Lifecycle!Halt(n) \/ Lifecycle!Down(n)
                                \/ Lifecycle!Remove(n)
        PROVE  LifeInv'
    BY <2>3 DEF Lifecycle!Halt, Lifecycle!Down, Lifecycle!Remove
  <2>4. CASE Lifecycle!NewManager
    BY <2>4 DEF Lifecycle!NewManager
  <2>5. CASE UNCHANGED <<Life, Guest>>
    BY <2>5
  <2> QED BY <2>1, <2>2, <2>3, <2>4, <2>5 DEF Lifecycle!LifeNext, Lifecycle!lifeVars
<1>3. LifeInv => Lifecycle!GuestOnlyWhenUp
  BY DEF LifeInv
<1> QED BY <1>1, <1>2, <1>3, PTL DEF Lifecycle!LifeSpec

(* A VM of the server has a bhyve process exactly while it is running or   *)
(* stopping: one that is destroyed leaves none, one that is started again  *)
(* gets its only one.                                                      *)
THEOREM GuestsBelongToVMsThatAreUp == MCPSpec => []Lifecycle!GuestOnlyWhenUp
  BY ServerImplementsLifecycle, LifecycleSafety, PTL DEF ImplementsLifecycle

----------------------------------------------------------------------------
(* Kernel objects                                                          *)

Unmaking == {"destroy_file", "destroy_unmap"}

(* A Destroy that is past its vm_destroy has destroyed the kernel object,  *)
(* or lost it.                                                             *)
KernelInv ==
  /\ lost \subseteq Names
  /\ NoOrphanKernelObject
  /\ \A n \in Names :
       frame[Main].pc \in Unmaking /\ frame[Main].name = n /\ kern[n] => n \in lost

(* Only Create makes a kernel object, when it has saved the configuration, *)
(* and only Destroy removes the configuration, after the kernel object.    *)
LEMMA KernelSteps ==
  ASSUME ServerInv, Step(Main), NEW n \in Names, n = frame[Main].name
  PROVE  /\ kern'[n] => kern[n] \/ file'[n] = "full"
         /\ file'[n] = "absent" => file[n] = "absent" \/ At(Main, "destroy_file")
         /\ frame'[Main].pc \in Unmaking =>
              /\ frame'[Main].name = n
              /\ \/ At(Main, "destroy_kernel") /\ At(Main, "destroy_file")'
                 \/ At(Main, "destroy_file")
<1> USE ServerTypes DEF Unmaking, At
<1>0. /\ Main \in Goroutines
      /\ frame \in [Goroutines -> Frame]
      /\ kern \in [Names -> BOOLEAN]
      /\ file \in [Names -> FileStates]
      /\ MainInv
  BY DEF ServerInv
<1>1. CASE CreateSave(Main) \/ CreateWrite(Main)
  BY <1>0, <1>1 DEF CreateSave, CreateWrite, Goto, Frame
<1>2. CASE CreateKernel(Main) BY <1>0, <1>2 DEF CreateKernel, MainInv, Return, Idle
<1>3. CASE CreateFails(Main) \/ StartRefused(Main) \/ StartFails(Main) \/ Query(Main)
  BY <1>0, <1>3 DEF CreateFails, StartRefused, StartFails, Query, Return, Idle
<1>4. CASE StartLock(Main) \/ StartOpen(Main)
  BY <1>0, <1>4 DEF StartLock, StartOpen, Goto, Frame
<1>5. CASE StartFork(Main) BY <1>0, <1>5 DEF StartFork, Return, Idle
<1>6. CASE StopGet(Main) \/ StopLock(Main) \/ StopSignal(Main)
  BY <1>0, <1>6 DEF StopGet, StopLock, StopSignal, Goto, Frame
<1>7. CASE StopRefused(Main) BY <1>0, <1>7 DEF StopRefused, Return, Idle
<1>8. CASE StopWait(Main)
  <2>1. UNCHANGED <<kern, file>> BY <1>8 DEF StopWait
  <2>2. frame'[Main].pc \in {"destroy_kernel", "idle"}
    BY <1>0, <1>8 DEF StopWait, Return, Idle, Frame
  <2> QED BY <2>1, <2>2
<1>9. CASE DestroyLock(Main) BY <1>0, <1>9 DEF DestroyLock, Goto, Frame
<1>10. CASE DestroyKernel(Main)
  <2>1. At(Main, "destroy_kernel") /\ UNCHANGED file /\ (kern'[n] => kern[n])
    BY <1>0, <1>10 DEF DestroyKernel
  <2>2. frame'[Main].pc = "destroy_file" /\ frame'[Main].name = n
    BY <1>0, <1>10 DEF DestroyKernel, Goto, Frame
  <2> QED BY <2>1, <2>2
<1>11. CASE DestroyFile(Main)
  <2>1. At(Main, "destroy_file") /\ UNCHANGED kern BY <1>11 DEF DestroyFile
  <2>2. frame'[Main].name = n BY <1>0, <1>11 DEF DestroyFile, Goto, Frame
  <2> QED BY <2>1, <2>2
<1>12. CASE DestroyFileFails(Main) \/ DestroyUnmap(Main)
  BY <1>0, <1>12 DEF DestroyFileFails, DestroyUnmap, Return, Idle
<1> QED BY <1>1, <1>2, <1>3, <1>4, <1>5, <1>6, <1>7, <1>8, <1>9, <1>10, <1>11, <1>12,
           ServerSteps DEF Step

LEMMA NextKernel == ServerInv /\ KernelInv /\ [MCPNext]_mcpVars => KernelInv'
<1> SUFFICES ASSUME ServerInv, KernelInv, [MCPNext]_mcpVars PROVE KernelInv'
  OBVIOUS
<1>0. /\ Main \in Goroutines
      /\ frame \in [Goroutines -> Frame]
  BY ServerTypes
<1>1. ASSUME NEW m \in Methods, NEW n \in Names, Decode(m, n) PROVE KernelInv'
  <2>1. UNCHANGED <<kern, file, lost>> /\ frame'[Main].pc \notin Unmaking
    <3>1. UNCHANGED lost /\ Dispatch(m, n) BY <1>1 DEF Decode, vmVars
    <3> QED BY <1>0, <3>1 DEF Dispatch, CreateCall, StartCall, StopCall, DestroyCall,
                              QueryCall, Call, Idle, Unmaking
  <2> QED BY <2>1 DEF KernelInv, NoOrphanKernelObject
<1>2. CASE Handle
  <2>0. Step(Main) /\ Lose BY <1>2 DEF Handle
  <2>1. lost' = {n \in Names : kern'[n] /\ (n \in lost \/ Abandons(n))}
    BY <2>0 DEF Lose
  <2>2. ASSUME NEW n \in Names
        PROVE  /\ kern'[n] => file'[n] # "absent" \/ n \in lost'
               /\ frame'[Main].pc \in Unmaking /\ frame'[Main].name = n /\ kern'[n]
                    => n \in lost'
    <3>1. CASE n = frame[Main].name
      <4>1. /\ kern[n] => file[n] # "absent" \/ n \in lost
            /\ At(Main, "destroy_file") /\ kern[n] => n \in lost
        BY <3>1 DEF KernelInv, NoOrphanKernelObject, Unmaking, At
      <4>2. At(Main, "destroy_file") => (kern'[n] => kern[n])
        BY <2>0, ServerSteps, ServerTypes
        DEF Step, At, CreateSave, CreateWrite, CreateKernel, CreateFails, StartRefused,
            StartLock, StartOpen, StartFork, StartFails, StopGet, StopRefused, StopLock,
            StopSignal, StopWait, DestroyLock, DestroyKernel, DestroyFile,
            DestroyFileFails, DestroyUnmap, Query
      <4> QED BY <2>0, <2>1, <3>1, <4>1, <4>2, KernelSteps DEF Abandons
    <3>2. CASE n # frame[Main].name
      <4>1. kern'[n] = kern[n] /\ file'[n] = file[n] BY <2>0, <3>2, OtherFiles
      <4>2. frame'[Main].pc \in Unmaking => frame'[Main].name # n
        <5>1. PICK m \in Names : m = frame[Main].name BY <2>0, StepNamed
        <5> QED BY <2>0, <3>2, <5>1, KernelSteps
      <4> QED BY <2>1, <4>1, <4>2 DEF KernelInv, NoOrphanKernelObject
    <3> QED BY <3>1, <3>2
  <2> QED BY <2>1, <2>2 DEF KernelInv, NoOrphanKernelObject
<1>3. CASE Initialize
  <2>1. frame'[Main].pc = "idle" /\ UNCHANGED file
    BY <1>0, <1>3 DEF Initialize, Restart, Reboot, Idle
  <2>2. \A n \in Names : kern'[n] => kern[n]
    BY <1>3 DEF Initialize, Restart, Reboot
  <2>3. lost' = {n \in lost : kern'[n]} BY <1>3 DEF Initialize
  <2> QED BY <2>1, <2>2, <2>3 DEF KernelInv, NoOrphanKernelObject, Unmaking
<1>4. CASE UNCHANGED <<frame, kern, file, lost>>
  BY <1>4 DEF KernelInv, NoOrphanKernelObject
<1>5. ASSUME NEW a \in {"ok", "error"}, DecodeAndAnswer(a)
      PROVE  UNCHANGED <<frame, kern, file, lost>>
  BY <1>5 DEF DecodeAndAnswer, vars, vmVars
<1>6. Encode => UNCHANGED <<frame, kern, file, lost>> BY DEF Encode, vars, vmVars
<1>7. ASSUME NEW p \in Procs, Exit(p) PROVE UNCHANGED <<frame, kern, file, lost>>
  BY <1>7 DEF Exit, ProcExit
<1>8. UNCHANGED mcpVars => UNCHANGED <<frame, kern, file, lost>>
  BY DEF mcpVars, vars, vmVars
<1> QED BY <1>1, <1>2, <1>3, <1>4, <1>5, <1>6, <1>7, <1>8 DEF MCPNext

LEMMA KernelSafety == MCPSpec => []KernelInv
<1>1. MCPInit => KernelInv
  BY DEF MCPInit, Init, KernelInv, NoOrphanKernelObject
<1> QED BY <1>1, NextKernel, ServerSafety, PTL DEF MCPSpec

(* A kernel VM object has a configuration file, by which a server to come  *)
(* can register its VM and destroy it, whatever calls fail, whatever does  *)
(* not load and wherever servers end, unless a Destroy went on after       *)
(* vm_open or vm_destroy had failed.                                       *)
THEOREM KernelObjectsHaveFiles == MCPSpec => []NoOrphanKernelObject
<1>1. KernelInv => NoOrphanKernelObject BY DEF KernelInv
<1> QED BY <1>1, KernelSafety, PTL

----------------------------------------------------------------------------
(* Answers                                                                 *)

(* Where the operation of each method is; Destroy gets no further in the   *)
(* Stop it calls than its Lock().                                          *)
Places(m) ==
  CASE m = "vm/create" -> Creating
    [] m = "vm/start" -> {"start_lock", "start_open", "start_fork"}
    [] m = "vm/stop" -> InStop
    [] m = "vm/destroy" -> {"destroy_lock", "stop_get", "stop_lock"} \cup Removing
    [] m = "vm/state" -> {"query_lock"}
    [] OTHER -> {}

LoopInv ==
  /\ req \in Request
  /\ req.phase = "handle" <=> ~At(Main, "idle")
  /\ req.phase = "handle" => /\ frame[Main].pc \in Places(req.method)
                             /\ frame[Main].name = req.name
                             /\ req.method = "vm/destroy" /\ At(Main, "stop_lock")
                                  => frame[Main].vm # NoObj

(* A request's operation begins where its method says, ...                 *)
LEMMA DecodeLoop ==
  ASSUME ServerInv, LoopInv, NEW m \in Methods, NEW n \in Names, Decode(m, n)
  PROVE  LoopInv'
<1> USE VMManagerAssumption
<1>0. frame \in [Goroutines -> Frame] /\ Main \in Goroutines BY ServerTypes
<1>1. req' = [phase |-> "handle", method |-> m, name |-> n] BY DEF Decode
<1>2. req' \in Request BY <1>1 DEF Request
<1>3. Dispatch(m, n) BY DEF Decode
<1>4. /\ frame'[Main].pc \in Places(m)
      /\ frame'[Main].pc # "idle"
      /\ frame'[Main].name = n
      /\ m = "vm/destroy" => frame'[Main].pc # "stop_lock"
  <2> DEFINE Begun == /\ frame'[Main].pc \in Places(m)
                      /\ frame'[Main].pc # "idle"
                      /\ frame'[Main].name = n
                      /\ m = "vm/destroy" => frame'[Main].pc # "stop_lock"
  <2> USE DEF Idle, Places, Creating, InStop
  <2>1. ASSUME m = "vm/create", CreateCall(Main, n) PROVE Begun
    BY <1>0, <2>1 DEF CreateCall
  <2>2. ASSUME m = "vm/start", StartCall(Main, n) PROVE Begun
    BY <1>0, <2>2 DEF StartCall, Call
  <2>3. ASSUME m = "vm/stop", StopCall(Main, n) PROVE Begun
    BY <1>0, <2>3 DEF StopCall
  <2>4. ASSUME m = "vm/destroy", DestroyCall(Main, n) PROVE Begun
    BY <1>0, <2>4 DEF DestroyCall, Call
  <2>5. ASSUME m = "vm/state", QueryCall(Main, n) PROVE Begun
    BY <1>0, <2>5 DEF QueryCall, Call
  <2> QED BY <1>3, <2>1, <2>2, <2>3, <2>4, <2>5 DEF Dispatch
<1> QED BY <1>1, <1>2, <1>4 DEF LoopInv, At

(* ... goes through its places, ...                                        *)
LEMMA StepPlaces ==
  ASSUME ServerInv, LoopInv, Step(Main), req.phase = "handle", ~At(Main, "idle")'
  PROVE  /\ frame'[Main].pc \in Places(req.method)
         /\ frame'[Main].name = req.name
         /\ req.method = "vm/destroy" /\ frame'[Main].pc = "stop_lock"
              => frame'[Main].vm # NoObj
<1> USE VMManagerAssumption
<1>0. /\ frame \in [Goroutines -> Frame]
      /\ Main \in Goroutines
      /\ req.method \in Methods
      /\ frame[Main].pc \in Places(req.method)
      /\ frame[Main].name = req.name
      /\ req.method = "vm/destroy" /\ At(Main, "stop_lock") => frame[Main].vm # NoObj
      /\ MainInv
  BY ServerTypes DEF LoopInv, Request, ServerInv
<1>1. ~Return(Main) BY <1>0 DEF Return, At, Idle
<1>2. CASE CreateSave(Main) \/ CreateWrite(Main)
  BY <1>0, <1>2 DEF CreateSave, CreateWrite, At, Goto, Frame, Places, Methods,
     Creating, Removing, InStop
<1>3. CASE StartLock(Main) \/ StartOpen(Main)
  BY <1>0, <1>3 DEF StartLock, StartOpen, At, Goto, Frame, Places, Methods,
     Creating, Removing, InStop
<1>4. CASE StopGet(Main)
  BY <1>0, <1>4 DEF StopGet, At, Frame, Places, Methods, MainInv,
     Creating, Removing, InStop
<1>5. CASE StopLock(Main)
  <2>1. frame[Main].vm = NoObj BY <1>5, StopLockFree DEF StopLock
  <2>2. At(Main, "stop_lock") BY <1>5 DEF StopLock
  <2>3. req.method = "vm/stop"
    BY <1>0, <2>1, <2>2 DEF At, Places, Methods, Creating, Removing
  <2>4. frame'[Main].pc = "stop_signal" /\ frame'[Main].name = frame[Main].name
    BY <1>0, <1>5 DEF StopLock, Goto, Frame
  <2> QED BY <1>0, <2>3, <2>4 DEF Places, InStop
<1>6. CASE StopSignal(Main)
  BY <1>0, <1>6 DEF StopSignal, At, Goto, Frame, Places, Methods,
     Creating, Removing, InStop
<1>7. CASE StopWait(Main)
  <2>1. TargetApart /\ FrameOK /\ At(Main, "stop_wait")
    BY <1>7, ServerTypes DEF ServerInv, ProcessInv, LockInv, StopWait
  <2>2. frame[Main].vm = NoObj
    BY <1>0, <2>1 DEF MainInv, TargetApart, At, InStop
  <2> QED BY <1>1, <1>7, <2>2 DEF StopWait, Nested
<1>8. CASE DestroyLock(Main)
  BY <1>0, <1>8 DEF DestroyLock, At, Goto, Frame, Places, Methods,
     Creating, Removing, InStop
<1>9. CASE DestroyKernel(Main) \/ DestroyFile(Main)
  BY <1>0, <1>9 DEF DestroyKernel, DestroyFile, At, Goto, Frame, Places, Methods,
     Creating, Removing, InStop
<1> QED
  BY <1>1, <1>2, <1>3, <1>4, <1>5, <1>6, <1>7, <1>8, <1>9, ServerSteps
  DEF Step, CreateKernel, CreateFails, StartRefused, StartFork, StartFails,
      StopRefused, DestroyFileFails, DestroyUnmap, Query

(* ... and ends where its answer is written.                               *)
LEMMA NextLoop == ServerInv /\ LoopInv /\ [MCPNext]_mcpVars => LoopInv'
<1> SUFFICES ASSUME ServerInv, LoopInv, [MCPNext]_mcpVars PROVE LoopInv'
  OBVIOUS
<1>0. Main \in Goroutines BY ServerTypes
<1>1. ASSUME NEW m \in Methods, NEW n \in Names, Decode(m, n) PROVE LoopInv'
  BY <1>1, DecodeLoop
<1>2. ASSUME NEW a \in {"ok", "error"}, DecodeAndAnswer(a) PROVE LoopInv'
  BY <1>2 DEF DecodeAndAnswer, vars, LoopInv, At, NoRequest, Request, Methods
<1>3. CASE Handle
  <2>1. CASE At(Main, "idle")'
    <3>1. req' = [req EXCEPT !.phase = "encode"] BY <1>3, <2>1 DEF Handle
    <3> QED BY <2>1, <3>1 DEF LoopInv, Request
  <2>2. CASE ~At(Main, "idle")'
    <3>1. req' = req /\ Step(Main) /\ req.phase = "handle"
      BY <1>3, <2>2 DEF Handle, loopVars
    <3> QED BY <2>2, <3>1, StepPlaces DEF LoopInv, At
  <2> QED BY <2>1, <2>2
<1>4. CASE Encode
  BY <1>4 DEF Encode, vars, LoopInv, At, NoRequest, Request, Methods
<1>5. ASSUME NEW p \in Procs, Exit(p) PROVE LoopInv'
  BY <1>5 DEF Exit, ProcExit, loopVars, LoopInv, At
<1>6. CASE Initialize
  <2>1. frame'[Main] = Idle BY <1>0, <1>6 DEF Initialize, Restart, Reboot
  <2> QED BY <1>6, <2>1 DEF Initialize, LoopInv, At, Idle, NoRequest, Request, Methods
<1>7. CASE UNCHANGED mcpVars
  BY <1>7 DEF mcpVars, vars, loopVars, LoopInv, At
<1> QED BY <1>1, <1>2, <1>3, <1>4, <1>5, <1>6, <1>7 DEF MCPNext

LEMMA InitLoop == MCPInit => LoopInv
BY MCPServerAssumption
   DEF MCPInit, Init, LoopInv, At, Idle, NoRequest, Request, Methods

(* What an operation that returns no error has made of its VM.             *)
Done(m, n) ==
  CASE m = "vm/create" -> Life[n] = "defined" /\ kern[n] /\ file[n] = "full"
    [] m = "vm/start" -> Life[n] = "running" /\ kern[n] /\ Unreaped(n) # {}
    [] m = "vm/stop" -> Life[n] = "stopped" /\ Unreaped(n) = {}
    [] m = "vm/destroy" -> /\ Life[n] = "absent" /\ Unreaped(n) = {}
                           /\ file[n] = "absent"
                           /\ ~kern[n] \/ n \in lost
    [] OTHER -> TRUE

LEMMA Succeeded ==
  ASSUME ServerInv, KernelInv, LoopInv, Step(Main), Lose, req.phase = "handle", Succeeds,
         NEW n \in Names, n = frame[Main].name, NEW m \in Methods, m = req.method
  PROVE  Done(m, n)'
<1> DEFINE o == vms[n]
<1>0. /\ vms \in [Names -> Objs \cup {NoObj}]
      /\ heap \in [Objs -> VMStruct]
      /\ kern \in [Names -> BOOLEAN]
      /\ proc \in [Procs -> Process]
      /\ frame[Main].pc \in Places(m)
      /\ MainInv /\ VMOK(n) /\ VMOK(n)'
  BY ServerTypes, StepOK DEF LoopInv, ServerInv
<1>1. CASE CreateKernel(Main)
  <2>1. PICK x \in Objs : /\ heap' = [heap EXCEPT ![x] = NewVM(n)]
                          /\ vms' = [vms EXCEPT ![n] = x]
    BY <1>1 DEF CreateKernel
  <2>2. vms'[n] = x /\ heap'[x].state = "defined" BY <1>0, <2>1 DEF NewVM, Unused
  <2>3. Life'[n] = "defined" BY <2>1, <2>2, VMManagerAssumption DEF Life
  <2>4. kern'[n] BY <1>0, <1>1 DEF CreateKernel
  <2>5. file'[n] = "full" BY <1>0, <1>1 DEF CreateKernel, MainInv, At
  <2>6. m = "vm/create"
    BY <1>0, <1>1 DEF CreateKernel, At, Places, Methods, InStop, Removing
  <2> QED BY <2>3, <2>4, <2>5, <2>6 DEF Done
<1>2. CASE StartFork(Main)
  <2>1. frame[Main].vm = o /\ o \in Objs /\ o # NoObj /\ kern[n]
    BY <1>0, <1>2, VMManagerAssumption DEF StartFork, At, MainInv, HasVM
  <2>2. PICK p \in Procs :
          /\ proc' = [proc EXCEPT ![p] = [st |-> "alive", name |-> n,
                                         child |-> TRUE]]
          /\ heap' = [heap EXCEPT ![o].process = p, ![o].state = "running",
                                  ![o].mu = Free]
    BY <1>2, <2>1 DEF StartFork
  <2>3. UNCHANGED <<vms, kern>> BY <1>2 DEF StartFork
  <2>4. heap'[o].state = "running"
    <3>1. heap'[o] = [heap[o] EXCEPT !.process = p, !.state = "running", !.mu = Free]
      BY <1>0, <2>1, <2>2
    <3>2. heap[o] \in VMStruct BY <1>0, <2>1
    <3> QED BY <3>1, <3>2 DEF VMStruct
  <2>5. Life'[n] = "running" BY <2>1, <2>3, <2>4 DEF Life
  <2>6. p \in Unreaped(n)' BY <1>0, <2>2 DEF Unreaped
  <2>7. m = "vm/start"
    BY <1>0, <1>2 DEF StartFork, At, Places, Methods, InStop, Removing, Creating
  <2> QED BY <2>1, <2>3, <2>5, <2>6, <2>7 DEF Done
<1>3. CASE StopWait(Main)
  <2>1. frame[Main].target = o /\ o \in Objs /\ o # NoObj
    BY <1>0, <1>3, ServerTypes, VMManagerAssumption
    DEF StopWait, At, MainInv, InStop, FrameOK
  <2>2. UNCHANGED vms /\ heap'[o].state = "stopped"
    BY <1>0, <1>3, <2>1 DEF StopWait, VMStruct
  <2>3. Life'[n] = "stopped" BY <2>1, <2>2 DEF Life
  <2>4. Unreaped(n)' = {} BY <1>0, <2>2 DEF VMOK
  <2>5. m = "vm/stop"
    BY <1>0, <1>3 DEF StopWait, At, Places, Methods, InStop, Removing, Creating
  <2> QED BY <2>3, <2>4, <2>5 DEF Done
<1>4. CASE DestroyUnmap(Main)
  <2>1. frame[Main].vm = o /\ o \in Objs /\ file[n] = "absent"
    BY <1>0, <1>4 DEF DestroyUnmap, At, MainInv, HasVM
  <2>6. ~kern[n] \/ n \in lost BY <1>4 DEF DestroyUnmap, At, KernelInv, Unmaking
  <2>2. UNCHANGED <<kern, file>> /\ vms'[n] = NoObj
    BY <1>0, <1>4 DEF DestroyUnmap
  <2>3. Unreaped(n)' = {} BY <1>0, <2>2 DEF VMOK
  <2>4. Life'[n] = "absent" BY <2>2 DEF Life
  <2>5. m = "vm/destroy"
    BY <1>0, <1>4 DEF DestroyUnmap, At, Places, Methods, InStop, Creating
  <2>7. ~kern'[n] \/ n \in lost' BY <2>2, <2>6 DEF Lose
  <2> QED BY <2>1, <2>2, <2>3, <2>4, <2>5, <2>7 DEF Done
<1>5. CASE Query(Main)
  <2>1. m = "vm/state"
    BY <1>0, <1>5 DEF Query, At, Places, Methods, InStop, Removing, Creating
  <2> QED BY <2>1 DEF Done
<1> QED BY <1>1, <1>2, <1>3, <1>4, <1>5 DEF Succeeds

(* The claim of an answer is what its operation has made.                  *)
Claim == req.phase = "encode" /\ answer = "ok" => Done(req.method, req.name)

LEMMA ClaimOfAnswer == Claim => AnswersTrue
BY DEF Claim, Done, AnswersTrue

(* It stays true until it is written, whatever bhyve does meanwhile.       *)
AnswerInv == ServerInv /\ KernelInv /\ LoopInv /\ Claim

LEMMA NextAnswer == AnswerInv /\ [MCPNext]_mcpVars => AnswerInv'
<1> SUFFICES ASSUME AnswerInv, [MCPNext]_mcpVars PROVE AnswerInv'
  OBVIOUS
<1>0. ServerInv' /\ KernelInv' /\ LoopInv'
  BY ServerStep, NextServerInv, NextKernel, NextLoop DEF AnswerInv
<1>1. ASSUME NEW m \in Methods, NEW n \in Names, Decode(m, n) PROVE Claim'
  BY <1>1 DEF Decode, Claim
<1>2. ASSUME NEW a \in {"ok", "error"}, DecodeAndAnswer(a) PROVE Claim'
  <2>1. req'.method = "other" BY <1>2 DEF DecodeAndAnswer, NoRequest
  <2>2. \A x : Done("other", x)' BY DEF Done
  <2> QED BY <2>1, <2>2 DEF Claim
<1>3. ASSUME Handle PROVE Claim'
  <2> SUFFICES ASSUME req'.phase = "encode", answer' = "ok"
               PROVE  Done(req.method, req.name)' BY DEF Claim
  <2>0. req.phase = "handle" /\ Step(Main) /\ Lose BY <1>3 DEF Handle
  <2>1. At(Main, "idle")' BY <1>3, <2>0 DEF Handle, loopVars
  <2>2. Succeeds /\ req' = [req EXCEPT !.phase = "encode"]
    BY <1>3, <2>1 DEF Handle
  <2>3. req'.method = req.method /\ req'.name = req.name /\ req.method \in Methods
    BY <2>2 DEF AnswerInv, LoopInv, Request
  <2>4. req.name = frame[Main].name /\ req.name \in Names
    BY <2>0, StepNamed DEF AnswerInv, LoopInv
  <2>5. PICK m \in Methods, n \in Names : m = req.method /\ n = req.name
    BY <2>3, <2>4
  <2>6. Done(m, n)' BY <2>0, <2>2, <2>4, <2>5, Succeeded DEF AnswerInv
  <2>7. m = req'.method /\ n = req'.name BY <2>3, <2>5
  <2> QED BY <2>6, <2>7
<1>4. ASSUME Encode PROVE Claim'
  BY <1>4 DEF Encode, Claim
<1>5. ASSUME NEW p \in Procs, Exit(p) PROVE Claim'
  <2>1. UNCHANGED <<vms, heap, kern, file, req, answer, lost>> /\ ProcExit(p)
    BY <1>5 DEF Exit, ProcExit, loopVars
  <2>2. UNCHANGED Life BY <2>1 DEF Life
  <2>3. ASSUME NEW n PROVE Unreaped(n)' = Unreaped(n)
    <3>1. ASSUME NEW q \in Procs PROVE q \in Unreaped(n)' <=> q \in Unreaped(n)
      BY <2>1, ServerTypes DEF AnswerInv, ProcExit, Unreaped, NoProcess, Process
    <3> QED BY <3>1 DEF Unreaped
  <2>4. ASSUME NEW m, NEW n, Done(m, n) PROVE Done(m, n)'
    BY <2>1, <2>2, <2>3, <2>4 DEF Done
  <2> QED BY <2>1, <2>4 DEF AnswerInv, Claim
<1>6. ASSUME Initialize PROVE Claim'
  BY <1>6 DEF Initialize, Claim
<1>7. ASSUME UNCHANGED mcpVars PROVE Claim'
  <2>1. UNCHANGED <<vars, req, answer, lost>> BY <1>7 DEF mcpVars, loopVars, vmVars
  <2> QED BY <2>1 DEF vars, AnswerInv, Claim, Done, Life, Unreaped
<1> QED BY <1>0, <1>1, <1>2, <1>3, <1>4, <1>5, <1>6, <1>7 DEF MCPNext, AnswerInv

(* An "ok" is true of the host, not only of the manager's table: after     *)
(* vm/create there are a kernel object and a configuration, after vm/start *)
(* a child process, after vm/stop none, after vm/destroy no child, no      *)
(* configuration, and no kernel object but one whose vm_open or vm_destroy *)
(* failed.                                                                 *)
THEOREM AnswersAreTrue == MCPSpec => []AnswersTrue
<1>1. MCPInit => AnswerInv
  BY InitServerInv, InitLoop
  DEF MCPInit, Init, AnswerInv, KernelInv, NoOrphanKernelObject, Claim, NoRequest
<1>2. AnswerInv => AnswersTrue BY ClaimOfAnswer DEF AnswerInv
<1> QED BY <1>1, <1>2, NextAnswer, PTL DEF MCPSpec

----------------------------------------------------------------------------
(* Command lines                                                           *)

(* A slot for a process is blank while it is free.                         *)
FreeBlank == \A p \in Procs : proc[p].st = "free" => ~proc[p].child

(* Ports below vncPortNext are given away once; what else a line has comes *)
(* from a configuration.                                                   *)
LineInv ==
  /\ FreeBlank
  /\ cfg \in [Names -> Edits \cup {Created, Blank}]
  /\ vncPortNext \in BasePort .. BasePort + MaxDisplays
  /\ \A p \in Procs :
       /\ line[p] = NoLine \/ \E c \in VMConfig, k \in Nat : line[p] = CommandLine(c, k)
       /\ line[p].port \in {NoPort} \cup BasePort .. (vncPortNext - 1)
       /\ ~proc[p].child => line[p] = NoLine
  /\ DisplaysApart

(* Only Start makes a child of a slot.                                     *)
LEMMA ChildrenOld ==
  ASSUME ServerInv, FreeBlank, Step(Main)
  PROVE  /\ FreeBlank'
         /\ ~StartFork(Main) =>
              \A p \in Procs : proc'[p].child => proc[p].child /\ proc[p].st # "free"
<1>0. proc \in [Procs -> Process] BY ServerTypes
<1>1. CASE StartFork(Main)
  <2>1. PICK p \in Procs :
          proc' = [proc EXCEPT ![p] = [st |-> "alive", name |-> frame[Main].name,
                                      child |-> TRUE]]
    BY <1>1 DEF StartFork
  <2>2. \A q \in Procs : proc'[q] = proc[q] \/ proc'[q].st = "alive"
    BY <1>0, <2>1
  <2> QED BY <1>1, <2>2 DEF FreeBlank
<1>2. CASE StopWait(Main) BY <1>0, <1>2 DEF StopWait, FreeBlank, NoProcess
<1>3. CASE CreateKernel(Main)
  BY <1>3 DEF CreateKernel, FreeBlank
<1>4. CASE ~CreateKernel(Main) /\ ~StartFork(Main) /\ ~StopWait(Main)
  BY <1>4, ProcessKept, ServerTypes DEF ServerInv, FreeBlank
<1> QED
  BY <1>1, <1>2, <1>3, <1>4 DEF FreeBlank, CreateKernel, StartFork, At

(* A step that forks nobody takes no port for anybody.                     *)
LEMMA NoNewLine ==
  ASSUME LineInv, Spawn, FreeBlank',
         \A p \in Procs : proc'[p].child => proc[p].child /\ proc[p].st # "free"
  PROVE  \A p \in Procs : /\ line'[p] \in {line[p], NoLine}
                          /\ ~proc'[p].child => line'[p] = NoLine
BY DEF Spawn

LEMMA LinesKept ==
  ASSUME LineInv, FreeBlank', Spawn,
         \A p \in Procs : proc'[p].child => proc[p].child /\ proc[p].st # "free",
         (cfg \in [Names -> Edits \cup {Created, Blank}])',
         vncPortNext' \in BasePort .. BasePort + MaxDisplays,
         vncPortNext' >= vncPortNext
  PROVE  LineInv'
<1>1. \A p \in Procs : /\ line'[p] \in {line[p], NoLine}
                       /\ ~proc'[p].child => line'[p] = NoLine
  BY NoNewLine
<1>2. NoLine.port = NoPort BY DEF NoLine
<1>3. DisplaysApart' BY <1>1, <1>2 DEF LineInv, DisplaysApart
<1>4. ASSUME NEW p \in Procs
      PROVE  line'[p].port \in {NoPort} \cup BasePort .. (vncPortNext' - 1)
  <2>1. /\ line[p].port \in {NoPort} \cup BasePort .. (vncPortNext - 1)
        /\ vncPortNext \in Int
    <3>1. vncPortNext \in BasePort .. BasePort + MaxDisplays BY DEF LineInv
    <3>2. vncPortNext \in Int BY <3>1, MCPServerAssumption DEF BasePort
    <3> QED BY <3>2 DEF LineInv
  <2>2. line[p].port \in {NoPort} \cup BasePort .. (vncPortNext' - 1)
    BY <2>1, MCPServerAssumption DEF BasePort
  <2> QED BY <1>1, <1>2, <2>2
<1>5. \A p \in Procs :
        line'[p] = NoLine \/ \E c \in VMConfig, k \in Nat : line'[p] = CommandLine(c, k)
  BY <1>1 DEF LineInv
<1> QED BY <1>1, <1>3, <1>4, <1>5 DEF LineInv

(* Ports are counted up, and only that.                                    *)
LEMMA PortsGrow ==
  ASSUME LineInv, Ports
  PROVE  /\ vncPortNext' \in BasePort .. BasePort + MaxDisplays
         /\ vncPortNext' >= vncPortNext
BY MCPServerAssumption DEF LineInv, Ports, TakePort, BasePort

(* Start's child gets the next port, or none.                              *)
LEMMA ForkLine ==
  ASSUME ServerInv, LoopInv, LineInv, FreeBlank', req.phase = "handle",
         StartFork(Main), Ports, Spawn,
         (cfg \in [Names -> Edits \cup {Created, Blank}])'
  PROVE  LineInv'
<1> DEFINE n == frame[Main].name
           o == frame[Main].vm
<1>0. /\ Main \in Goroutines
      /\ heap \in [Objs -> VMStruct]
      /\ frame \in [Goroutines -> Frame]
      /\ proc \in [Procs -> Process]
      /\ n \in Names /\ o \in Objs /\ req.name = n
  BY ServerTypes DEF StartFork, At, FrameOK, HasName, HasVM, PCs, LoopInv
<1>1. PICK p \in Procs :
        /\ proc[p].st = "free"
        /\ proc' = [proc EXCEPT ![p] = [st |-> "alive", name |-> n,
                                       child |-> TRUE]]
        /\ heap' = [heap EXCEPT ![o].process = p, ![o].state = "running",
                                ![o].mu = Free]
  BY DEF StartFork
<1>2. ~StartFails(Main)
  <2>1. heap'[o].state = "running" BY <1>0, <1>1 DEF VMStruct
  <2>2. StartFails(Main) => heap'[o].state = "error"
    BY <1>0 DEF StartFails, VMStruct
  <2> QED BY <2>1, <2>2
<1>3. TakePort(n)
  <2>1. At(Main, "start_fork") /\ ~At(Main, "start_fork")'
    BY <1>0 DEF StartFork, Return, At, Idle
  <2> QED BY <1>0, <1>2, <2>1 DEF Ports
<1>4. cfg[n] \in VMConfig
  <2>1. Created \in VMConfig BY DEF Created, VMConfig
  <2>2. Blank \in VMConfig BY DEF Blank, VMConfig
  <2>3. Edits \subseteq VMConfig BY MCPServerAssumption
  <2>4. cfg[n] \in Edits \cup {Created, Blank} BY <1>0 DEF LineInv
  <2> QED BY <2>1, <2>2, <2>3, <2>4
<1>5. /\ vncPortNext \in Nat /\ vncPortNext >= BasePort
      /\ vncPortNext <= BasePort + MaxDisplays
      /\ MaxDisplays \in Nat
  BY MCPServerAssumption DEF LineInv, BasePort
<1>6. line'[p] = CommandLine(cfg[n], vncPortNext)
  <2>1. proc'[p].child BY <1>0, <1>1
  <2> QED BY <1>0, <1>1, <2>1 DEF Spawn
<1>7. \A q \in Procs : q # p => /\ proc'[q] = proc[q]
                                /\ line'[q] \in {line[q], NoLine}
                                /\ ~proc'[q].child => line'[q] = NoLine
  <2>1. \A q \in Procs : q # p => proc'[q] = proc[q] BY <1>0, <1>1
  <2>2. \A q \in Procs : proc[q].st = "free" => ~proc[q].child
    BY DEF LineInv, FreeBlank
  <2> QED BY <2>1, <2>2 DEF Spawn
<1>8. NoLine.port = NoPort BY DEF NoLine
<1>9. /\ vncPortNext' \in BasePort .. BasePort + MaxDisplays
      /\ vncPortNext' >= vncPortNext
      /\ line'[p].port # NoPort => /\ line'[p].port = vncPortNext
                                   /\ vncPortNext' = vncPortNext + 1
  <2>1. line'[p].port = IF cfg[n].vnc THEN vncPortNext ELSE NoPort
    BY <1>6 DEF CommandLine
  <2> QED BY <1>3, <1>5, <2>1 DEF TakePort, BasePort, NoPort
<1>10. \A q \in Procs : line'[q].port \in {NoPort} \cup BasePort .. (vncPortNext' - 1)
  <2>1. ASSUME NEW q \in Procs, q # p, line'[q] = line[q]
        PROVE  line'[q].port \in {NoPort} \cup BasePort .. (vncPortNext' - 1)
    <3>1. line[q].port \in {NoPort} \cup BasePort .. (vncPortNext - 1)
      BY DEF LineInv
    <3> QED BY <1>5, <1>9, <2>1, <3>1 DEF BasePort, NoPort
  <2>2. line'[p].port \in {NoPort} \cup BasePort .. (vncPortNext' - 1)
    BY <1>5, <1>9 DEF BasePort, NoPort
  <2> QED BY <1>7, <1>8, <2>1, <2>2
<1>11. \A q \in Procs : q # p => line'[q].port # line'[p].port \/ line'[q].port = NoPort
  <2>1. \A q \in Procs : line[q].port = NoPort \/ line[q].port < vncPortNext
    BY <1>5 DEF LineInv, BasePort
  <2>2. \A q \in Procs : q # p => line'[q].port = line[q].port \/ line'[q].port = NoPort
    BY <1>7, <1>8
  <2>3. line'[p].port = NoPort \/ line'[p].port = vncPortNext BY <1>9
  <2> QED BY <1>5, <2>1, <2>2, <2>3
<1>12. DisplaysApart'
  <2>1. \A q, r \in Procs : q # p /\ r # p /\ line'[q].port = line'[r].port
                              /\ line'[q].port # NoPort => q = r
    BY <1>7, <1>8 DEF LineInv, DisplaysApart
  <2> QED BY <1>11, <2>1 DEF DisplaysApart
<1>13. \A q \in Procs :
         line'[q] = NoLine \/ \E c \in VMConfig, k \in Nat : line'[q] = CommandLine(c, k)
  BY <1>4, <1>5, <1>6, <1>7 DEF LineInv
<1>14. \A q \in Procs : ~proc'[q].child => line'[q] = NoLine
  BY <1>0, <1>1, <1>7
<1> QED BY <1>9, <1>10, <1>12, <1>13, <1>14 DEF LineInv

LEMMA NextLine == ServerInv /\ LoopInv /\ LineInv /\ [MCPNext]_mcpVars => LineInv'
<1> SUFFICES ASSUME ServerInv, LoopInv, LineInv, [MCPNext]_mcpVars PROVE LineInv'
  OBVIOUS
<1>0. /\ proc \in [Procs -> Process]
      /\ Created \in Edits \cup {Created, Blank}
  BY ServerTypes
<1>1. ASSUME UNCHANGED <<proc, cfg, vncPortNext, line>> PROVE LineInv'
  BY <1>1 DEF LineInv, FreeBlank, DisplaysApart
<1>2. ASSUME NEW m \in Methods, NEW n \in Names, Decode(m, n) PROVE LineInv'
  <2>1. UNCHANGED proc
    BY <1>2 DEF Decode, Dispatch, CreateCall, StartCall, StopCall, DestroyCall,
                QueryCall, Call
  <2> QED BY <1>1, <1>2, <2>1 DEF Decode, vmVars
<1>3. ASSUME NEW a \in {"ok", "error"}, DecodeAndAnswer(a) PROVE LineInv'
  BY <1>1, <1>3 DEF DecodeAndAnswer, vmVars, vars
<1>4. ASSUME Handle PROVE LineInv'
  <2>1. Step(Main) /\ Forget /\ Ports /\ Spawn /\ req.phase = "handle"
    BY <1>4 DEF Handle
  <2>2. (cfg \in [Names -> Edits \cup {Created, Blank}])'
    BY <1>0, <2>1 DEF Forget, LineInv
  <2>3. FreeBlank' BY <2>1, ChildrenOld DEF LineInv
  <2>4. CASE StartFork(Main) BY <2>1, <2>2, <2>3, <2>4, ForkLine
  <2>5. CASE ~StartFork(Main)
    <3>1. \A p \in Procs : proc'[p].child => proc[p].child /\ proc[p].st # "free"
      BY <2>1, <2>5, ChildrenOld DEF LineInv
    <3> QED BY <2>1, <2>2, <2>3, <3>1, PortsGrow, LinesKept
  <2> QED BY <2>4, <2>5
<1>5. ASSUME Encode PROVE LineInv'
  BY <1>1, <1>5 DEF Encode, vmVars, vars
<1>6. ASSUME NEW p \in Procs, Exit(p) PROVE LineInv'
  <2>1. ProcExit(p) /\ Spawn /\ UNCHANGED <<cfg, vncPortNext>> BY <1>6 DEF Exit
  <2>2. FreeBlank'
    BY <1>0, <2>1 DEF ProcExit, LineInv, FreeBlank, NoProcess, Process
  <2>3. \A q \in Procs : proc'[q].child => proc[q].child /\ proc[q].st # "free"
    BY <1>0, <2>1 DEF ProcExit, LineInv, FreeBlank, NoProcess, Process
  <2>4. /\ (cfg \in [Names -> Edits \cup {Created, Blank}])'
        /\ vncPortNext' \in BasePort .. BasePort + MaxDisplays
        /\ vncPortNext' >= vncPortNext
    BY <2>1, MCPServerAssumption DEF LineInv, BasePort
  <2> QED BY <2>1, <2>2, <2>3, <2>4, LinesKept
<1>7. ASSUME Initialize PROVE LineInv'
  <2>1. \A p \in Procs : ~proc'[p].child
    BY <1>0, <1>7 DEF Initialize, Restart, Reboot, NoProcess, Process
  <2>2. \A p \in Procs : line'[p] = NoLine
    BY <1>7, <2>1 DEF Initialize, Spawn
  <2>3. (cfg \in [Names -> Edits \cup {Created, Blank}])' BY <1>7 DEF Initialize
  <2>4. vncPortNext' \in BasePort .. BasePort + MaxDisplays
    BY <1>7, MCPServerAssumption DEF Initialize, BasePort
  <2>5. NoLine.port = NoPort BY DEF NoLine
  <2>6. DisplaysApart' BY <2>2, <2>5 DEF DisplaysApart
  <2>7. FreeBlank' BY <2>1 DEF FreeBlank
  <2> QED BY <2>2, <2>3, <2>4, <2>5, <2>6, <2>7 DEF LineInv
<1>8. ASSUME UNCHANGED mcpVars PROVE LineInv'
  BY <1>1, <1>8 DEF mcpVars, vars, vmVars
<1> QED BY <1>2, <1>3, <1>4, <1>5, <1>6, <1>7, <1>8 DEF MCPNext

LEMMA InitLine == MCPInit => LineInv
<1> SUFFICES ASSUME MCPInit PROVE LineInv
  OBVIOUS
<1>1. \A p \in Procs : line[p] = NoLine BY DEF MCPInit
<1>2. NoLine.port = NoPort BY DEF NoLine
<1>3. FreeBlank BY DEF MCPInit, Init, FreeBlank, NoProcess
<1>4. cfg \in [Names -> Edits \cup {Created, Blank}] BY DEF MCPInit
<1>5. vncPortNext \in BasePort .. BasePort + MaxDisplays
  BY MCPServerAssumption DEF MCPInit, BasePort
<1>6. DisplaysApart BY <1>1, <1>2 DEF DisplaysApart
<1> QED BY <1>1, <1>2, <1>3, <1>4, <1>5, <1>6 DEF LineInv

LEMMA LineSafety == MCPSpec => [](LineInv /\ LoopInv)
<1>1. MCPInit => LineInv /\ LoopInv BY InitLine, InitLoop
<1>2. ServerInv /\ LineInv /\ LoopInv /\ [MCPNext]_mcpVars => (LineInv /\ LoopInv)'
  BY NextLine, NextLoop
<1> QED BY <1>1, <1>2, ServerSafety, PTL DEF MCPSpec

(* Two bhyve processes never get one VNC port from one server, though no   *)
(* lock of the manager guards the counter.                                 *)
THEOREM DisplaysStayApart == MCPSpec => []DisplaysApart
<1>1. LineInv => DisplaysApart BY DEF LineInv
<1> QED BY <1>1, LineSafety, PTL

(* The slots of a command line are counted through.                        *)
LEMMA SlotNumbers ==
  ASSUME NEW c \in VMConfig
  PROVE  {d[1] : d \in Slots(c)} = 0 .. Devices(c) - 1
<1> DEFINE net == 2 + c.disks
           vnc == net + c.nets
<1>0. c.disks \in Nat /\ c.nets \in Nat /\ c.vnc \in BOOLEAN BY DEF VMConfig
<1>1. ASSUME NEW s, NEW device
      PROVE  <<s, device>>[1] = s
  OBVIOUS
<1>2. ASSUME NEW first \in Nat, NEW k \in Nat, NEW device
      PROVE  {d[1] : d \in Row(first, k, device)} = first .. (first + k - 1)
  BY <1>1 DEF Row
<1>3. {d[1] : d \in Fixed} = 0 .. 1 BY <1>1 DEF Fixed
<1>4. {d[1] : d \in Framebuffer(vnc)} = vnc .. vnc + 1
  BY <1>0, <1>1 DEF Framebuffer
<1>5. {d[1] : d \in Row(2, c.disks, "virtio-blk")} = 2 .. (net - 1)
  BY <1>0, <1>2
<1>6. {d[1] : d \in Row(net, c.nets, "virtio-net")} = net .. (vnc - 1)
  BY <1>0, <1>2
<1>7. CASE c.vnc
  <2>1. {d[1] : d \in Slots(c)} = 0 .. 1 \cup 2 .. (net - 1) \cup net .. (vnc - 1)
                                    \cup vnc .. vnc + 1
    BY <1>3, <1>4, <1>5, <1>6, <1>7 DEF Slots
  <2>2. Devices(c) - 1 = vnc + 1 BY <1>0, <1>7 DEF Devices
  <2>3. net \in Nat /\ vnc \in Nat /\ 2 <= net /\ net <= vnc BY <1>0
  <2> HIDE DEF net, vnc
  <2>4. 0 .. 1 \cup 2 .. (net - 1) \cup net .. (vnc - 1) \cup vnc .. vnc + 1
          = 0 .. vnc + 1
    BY <2>3
  <2> QED BY <2>1, <2>2, <2>4
<1>8. CASE ~c.vnc
  <2>1. {d[1] : d \in Slots(c)} = 0 .. 1 \cup 2 .. (net - 1) \cup net .. (vnc - 1)
    BY <1>3, <1>5, <1>6, <1>8 DEF Slots
  <2>2. Devices(c) = vnc BY <1>0, <1>8 DEF Devices
  <2> QED BY <1>0, <2>1, <2>2
<1> QED BY <1>7, <1>8

(* Every device of a child has a slot of its own, whatever its             *)
(* configuration asks for.                                                 *)
THEOREM DevicesStayApart == MCPSpec => []DevicesApart
<1>1. LineInv => DevicesApart
  <2> SUFFICES ASSUME LineInv, NEW p \in Procs, line[p] # NoLine
               PROVE  Cardinality({d[1] : d \in line[p].slots})
                        = Devices(line[p].config)
    BY DEF DevicesApart
  <2>1. PICK c \in VMConfig, k \in Nat : line[p] = CommandLine(c, k) BY DEF LineInv
  <2>2. line[p].slots = Slots(c) /\ line[p].config = c BY <2>1 DEF CommandLine
  <2>3. Devices(c) \in Nat BY DEF Devices, VMConfig
  <2>4. Cardinality(0 .. Devices(c) - 1) = Devices(c)
    <3>1. Cardinality(0 .. Devices(c) - 1)
            = IF 0 > Devices(c) - 1 THEN 0 ELSE Devices(c) - 1 - 0 + 1
      <4>1. 0 \in Int /\ Devices(c) - 1 \in Int BY <2>3
      <4> QED BY <4>1, FS_Interval
    <3> QED BY <2>3, <3>1
  <2> QED BY <2>2, <2>4, SlotNumbers
<1> QED BY <1>1, LineSafety, PTL

(* The server's state is well typed.                                       *)
THEOREM ServerTypeCorrect == MCPSpec => []MCPTypeOK
<1> DEFINE AnswerTyped == answer \in {"none", "ok", "error"}
<1>1. MCPInit => AnswerTyped BY DEF MCPInit
<1>2. AnswerTyped /\ [MCPNext]_mcpVars => AnswerTyped'
  BY DEF MCPNext, Decode, DecodeAndAnswer, Handle, Encode, Exit, Initialize, mcpVars,
         loopVars
<1>3. AnswerTyped /\ ServerInv /\ KernelInv /\ LineInv /\ LoopInv => MCPTypeOK
  <2> SUFFICES ASSUME AnswerTyped, ServerInv, KernelInv, LineInv, LoopInv PROVE MCPTypeOK
    OBVIOUS
  <2>1. TypeOK BY DEF ServerInv, ProcessInv, LockInv, TypeInv
  <2>2. vncPortNext \in BasePort .. BasePort + MaxDisplays BY DEF LineInv
  <2>3. ASSUME NEW p \in Procs
        PROVE  line[p].port \in {NoPort} \cup BasePort .. BasePort + MaxDisplays
    <3>1. line[p].port \in {NoPort} \cup BasePort .. (vncPortNext - 1)
      BY DEF LineInv
    <3> QED BY <2>2, <3>1, MCPServerAssumption DEF BasePort
  <2> QED BY <2>1, <2>2, <2>3 DEF MCPTypeOK, KernelInv, LineInv, LoopInv
<1> HIDE DEF AnswerTyped
<1> QED BY <1>1, <1>2, <1>3, ServerSafety, KernelSafety, LineSafety, PTL DEF MCPSpec
=============================================================================
