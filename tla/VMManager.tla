----------------------------- MODULE VMManager -----------------------------
(***************************************************************************)
(* The operations of internal/vm/manager.go over VMState.                  *)
(*                                                                         *)
(* One action per stretch of code that no other goroutine, bhyve process   *)
(* or crash can observe half-way.  m.Get takes m.mu for reading and does   *)
(* nothing else under it, so it is one atomic test of m.mu and read of     *)
(* m.vms; it opens the call that contains it.  Calls that fail in m.Get    *)
(* (no such VM) or on the "already exists" test of Create change nothing   *)
(* and are not steps.  A VM is as Create makes it: without VNC, so         *)
(* buildBhyveCommand changes nothing; it cannot fail.                      *)
(***************************************************************************)
EXTENDS VMState

----------------------------------------------------------------------------
(* Create: m.mu is held throughout.                                        *)

CreateCall(g, n) ==
  /\ "Create" \in Ops
  /\ At(g, "idle")
  /\ mu = Free
  /\ vms[n] = NoObj
  /\ mu' = g
  /\ frame' = [frame EXCEPT ![g] = [Idle EXCEPT !.pc = "create_save",
                                                !.name = n]]
  /\ UNCHANGED <<vms, heap, kern, file, proc>>

(* os.WriteFile truncates the file, then writes it.                        *)
CreateSave(g) ==
  /\ At(g, "create_save")
  /\ file' = [file EXCEPT ![frame[g].name] = "empty"]
  /\ Goto(g, "create_write")
  /\ UNCHANGED <<mu, vms, heap, kern, proc>>

CreateWrite(g) ==
  /\ At(g, "create_write")
  /\ file' = [file EXCEPT ![frame[g].name] = "full"]
  /\ Goto(g, "create_kernel")
  /\ UNCHANGED <<mu, vms, heap, kern, proc>>

(* vm_create, then the new struct enters the registry.                     *)
CreateKernel(g) ==
  LET n == frame[g].name IN
  /\ At(g, "create_kernel")
  /\ ~kern[n]
  /\ kern' = [kern EXCEPT ![n] = TRUE]
  /\ \E o \in Objs :
       /\ Unreachable(o)
       /\ heap' = [heap EXCEPT ![o] = NewVM(n)]
       /\ vms' = [vms EXCEPT ![n] = o]
  /\ mu' = Free
  /\ Return(g)
  /\ UNCHANGED <<file, proc>>

(* Mutant: a Create whose vm_create fails takes its configuration away.    *)
CreateFailsCleanly(g) ==
  /\ frame[g].pc \in {"create_save", "create_write", "create_kernel"}
  /\ file' = IF At(g, "create_kernel")
             THEN [file EXCEPT ![frame[g].name] = "absent"] ELSE file
  /\ mu' = Free
  /\ Return(g)
  /\ UNCHANGED <<vms, heap, kern, proc>>

(* SaveVMConfig or vm_create may fail; what was written stays.             *)
CreateFails(g) ==
  /\ frame[g].pc \in {"create_save", "create_write", "create_kernel"}
  /\ mu' = Free
  /\ Return(g)
  /\ UNCHANGED <<vms, heap, kern, file, proc>>

----------------------------------------------------------------------------
(* Start                                                                   *)

StartCall(g, n) == "Start" \in Ops /\ Call(g, n, "start_lock")

StartRefused(g) ==
  /\ At(g, "start_lock")
  /\ heap[frame[g].vm].mu = Free
  /\ heap[frame[g].vm].state = "running"
  /\ Return(g)
  /\ UNCHANGED <<mu, vms, heap, kern, file, proc>>

(* Mutant: Start does not ask whether the VM is running.                   *)
StartLockUnchecked(g) ==
  LET o == frame[g].vm IN
  /\ At(g, "start_lock")
  /\ heap[o].mu = Free
  /\ heap' = [heap EXCEPT ![o].state = "starting", ![o].mu = g]
  /\ Goto(g, "start_open")
  /\ UNCHANGED <<mu, vms, kern, file, proc>>

StartLock(g) ==
  LET o == frame[g].vm IN
  /\ At(g, "start_lock")
  /\ heap[o].mu = Free
  /\ heap[o].state # "running"
  /\ heap' = [heap EXCEPT ![o].state = "starting", ![o].mu = g]
  /\ Goto(g, "start_open")
  /\ UNCHANGED <<mu, vms, kern, file, proc>>

(* A handle left by an earlier attempt is overwritten.                     *)
StartOpen(g) ==
  /\ At(g, "start_open")
  /\ kern[frame[g].name]
  /\ heap' = [heap EXCEPT ![frame[g].vm].handle = TRUE]
  /\ Goto(g, "start_fork")
  /\ UNCHANGED <<mu, vms, kern, file, proc>>

(* Mutant: Start says "running" before it looks at the error of cmd.Start().*)
StartForkUnchecked(g) ==
  LET o == frame[g].vm IN
  /\ At(g, "start_fork")
  /\ \/ \E p \in Procs :
          /\ proc[p].st = "free"
          /\ proc' = [proc EXCEPT ![p] = [st |-> "alive", child |-> TRUE,
                                         name |-> frame[g].name]]
          /\ heap' = [heap EXCEPT ![o].process = p, ![o].state = "running",
                                  ![o].mu = Free]
     \/ /\ heap' = [heap EXCEPT ![o].state = "running", ![o].mu = Free]
        /\ UNCHANGED proc
  /\ Return(g)
  /\ UNCHANGED <<mu, vms, kern, file>>

StartFork(g) ==
  /\ At(g, "start_fork")
  /\ \E p \in Procs :
       /\ proc[p].st = "free"
       /\ proc' = [proc EXCEPT ![p] = [st |-> "alive", name |-> frame[g].name,
                                      child |-> TRUE]]
       /\ heap' = [heap EXCEPT ![frame[g].vm].process = p,
                               ![frame[g].vm].state = "running",
                               ![frame[g].vm].mu = Free]
  /\ Return(g)
  /\ UNCHANGED <<mu, vms, kern, file>>

(* Mutant: an error path of Start returns without vm.mu.Unlock().          *)
StartFailsLocked(g) ==
  /\ At(g, "start_fork")
  /\ heap' = [heap EXCEPT ![frame[g].vm].state = "error"]
  /\ Return(g)
  /\ UNCHANGED <<mu, vms, kern, file, proc>>

(* vm_open may fail, then SetupMemory or the fork and exec of bhyve.       *)
StartFails(g) ==
  /\ \/ At(g, "start_open") /\ (~kern[frame[g].name] \/ "vmm" \in Faults)
     \/ At(g, "start_fork")
  /\ heap' = [heap EXCEPT ![frame[g].vm].state = "error",
                          ![frame[g].vm].mu = Free]
  /\ Return(g)
  /\ UNCHANGED <<mu, vms, kern, file, proc>>

----------------------------------------------------------------------------
(* Stop, on its own (its struct is in target from the call on) or called   *)
(* by Destroy, which keeps the lock of the struct in vm meanwhile.         *)

StopCall(g, n) ==
  /\ "Stop" \in Ops
  /\ At(g, "idle")
  /\ mu = Free
  /\ vms[n] # NoObj
  /\ frame' = [frame EXCEPT ![g] = [Idle EXCEPT !.pc = "stop_lock",
                                     !.name = n, !.target = vms[n]]]
  /\ UNCHANGED <<mu, vms, heap, kern, file, proc>>

Nested(g) == frame[g].vm # NoObj

(* m.Get of a Stop that another operation called.                          *)
StopGet(g) ==
  /\ At(g, "stop_get")
  /\ mu = Free
  /\ vms[frame[g].name] # NoObj
  /\ frame' = [frame EXCEPT ![g].target = vms[frame[g].name],
                            ![g].pc = "stop_lock"]
  /\ UNCHANGED <<mu, vms, heap, kern, file, proc>>

(* No such VM, or not running: a calling Destroy fails too, and unlocks.   *)
StopRefused(g) ==
  /\ \/ At(g, "stop_get") /\ mu = Free /\ vms[frame[g].name] = NoObj
     \/ /\ At(g, "stop_lock")
        /\ heap[frame[g].target].mu = Free
        /\ heap[frame[g].target].state # "running"
  /\ heap' = IF Nested(g) THEN [heap EXCEPT ![frame[g].vm].mu = Free] ELSE heap
  /\ Return(g)
  /\ UNCHANGED <<mu, vms, kern, file, proc>>

(* Mutant: Stop does without vm.mu, so that Destroy can call it.           *)
StopLockUnlocked(g) ==
  LET o == frame[g].target IN
  /\ At(g, "stop_lock")
  /\ heap[o].state = "running"
  /\ heap' = [heap EXCEPT ![o].state = "stopping"]
  /\ Goto(g, "stop_signal")
  /\ UNCHANGED <<mu, vms, kern, file, proc>>

StopLock(g) ==
  LET o == frame[g].target IN
  /\ At(g, "stop_lock")
  /\ heap[o].mu = Free
  /\ heap[o].state = "running"
  /\ heap' = [heap EXCEPT ![o].state = "stopping", ![o].mu = g]
  /\ Goto(g, "stop_signal")
  /\ UNCHANGED <<mu, vms, kern, file, proc>>

(* SIGTERM, or SIGKILL when it is refused; a zombie accepts both.  bhyve   *)
(* makes an ACPI event of SIGTERM, which a guest may ignore.               *)
StopSignal(g) ==
  /\ At(g, "stop_signal")
  /\ Goto(g, "stop_wait")
  /\ UNCHANGED <<mu, vms, heap, kern, file, proc>>

(* Both refused.                                                           *)
StopSignalRefused(g) ==
  /\ At(g, "stop_signal")
  /\ "signal" \in Faults
  /\ heap' = [o \in Objs |->
       IF o = frame[g].target THEN [heap[o] EXCEPT !.state = "error", !.mu = Free]
       ELSE IF o = frame[g].vm THEN [heap[o] EXCEPT !.mu = Free]
       ELSE heap[o]]
  /\ Return(g)
  /\ UNCHANGED <<mu, vms, kern, file, proc>>

Stopped(g, v) ==
  /\ heap' = [heap EXCEPT ![frame[g].target] = v]
  /\ Return(g)
  /\ UNCHANGED <<mu, vms, kern, file>>

(* Mutant: Stop does not wait for the process to exit.                     *)
StopWaitNot(g) ==
  LET o == frame[g].target IN
  /\ At(g, "stop_wait")
  /\ Stopped(g, [heap[o] EXCEPT !.state = "stopped", !.process = NoProc,
                               !.handle = FALSE, !.mu = Free])
  /\ UNCHANGED proc

(* Mutant: Stop forgets to close the libvmmapi handle.                     *)
StopWaitKeepsHandle(g) ==
  LET o == frame[g].target IN
  /\ At(g, "stop_wait")
  /\ proc[heap[o].process].st = "zombie"
  /\ Stopped(g, [heap[o] EXCEPT !.state = "stopped", !.process = NoProc,
                               !.mu = Free])
  /\ proc' = [proc EXCEPT ![heap[o].process] = NoProcess]

(* Mutant: Stop keeps a PID that can be signalled after it was waited for. *)
StopWaitKeepsPid(g) ==
  LET o == frame[g].target IN
  /\ At(g, "stop_wait")
  /\ proc[heap[o].process].st = "zombie"
  /\ Stopped(g, [heap[o] EXCEPT !.state = "stopped", !.handle = FALSE,
                               !.mu = Free])
  /\ proc' = [proc EXCEPT ![heap[o].process] = NoProcess]

StopWait(g) ==
  LET o == frame[g].target
      p == heap[o].process IN
  /\ At(g, "stop_wait")
  /\ proc[p].st = "zombie"
  /\ proc' = [proc EXCEPT ![p] = NoProcess]
  /\ heap' = [heap EXCEPT ![o].state = "stopped", ![o].process = NoProc,
                          ![o].handle = FALSE, ![o].mu = Free]
  /\ IF Nested(g)
     THEN frame' = [frame EXCEPT ![g].target = NoObj,
                                 ![g].pc = "destroy_kernel"]
     ELSE Return(g)
  /\ UNCHANGED <<mu, vms, kern, file>>

----------------------------------------------------------------------------
(* Destroy: the struct's lock is held to the end.                          *)

DestroyCall(g, n) == "Destroy" \in Ops /\ Call(g, n, "destroy_lock")

DestroyLock(g) ==
  LET o == frame[g].vm IN
  /\ At(g, "destroy_lock")
  /\ heap[o].mu = Free
  /\ heap' = [heap EXCEPT ![o].mu = g]
  /\ Goto(g, IF heap[o].state = "running" THEN "stop_get" ELSE "destroy_kernel")
  /\ UNCHANGED <<mu, vms, kern, file, proc>>

(* Mutant: Destroy removes the configuration before the kernel object.     *)
DestroyKernelLast(g) ==
  LET n == frame[g].name IN
  /\ At(g, "destroy_kernel")
  /\ IF file[n] = "absent"
     THEN /\ kern' = [kern EXCEPT ![n] = FALSE]
          /\ heap' = [heap EXCEPT ![frame[g].vm].handle = FALSE]
          /\ Goto(g, "destroy_file")
          /\ UNCHANGED file
     ELSE /\ file' = [file EXCEPT ![n] = "absent"]
          /\ UNCHANGED <<kern, heap, frame>>
  /\ UNCHANGED <<mu, vms, proc>>

(* Through the handle, or through one opened for the purpose.  A failure   *)
(* to open, and one of vm_destroy, is ignored: Destroy goes on.            *)
DestroyKernel(g) ==
  LET o == frame[g].vm IN
  /\ At(g, "destroy_kernel")
  /\ \/ kern' = [kern EXCEPT ![frame[g].name] = FALSE]
     \/ "vmm" \in Faults /\ UNCHANGED kern
  /\ heap' = [heap EXCEPT ![o].handle = FALSE]
  /\ Goto(g, "destroy_file")
  /\ UNCHANGED <<mu, vms, file, proc>>

(* A missing file is no error to os.Remove's caller.                       *)
DestroyFile(g) ==
  /\ At(g, "destroy_file")
  /\ file' = [file EXCEPT ![frame[g].name] = "absent"]
  /\ Goto(g, "destroy_unmap")
  /\ UNCHANGED <<mu, vms, heap, kern, proc>>

DestroyFileFails(g) ==
  /\ At(g, "destroy_file")
  /\ file[frame[g].name] # "absent"
  /\ heap' = [heap EXCEPT ![frame[g].vm].mu = Free]
  /\ Return(g)
  /\ UNCHANGED <<mu, vms, kern, file, proc>>

DestroyUnmap(g) ==
  /\ At(g, "destroy_unmap")
  /\ mu = Free
  /\ vms' = [vms EXCEPT ![frame[g].name] = NoObj]
  /\ heap' = [heap EXCEPT ![frame[g].vm].mu = Free]
  /\ Return(g)
  /\ UNCHANGED <<mu, kern, file, proc>>

----------------------------------------------------------------------------
(* GetState and GetStatus                                                  *)

QueryCall(g, n) == "Query" \in Ops /\ Call(g, n, "query_lock")

(* Mutant: GetState gives the VM a state that is none of the constants.    *)
QueryExited(g) ==
  LET o == frame[g].vm IN
  /\ At(g, "query_lock")
  /\ heap[o].mu = Free
  /\ heap[o].state = "running"
  /\ heap' = [heap EXCEPT ![o].state = "exited"]
  /\ Return(g)
  /\ UNCHANGED <<mu, vms, kern, file, proc>>

(* GetStatus takes the lock and reads; GetState too, when signal 0 reaches *)
(* the process.                                                            *)
Query(g) ==
  /\ At(g, "query_lock")
  /\ heap[frame[g].vm].mu = Free
  /\ Return(g)
  /\ UNCHANGED <<mu, vms, heap, kern, file, proc>>

(* Signal 0 is refused only by a fault: the process, dead or not, has not  *)
(* been waited for as long as the state is "running".                      *)
QuerySignalRefused(g) ==
  LET o == frame[g].vm IN
  /\ At(g, "query_lock")
  /\ "signal" \in Faults
  /\ heap[o].mu = Free
  /\ heap[o].state = "running"
  /\ heap' = [heap EXCEPT ![o].state = "stopped", ![o].handle = FALSE]
  /\ Return(g)
  /\ UNCHANGED <<mu, vms, kern, file, proc>>

----------------------------------------------------------------------------
(* Shutdown: m.mu is held throughout, and Stop begins with m.Get.  The     *)
(* state is read without the struct's lock; half of a string assignment    *)
(* never equals "running", so the read sees the old or the new state.      *)

ShutdownCall(g) ==
  /\ "Shutdown" \in Ops
  /\ At(g, "idle")
  /\ mu = Free
  /\ mu' = g
  /\ frame' = [frame EXCEPT ![g] =
                  [Idle EXCEPT !.pc = "shutdown_scan",
                               !.todo = {n \in Names : vms[n] # NoObj}]]
  /\ UNCHANGED <<vms, heap, kern, file, proc>>

ShutdownScan(g) ==
  /\ At(g, "shutdown_scan")
  /\ \E n \in frame[g].todo :
       frame' = IF heap[vms[n]].state = "running"
                THEN [frame EXCEPT ![g].pc = "stop_get", ![g].name = n]
                ELSE [frame EXCEPT ![g].todo = @ \ {n}]
  /\ UNCHANGED <<mu, vms, heap, kern, file, proc>>

ShutdownReturn(g) ==
  /\ At(g, "shutdown_scan")
  /\ frame[g].todo = {}
  /\ mu' = Free
  /\ Return(g)
  /\ UNCHANGED <<vms, heap, kern, file, proc>>

----------------------------------------------------------------------------
(* The environment: bhyve processes exit; the server and the host restart. *)

(* A child stays a zombie until it is waited for; init reaps the orphans.  *)
ProcExit(p) ==
  /\ proc[p].st = "alive"
  /\ proc' = [proc EXCEPT ![p] = IF @.child THEN [@ EXCEPT !.st = "zombie"]
                                 ELSE NoProcess]
  /\ UNCHANGED <<mu, vms, heap, frame, kern, file>>

(* LoadAllVMs on an empty registry.  The directory or a file may fail to   *)
(* be read, and a file to parse: a warning is all that comes of it, and    *)
(* the VM is not registered.                                               *)
LoadAllVMs ==
  \E L \in SUBSET Names :
    /\ \A n \in L : file[n] # "absent"
    /\ \E at \in [L -> Objs] :
         /\ \A m, n \in L : at[m] = at[n] => m = n
         /\ vms' = [n \in Names |-> IF n \in L THEN at[n] ELSE NoObj]
         /\ heap' = [o \in Objs |->
                       IF \E n \in L : at[n] = o
                       THEN NewVM(CHOOSE n \in L : at[n] = o) ELSE Unused]

(* The server exits at any point, without a call of Shutdown, and a new    *)
(* one loads the configurations.  bhyve goes on without its parent.        *)
Restart ==
  /\ "crash" \in Faults
  /\ LoadAllVMs
  /\ mu' = Free
  /\ frame' = [g \in Goroutines |-> Idle]
  /\ proc' = [p \in Procs |-> IF proc[p].st = "alive"
                              THEN [proc[p] EXCEPT !.child = FALSE]
                              ELSE NoProcess]
  /\ UNCHANGED <<kern, file>>

Reboot ==
  /\ "reboot" \in Faults
  /\ LoadAllVMs
  /\ mu' = Free
  /\ frame' = [g \in Goroutines |-> Idle]
  /\ proc' = [p \in Procs |-> NoProcess]
  /\ kern' = [n \in Names |-> FALSE]
  /\ UNCHANGED file

----------------------------------------------------------------------------
(* Specification                                                           *)

Calls(g) ==
  \/ ShutdownCall(g)
  \/ \E n \in Names : \/ CreateCall(g, n) \/ StartCall(g, n)
                       \/ StopCall(g, n) \/ DestroyCall(g, n)
                       \/ QueryCall(g, n)

Step(g) ==
  \/ CreateSave(g) \/ CreateWrite(g) \/ CreateKernel(g) \/ CreateFails(g)
  \/ StartRefused(g) \/ StartLock(g) \/ StartOpen(g) \/ StartFork(g)
  \/ StartFails(g)
  \/ StopGet(g) \/ StopRefused(g) \/ StopLock(g) \/ StopSignal(g)
  \/ StopSignalRefused(g) \/ StopWait(g)
  \/ DestroyLock(g) \/ DestroyKernel(g) \/ DestroyFile(g)
  \/ DestroyFileFails(g) \/ DestroyUnmap(g)
  \/ Query(g) \/ QuerySignalRefused(g) \/ ShutdownScan(g) \/ ShutdownReturn(g)

Next ==
  \/ \E g \in Goroutines : Calls(g) \/ Step(g)
  \/ \E p \in Procs : ProcExit(p)
  \/ Restart
  \/ Reboot

Spec == Init /\ [][Next]_vars

(* A runnable goroutine is scheduled, and one that waits for a lock gets   *)
(* it before the lock has been taken for ever by others (Go hands a mutex  *)
(* to a waiter starved for a millisecond): strong fairness.  Nothing makes *)
(* a guest power off.                                                      *)
Fairness == \A g \in Goroutines : SF_vars(Step(g))

FairSpec == Spec /\ Fairness

----------------------------------------------------------------------------
(* Invariants, for any number of goroutines and every fault                *)

TypeOK ==
  /\ mu \in Goroutines \cup {Free}
  /\ vms \in [Names -> Objs \cup {NoObj}]
  /\ heap \in [Objs -> VMStruct]
  /\ frame \in [Goroutines -> Frame]
  /\ kern \in [Names -> BOOLEAN]
  /\ file \in [Names -> FileStates]
  /\ proc \in [Procs -> Process]

Starting(g, o) == frame[g].vm = o /\ frame[g].pc \in {"start_open", "start_fork"}

Stopping(g, o) ==
  frame[g].target = o /\ frame[g].pc \in {"stop_signal", "stop_wait"}

Destroying(g, o) ==
  /\ frame[g].vm = o
  /\ frame[g].pc \in {"stop_get", "stop_lock", "stop_signal", "stop_wait",
                      "destroy_kernel", "destroy_file", "destroy_unmap"}

(* vm.mu is held by exactly the goroutine whose operation is past its      *)
(* vm.mu.Lock(), and "starting" and "stopping" are seen only from outside  *)
(* it: whoever gets the lock finds a settled state, so that no operation   *)
(* can work on a VM another one has half started or half stopped.          *)
TransientUnderLock ==
  \A o \in Objs :
    /\ \A g \in Goroutines :
         heap[o].mu = g <=> Starting(g, o) \/ Stopping(g, o) \/ Destroying(g, o)
    /\ heap[o].state = "starting" <=> \E g \in Goroutines : Starting(g, o)
    /\ heap[o].state = "stopping" <=> \E g \in Goroutines : Stopping(g, o)

(* A VM the manager says is running, or is stopping, has a bhyve process   *)
(* of its own name that nobody has waited for: Stop signals and waits for  *)
(* the right process, never one whose PID the kernel has given away,       *)
(* however calls, failures and restarts interleave.                        *)
RunningHasProcess ==
  \A o \in Objs : heap[o].state \in {"running", "stopping"} =>
    \E p \in Procs : /\ heap[o].process = p
                     /\ proc[p].st # "free"
                     /\ proc[p].child
                     /\ proc[p].name = heap[o].name

(* A bhyve process is recorded in at most one VM struct, so that two Stops *)
(* never wait for the same child.                                          *)
ProcessOwnedOnce ==
  \A o1, o2 \in Objs :
    heap[o1].process = heap[o2].process => o1 = o2 \/ heap[o1].process = NoProc

----------------------------------------------------------------------------
(* Invariants of one caller, over a kernel that accepts the signals of its *)
(* owner; the server and the host may crash, and calls of vmm fail         *)

(* The children the manager has not waited for.                            *)
Unreaped(n) ==
  {p \in Procs : proc[p].st # "free" /\ proc[p].child /\ proc[p].name = n}

(* Start never gives a VM a second child, and Destroy never leaves one     *)
(* behind: a child exists only as the one the registered struct of its     *)
(* name knows, through every failure of Start, Stop and Destroy.           *)
NoUnmanagedProcess ==
  \A n \in Names :
    \/ Unreaped(n) = {}
    \/ /\ vms[n] # NoObj
       /\ Unreaped(n) = {heap[vms[n]].process}
       /\ heap[vms[n]].state \in {"running", "stopping"}

(* The handle of a registered VM is open exactly from Start to Stop, and   *)
(* may be after a failed Start: Stop leaks none, and GetStatus and Destroy *)
(* of a running VM find one.                                               *)
HandleFollowsState ==
  \A n \in Names : vms[n] # NoObj =>
    LET vm == heap[vms[n]] IN
    /\ vm.state \in {"running", "stopping"} => vm.handle
    /\ vm.state \in {"defined", "stopped"} => ~vm.handle

(* A registered VM's configuration stays on disk until Destroy removes it  *)
(* as its last failable step: whenever the server ends, there is a file    *)
(* for every VM it had, of which the next server may make a VM again.      *)
ConfigOutlivesVM ==
  \A n \in Names : vms[n] # NoObj =>
    \/ file[n] # "absent"
    \/ \E g \in Goroutines : At(g, "destroy_unmap") /\ frame[g].name = n

----------------------------------------------------------------------------
(* Refinement: what a caller sees of a VM is its struct's state            *)

Life == [n \in Names |-> IF vms[n] = NoObj THEN "absent" ELSE heap[vms[n]].state]

Guest == [n \in Names |->
  IF Unreaped(n) = {} THEN "none"
  ELSE IF \E p \in Unreaped(n) : proc[p].st = "alive" THEN "alive" ELSE "dead"]

Lifecycle == INSTANCE VMLifecycle WITH life <- Life, guest <- Guest

(* With one caller, every call, failed calls included, takes VMs along the *)
(* lifecycle of their names and the steps of one bhyve process each.       *)
ImplementsLifecycle == Lifecycle!LifeSpec

----------------------------------------------------------------------------
(* Action and liveness properties                                          *)

SelfDeadlock(g) ==
  \/ At(g, "stop_get") /\ mu = g
  \/ At(g, "stop_lock") /\ heap[frame[g].target].mu = g

(* g waits for a lock that h holds: m.mu, or the mutex of a VM struct.      *)
WaitsFor(g, h) ==
  \/ frame[g].pc \in {"stop_get", "destroy_unmap"} /\ mu = h
  \/ /\ frame[g].pc \in {"start_lock", "destroy_lock", "query_lock"}
     /\ heap[frame[g].vm].mu = h
  \/ At(g, "stop_lock") /\ heap[frame[g].target].mu = h

(* Callers never wait for one another in a circle, although Destroy asks   *)
(* for m.mu, and for the mutex of another struct that has its VM's name by *)
(* now, while it has a struct's mutex: of callers each of whom waits for   *)
(* one of them, one waits for itself.                                      *)
NoLockCycle ==
  \A W \in SUBSET Goroutines :
    W # {} /\ (\A g \in W : \E h \in W : WaitsFor(g, h))
      => \E g \in W : SelfDeadlock(g)

(* Stop's Wait() has no timeout, and a guest may ignore SIGTERM.           *)
AwaitsGuest(g) ==
  At(g, "stop_wait") /\ proc[heap[frame[g].target].process].st = "alive"

(* g cannot go on before h does, of those in W, or before a guest powers   *)
(* off, or ever: g is in the least set that is closed under waiting.       *)
Stuck(g) ==
  \A W \in SUBSET Goroutines :
    (\A h \in Goroutines : \/ SelfDeadlock(h)
                           \/ AwaitsGuest(h)
                           \/ \E k \in W : WaitsFor(h, k)
                           => h \in W)
      => g \in W

(* A call that has its VM comes back, unless it is caught for good in the  *)
(* self-deadlock of Destroy or Shutdown, in Stop's Wait() for a guest that *)
(* runs on, or in a queue that ends with such a call: no lock is left      *)
(* taken by a call that failed, and none is waited for in a circle.        *)
CallsReturn ==
  \A g \in Goroutines : []<>At(g, "idle") \/ <>[]Stuck(g)

----------------------------------------------------------------------------
(* What the documents and comments of the repository claim                 *)

(* "// Stop if running" in Destroy: Destroy of a running VM comes back.    *)
DestroyReturns ==
  \A g \in Goroutines : At(g, "stop_get") /\ Nested(g) ~> At(g, "idle")

(* "// Check if process is still running" in GetState: a VM it reports     *)
(* running has a live process.                                             *)
RunningReportedAlive ==
  [][\A g \in Goroutines, o \in Objs :
       At(g, "query_lock") /\ frame[g].vm = o /\ Query(g)
         /\ heap'[o].state = "running"
       => proc[heap[o].process].st = "alive"]_vars

(* "Serialize per-VM operations with a mutex": operations on one VM by     *)
(* several callers never give it two live bhyve processes.                 *)
OneProcessPerVM ==
  \A n \in Names : Cardinality({p \in Unreaped(n) : proc[p].st = "alive"}) <= 1

=============================================================================
