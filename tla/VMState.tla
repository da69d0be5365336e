------------------------------ MODULE VMState ------------------------------
(***************************************************************************)
(* The state of the VM manager of internal/vm/manager.go: the registry     *)
(* m.vms, the VM structs it points to, where each goroutine is in the      *)
(* operation it runs, and the host resources the operations touch through  *)
(* libvmmapi, os/exec and the configuration directory.  VMManager holds    *)
(* the operations.                                                         *)
(***************************************************************************)
EXTENDS Naturals, FiniteSets

CONSTANTS
  Names,       (* VM names callers use                                     *)
  Objs,        (* identities of VM structs; an unreachable one is reused   *)
  Procs,       (* process slots for bhyve; none free makes cmd.Start fail  *)
  Goroutines,  (* concurrent callers; the server of internal/mcp has one   *)
  Ops,         (* which exported operations the callers use                *)
  Faults,      (* which host faults may happen, see AllFaults              *)
  NoName, NoObj, NoProc, Free

AllOps == {"Create", "Start", "Stop", "Destroy", "Query", "Shutdown"}

(***************************************************************************)
(* "signal": kill(2) may refuse a signal (EPERM, a MAC policy);            *)
(* "vmm": vm_open may fail on a kernel object that exists, and vm_destroy; *)
(* "crash": the server exits and is started again; "reboot": the host is.  *)
(***************************************************************************)
AllFaults == {"signal", "vmm", "crash", "reboot"}

ASSUME VMManagerAssumption ==
  /\ Ops \subseteq AllOps
  /\ Faults \subseteq AllFaults
  /\ NoName \notin Names
  /\ NoObj \notin Objs
  /\ NoProc \notin Procs
  /\ Free \notin Goroutines

VARIABLES
  mu,     (* m.mu: the goroutine that holds it for writing, or Free        *)
  vms,    (* m.vms: name -> VM struct, or NoObj                            *)
  heap,   (* the VM structs                                                *)
  frame,  (* per goroutine: where it is in the operation it runs           *)
  kern,   (* which names have a kernel VM object (/dev/vmm/<name>)         *)
  file,   (* per name, the state of <VMConfigDir>/<name>.yaml              *)
  proc    (* the bhyve processes                                           *)

vars == <<mu, vms, heap, frame, kern, file, proc>>

States == {"none", "defined", "starting", "running", "stopping", "stopped",
           "error"}

(* process is the os.Process until it has been waited for: from then on    *)
(* Signal and Wait on it no longer reach any process.                      *)
VMStruct == [name: Names \cup {NoName}, state: States,
             process: Procs \cup {NoProc}, handle: BOOLEAN,
             mu: Goroutines \cup {Free}]

Unused == [name |-> NoName, state |-> "none", process |-> NoProc,
           handle |-> FALSE, mu |-> Free]

NewVM(n) == [Unused EXCEPT !.name = n, !.state = "defined"]

PCs == {"idle", "create_save", "create_write", "create_kernel",
        "start_lock", "start_open", "start_fork",
        "stop_get", "stop_lock", "stop_signal", "stop_wait",
        "destroy_lock", "destroy_kernel", "destroy_file", "destroy_unmap",
        "query_lock", "shutdown_scan"}

(* vm: the struct Start, Destroy or GetState got; target: the one Stop got, *)
(* on its own or called by Destroy; todo: what Shutdown has not visited.    *)
Frame == [pc: PCs, name: Names \cup {NoName}, vm: Objs \cup {NoObj},
          target: Objs \cup {NoObj}, todo: SUBSET Names]

Idle == [pc |-> "idle", name |-> NoName, vm |-> NoObj, target |-> NoObj,
         todo |-> {}]

Process == [st: {"free", "alive", "zombie"}, name: Names \cup {NoName},
            child: BOOLEAN]

NoProcess == [st |-> "free", name |-> NoName, child |-> FALSE]

FileStates == {"absent", "empty", "full"}

Init ==
  /\ mu = Free
  /\ vms = [n \in Names |-> NoObj]
  /\ heap = [o \in Objs |-> Unused]
  /\ frame = [g \in Goroutines |-> Idle]
  /\ kern = [n \in Names |-> FALSE]
  /\ file = [n \in Names |-> "absent"]
  /\ proc = [p \in Procs |-> NoProcess]

----------------------------------------------------------------------------
(* Frames                                                                  *)

At(g, l) == frame[g].pc = l

Goto(g, l) == frame' = [frame EXCEPT ![g].pc = l]

Return(g) == frame' = [frame EXCEPT ![g] = Idle]

Call(g, n, l) ==
  /\ At(g, "idle")
  /\ mu = Free
  /\ vms[n] # NoObj
  /\ frame' = [frame EXCEPT ![g] = [Idle EXCEPT !.pc = l, !.name = n,
                                                !.vm = vms[n]]]
  /\ UNCHANGED <<mu, vms, heap, kern, file, proc>>

(* No map entry and no frame refers to o, so the next allocation may be o. *)
Unreachable(o) ==
  /\ \A n \in Names : vms[n] # o
  /\ \A g \in Goroutines : frame[g].vm # o /\ frame[g].target # o

=============================================================================
