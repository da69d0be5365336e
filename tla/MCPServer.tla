----------------------------- MODULE MCPServer -----------------------------
(***************************************************************************)
(* The server of internal/mcp/server.go: one goroutine that decodes a      *)
(* request, handles it and encodes its answer, over the VM manager it owns *)
(* (VMManager) and the command lines that manager gives bhyve              *)
(* (BhyveCommand).  The server may end at any point, also because a        *)
(* request cannot be decoded or an answer not be written; the VMs run on,  *)
(* and whoever spawned the server spawns the next one (Restart of          *)
(* VMManager).  Handlers of the disk, network and store managers leave all *)
(* this alone; those managers have modules of their own.                   *)
(***************************************************************************)
EXTENDS VMManager, BhyveCommand

CONSTANTS
  Main,       (* the goroutine of Run                                      *)
  Edits,      (* the configurations administrators write                   *)
  MaxDisplays (* bound: VMs with VNC one server starts                     *)

ASSUME MCPServerAssumption ==
  /\ Goroutines = {Main}
  /\ Ops = AllOps \ {"Shutdown"}
  /\ Faults \subseteq {"vmm", "crash", "reboot"}
  /\ Edits \subseteq VMConfig
  /\ Created \in Edits
  /\ MaxDisplays \in Nat

VARIABLES
  req,          (* the request being served                                *)
  answer,       (* what it is answered                                     *)
  cfg,          (* per registered VM, its Config                           *)
  vncPortNext,  (* m.vncPortNext                                           *)
  line,         (* per child, the command line it was given                *)
  lost          (* history: names whose kernel object a Destroy has left   *)

loopVars == <<req, answer>>
vmVars == <<cfg, vncPortNext, line, lost>>
mcpVars == <<vars, loopVars, vmVars>>

(* "other": answered without a call that changes anything here.            *)
Methods == {"vm/create", "vm/start", "vm/stop", "vm/destroy", "vm/state", "other"}

NoRequest == [phase |-> "decode", method |-> "other", name |-> NoName]

Request == [phase: {"decode", "handle", "encode"}, method: Methods,
            name: Names \cup {NoName}]

(* setDefaults: the configuration file is never read.                      *)
BasePort == 5900

MCPInit ==
  /\ Init
  /\ req = NoRequest
  /\ answer = "none"
  /\ cfg = [n \in Names |-> Created]
  /\ vncPortNext = BasePort
  /\ line = [p \in Procs |-> NoLine]
  /\ lost = {}

----------------------------------------------------------------------------
(* What a step of the VM manager does to configurations and processes      *)

Forget == cfg' = [n \in Names |-> IF vms'[n] = NoObj THEN Created ELSE cfg[n]]

(* Mutant: the port is read, and not counted.                              *)
TakePortAgain(n) == UNCHANGED vncPortNext

TakePort(n) ==
  IF cfg[n].vnc THEN /\ vncPortNext < BasePort + MaxDisplays
                     /\ vncPortNext' = vncPortNext + 1
                ELSE UNCHANGED vncPortNext

Spawn == line' = [p \in Procs |->
  IF ~proc'[p].child THEN NoLine
  ELSE IF proc[p].st = "free" THEN CommandLine(cfg[req.name], vncPortNext)
  ELSE line[p]]

(* The port is taken before the fork is tried.                             *)
Ports ==
  IF At(Main, "start_fork") /\ ~At(Main, "start_fork")'
  THEN \/ TakePort(req.name)
       \/ StartFails(Main) /\ UNCHANGED vncPortNext
  ELSE UNCHANGED vncPortNext

(* A kernel object is lost when Destroy goes on without having destroyed   *)
(* it, until it is destroyed after all.                                    *)
Abandons(n) ==
  n = frame[Main].name /\ At(Main, "destroy_kernel") /\ At(Main, "destroy_file")'

Lose == lost' = {n \in Names : kern'[n] /\ (n \in lost \/ Abandons(n))}

----------------------------------------------------------------------------
(* The request loop                                                        *)

(* HandleRequest's dispatch; vm/status is served as vm/state is.           *)
Dispatch(m, n) ==
  \/ m = "vm/create"  /\ CreateCall(Main, n)
  \/ m = "vm/start"   /\ StartCall(Main, n)
  \/ m = "vm/stop"    /\ StopCall(Main, n)
  \/ m = "vm/destroy" /\ DestroyCall(Main, n)
  \/ m = "vm/state"   /\ QueryCall(Main, n)

Decode(m, n) ==
  /\ req.phase = "decode"
  /\ Dispatch(m, n)
  /\ req' = [phase |-> "handle", method |-> m, name |-> n]
  /\ UNCHANGED <<answer, vmVars>>

(* Bad parameters, no such VM, a VM that exists, an unknown method; and    *)
(* the handlers that leave the VMs alone.                                  *)
DecodeAndAnswer(a) ==
  /\ req.phase = "decode"
  /\ req' = [NoRequest EXCEPT !.phase = "encode"]
  /\ answer' = a
  /\ UNCHANGED <<vars, vmVars>>

(* The steps with which an operation of the manager returns no error.      *)
Succeeds ==
  \/ CreateKernel(Main) \/ StartFork(Main) \/ StopWait(Main)
  \/ DestroyUnmap(Main) \/ Query(Main)

(* Mutant: the handler drops the error.                                    *)
HandleUnchecked ==
  /\ req.phase = "handle"
  /\ Step(Main)
  /\ Forget /\ Ports /\ Spawn /\ Lose
  /\ IF At(Main, "idle")'
     THEN req' = [req EXCEPT !.phase = "encode"] /\ answer' = "ok"
     ELSE UNCHANGED loopVars

Handle ==
  /\ req.phase = "handle"
  /\ Step(Main)
  /\ Forget /\ Ports /\ Spawn /\ Lose
  /\ IF At(Main, "idle")'
     THEN /\ req' = [req EXCEPT !.phase = "encode"]
          /\ answer' = IF Succeeds THEN "ok" ELSE "error"
     ELSE UNCHANGED loopVars

Encode ==
  /\ req.phase = "encode"
  /\ req' = NoRequest
  /\ answer' = "none"
  /\ UNCHANGED <<vars, vmVars>>

----------------------------------------------------------------------------
(* What happens to the server                                              *)

Exit(p) ==
  /\ ProcExit(p)
  /\ Spawn
  /\ UNCHANGED <<loopVars, cfg, vncPortNext, lost>>

(* A new server: Initialize reads what the files say by now.               *)
Initialize ==
  /\ Restart \/ Reboot
  /\ cfg' \in [Names -> Edits \cup {Created, Blank}]
  /\ \A n \in Names :
       cfg'[n] \in IF vms'[n] = NoObj THEN {Created}
                   ELSE IF file[n] = "empty" THEN {Blank} ELSE Edits
  /\ Spawn
  /\ vncPortNext' = BasePort
  /\ lost' = {n \in lost : kern'[n]}
  /\ req' = NoRequest
  /\ answer' = "none"

MCPNext ==
  \/ \E m \in Methods, n \in Names : Decode(m, n)
  \/ \E a \in {"ok", "error"} : DecodeAndAnswer(a)
  \/ Handle
  \/ Encode
  \/ \E p \in Procs : Exit(p)
  \/ Initialize

MCPSpec == MCPInit /\ [][MCPNext]_mcpVars

----------------------------------------------------------------------------
(* Properties                                                              *)

MCPTypeOK ==
  /\ TypeOK
  /\ req \in Request
  /\ answer \in {"none", "ok", "error"}
  /\ cfg \in [Names -> Edits \cup {Created, Blank}]
  /\ vncPortNext \in BasePort .. BasePort + MaxDisplays
  /\ \A p \in Procs : line[p].port \in {NoPort} \cup BasePort .. BasePort + MaxDisplays
  /\ lost \subseteq Names

(* What an "ok" says is so of the host, and not only of the table: after   *)
(* vm/create there are a kernel object and a whole file, after vm/start a  *)
(* child process, after vm/stop no child, after vm/destroy no child, no    *)
(* file, and no kernel object but one that vm_open or vm_destroy failed    *)
(* on; whatever failed before.  A bhyve that an earlier server started and *)
(* that runs on is no child, and no answer speaks of it.                   *)
AnswersTrue ==
  req.phase = "encode" /\ answer = "ok" =>
    LET n == req.name IN
    CASE req.method = "vm/create" -> /\ Life[n] = "defined"
                                     /\ kern[n] /\ file[n] = "full"
      [] req.method = "vm/start" -> /\ Life[n] = "running"
                                    /\ kern[n] /\ Unreaped(n) # {}
      [] req.method = "vm/stop" -> Life[n] = "stopped" /\ Unreaped(n) = {}
      [] req.method = "vm/destroy" -> /\ Life[n] = "absent" /\ Unreaped(n) = {}
                                      /\ file[n] = "absent"
                                      /\ ~kern[n] \/ n \in lost
      [] OTHER -> TRUE

(* A kernel VM object has a configuration of its name on disk, by which a  *)
(* server to come can register its VM and destroy it: no failed call, no   *)
(* crash, no VM that failed to load and was created again leaves one       *)
(* without; only a Destroy does that goes on when vm_open or vm_destroy    *)
(* has failed.                                                             *)
NoOrphanKernelObject ==
  \A n \in Names : kern[n] => file[n] # "absent" \/ n \in lost

(* Two bhyve processes of one server never listen on one VNC port, though  *)
(* the counter is under no lock of the manager.                            *)
DisplaysApart ==
  \A p, q \in Procs :
    line[p].port = line[q].port /\ line[p].port # NoPort => p = q

(* Every device of a child has a slot of its own, with whatever its        *)
(* configuration said when it was started.                                 *)
DevicesApart ==
  \A p \in Procs : line[p] # NoLine =>
    Cardinality({d[1] : d \in line[p].slots}) = Devices(line[p].config)
=============================================================================
