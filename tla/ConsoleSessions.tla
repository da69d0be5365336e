-------------------------- MODULE ConsoleSessions --------------------------
(***************************************************************************)
(* The console sessions of internal/console/manager.go: the table under    *)
(* m.mu, sessions with a mutex of their own that is held over the device's *)
(* I/O, and calls that go on with a session they looked up before another  *)
(* call closed it.  The device is a terminal (nmdm) that takes one piece   *)
(* of input the guest has not read; the guest need not read it.            *)
(***************************************************************************)
EXTENDS Naturals

CONSTANTS
  VMs,
  Sessions,    (* identities of ConsoleSession structs, reused when unreachable *)
  Goroutines,
  Faults,      (* "close": closing a device may report an error;           *)
               (* "blocking": a device the runtime cannot poll, on which   *)
               (* deadlines and Close do not end I/O, and whose file stays *)
               (* open until the I/O is over                               *)
  NoVM, NoSession, Free

ASSUME ConsoleSessionsAssumption ==
  /\ Faults \subseteq {"close", "blocking"}
  /\ NoVM \notin VMs
  /\ NoSession \notin Sessions
  /\ Free \notin Goroutines

VARIABLES
  mu,        (* m.mu: the goroutine that holds it for writing, or Free     *)
  consoles,  (* m.consoles: VM -> session, or NoSession                    *)
  session,   (* the session structs and their files                        *)
  frame,     (* per goroutine: where it is in the call it makes            *)
  input      (* per VM: the device holds input the guest has not read      *)

vars == <<mu, consoles, session, frame, input>>

(* "closing": closed, but the descriptor is in use by I/O, the end of      *)
(* which closes it.  "failed": File.Close reported an error, which leaves  *)
(* the file closed.                                                        *)
Session == [file: {"none", "open", "closing", "closed", "failed"},
            pollable: BOOLEAN, mu: Goroutines \cup {Free}]

Unused == [file |-> "none", pollable |-> TRUE, mu |-> Free]

(* "..._get": the call waits for m.mu, to look its VM up.                  *)
Frame == [pc: {"idle", "open_get", "open", "close_get", "close", "close_wait",
               "read_get", "read_lock", "read",
               "write_get", "write_lock", "write"},
          vm: VMs \cup {NoVM}, session: Sessions \cup {NoSession}]

Idle == [pc |-> "idle", vm |-> NoVM, session |-> NoSession]

Init ==
  /\ mu = Free
  /\ consoles = [v \in VMs |-> NoSession]
  /\ session = [s \in Sessions |-> Unused]
  /\ frame = [g \in Goroutines |-> Idle]
  /\ input = [v \in VMs |-> FALSE]

At(g, l) == frame[g].pc = l

Goto(g, l) == frame' = [frame EXCEPT ![g].pc = l]

Return(g) == frame' = [frame EXCEPT ![g] = Idle]

Call(g, v, l) ==
  /\ At(g, "idle")
  /\ frame' = [frame EXCEPT ![g] = [Idle EXCEPT !.pc = l, !.vm = v]]
  /\ UNCHANGED <<mu, consoles, session, input>>

(* Mutant: a look-up that does not ask whether there is a session.         *)
FoundUnchecked(g, from, to) ==
  /\ At(g, from)
  /\ mu = Free
  /\ frame' = [frame EXCEPT ![g].pc = to, ![g].session = consoles[frame[g].vm]]
  /\ UNCHANGED <<consoles, session, input>>

(* m.mu is free, and v's session is in the table.                          *)
Found(g, from, to) ==
  LET s == consoles[frame[g].vm] IN
  /\ At(g, from)
  /\ mu = Free
  /\ s # NoSession
  /\ frame' = [frame EXCEPT ![g].pc = to, ![g].session = s]
  /\ UNCHANGED <<consoles, session, input>>

(* Open finds a session, or another call finds none: it returns an error.  *)
LookupFails(g) ==
  /\ \/ At(g, "open_get") /\ consoles[frame[g].vm] # NoSession
     \/ /\ frame[g].pc \in {"close_get", "read_get", "write_get"}
        /\ consoles[frame[g].vm] = NoSession
  /\ mu = Free
  /\ Return(g)
  /\ UNCHANGED <<mu, consoles, session, input>>

Unreachable(s) ==
  /\ \A v \in VMs : consoles[v] # s
  /\ \A g \in Goroutines : frame[g].session # s

----------------------------------------------------------------------------
(* Open: m.mu is held while the device is opened, which may take for ever: *)
(* open(2) of a terminal may wait for its other end.                       *)

OpenAbsent(g) ==
  /\ At(g, "open_get")
  /\ mu = Free
  /\ consoles[frame[g].vm] = NoSession
  /\ mu' = g
  /\ Goto(g, "open")
  /\ UNCHANGED <<consoles, session, input>>

OpenDevice(g) ==
  /\ At(g, "open")
  /\ \E s \in Sessions, p \in BOOLEAN :
       /\ Unreachable(s)
       /\ p \/ "blocking" \in Faults
       /\ session' = [session EXCEPT ![s] = [file |-> "open", pollable |-> p,
                                             mu |-> Free]]
       /\ consoles' = [consoles EXCEPT ![frame[g].vm] = s]
  /\ mu' = Free
  /\ Return(g)
  /\ UNCHANGED input

OpenFails(g) ==
  /\ At(g, "open")
  /\ mu' = Free
  /\ Return(g)
  /\ UNCHANGED <<consoles, session, input>>

----------------------------------------------------------------------------
(* Close: m.mu is held, the session's mutex is not asked for.              *)

CloseFound(g) == Found(g, "close_get", "close") /\ mu' = g

(* A goroutine in the device's I/O through s.                              *)
InIO(h, s) == frame[h].session = s /\ frame[h].pc \in {"read", "write"}

(* Mutant: Close takes session.mu first.                                   *)
CloseFileLocked(g) ==
  LET s == frame[g].session IN
  /\ At(g, "close")
  /\ session[s].file = "open"
  /\ session[s].mu = Free
  /\ session' = [session EXCEPT ![s].file = "closed"]
  /\ Goto(g, "close_wait")
  /\ UNCHANGED <<mu, consoles, input>>

(* File.Close closes the file, or leaves that to the I/O that uses it.     *)
CloseFile(g) ==
  LET s == frame[g].session IN
  /\ At(g, "close")
  /\ session[s].file = "open"
  /\ session' = [session EXCEPT ![s].file =
                   IF \E h \in Goroutines : InIO(h, s) THEN "closing" ELSE "closed"]
  /\ Goto(g, "close_wait")
  /\ UNCHANGED <<mu, consoles, input>>

(* If the device can be polled, File.Close wakes that I/O and waits for it *)
(* to be out of the file.                                                  *)
Drained(s) == session[s].pollable => session[s].file = "closed"

(* Mutant: the entry is deleted only if nobody else uses the session.      *)
CloseDoneKeeps(g) ==
  LET s == frame[g].session IN
  /\ At(g, "close_wait")
  /\ Drained(s)
  /\ IF \A h \in Goroutines \ {g} : frame[h].session # s
     THEN consoles' = [consoles EXCEPT ![frame[g].vm] = NoSession]
     ELSE UNCHANGED consoles
  /\ mu' = Free
  /\ Return(g)
  /\ UNCHANGED <<session, input>>

CloseDone(g) ==
  /\ At(g, "close_wait")
  /\ Drained(frame[g].session)
  /\ consoles' = [consoles EXCEPT ![frame[g].vm] = NoSession]
  /\ mu' = Free
  /\ Return(g)
  /\ UNCHANGED <<session, input>>

(* The file was closed by an earlier Close that failed, or File.Close      *)
(* itself closes it and that fails (an error that the end of other I/O     *)
(* gets is lost): Close returns before it deletes the entry.               *)
CloseFails(g) ==
  LET s == frame[g].session IN
  /\ \/ At(g, "close") /\ session[s].file # "open"
     \/ At(g, "close_wait") /\ session[s].file = "closed" /\ "close" \in Faults
  /\ session' = [session EXCEPT ![s].file = "failed"]
  /\ mu' = Free
  /\ Return(g)
  /\ UNCHANGED <<consoles, input>>

----------------------------------------------------------------------------
(* Read and Write (SendKeys and SendText are Writes).  m.mu is free again  *)
(* when they wait for the session's mutex.                                 *)

ReadFound(g)  == Found(g, "read_get", "read_lock") /\ UNCHANGED mu
WriteFound(g) == Found(g, "write_get", "write_lock") /\ UNCHANGED mu

(* On a closed file I/O fails at once.                                     *)
Lock(g, from, to) ==
  LET s == frame[g].session IN
  /\ At(g, from)
  /\ session[s].mu = Free
  /\ IF session[s].file = "open"
     THEN session' = [session EXCEPT ![s].mu = g] /\ Goto(g, to)
     ELSE Return(g) /\ UNCHANGED session
  /\ UNCHANGED <<mu, consoles, input>>

ReadLock(g)  == Lock(g, "read_lock", "read")
WriteLock(g) == Lock(g, "write_lock", "write")

(* The last to use a file that was closed meanwhile closes the descriptor. *)
Unlock(g) ==
  LET s == frame[g].session IN
  /\ session' = [session EXCEPT
       ![s].mu = Free,
       ![s].file = IF session[s].file = "closing" THEN "closed" ELSE session[s].file]
  /\ Return(g)
  /\ UNCHANGED <<mu, consoles>>

(* Mutant: Read returns from the timeout with session.mu locked.           *)
ReadTimeoutLocked(g) ==
  /\ At(g, "read")
  /\ session[frame[g].session].pollable
  /\ Return(g)
  /\ UNCHANGED <<mu, consoles, session, input>>

(* Mutant: the device is opened in blocking mode: Close wakes nobody.      *)
AlwaysUsable(s) == TRUE

(* I/O through a file that is closed meanwhile ends only if it was woken.  *)
Usable(s) == session[s].pollable => session[s].file = "open"

(* The guest has written something, which it need not ever do.             *)
ReadData(g) ==
  /\ At(g, "read")
  /\ Usable(frame[g].session)
  /\ Unlock(g)
  /\ UNCHANGED input

(* Mutant: Read sets no deadline, so that only a Close ends it.            *)
ReadNoDeadline(g) ==
  /\ At(g, "read")
  /\ session[frame[g].session].file # "open"
  /\ Unlock(g)
  /\ UNCHANGED input

ReadTimeout(g) ==
  /\ At(g, "read")
  /\ session[frame[g].session].pollable
  /\ Unlock(g)
  /\ UNCHANGED input

WriteData(g) ==
  LET v == frame[g].vm IN
  /\ At(g, "write")
  /\ Usable(frame[g].session)
  /\ ~input[v]
  /\ input' = [input EXCEPT ![v] = TRUE]
  /\ Unlock(g)

(* Close woke the Read or the Write up: it returns an error.               *)
Woken(g) ==
  /\ frame[g].pc \in {"read", "write"}
  /\ ~Usable(frame[g].session)
  /\ Unlock(g)
  /\ UNCHANGED input

----------------------------------------------------------------------------
GuestReads(v) ==
  /\ input[v]
  /\ input' = [input EXCEPT ![v] = FALSE]
  /\ UNCHANGED <<mu, consoles, session, frame>>

----------------------------------------------------------------------------
Calls(g) == \E v \in VMs :
  \E l \in {"open_get", "close_get", "read_get", "write_get"} : Call(g, v, l)

Step(g) ==
  \/ OpenAbsent(g) \/ CloseFound(g) \/ ReadFound(g) \/ WriteFound(g)
  \/ LookupFails(g)
  \/ CloseFile(g) \/ CloseDone(g) \/ CloseFails(g)
  \/ ReadLock(g) \/ ReadTimeout(g)
  \/ WriteLock(g) \/ WriteData(g) \/ Woken(g)

Next ==
  \/ \E g \in Goroutines :
       Calls(g) \/ OpenDevice(g) \/ OpenFails(g) \/ ReadData(g) \/ Step(g)
  \/ \E v \in VMs : GuestReads(v)

Spec == Init /\ [][Next]_vars

(* A goroutine that can go on does, and gets a mutex that is free again    *)
(* and again (sync.Mutex hands itself to a starving waiter); a deadline    *)
(* passes.  Guests are not fair, open(2) need not return, nor does anybody *)
(* have to call.                                                           *)
FairSpec == Spec /\ \A g \in Goroutines : SF_vars(Step(g))

----------------------------------------------------------------------------
(* Properties                                                              *)

(* Everything has its type, and a call that is past its look-up has found  *)
(* a session, through which it will lock, read, write and close.           *)
TypeOK ==
  /\ mu \in Goroutines \cup {Free}
  /\ consoles \in [VMs -> Sessions \cup {NoSession}]
  /\ session \in [Sessions -> Session]
  /\ frame \in [Goroutines -> Frame]
  /\ input \in [VMs -> BOOLEAN]
  /\ \A g \in Goroutines :
       frame[g].session # NoSession <=>
         frame[g].pc \in {"close", "close_wait", "read_lock", "read", "write_lock", "write"}

Closes(g, s) == At(g, "close_wait") /\ frame[g].session = s /\ mu = g

(* No device stays open that the table does not lead to, but for one that  *)
(* cannot be polled, while the Read or Write in it lasts; and what the     *)
(* table leads to is open, but for the session somebody is closing and the *)
(* one a Close failed on, which keeps its VM from being opened again.  The *)
(* stale calls on closed sessions, which may outlive several, change       *)
(* neither.                                                                *)
TableMatchesDevices ==
  /\ \A s \in Sessions :
       /\ session[s].file \in {"open", "failed"} => \E v \in VMs : consoles[v] = s
       /\ session[s].file = "closing" =>
            \/ \E g \in Goroutines : Closes(g, s)
            \/ ~session[s].pollable /\ \E g \in Goroutines : InIO(g, s)
  /\ \A v \in VMs : consoles[v] # NoSession =>
       \/ session[consoles[v]].file \in {"open", "failed"}
       \/ \E g \in Goroutines : Closes(g, consoles[v])

(* A session's mutex is held by exactly the goroutine in its device's I/O: *)
(* a Read and a Write never use one device file at the same time, and no   *)
(* way out of either, a timeout or a Close from outside, leaves it locked. *)
MutexHeldForIO ==
  \A s \in Sessions, g \in Goroutines : session[s].mu = g <=> InIO(g, s)

(* I/O that only the guest, or nothing, ends: there is no write deadline,  *)
(* and none at all on a device that cannot be polled.                      *)
Stuck(g) ==
  \/ At(g, "write") /\ input[frame[g].vm] /\ Usable(frame[g].session)
  \/ At(g, "read") /\ ~session[frame[g].session].pollable

(* Some Open waits in open(2), with m.mu locked.                           *)
OpenWaits == \E h \in Goroutines : At(h, "open")

(* What a call may wait for for ever: a device that does not let itself be *)
(* opened, by this call or by the one that has m.mu, and I/O that is stuck *)
(* in the call's own session, or its own.                                  *)
Hung(g) ==
  \/ At(g, "open")
  \/ frame[g].pc \in {"open_get", "close_get", "read_get", "write_get"} /\ OpenWaits
  \/ Stuck(g)
  \/ /\ frame[g].pc \in {"read_lock", "write_lock"}
     /\ \E h \in Goroutines : frame[h].session = frame[g].session /\ Stuck(h)

(* Every call returns, whatever is opened and closed meanwhile, but for    *)
(* one that is hung for good for one of these reasons.                     *)
CallsReturn == \A g \in Goroutines : []<>At(g, "idle") \/ <>[]Hung(g)

(* A Close returns, also while a Write of its session waits for a guest    *)
(* that never reads and a Read for a device that cannot be polled: it does *)
(* not queue behind session.mu.  Only an Open that hangs keeps it out.     *)
ClosesReturn ==
  \A g \in Goroutines :
    \/ []<>(frame[g].pc \notin {"close_get", "close", "close_wait"})
    \/ <>[]OpenWaits

(* Close sets everybody free that waits in, or for, I/O of the session, a  *)
(* Write that no guest would have ended included.                          *)
CloseFreesCallers ==
  \A g \in Goroutines :
    (\E s \in Sessions : /\ frame[g].session = s
                         /\ session[s].pollable
                         /\ session[s].file \in {"closing", "closed", "failed"})
      ~> At(g, "idle")

=============================================================================
