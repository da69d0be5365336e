------------------------ MODULE ConsoleSessionsProofs ------------------------
(***************************************************************************)
(* Theorems about ConsoleSessions, for any VMs, callers and devices.       *)
(***************************************************************************)
EXTENDS ConsoleSessions, TLAPS

Closing(g) == frame[g].pc \in {"close", "close_wait"}

(* What a call knows of the session it works on.                           *)
FrameOK(g) ==
  /\ At(g, "idle") => frame[g] = Idle
  /\ ~At(g, "idle") => frame[g].vm \in VMs
  /\ At(g, "open") => frame[g].session = NoSession /\ consoles[frame[g].vm] = NoSession
  /\ Closing(g) => consoles[frame[g].vm] = frame[g].session
  /\ At(g, "close_wait") => session[frame[g].session].file \in {"closing", "closed"}

(* m.mu is held by the one call that changes the table.                    *)
TableLocked ==
  \A g \in Goroutines : mu = g <=> At(g, "open") \/ Closing(g)

(* A session is in the table once, while it is open, a Close is at work on *)
(* it or one has failed.                                                   *)
SessionInTable(s) == \E v \in VMs : consoles[v] = s

TableOK ==
  /\ \A v, w \in VMs : consoles[v] = consoles[w] /\ consoles[v] # NoSession => v = w
  /\ \A s \in Sessions :
       /\ session[s].file \in {"open", "failed"} => SessionInTable(s)
       /\ SessionInTable(s) =>
            \/ session[s].file \in {"open", "failed"}
            \/ \E g \in Goroutines : At(g, "close_wait") /\ frame[g].session = s

(* A descriptor that is to be closed by the I/O in it: it cannot be polled *)
(* or somebody waits for it.                                               *)
ClosingOK ==
  \A s \in Sessions : session[s].file = "closing" =>
    /\ \E g \in Goroutines : InIO(g, s)
    /\ session[s].pollable =>
         \E g \in Goroutines : At(g, "close_wait") /\ frame[g].session = s

(* The inductive invariant.                                                *)
SessionInv ==
  /\ TypeOK
  /\ \A g \in Goroutines : FrameOK(g)
  /\ TableLocked
  /\ TableOK
  /\ ClosingOK
  /\ MutexHeldForIO

USE ConsoleSessionsAssumption

LEMMA InitSessions == Init => SessionInv
  BY DEF Init, SessionInv, TypeOK, FrameOK, TableLocked, TableOK, ClosingOK, MutexHeldForIO, InIO,
         SessionInTable, Closing, At, Idle, Frame, Unused, Session

(* What Close and Unlock do to a session.                                  *)
LEMMA SessionTypes ==
  ASSUME TypeOK, NEW s \in Sessions,
         NEW f \in {"none", "open", "closing", "closed", "failed"}
  PROVE  /\ [session EXCEPT ![s].file = f] \in [Sessions -> Session]
         /\ [session EXCEPT ![s].mu = Free, ![s].file = f] \in [Sessions -> Session]
<1>1. session \in [Sessions -> Session]
  BY DEF TypeOK
<1>2. [session[s] EXCEPT !.mu = Free, !.file = f] \in Session
  BY <1>1 DEF Session
<1>3. [session[s] EXCEPT !.file = f] \in Session
  BY <1>1 DEF Session
<1>4. [session EXCEPT ![s].file = f] = [session EXCEPT ![s] = [session[s] EXCEPT !.file = f]]
  BY <1>1
<1>5. [session EXCEPT ![s].mu = Free, ![s].file = f]
        = [session EXCEPT ![s] = [session[s] EXCEPT !.mu = Free, !.file = f]]
  BY <1>1 DEF Session
<1> QED BY <1>1, <1>2, <1>3, <1>4, <1>5

(* A call goes on with the session it has found.                           *)
LEMMA FrameTypes ==
  ASSUME NEW f \in Frame, NEW p \in {"close", "read_lock", "write_lock"},
         NEW s \in Sessions
  PROVE  [f EXCEPT !.pc = p, !.session = s] \in Frame
  BY DEF Frame

(* A step of one call changes its own frame.                               *)
LEMMA TypeStep == SessionInv /\ [Next]_vars => TypeOK'
<1> SUFFICES ASSUME SessionInv, [Next]_vars PROVE TypeOK'
  OBVIOUS
<1> USE DEF SessionInv, TypeOK, Session, Frame, Idle, At, Goto, Return, FrameOK, Closing
<1>1. CASE UNCHANGED vars
  BY <1>1 DEF vars
<1>2. ASSUME NEW g \in Goroutines, Calls(g) PROVE TypeOK'
  <2> PICK v \in VMs, l \in {"open_get", "close_get", "read_get", "write_get"} : Call(g, v, l)
    BY <1>2 DEF Calls
  <2>1. /\ [Idle EXCEPT !.pc = l, !.vm = v] \in Frame
        /\ [Idle EXCEPT !.pc = l, !.vm = v].session = NoSession
        /\ [Idle EXCEPT !.pc = l, !.vm = v].pc = l
    OBVIOUS
  <2> QED BY <2>1 DEF Call
<1>3. ASSUME NEW g \in Goroutines, OpenDevice(g) PROVE TypeOK'
  <2>1. frame[g].vm \in VMs
    BY <1>3 DEF OpenDevice
  <2> QED BY <1>3, <2>1 DEF OpenDevice
<1>4. ASSUME NEW g \in Goroutines, OpenFails(g) \/ LookupFails(g) \/ OpenAbsent(g)
      PROVE  TypeOK'
  BY <1>4 DEF OpenFails, LookupFails, OpenAbsent
<1>5. ASSUME NEW g \in Goroutines,
             NEW from \in {"close_get", "read_get", "write_get"},
             NEW to \in {"close", "read_lock", "write_lock"},
             Found(g, from, to), mu' \in {mu, g}
      PROVE  TypeOK'
  <2>1. frame[g].vm \in VMs
    BY <1>5 DEF Found
  <2>2. consoles[frame[g].vm] \in Sessions
    BY <1>5, <2>1 DEF Found
  <2>3. /\ frame' = [frame EXCEPT ![g].pc = to, ![g].session = consoles[frame[g].vm]]
        /\ UNCHANGED <<consoles, session, input>>
    BY <1>5 DEF Found
  <2>4. /\ frame' \in [Goroutines -> Frame]
        /\ frame'[g].pc = to /\ frame'[g].session = consoles[frame[g].vm]
        /\ \A h \in Goroutines : h # g => frame'[h] = frame[h]
    <3>1. [frame[g] EXCEPT !.pc = to, !.session = consoles[frame[g].vm]] \in Frame
      <4>1. frame[g] \in Frame
        OBVIOUS
      <4> HIDE DEF Frame
      <4> QED BY <2>2, <4>1, FrameTypes
    <3>2. frame' = [frame EXCEPT ![g] = [frame[g] EXCEPT !.pc = to,
                                                         !.session = consoles[frame[g].vm]]]
      BY <2>3
    <3> QED BY <3>1, <3>2
  <2> QED BY <1>5, <2>2, <2>3, <2>4
<1>6. ASSUME NEW g \in Goroutines, CloseFound(g) \/ ReadFound(g) \/ WriteFound(g)
      PROVE  TypeOK'
  BY <1>5, <1>6 DEF CloseFound, ReadFound, WriteFound
<1>7. ASSUME NEW g \in Goroutines, CloseFile(g) PROVE TypeOK'
  <2>1. frame[g].session \in Sessions
    BY <1>7 DEF CloseFile
  <2>2. session' \in [Sessions -> Session]
    BY <1>7, <2>1, SessionTypes DEF CloseFile
  <2> QED BY <1>7, <2>2 DEF CloseFile
<1>8. ASSUME NEW g \in Goroutines, CloseDone(g) PROVE TypeOK'
  BY <1>8 DEF CloseDone
<1>9. ASSUME NEW g \in Goroutines, CloseFails(g) PROVE TypeOK'
  <2>1. frame[g].session \in Sessions
    BY <1>9 DEF CloseFails
  <2>2. session' \in [Sessions -> Session]
    BY <1>9, <2>1, SessionTypes DEF CloseFails
  <2> QED BY <1>9, <2>2 DEF CloseFails
<1>10. ASSUME NEW g \in Goroutines, NEW a \in {"read_lock", "write_lock"},
              NEW b \in {"read", "write"}, Lock(g, a, b)
       PROVE  TypeOK'
  <2>1. At(g, a) /\ frame[g].session \in Sessions
    BY <1>10 DEF Lock
  <2>2. session' \in [Sessions -> Session]
    <3>1. CASE UNCHANGED session
      BY <3>1
    <3>2. CASE session' = [session EXCEPT ![frame[g].session].mu = g]
      BY <2>1, <3>2
    <3> QED BY <1>10, <3>1, <3>2 DEF Lock
  <2>3. CASE session[frame[g].session].file = "open"
    <3>1. Goto(g, b) /\ UNCHANGED <<mu, consoles, input>>
      BY <1>10, <2>3 DEF Lock
    <3>2. /\ frame' \in [Goroutines -> Frame]
          /\ frame'[g].pc = b /\ frame'[g].session = frame[g].session
          /\ \A h \in Goroutines : h # g => frame'[h] = frame[h]
      BY <3>1
    <3> QED BY <2>1, <2>2, <3>1, <3>2
  <2>4. CASE session[frame[g].session].file # "open"
    <3>1. frame' = [frame EXCEPT ![g] = Idle] /\ UNCHANGED <<mu, consoles, input>>
      BY <1>10, <2>4 DEF Lock
    <3>2. frame' \in [Goroutines -> Frame] /\ frame'[g] = Idle
      BY <3>1
    <3> QED BY <2>2, <3>1, <3>2
  <2> QED BY <2>3, <2>4
<1>11. ASSUME NEW g \in Goroutines,
              ReadData(g) \/ ReadTimeout(g) \/ WriteData(g) \/ Woken(g)
       PROVE  TypeOK'
  <2>1. Unlock(g)
    BY <1>11 DEF ReadData, ReadTimeout, WriteData, Woken
  <2>2. frame[g].session \in Sessions /\ frame[g].vm \in VMs
    BY <1>11 DEF ReadData, ReadTimeout, WriteData, Woken
  <2>3. session' \in [Sessions -> Session]
    <3> DEFINE s == frame[g].session
               f == IF session[s].file = "closing" THEN "closed" ELSE session[s].file
    <3>1. f \in {"none", "open", "closing", "closed", "failed"}
      BY <2>2
    <3>2. session' = [session EXCEPT ![s].mu = Free, ![s].file = f]
      BY <2>1 DEF Unlock
    <3> HIDE DEF f
    <3> QED BY <2>2, <3>1, <3>2, SessionTypes
  <2>4. input' \in [VMs -> BOOLEAN]
    BY <1>11, <2>2 DEF ReadData, ReadTimeout, WriteData, Woken
  <2> QED BY <2>1, <2>3, <2>4 DEF Unlock
<1>12. ASSUME NEW v \in VMs, GuestReads(v) PROVE TypeOK'
  BY <1>12 DEF GuestReads
<1> QED
  BY <1>1, <1>2, <1>3, <1>4, <1>6, <1>7, <1>8, <1>9, <1>10, <1>11, <1>12
  DEF Next, Step, ReadLock, WriteLock

Rest ==
  /\ \A g \in Goroutines : FrameOK(g)
  /\ TableLocked
  /\ TableOK
  /\ ClosingOK
  /\ MutexHeldForIO

LEMMA DeviceOpened ==
  ASSUME NEW g \in Goroutines, OpenDevice(g)
  PROVE  /\ At(g, "open") /\ mu' = Free /\ frame' = [frame EXCEPT ![g] = Idle]
         /\ \E s \in Sessions, p \in BOOLEAN :
              /\ Unreachable(s)
              /\ session' = [session EXCEPT ![s] = [file |-> "open", pollable |-> p, mu |-> Free]]
              /\ consoles' = [consoles EXCEPT ![frame[g].vm] = s]
  BY DEF OpenDevice, Return

LEMMA SessionStep == SessionInv /\ [Next]_vars => SessionInv'
<1> SUFFICES ASSUME SessionInv, [Next]_vars PROVE Rest'
  BY TypeStep DEF SessionInv, Rest
<1> USE DEF SessionInv, TypeOK, Session, Frame, Idle, At, Goto, Return, FrameOK, Closing,
            TableLocked, TableOK, ClosingOK, SessionInTable, MutexHeldForIO, InIO, Rest
<1>1. CASE UNCHANGED vars
  BY <1>1 DEF vars
<1>2. ASSUME NEW g \in Goroutines, Calls(g) PROVE Rest'
  <2> PICK v \in VMs, l \in {"open_get", "close_get", "read_get", "write_get"} : Call(g, v, l)
    BY <1>2 DEF Calls
  <2>1. /\ \A h \in Goroutines : h # g => frame'[h] = frame[h]
        /\ frame'[g].pc = l /\ frame'[g].vm = v /\ frame'[g].session = NoSession
        /\ At(g, "idle") /\ frame[g].session = NoSession
        /\ UNCHANGED <<mu, consoles, session>>
    BY DEF Call
  <2>2. (\A h \in Goroutines : FrameOK(h))'
    BY <2>1
  <2>3. TableLocked'
    BY <2>1
  <2>4. TableOK'
    BY <2>1
  <2>5. ClosingOK'
    BY <2>1
  <2>6. MutexHeldForIO'
    BY <2>1
  <2> QED BY <2>2, <2>3, <2>4, <2>5, <2>6
<1>3. ASSUME NEW g \in Goroutines, NEW from \in {"read_get", "write_get"},
             NEW to \in {"read_lock", "write_lock"}, Found(g, from, to), UNCHANGED mu
      PROVE  Rest'
  <2>1. /\ \A h \in Goroutines : h # g => frame'[h] = frame[h]
        /\ frame'[g].pc = to /\ frame'[g].vm = frame[g].vm
        /\ frame'[g].session = consoles[frame[g].vm]
        /\ At(g, from) /\ consoles[frame[g].vm] # NoSession
        /\ UNCHANGED <<mu, consoles, session>>
    BY <1>3 DEF Found
  <2>2. (\A h \in Goroutines : FrameOK(h))'
    BY <2>1
  <2>3. TableLocked'
    BY <2>1
  <2>4. TableOK'
    BY <2>1
  <2>5. ClosingOK' /\ MutexHeldForIO'
    <3>1. \A h \in Goroutines, t \in Sessions : InIO(h, t)' <=> InIO(h, t)
      BY <2>1
    <3>2. \A h \in Goroutines, t \in Sessions :
            At(h, "close_wait") /\ frame[h].session = t
              => (At(h, "close_wait") /\ frame[h].session = t)'
      BY <2>1
    <3> QED BY <2>1, <3>1, <3>2
  <2> QED BY <2>2, <2>3, <2>4, <2>5
<1>4. ASSUME NEW g \in Goroutines, LookupFails(g) \/ OpenFails(g) PROVE Rest'
  <2>1. /\ \A h \in Goroutines : h # g => frame'[h] = frame[h]
        /\ frame'[g] = Idle /\ frame[g].session = NoSession
        /\ ~At(g, "close_wait") /\ frame[g].pc \notin {"read", "write"}
        /\ UNCHANGED <<consoles, session>>
    BY <1>4 DEF LookupFails, OpenFails
  <2>2. TableLocked'
    BY <1>4, <2>1 DEF LookupFails, OpenFails
  <2>3. (\A h \in Goroutines : FrameOK(h))'
    BY <2>1
  <2>4. TableOK' /\ ClosingOK' /\ MutexHeldForIO'
    BY <2>1
  <2> QED BY <2>2, <2>3, <2>4
<1>5. ASSUME NEW g \in Goroutines, OpenDevice(g) PROVE Rest'
  <2>1. PICK s \in Sessions, p \in BOOLEAN :
          /\ Unreachable(s)
          /\ session' = [session EXCEPT ![s] = [file |-> "open", pollable |-> p, mu |-> Free]]
          /\ consoles' = [consoles EXCEPT ![frame[g].vm] = s]
    BY <1>5, DeviceOpened
  <2>2. /\ \A h \in Goroutines : frame[h].session # s
        /\ \A v \in VMs : consoles[v] # s
    BY <2>1 DEF Unreachable
  <2>a. At(g, "open") /\ mu' = Free /\ frame' = [frame EXCEPT ![g] = Idle]
    BY <1>5, DeviceOpened
  <2>b. FrameOK(g) /\ mu = g
    BY <2>a
  <2>3. /\ At(g, "open") /\ frame[g].vm \in VMs /\ mu = g /\ mu' = Free
        /\ consoles[frame[g].vm] = NoSession
        /\ frame' = [frame EXCEPT ![g] = Idle]
    BY <2>a, <2>b
  <2>4. \A h \in Goroutines : ~At(h, "idle")' => h # g /\ frame'[h] = frame[h] /\ ~Closing(h)
                                               /\ ~At(h, "open")
    BY <2>3
  <2>5. /\ session'[s].file = "open" /\ session'[s].mu = Free
        /\ \A t \in Sessions : t # s => session'[t] = session[t]
        /\ consoles'[frame[g].vm] = s
        /\ \A v \in VMs : v # frame[g].vm => consoles'[v] = consoles[v]
    BY <2>1, <2>3
  <2>6. (\A h \in Goroutines : FrameOK(h))'
    BY <2>3, <2>4
  <2>7. TableLocked'
    BY <2>3, <2>4
  <2>8. TableOK'
    <3>1. ASSUME NEW t \in Sessions PROVE SessionInTable(t)' <=> t = s \/ SessionInTable(t)
      <4>1. SessionInTable(t)' <=> \E v \in VMs : consoles'[v] = t
        OBVIOUS
      <4>2. t # s => \A v \in VMs : consoles'[v] = t <=> consoles[v] = t
        BY <2>3, <2>5
      <4> QED BY <2>3, <2>5, <4>1, <4>2
    <3>2. \A h \in Goroutines : ~At(h, "close_wait")
      BY <2>3
    <3> QED BY <2>2, <2>3, <2>5, <3>1, <3>2
  <2>9. MutexHeldForIO'
    BY <2>2, <2>3, <2>4, <2>5
  <2>10. ClosingOK'
    <3>1. ASSUME NEW h \in Goroutines, frame[h].session # NoSession
          PROVE  h # g /\ frame'[h] = frame[h]
      <4>1. frame[g].session = NoSession
        BY <2>3
      <4> QED BY <2>3, <3>1, <4>1
    <3> QED BY <2>2, <2>5, <3>1
  <2> QED BY <2>6, <2>7, <2>8, <2>9, <2>10
<1>6. ASSUME NEW g \in Goroutines, OpenAbsent(g) \/ CloseFound(g) PROVE Rest'
  <2>1. /\ \A h \in Goroutines : h # g => frame'[h] = frame[h]
        /\ frame'[g].vm = frame[g].vm
        /\ frame[g].pc \in {"open_get", "close_get"}
        /\ mu = Free /\ mu' = g
        /\ UNCHANGED <<consoles, session>>
        /\ \/ /\ frame'[g].pc = "open" /\ frame'[g].session = NoSession
              /\ consoles[frame[g].vm] = NoSession
           \/ /\ frame'[g].pc = "close"
              /\ frame'[g].session = consoles[frame[g].vm]
              /\ consoles[frame[g].vm] # NoSession
    BY <1>6 DEF OpenAbsent, CloseFound, Found
  <2>2. (\A h \in Goroutines : FrameOK(h))'
    BY <2>1
  <2>3. TableLocked'
    BY <2>1
  <2>4. TableOK' /\ ClosingOK' /\ MutexHeldForIO'
    BY <2>1
  <2> QED BY <2>2, <2>3, <2>4
<1>7. ASSUME NEW g \in Goroutines, CloseFile(g) PROVE Rest'
  <2> DEFINE s == frame[g].session
  <2>1. /\ \A h \in Goroutines : h # g => frame'[h] = frame[h]
        /\ frame'[g].pc = "close_wait" /\ frame'[g].vm = frame[g].vm
        /\ frame'[g].session = s
        /\ At(g, "close") /\ s \in Sessions /\ session[s].file = "open"
        /\ UNCHANGED <<mu, consoles>>
    BY <1>7 DEF CloseFile
  <2>2. /\ \A t \in Sessions : t # s => session'[t] = session[t]
        /\ session'[s].mu = session[s].mu
        /\ session'[s].file
             = IF \E h \in Goroutines : InIO(h, s) THEN "closing" ELSE "closed"
    BY <1>7, <2>1 DEF CloseFile
  <2>3. \A h \in Goroutines : ~At(h, "close_wait")
    BY <2>1
  <2>4. (\A h \in Goroutines : FrameOK(h))'
    BY <2>1, <2>2
  <2>5. TableLocked'
    BY <2>1
  <2>6. TableOK'
    BY <2>1, <2>2
  <2>7. ClosingOK'
    <3>1. \A h \in Goroutines : \A t \in Sessions : InIO(h, t)' <=> InIO(h, t)
      BY <2>1
    <3> QED BY <2>1, <2>2, <2>3, <3>1
  <2>8. MutexHeldForIO'
    BY <2>1, <2>2
  <2> QED BY <2>4, <2>5, <2>6, <2>7, <2>8
<1>8. ASSUME NEW g \in Goroutines, CloseDone(g) PROVE Rest'
  <2> DEFINE s == frame[g].session
  <2>1. /\ \A h \in Goroutines : h # g => frame'[h] = frame[h]
        /\ frame'[g] = Idle
        /\ At(g, "close_wait") /\ s \in Sessions /\ Drained(s)
        /\ consoles[frame[g].vm] = s /\ frame[g].vm \in VMs
        /\ mu = g /\ mu' = Free
        /\ consoles' = [consoles EXCEPT ![frame[g].vm] = NoSession]
        /\ UNCHANGED session
    BY <1>8 DEF CloseDone
  <2>2. \A h \in Goroutines \ {g} : ~At(h, "close_wait") /\ ~Closing(h) /\ ~At(h, "open")
    BY <2>1
  <2>3. (\A h \in Goroutines : FrameOK(h))'
    BY <2>1, <2>2
  <2>4. TableLocked'
    BY <2>1, <2>2
  <2>5. TableOK'
    BY <2>1, <2>2
  <2>6. ClosingOK'
    BY <2>1, <2>2 DEF Drained
  <2>7. MutexHeldForIO'
    BY <2>1
  <2> QED BY <2>3, <2>4, <2>5, <2>6, <2>7
<1>9. ASSUME NEW g \in Goroutines, CloseFails(g) PROVE Rest'
  <2> DEFINE s == frame[g].session
  <2>1. /\ \A h \in Goroutines : h # g => frame'[h] = frame[h]
        /\ frame'[g] = Idle
        /\ Closing(g) /\ s \in Sessions /\ session[s].file # "closing"
        /\ consoles[frame[g].vm] = s /\ frame[g].vm \in VMs
        /\ mu = g /\ mu' = Free
        /\ UNCHANGED consoles
    <3>1. At(g, "close") /\ session[s].file # "open" => session[s].file # "closing"
      BY <1>9
    <3> QED BY <1>9, <3>1 DEF CloseFails
  <2>2. /\ \A t \in Sessions : t # s => session'[t] = session[t]
        /\ session'[s].mu = session[s].mu /\ session'[s].file = "failed"
    BY <1>9, <2>1 DEF CloseFails
  <2>3. \A h \in Goroutines \ {g} : ~At(h, "close_wait") /\ ~Closing(h) /\ ~At(h, "open")
    BY <2>1
  <2>4. (\A h \in Goroutines : FrameOK(h))'
    BY <2>1, <2>2, <2>3
  <2>5. TableLocked'
    BY <2>1, <2>3
  <2>6. TableOK'
    BY <2>1, <2>2, <2>3
  <2>7. ClosingOK'
    BY <2>1, <2>2, <2>3
  <2>8. MutexHeldForIO'
    BY <2>1, <2>2
  <2> QED BY <2>4, <2>5, <2>6, <2>7, <2>8
<1>10. ASSUME NEW g \in Goroutines, NEW a \in {"read_lock", "write_lock"},
              NEW b \in {"read", "write"}, Lock(g, a, b)
       PROVE  Rest'
  <2>1. At(g, a) /\ frame[g].session \in Sessions /\ session[frame[g].session].mu = Free
    BY <1>10 DEF Lock
  <2>2. CASE session[frame[g].session].file = "open"
    <3>1. session' = [session EXCEPT ![frame[g].session].mu = g] /\ Goto(g, b)
      BY <1>10, <2>2 DEF Lock
    <3>2. /\ \A h \in Goroutines : h # g => frame'[h] = frame[h]
          /\ frame'[g].pc = b /\ frame'[g].vm = frame[g].vm
          /\ frame'[g].session = frame[g].session
      BY <3>1
    <3>3. /\ \A t \in Sessions : /\ session'[t].file = session[t].file
                                 /\ session'[t].pollable = session[t].pollable
          /\ session'[frame[g].session].mu = g
          /\ \A t \in Sessions : t # frame[g].session => session'[t].mu = session[t].mu
      BY <2>1, <3>1
    <3>4. UNCHANGED <<mu, consoles>>
      BY <1>10 DEF Lock
    <3>5. (\A h \in Goroutines : FrameOK(h))'
      BY <2>1, <3>2, <3>3, <3>4
    <3>6. TableLocked'
      BY <2>1, <3>2, <3>4
    <3>7. TableOK'
      <4>1. \A h \in Goroutines, t \in Sessions :
              At(h, "close_wait") /\ frame[h].session = t
                => (At(h, "close_wait") /\ frame[h].session = t)'
        BY <2>1, <3>2
      <4> QED BY <3>3, <3>4, <4>1
    <3>8. MutexHeldForIO'
      BY <2>1, <3>2, <3>3
    <3>9. ClosingOK'
      BY <2>1, <2>2, <3>2, <3>3
    <3> QED BY <3>5, <3>6, <3>7, <3>8, <3>9
  <2>3. CASE session[frame[g].session].file # "open"
    <3>1. /\ \A h \in Goroutines : h # g => frame'[h] = frame[h]
          /\ frame'[g] = Idle
          /\ UNCHANGED <<mu, consoles, session>>
      BY <1>10, <2>3 DEF Lock
    <3>2. (\A h \in Goroutines : FrameOK(h))'
      BY <2>1, <3>1
    <3>3. TableLocked'
      BY <2>1, <3>1
    <3>4. ASSUME NEW h \in Goroutines, NEW t \in Sessions
          PROVE  /\ InIO(h, t)' <=> InIO(h, t)
                 /\ At(h, "close_wait") /\ frame[h].session = t
                      => (At(h, "close_wait") /\ frame[h].session = t)'
      <4>1. CASE h = g
        BY <2>1, <3>1, <4>1
      <4>2. CASE h # g
        BY <3>1, <4>2
      <4> QED BY <4>1, <4>2
    <3>5. MutexHeldForIO'
      BY <3>1, <3>4
    <3>6. ClosingOK'
      <4> HIDE DEF InIO
      <4> QED BY <3>1, <3>4
    <3>7. TableOK'
      <4> HIDE DEF InIO
      <4> QED BY <3>1, <3>4
    <3> QED BY <3>2, <3>3, <3>5, <3>6, <3>7
  <2> QED BY <2>2, <2>3
<1>11. ASSUME NEW g \in Goroutines,
              ReadData(g) \/ ReadTimeout(g) \/ WriteData(g) \/ Woken(g)
       PROVE  Rest'
  <2> DEFINE s == frame[g].session
  <2>1. frame[g].pc \in {"read", "write"} /\ s \in Sessions /\ session[s].mu = g
    BY <1>11 DEF ReadData, ReadTimeout, WriteData, Woken
  <2>2. Unlock(g)
    BY <1>11 DEF ReadData, ReadTimeout, WriteData, Woken
  <2>3. /\ \A h \in Goroutines : h # g => frame'[h] = frame[h]
        /\ frame'[g] = Idle /\ UNCHANGED <<mu, consoles>>
    BY <2>2 DEF Unlock
  <2>4. /\ \A t \in Sessions : t # s => session'[t] = session[t]
        /\ session'[s].mu = Free /\ session'[s].pollable = session[s].pollable
        /\ session'[s].file
             = IF session[s].file = "closing" THEN "closed" ELSE session[s].file
    BY <2>1, <2>2 DEF Unlock
  <2>5. (\A h \in Goroutines : FrameOK(h))'
    BY <2>1, <2>3, <2>4
  <2>6. TableLocked'
    BY <2>1, <2>3
  <2>7. TableOK'
    <3>1. \A h \in Goroutines, t \in Sessions :
            At(h, "close_wait") /\ frame[h].session = t
              => (At(h, "close_wait") /\ frame[h].session = t)'
      BY <2>1, <2>3
    <3>2. \A t \in Sessions : session'[t].file \in {"open", "failed"}
                                <=> session[t].file \in {"open", "failed"}
      BY <2>4
    <3> QED BY <2>3, <3>1, <3>2
  <2>8. MutexHeldForIO'
    BY <2>1, <2>3, <2>4
  <2>9. ClosingOK'
    BY <2>1, <2>3, <2>4
  <2> QED BY <2>5, <2>6, <2>7, <2>8, <2>9
<1>12. ASSUME NEW v \in VMs, GuestReads(v) PROVE Rest'
  BY <1>12 DEF GuestReads
<1> QED
  BY <1>1, <1>2, <1>3, <1>4, <1>5, <1>6, <1>7, <1>8, <1>9, <1>10, <1>11, <1>12
  DEF Next, Step, ReadFound, WriteFound, ReadLock, WriteLock

LEMMA SessionInvariant == Spec => []SessionInv
  BY InitSessions, SessionStep, PTL DEF Spec

(* The variables keep their types.                                         *)
THEOREM TypeCorrect == Spec => []TypeOK
<1>1. SessionInv => TypeOK
  BY DEF SessionInv
<1> QED BY <1>1, SessionInvariant, PTL

(* A Read and a Write never use a device at the same time, and nobody who  *)
(* is out of both keeps the session's mutex.                               *)
THEOREM OneCallUsesADevice == Spec => []MutexHeldForIO
<1>1. SessionInv => MutexHeldForIO
  BY DEF SessionInv
<1> QED BY <1>1, SessionInvariant, PTL

(* Open devices and the table of consoles are one thing, but for what a    *)
(* Close is at work on or has failed on, and for a device that cannot be   *)
(* polled, which a Read or Write keeps open that began before the Close.   *)
THEOREM OpenDevicesAreInTheTable == Spec => []TableMatchesDevices
<1>1. SessionInv => TableMatchesDevices
  BY DEF SessionInv, TableMatchesDevices, TableOK, TableLocked, ClosingOK, SessionInTable,
         FrameOK, TypeOK, Frame, Closing, Closes, At
<1> QED BY <1>1, SessionInvariant, PTL

=============================================================================
