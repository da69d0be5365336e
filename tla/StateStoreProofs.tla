-------------------------- MODULE StateStoreProofs --------------------------
(***************************************************************************)
(* Safety of StateStore for every set of databases, records and callers,   *)
(* failing saves, crashes and the fatal error of a data race included.     *)
(*                                                                         *)
(*   TypeInv  types; an operation under way has a database;                *)
(*   LockInv  a database's mutex is held from the change of its map to the *)
(*            return, Store.mu from Set to the return: so one save at a    *)
(*            time, of a database that nobody changes meanwhile;           *)
(*   DataInv  what is marshalled, then written, then renamed is recent for *)
(*            every database, and current for the caller's own;            *)
(*   Held     a mutex is held by nobody but who is between its Lock and    *)
(*            its Unlock.                                                  *)
(***************************************************************************)
EXTENDS StateStore, TLAPS

TypeInv ==
  /\ TypeOK
  /\ \A g \in Goroutines : ~At(g, "idle") => Db(g) \in DBs

InSave == {"marshal"} \cup Saving

InUpdate == {"mutate", "set"} \cup InSave

LockInv ==
  \A g \in Goroutines :
    /\ frame[g].pc \in InUpdate => dbMu[Db(g)] = g
    /\ frame[g].pc \in InSave => storeMu = g

(* rec may stand for every database, and is what g's database is.          *)
Saves(g, rec) ==
  /\ \A d \in DBs : rec[d] \in recent[d]
  /\ rec[Db(g)] = mem[Db(g)]

DataInv ==
  /\ \A d \in DBs : /\ mem[d] \in recent[d]
                    /\ d \notin aliased => data[d] \in recent[d]
                    /\ disk["state"].rec[d] \in recent[d]
  /\ disk["state"].st # "torn"
  /\ \A g \in Goroutines :
       /\ frame[g].pc \in InSave => Db(g) \in aliased
       /\ frame[g].pc \in {"create_tmp", "write_tmp"} => Saves(g, frame[g].snap)
       /\ At(g, "rename") => /\ disk["tmp"].st = "whole"
                             /\ Saves(g, disk["tmp"].rec)

Inv == TypeInv /\ LockInv /\ DataInv

----------------------------------------------------------------------------
(* Types                                                                   *)

(* A store without a state file is well typed.                             *)
LEMMA InitTypeInv == Init => TypeInv
BY StateStoreAssumption
   DEF Init, TypeInv, TypeOK, Contents, Empty, Paths, File, NoFile, Frame, PCs,
       Idle, At, Db

NamesDBs == \A g \in Goroutines : ~At(g, "idle") => Db(g) \in DBs

(* Going on to the next step changes nothing of a frame but its pc.        *)
LEMMA GotoType ==
  ASSUME frame \in [Goroutines -> Frame], NamesDBs,
         NEW g \in Goroutines, ~At(g, "idle"), NEW l \in PCs, Goto(g, l)
  PROVE  frame' \in [Goroutines -> Frame] /\ NamesDBs'
<1>1. [frame[g] EXCEPT !.pc = l] \in Frame
  <2> DEFINE f == frame[g]
  <2>1. f \in Frame OBVIOUS
  <2> HIDE DEF f
  <2>2. [f EXCEPT !.pc = l] \in Frame BY <2>1 DEF Frame
  <2> QED BY <2>2 DEF f
<1>2. frame' = [frame EXCEPT ![g] = [frame[g] EXCEPT !.pc = l]] BY DEF Goto
<1>3. frame' \in [Goroutines -> Frame] BY <1>1, <1>2
<1>4. \A h \in Goroutines : frame'[h].db = frame[h].db BY <1>2 DEF Frame
<1>5. \A h \in Goroutines : h # g => frame'[h].pc = frame[h].pc BY <1>2
<1> QED BY <1>3, <1>4, <1>5 DEF NamesDBs, At, Db

(* Every step keeps the types.                                             *)
LEMMA NextTypeInv == TypeInv /\ [Next]_vars => TypeInv'
<1> SUFFICES ASSUME TypeInv, [Next]_vars PROVE TypeInv'
  OBVIOUS
<1> USE StateStoreAssumption
    DEF TypeInv, TypeOK, At, Goto, Return, Db, Frame, PCs, Idle, Contents, Empty
<1>1. ASSUME NEW g \in Goroutines, NEW d \in DBs, Call(g, d) PROVE TypeInv'
  BY <1>1 DEF Call
<1>2. ASSUME NEW g \in Goroutines, Step(g) PROVE TypeInv'
  <2>1. CASE Lock(g)
    <3>1. frame' \in [Goroutines -> Frame] /\ NamesDBs'
      <4>1. ~At(g, "idle") /\ "mutate" \in PCs /\ Goto(g, "mutate")
        BY <2>1 DEF Lock
      <4>2. NamesDBs BY DEF NamesDBs
      <4> HIDE DEF At, Goto, PCs, Frame, Contents
      <4> QED BY <4>1, <4>2, GotoType
    <3>2. dbMu' \in [DBs -> Goroutines \cup {Free}] BY <2>1 DEF Lock
    <3> HIDE DEF Frame, Contents
    <3> QED BY <2>1, <3>1, <3>2 DEF Lock, NamesDBs
  <2>2. ASSUME NEW R \in SUBSET Records, Mutate(g, R) PROVE TypeInv'
    <3>1. frame' \in [Goroutines -> Frame] /\ NamesDBs'
      <4>1. ~At(g, "idle") /\ "set" \in PCs /\ Goto(g, "set")
        BY <2>2 DEF Mutate
      <4>2. NamesDBs BY DEF NamesDBs
      <4> HIDE DEF At, Goto, PCs, Frame, Contents
      <4> QED BY <4>1, <4>2, GotoType
    <3>2. mem' \in Contents BY <2>2 DEF Mutate
    <3>3. recent' \in [DBs -> SUBSET SUBSET Records]
      <4>1. recent' = [recent EXCEPT ![Db(g)] = @ \cup {R}] BY <2>2 DEF Mutate
      <4> QED BY <4>1
    <3> HIDE DEF Frame, Contents
    <3> QED BY <2>2, <3>1, <3>2, <3>3 DEF Mutate, NamesDBs
  <2>3. CASE Add(g)
    <3>1. PICK r \in Records : Mutate(g, mem[Db(g)] \cup {r}) BY <2>3 DEF Add
    <3>2. mem[Db(g)] \cup {r} \in SUBSET Records BY <3>1 DEF Mutate
    <3> QED BY <3>1, <3>2, <2>2
  <2>4. CASE Delete(g)
    <3>1. PICK r \in Records : Mutate(g, mem[Db(g)] \ {r}) BY <2>4 DEF Delete
    <3>2. mem[Db(g)] \ {r} \in SUBSET Records BY <3>1 DEF Mutate
    <3> QED BY <3>1, <3>2, <2>2
  <2>5. CASE Set(g) BY <2>5 DEF Set
  <2>6. CASE Marshal(g)
    <3> DEFINE snap == [d \in DBs |-> IF d \in aliased THEN mem[d] ELSE data[d]]
    <3>1. snap \in Contents OBVIOUS
    <3> HIDE DEF snap
    <3>2. frame' \in [Goroutines -> Frame]
      <4>1. frame' = [frame EXCEPT ![g].pc = "create_tmp", ![g].snap = snap]
        BY <2>6 DEF Marshal, snap
      <4>2. frame[g] \in Frame OBVIOUS
      <4> HIDE DEF Contents
      <4>3. [frame[g] EXCEPT !.pc = "create_tmp", !.snap = snap] \in Frame
        BY <3>1, <4>2
      <4> HIDE DEF Frame
      <4> QED BY <4>1, <4>3
    <3>3. TypeOK' BY <2>6, <3>2 DEF Marshal
    <3>4. \A h \in Goroutines : frame'[h].db = frame[h].db
      BY <2>6 DEF Marshal
    <3> QED BY <2>6, <3>3, <3>4 DEF Marshal
  <2>7. CASE CreateTmp(g)
    <3>1. Torn \in File BY DEF Torn, File
    <3>2. disk' \in [Paths -> File] BY <2>7, <3>1 DEF CreateTmp
    <3> QED BY <2>7, <3>2 DEF CreateTmp
  <2>8. CASE WriteTmp(g)
    <3>1. [st |-> "whole", rec |-> frame[g].snap] \in File BY DEF File
    <3>2. disk' \in [Paths -> File] BY <2>8, <3>1 DEF WriteTmp
    <3>3. Empty \in Contents OBVIOUS
    <3>4. frame' \in [Goroutines -> Frame]
      <4> HIDE DEF Contents, Empty
      <4>1. frame[g] \in Frame /\ "rename" \in PCs OBVIOUS
      <4>2. [frame[g] EXCEPT !.pc = "rename", !.snap = Empty] \in Frame
        BY <3>3, <4>1
      <4>3. frame' = [frame EXCEPT ![g] =
                        [frame[g] EXCEPT !.pc = "rename", !.snap = Empty]]
        BY <2>8 DEF WriteTmp
      <4> HIDE DEF Frame
      <4> QED BY <4>2, <4>3
    <3>5. TypeOK' BY <2>8, <3>2, <3>4 DEF WriteTmp
    <3>6. \A h \in Goroutines : frame'[h].db = frame[h].db
      BY <2>8 DEF WriteTmp
    <3> QED BY <2>8, <3>5, <3>6 DEF WriteTmp
  <2>9. CASE Rename(g) BY <2>9 DEF Rename, Unlock, Paths, File, NoFile
  <2>10. CASE SaveFails(g) BY <2>10 DEF SaveFails, Unlock, Saving
  <2> QED BY <1>2, <2>1, <2>3, <2>4, <2>5, <2>6, <2>7, <2>8, <2>9, <2>10 DEF Step
<1>3. CASE Restart BY <1>3 DEF Restart, Paths, File
<1>4. CASE UNCHANGED vars BY <1>4 DEF vars
<1> QED BY <1>1, <1>2, <1>3, <1>4 DEF Next

(* Every variable of the store keeps its type.                             *)
THEOREM TypeCorrect == Spec => []TypeOK
<1>1. TypeInv => TypeOK BY DEF TypeInv
<1> QED BY <1>1, InitTypeInv, NextTypeInv, PTL DEF Spec

----------------------------------------------------------------------------
(* Locks and data                                                          *)

(* No operation is under way in a new store, and nothing is stored.        *)
LEMMA InitInv == Init => Inv
BY InitTypeInv
   DEF Inv, LockInv, DataInv, Init, Empty, NoFile, Paths, Idle, At, InUpdate,
       InSave, Saving

(* Both mutexes are held through every step of an update.                  *)
LEMMA StepLockInv ==
  ASSUME TypeInv, LockInv, NEW g \in Goroutines, Step(g)
  PROVE  LockInv'
<1> USE StateStoreAssumption
    DEF TypeInv, TypeOK, LockInv, At, Goto, Return, Db, Frame, Idle, InUpdate,
        InSave, Saving
<1>1. CASE Lock(g) BY <1>1 DEF Lock
<1>2. CASE Add(g) \/ Delete(g) BY <1>2 DEF Add, Delete, Mutate
<1>3. CASE Set(g) BY <1>3 DEF Set
<1>4. CASE Marshal(g) BY <1>4 DEF Marshal
<1>5. CASE CreateTmp(g) BY <1>5 DEF CreateTmp
<1>6. CASE WriteTmp(g) BY <1>6 DEF WriteTmp
<1>7. CASE Rename(g) BY <1>7 DEF Rename, Unlock
<1>8. CASE SaveFails(g) BY <1>8 DEF SaveFails, Unlock
<1> QED BY <1>1, <1>2, <1>3, <1>4, <1>5, <1>6, <1>7, <1>8 DEF Step

(* While a save is under way no other one is, and nobody else changes what *)
(* the caller's database holds.                                            *)
LEMMA StepDataInv ==
  ASSUME TypeInv, LockInv, DataInv, NEW g \in Goroutines, Step(g)
  PROVE  DataInv'
<1> USE DEF TypeInv, TypeOK, At, Db
<1>1. CASE Lock(g) BY <1>1 DEF Lock, Goto, DataInv, Saves, InSave, Saving
<1>2. CASE Add(g) \/ Delete(g)
  <2>1. PICK R : Mutate(g, R) BY <1>2 DEF Add, Delete
  <2>2. frame[g].pc = "mutate" /\ frame[g].db \in DBs BY <2>1 DEF Mutate
  <2>3. \A h \in Goroutines : h # g /\ frame[h].pc \in InUpdate
                                => frame[h].db # frame[g].db
    BY <2>2 DEF LockInv, InUpdate
  <2>4. \A d \in DBs : recent[d] \subseteq recent'[d]
    BY <2>1 DEF Mutate
  <2>5. \A h \in Goroutines, rec \in Contents :
          h # g /\ frame[h].pc \in InUpdate /\ Saves(h, rec) => Saves(h, rec)'
    BY <2>1, <2>3, <2>4 DEF Mutate, Saves, Goto, InUpdate, InSave, Saving, Contents
  <2> QED BY <2>1, <2>2, <2>4, <2>5
          DEF Mutate, Goto, DataInv, InUpdate, InSave, Saving, Contents, Frame,
              File, Paths
<1>3. CASE Set(g) BY <1>3 DEF Set, Goto, DataInv, Saves
<1>4. CASE Marshal(g)
  <2>1. Saves(g, [d \in DBs |-> IF d \in aliased THEN mem[d] ELSE data[d]])
    BY <1>4 DEF Marshal, DataInv, Saves, InSave
  <2> QED BY <1>4, <2>1 DEF Marshal, DataInv, Saves, InSave, Saving
<1>5. CASE CreateTmp(g)
  <2>1. \A h \in Goroutines : h # g => frame[h].pc # "rename"
    BY <1>5 DEF CreateTmp, LockInv, InSave, Saving
  <2> QED BY <1>5, <2>1 DEF CreateTmp, Goto, DataInv, Saves, Paths, InSave, Saving
<1>6. CASE WriteTmp(g)
  <2>1. \A h \in Goroutines : h # g => frame[h].pc # "rename"
    BY <1>6 DEF WriteTmp, LockInv, InSave, Saving
  <2> QED BY <1>6, <2>1 DEF WriteTmp, DataInv, Saves, Paths, InSave, Saving
<1>7. CASE Rename(g)
  <2>1. \A h \in Goroutines : h # g => frame[h].pc \notin InSave
    BY <1>7 DEF Rename, LockInv, InSave, Saving
  <2>2. frame[g].db \in DBs BY <1>7 DEF Rename
  <2>3. disk' = [disk EXCEPT !["state"] = disk["tmp"], !["tmp"] = NoFile]
    BY <1>7 DEF Rename
  <2>4. disk'["state"] = disk["tmp"] BY <2>3 DEF Paths
  <2>5. recent' = [recent EXCEPT ![frame[g].db] = {mem[frame[g].db]}]
    BY <1>7 DEF Rename
  <2>6. Saves(g, disk["tmp"].rec) /\ disk["tmp"].st = "whole"
    BY <1>7 DEF Rename, DataInv
  <2> QED BY <1>7, <2>1, <2>2, <2>4, <2>5, <2>6
          DEF Rename, Unlock, Return, Idle, DataInv, Saves, InSave, Saving
<1>8. CASE SaveFails(g)
  BY <1>8 DEF SaveFails, Unlock, Return, Idle, DataInv, Saves, InSave, Saving
<1> QED BY <1>1, <1>2, <1>3, <1>4, <1>5, <1>6, <1>7, <1>8 DEF Step

(* The three together are inductive.                                       *)
LEMMA NextInv == Inv /\ [Next]_vars => Inv'
<1> SUFFICES ASSUME Inv, [Next]_vars PROVE (LockInv /\ DataInv)'
  BY NextTypeInv DEF Inv
<1> USE DEF Inv
<1>1. ASSUME NEW g \in Goroutines, NEW d \in DBs, Call(g, d)
      PROVE  (LockInv /\ DataInv)'
  <2>1. LockInv' BY <1>1 DEF Call, LockInv, TypeInv, TypeOK, At, Db, Idle, InUpdate, InSave, Saving
  <2>2. DataInv' BY <1>1 DEF Call, DataInv, Saves, TypeInv, TypeOK, At, Db, Idle, InSave, Saving
  <2> QED BY <2>1, <2>2
<1>2. ASSUME NEW g \in Goroutines, Step(g) PROVE (LockInv /\ DataInv)'
  BY <1>2, StepLockInv, StepDataInv
<1>3. CASE Restart
  <2>1. LockInv' BY <1>3 DEF Restart, LockInv, Idle, InUpdate, InSave, Saving
  <2>2. DataInv' BY <1>3 DEF Restart, DataInv, Idle, At, InSave, Saving
  <2> QED BY <2>1, <2>2
<1>4. CASE UNCHANGED vars
  BY <1>4 DEF vars, LockInv, DataInv, Saves, At, Db
<1> QED BY <1>1, <1>2, <1>3, <1>4 DEF Next

(* A server that dies in any number of saves finds a whole state.json.     *)
THEOREM StateFileAlwaysWhole == Spec => []StateFileWhole
<1>1. Inv => StateFileWhole BY DEF Inv, DataInv, StateFileWhole
<1> QED BY <1>1, InitInv, NextInv, PTL DEF Spec

(* An update that was acknowledged is in what the next start loads, unless *)
(* a later one of the same database has undone it.                         *)
THEOREM AcknowledgedUpdatesNeverLost == Spec => []AcknowledgedUpdatesSurvive
<1>1. Inv => AcknowledgedUpdatesSurvive
  BY DEF Inv, DataInv, AcknowledgedUpdatesSurvive
<1> QED BY <1>1, InitInv, NextInv, PTL DEF Spec

(* No caller changes the map that a save for its own database iterates     *)
(* over; aliasing lets the callers of one database race the saves of       *)
(* another, and nothing else does.                                         *)
THEOREM OnlyTwoDatabasesRace == Spec => []MarshallerUndisturbed
<1>1. Inv => MarshallerUndisturbed
  BY DEF Inv, TypeInv, LockInv, MarshallerUndisturbed, At, Db, InUpdate, InSave
<1> QED BY <1>1, InitInv, NextInv, PTL DEF Spec

----------------------------------------------------------------------------
(* Lock cycles                                                             *)

(* A mutex is held by nobody but an operation that will let it go.         *)
Held ==
  \A g \in Goroutines :
    /\ \A d \in DBs : dbMu[d] = g => frame[g].pc \in InUpdate /\ Db(g) = d
    /\ storeMu = g => frame[g].pc \in InSave

(* It is let go on every way out of an update.                             *)
LEMMA StepHeld == ASSUME TypeInv, Held, NEW g \in Goroutines, Step(g) PROVE Held'
<1> USE StateStoreAssumption
    DEF TypeInv, TypeOK, Held, At, Goto, Return, Db, Frame, Idle, InUpdate,
        InSave, Saving
<1>1. CASE Lock(g) BY <1>1 DEF Lock
<1>2. CASE Add(g) \/ Delete(g) BY <1>2 DEF Add, Delete, Mutate
<1>3. CASE Set(g) BY <1>3 DEF Set
<1>4. CASE Marshal(g) BY <1>4 DEF Marshal
<1>5. CASE CreateTmp(g) BY <1>5 DEF CreateTmp
<1>6. CASE WriteTmp(g) BY <1>6 DEF WriteTmp
<1>7. CASE Rename(g) BY <1>7 DEF Rename, Unlock
<1>8. CASE SaveFails(g) BY <1>8 DEF SaveFails, Unlock
<1> QED BY <1>1, <1>2, <1>3, <1>4, <1>5, <1>6, <1>7, <1>8 DEF Step

(* A call takes none, and a new server has none.                           *)
LEMMA NextHeld == TypeInv /\ Held /\ [Next]_vars => Held'
<1> SUFFICES ASSUME TypeInv, Held, [Next]_vars PROVE Held'
  OBVIOUS
<1>1. ASSUME NEW g \in Goroutines, NEW d \in DBs, Call(g, d) PROVE Held'
  BY <1>1 DEF Call, Held, TypeInv, TypeOK, At, Db, Idle, InUpdate, InSave, Saving
<1>2. CASE Restart BY <1>2, StateStoreAssumption DEF Restart, Held
<1>3. CASE UNCHANGED vars BY <1>3 DEF vars, Held, Db
<1> QED BY <1>1, <1>2, <1>3, StepHeld DEF Next

(* No callers of any databases wait for one another in a circle, nor for a *)
(* mutex that a failed save has left locked.                               *)
THEOREM UpdatesNeverLockCircularly == Spec => []NoLockCycle
<1>1. ASSUME TypeInv, Held PROVE NoLockCycle
  <2> SUFFICES ASSUME NEW W \in SUBSET Goroutines, W # {},
                      \A g \in W : \E h \in W : WaitsFor(g, h)
               PROVE  FALSE
    BY DEF NoLockCycle
  <2>1. ASSUME NEW g \in W, NEW h \in W, WaitsFor(g, h)
        PROVE  At(g, "lock") /\ At(h, "set")
    <3>1. PICK k \in W : WaitsFor(h, k) OBVIOUS
    <3>2. frame[h].pc \in {"lock", "set"} BY <3>1 DEF WaitsFor, At
    <3>3. g \in Goroutines /\ h \in Goroutines OBVIOUS
    <3>4. storeMu # h BY <1>1, <3>2, <3>3 DEF Held, InSave, Saving
    <3>5. At(g, "lock") /\ dbMu[Db(g)] = h BY <2>1, <3>4 DEF WaitsFor
    <3>6. Db(g) \in DBs BY <1>1, <3>3, <3>5 DEF TypeInv, At
    <3> QED BY <1>1, <3>2, <3>3, <3>5, <3>6 DEF Held, InUpdate, InSave, Saving, At
  <2>2. PICK g \in W, h \in W, k \in W : WaitsFor(g, h) /\ WaitsFor(h, k) OBVIOUS
  <2> QED BY <2>1, <2>2 DEF At
<1>2. Init => TypeInv /\ Held
  BY InitTypeInv, StateStoreAssumption DEF Init, Held
<1>3. TypeInv /\ Held /\ [Next]_vars => (TypeInv /\ Held)'
  BY NextTypeInv, NextHeld
<1> QED BY <1>1, <1>2, <1>3, PTL DEF Spec

----------------------------------------------------------------------------
(* Refinement                                                              *)

(* A database changes in memory alone.                                     *)
LEMMA MutateChanges ==
  ASSUME TypeInv, NEW g \in Goroutines, Add(g) \/ Delete(g)
  PROVE  Durable!StoreNext
<1> DEFINE d == Db(g)
<1>1. PICK r \in Records : Mutate(g, mem[d] \cup {r}) \/ Mutate(g, mem[d] \ {r})
  BY DEF Add, Delete
<1>2. d \in DBs
  BY <1>1 DEF Mutate, TypeInv, At
<1>3. Loaded' = Loaded
  BY <1>1 DEF Mutate, Loaded
<1>4. Durable!Change(d, mem[d] \cup {r}) \/ Durable!Change(d, mem[d] \ {r})
  BY <1>1, <1>3 DEF Mutate, Durable!Change
<1> QED BY <1>2, <1>4 DEF Durable!StoreNext

(* The rename is the moment an update succeeds.                            *)
LEMMA RenameSucceeds ==
  ASSUME Inv, NEW g \in Goroutines, Rename(g)
  PROVE  Durable!StoreNext
<1> DEFINE d == Db(g)
           rec == disk["tmp"].rec
<1>1. d \in DBs
  BY DEF Rename, Inv, TypeInv, At
<1>2. Saves(g, rec) /\ disk["tmp"].st = "whole"
  BY DEF Rename, Inv, DataInv
<1>3. rec \in Contents
  BY DEF Inv, TypeInv, TypeOK, Paths, File
<1>4. disk'["state"] = disk["tmp"]
  BY DEF Rename, Inv, TypeInv, TypeOK, Paths
<1>5. Loaded' = rec
  BY <1>2, <1>4 DEF Loaded
<1>6. mem' = mem /\ recent' = [recent EXCEPT ![d] = {mem[d]}]
  BY DEF Rename
<1>7. Durable!Succeed(d)
  BY <1>2, <1>3, <1>5, <1>6 DEF Durable!Succeed, Durable!Databases, Contents, Saves
<1> QED BY <1>1, <1>7 DEF Durable!StoreNext

LEMMA RestartReloads ==
  ASSUME Inv, Restart
  PROVE  Durable!StoreNext
<1>1. Loaded = disk["state"].rec /\ Loaded' = Loaded
  BY DEF Restart, Loaded
<1>2. Durable!Reload
  BY <1>1 DEF Restart, Durable!Reload
<1> QED BY <1>2 DEF Durable!StoreNext

(* No other step shows: state.json, the databases and what they have been  *)
(* stay.                                                                   *)
LEMMA OthersStutter ==
  ASSUME TypeInv, NEW g \in Goroutines,
         \/ \E d \in DBs : Call(g, d)
         \/ Lock(g) \/ Set(g) \/ Marshal(g) \/ CreateTmp(g) \/ WriteTmp(g) \/ SaveFails(g)
  PROVE  UNCHANGED <<mem, Loaded, recent>>
<1>1. UNCHANGED <<mem, recent>>
  BY DEF Call, Lock, Set, Marshal, CreateTmp, WriteTmp, SaveFails
<1>2. disk'["state"] = disk["state"]
  BY DEF Call, Lock, Set, Marshal, CreateTmp, WriteTmp, SaveFails, TypeInv, TypeOK, Paths
<1> QED BY <1>1, <1>2 DEF Loaded

(* For every set of databases, records and callers, the store is one that  *)
(* changes at once: what a restart loads moves when, and only when, an     *)
(* update succeeds, whatever saves fail or are cut off by a crash.         *)
THEOREM StoreImplementsDurableStore == Spec => ImplementsDurableStore
<1>1. Init => Durable!StoreInit
  <2> SUFFICES ASSUME Init PROVE Durable!StoreInit
    OBVIOUS
  <2>1. disk["state"] = NoFile
    BY DEF Init, Paths
  <2>2. Loaded = Empty
    BY <2>1 DEF Loaded, NoFile
  <2>3. mem = Empty /\ recent = [d \in DBs |-> {{}}]
    BY DEF Init
  <2> QED BY <2>2, <2>3 DEF Durable!StoreInit, Empty
<1>2. Inv /\ [Next]_vars => [Durable!StoreNext]_(Durable!storeVars)
  <2> SUFFICES ASSUME Inv, [Next]_vars
               PROVE  Durable!StoreNext \/ UNCHANGED <<mem, Loaded, recent>>
    BY DEF Durable!storeVars
  <2>0. TypeInv
    BY DEF Inv
  <2>1. CASE UNCHANGED vars
    BY <2>1 DEF vars, Loaded
  <2>2. CASE Restart
    BY <2>2, RestartReloads
  <2>3. ASSUME NEW g \in Goroutines, Step(g) \/ \E d \in DBs : Call(g, d)
        PROVE  Durable!StoreNext \/ UNCHANGED <<mem, Loaded, recent>>
    BY <2>0, <2>3, MutateChanges, RenameSucceeds, OthersStutter DEF Step
  <2> QED BY <2>1, <2>2, <2>3 DEF Next
<1> QED BY <1>1, <1>2, InitInv, NextInv, PTL
        DEF Spec, ImplementsDurableStore, Durable!StoreSpec

=============================================================================
