----------------------------- MODULE StateStore -----------------------------
(***************************************************************************)
(* internal/store/store.go: the ISO and template databases (ISOStore,      *)
(* TemplateStore) over the one Store that keeps them in state.json.  A     *)
(* record is known by its name; a database is the set of its records.      *)
(*                                                                         *)
(* A Set leaves in Store.data the very map the database works on, not a    *)
(* copy of it: until the next start the marshaller of any save reads that  *)
(* map under Store.mu alone, while its own mutex guards its changes.       *)
(* Readers (Get, List, GetAll, GetString) change nothing.                  *)
(***************************************************************************)
EXTENDS Naturals, FiniteSets

CONSTANTS
  DBs,         (* the keys of Store.data: "isos", "templates"              *)
  Records,     (* what Add and Delete are called with                      *)
  Goroutines,  (* concurrent callers                                       *)
  Faults,      (* "save": the disk refuses; "crash": the server restarts   *)
  NoDB, Free

ASSUME StateStoreAssumption ==
  /\ NoDB \notin DBs
  /\ Faults \subseteq {"save", "crash"}
  /\ Free \notin Goroutines

VARIABLES
  dbMu,     (* ISOStore.mu, TemplateStore.mu: the writer, or Free          *)
  storeMu,  (* Store.mu                                                    *)
  mem,      (* ISOStore.isos, TemplateStore.templates                      *)
  aliased,  (* the keys of Store.data whose value is the map in mem        *)
  data,     (* what Store.data holds under the other keys                  *)
  disk,     (* state.json and state.json.tmp                               *)
  frame,    (* per goroutine: where it is, its database, what it marshalled*)
  recent    (* history: what a database was, from the last successful save *)
            (* of it (or the start) on, that save's own state included     *)

vars == <<dbMu, storeMu, mem, aliased, data, disk, frame, recent>>

Contents == [DBs -> SUBSET Records]

Empty == [d \in DBs |-> {}]

Paths == {"state", "tmp"}

File == [st: {"absent", "torn", "whole"}, rec: Contents]

NoFile == [st |-> "absent", rec |-> Empty]

Torn == [st |-> "torn", rec |-> Empty]

PCs == {"idle", "lock", "mutate", "set", "marshal", "create_tmp", "write_tmp",
        "rename"}

Frame == [pc: PCs, db: DBs \cup {NoDB}, snap: Contents]

Idle == [pc |-> "idle", db |-> NoDB, snap |-> Empty]

At(g, l) == frame[g].pc = l

Goto(g, l) == frame' = [frame EXCEPT ![g].pc = l]

Return(g) == frame' = [frame EXCEPT ![g] = Idle]

Db(g) == frame[g].db

Init ==
  /\ dbMu = [d \in DBs |-> Free]
  /\ storeMu = Free
  /\ mem = Empty
  /\ aliased = {}
  /\ data = Empty
  /\ disk = [f \in Paths |-> NoFile]
  /\ frame = [g \in Goroutines |-> Idle]
  /\ recent = [d \in DBs |-> {{}}]

----------------------------------------------------------------------------
(* Add and Delete: the database's lock, its map, then Store.Set            *)

Call(g, d) ==
  /\ At(g, "idle")
  /\ frame' = [frame EXCEPT ![g] = [Idle EXCEPT !.pc = "lock", !.db = d]]
  /\ UNCHANGED <<dbMu, storeMu, mem, aliased, data, disk, recent>>

(* Mutant: Add without s.mu.Lock().                                        *)
LockNothing(g) ==
  /\ At(g, "lock")
  /\ Goto(g, "mutate")
  /\ UNCHANGED <<dbMu, storeMu, mem, aliased, data, disk, recent>>

Lock(g) ==
  /\ At(g, "lock")
  /\ dbMu[Db(g)] = Free
  /\ dbMu' = [dbMu EXCEPT ![Db(g)] = g]
  /\ Goto(g, "mutate")
  /\ UNCHANGED <<storeMu, mem, aliased, data, disk, recent>>

Mutate(g, records) ==
  /\ At(g, "mutate")
  /\ mem' = [mem EXCEPT ![Db(g)] = records]
  /\ recent' = [recent EXCEPT ![Db(g)] = @ \cup {records}]
  /\ Goto(g, "set")
  /\ UNCHANGED <<dbMu, storeMu, aliased, data, disk>>

Add(g) == \E r \in Records : Mutate(g, mem[Db(g)] \cup {r})

Delete(g) == \E r \in Records : Mutate(g, mem[Db(g)] \ {r})

(* Mutant: Set without s.mu.Lock().                                        *)
SetUnlocked(g) ==
  /\ At(g, "set")
  /\ aliased' = aliased \cup {Db(g)}
  /\ data' = [data EXCEPT ![Db(g)] = {}]
  /\ Goto(g, "marshal")
  /\ UNCHANGED <<dbMu, storeMu, mem, disk, recent>>

(* Mutant: a database whose dbPath was never given a value.                *)
SetNoKey(g) ==
  /\ At(g, "set")
  /\ storeMu = Free
  /\ storeMu' = g
  /\ aliased' = aliased \cup {NoDB}
  /\ Goto(g, "marshal")
  /\ UNCHANGED <<dbMu, mem, data, disk, recent>>

Set(g) ==
  /\ At(g, "set")
  /\ storeMu = Free
  /\ storeMu' = g
  /\ aliased' = aliased \cup {Db(g)}
  /\ data' = [data EXCEPT ![Db(g)] = {}]
  /\ Goto(g, "marshal")
  /\ UNCHANGED <<dbMu, mem, disk, recent>>

----------------------------------------------------------------------------
(* Store.save                                                              *)

Marshal(g) ==
  /\ At(g, "marshal")
  /\ frame' = [frame EXCEPT ![g].pc = "create_tmp",
       ![g].snap = [d \in DBs |-> IF d \in aliased THEN mem[d] ELSE data[d]]]
  /\ UNCHANGED <<dbMu, storeMu, mem, aliased, data, disk, recent>>

(* os.WriteFile truncates, then writes.                                    *)
CreateTmp(g) ==
  /\ At(g, "create_tmp")
  /\ disk' = [disk EXCEPT !["tmp"] = Torn]
  /\ Goto(g, "write_tmp")
  /\ UNCHANGED <<dbMu, storeMu, mem, aliased, data, recent>>

WriteTmp(g) ==
  /\ At(g, "write_tmp")
  /\ disk' = [disk EXCEPT !["tmp"] = [st |-> "whole", rec |-> frame[g].snap]]
  /\ frame' = [frame EXCEPT ![g].pc = "rename", ![g].snap = Empty]
  /\ UNCHANGED <<dbMu, storeMu, mem, aliased, data, recent>>

(* Both locks go as Set and the operation return.                          *)
Unlock(g) ==
  /\ dbMu' = [dbMu EXCEPT ![Db(g)] = Free]
  /\ storeMu' = Free
  /\ Return(g)

Rename(g) ==
  /\ At(g, "rename")
  /\ disk["tmp"].st # "absent"
  /\ disk' = [disk EXCEPT !["state"] = disk["tmp"], !["tmp"] = NoFile]
  /\ recent' = [recent EXCEPT ![Db(g)] = {mem[Db(g)]}]
  /\ Unlock(g)
  /\ UNCHANGED <<mem, aliased, data>>

Saving == {"create_tmp", "write_tmp", "rename"}

(* Mutant: save returns nil whatever WriteFile and Rename return.          *)
SaveFailsIgnored(g) ==
  /\ frame[g].pc \in Saving
  /\ "save" \in Faults
  /\ recent' = [recent EXCEPT ![Db(g)] = {mem[Db(g)]}]
  /\ Unlock(g)
  /\ UNCHANGED <<mem, aliased, data, disk>>

(* Mutant: an early return of Set that does not unlock.                    *)
SaveFailsLocked(g) ==
  /\ frame[g].pc \in Saving
  /\ "save" \in Faults
  /\ dbMu' = [dbMu EXCEPT ![Db(g)] = Free]
  /\ Return(g)
  /\ UNCHANGED <<storeMu, mem, aliased, data, disk, recent>>

(* The caller gets an error.  What it added or deleted stays so in memory, *)
(* for List and for the next save of either database to see.               *)
SaveFails(g) ==
  /\ frame[g].pc \in Saving
  /\ "save" \in Faults
  /\ Unlock(g)
  /\ UNCHANGED <<mem, aliased, data, disk, recent>>

----------------------------------------------------------------------------
(* A map changed while the marshaller iterates over it: a data race, which *)
(* the Go runtime may answer with a fatal error; else the marshaller sees  *)
(* the change or does not, as when it runs after or before.                *)
Racing ==
  \E g, h \in Goroutines :
    g # h /\ At(g, "marshal") /\ At(h, "mutate") /\ Db(h) \in aliased

(* The server dies, at any point, and starts again: NewStore (which fails  *)
(* on a torn file), then both databases load what state.json holds.        *)
Restart ==
  /\ "crash" \in Faults \/ Racing
  /\ disk["state"].st # "torn"
  /\ dbMu' = [d \in DBs |-> Free]
  /\ storeMu' = Free
  /\ mem' = disk["state"].rec
  /\ data' = disk["state"].rec
  /\ aliased' = {}
  /\ frame' = [g \in Goroutines |-> Idle]
  /\ recent' = [d \in DBs |-> {disk["state"].rec[d]}]
  /\ UNCHANGED disk

----------------------------------------------------------------------------
Step(g) ==
  \/ Lock(g) \/ Add(g) \/ Delete(g) \/ Set(g) \/ Marshal(g)
  \/ CreateTmp(g) \/ WriteTmp(g) \/ Rename(g) \/ SaveFails(g)

Next ==
  \/ \E g \in Goroutines : Step(g) \/ \E d \in DBs : Call(g, d)
  \/ Restart

Spec == Init /\ [][Next]_vars

(* Goroutines are scheduled, and Go hands a mutex to a starved waiter.     *)
FairSpec == Spec /\ \A g \in Goroutines : SF_vars(Step(g))

----------------------------------------------------------------------------
TypeOK ==
  /\ dbMu \in [DBs -> Goroutines \cup {Free}]
  /\ storeMu \in Goroutines \cup {Free}
  /\ mem \in Contents
  /\ aliased \in SUBSET DBs
  /\ data \in Contents
  /\ disk \in [Paths -> File]
  /\ frame \in [Goroutines -> Frame]
  /\ recent \in [DBs -> SUBSET SUBSET Records]

(* state.json is whole in every state, so that a server that dies anywhere *)
(* in a save, its own or one of several, starts again: all saves share one *)
(* temporary path, and none renames it while another writes it.            *)
StateFileWhole == disk["state"].st # "torn"

(* What a start would load of a database is its state after the last Add   *)
(* or Delete that returned success, or a later one it has been in (an      *)
(* update that failed or has not returned may show): no acknowledged       *)
(* update is undone by another caller's save, a failed save or a crash.    *)
AcknowledgedUpdatesSurvive ==
  \A d \in DBs : disk["state"].rec[d] \in recent[d]

(* No caller of a database changes its map while a save for that database  *)
(* iterates over it, as its mutex is held from the change to the end of    *)
(* the save: only callers of two databases can race, and do (see Restart). *)
MarshallerUndisturbed ==
  \A g, h \in Goroutines :
    g # h /\ At(g, "marshal") /\ At(h, "mutate") => Db(g) # Db(h)

(* What the next start would load: nothing, if it would fail.              *)
Loaded == IF disk["state"].st = "torn" THEN << >> ELSE disk["state"].rec

Durable == INSTANCE DurableStore WITH now <- mem, saved <- Loaded, since <- recent

(* The locks, the snapshot that reads maps other callers change, and the   *)
(* temporary file amount to one change of all databases at once, which is  *)
(* there exactly when an Add or a Delete has succeeded; a crash goes back  *)
(* to it, and a failed save leaves no trace in it.                         *)
ImplementsDurableStore == Durable!StoreSpec

(* g waits for a mutex that h holds.                                       *)
WaitsFor(g, h) ==
  \/ At(g, "lock") /\ dbMu[Db(g)] = h
  \/ At(g, "set") /\ storeMu = h

(* Of any callers, one waits for none of them: the mutexes of the          *)
(* databases are taken before the one of the store, and no way out of a    *)
(* save leaves one locked for the next call to wait for.                   *)
NoLockCycle ==
  \A W \in SUBSET Goroutines :
    W # {} => \E g \in W : \A h \in W : ~WaitsFor(g, h)

(* Every Add and Delete comes back, with the outcome or an error.          *)
UpdatesReturn == \A g \in Goroutines : ~At(g, "idle") ~> At(g, "idle")

=============================================================================
