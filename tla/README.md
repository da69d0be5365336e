# A TLA+ model of bhyve-mcp

bhyve-mcp is a server that speaks MCP (JSON-RPC over standard input and output)
and manages bhyve virtual machines on a FreeBSD host.  This directory models
its managers in TLA+, checks them with TLC on small instances and proves their
safety properties with TLAPS for instances of any size.

## 1. The system

```
 stdin/stdout ── internal/mcp ──┬── internal/vm ──── internal/vmmapi ── kernel VM objects
               (one goroutine)  │        ├── bhyve processes
                                │        └── internal/config ── <vm>.yaml
                                ├── internal/store ── state.json
                                ├── internal/disk ─── truncate, cp, qemu-img, zfs
                                └── internal/net ──── ifconfig
   not connected yet:  internal/iso (downloads)   internal/console (consoles, logs)
```

The server calls all managers directly; there are no callbacks and no messages
between them.  `Server.Run` handles one request at a time, so that a manager
has one caller today; but `vm`, `store` and `console` lock their state for
several, and each package is modelled for any number of goroutines.  What only
the single caller makes true is stated, and proved, of the server.

| component | state it keeps | operations | what is hard | what makes it correct |
|---|---|---|---|---|
| VM manager `vm/manager.go` | table of VM structs under `m.mu`; each with state, process and libvmmapi handle under `vm.mu`; outside: kernel objects, configuration files, processes | Create, Start, Stop, Destroy, GetState, GetStatus, Shutdown, LoadAllVMs | two levels of locks, nested calls, structs that callers keep after they left the table, zombies, failures half-way, restarts with VMs running | nobody sees or acts on a half-started VM; a running VM has its own process and nobody else's; no process, handle, kernel object or configuration is lost; calls return |
| libvmmapi wrapper `vmmapi/vmmapi.go` | a handle | Create, Open, Close, Destroy, SetupMemory; GetState is a stub | failures of the kernel | used by the VM manager only |
| configuration `config/config.go` | files | Load, setDefaults, LoadVMConfig, SaveVMConfig | a write that stops half-way | every registered VM has a file for the next server |
| state store `store/store.go` | `state.json`, a map under `s.mu` whose values alias the maps of the ISO and the template database, each under its own mutex | Add and Delete of both databases, Set, save, load | one temporary file for all saves, a failing save, crashes, maps shared between locks | the file is whole; what was acknowledged is in it; no deadlock |
| ISO downloader `iso/downloader.go` | the ISO directory and its `.tmp` | Download, Delete, Verify, List | a download takes long: it overlaps others, stalls, fails, is killed | an ISO that is visible is the one its checksum asked for; nothing is left behind; the caller returns |
| disk manager `disk/manager.go` | none; files and ZFS volumes | Create, Delete, Resize, Clone, for raw, QCOW2 and zvol | a clone is three commands with one shared snapshot name; sizes overflow | a clone keeps its snapshot and its origin; an image has its size |
| network manager `net/manager.go` | none; interfaces | CreateSwitch, DeleteSwitch, Attach and Detach, TAPs | several commands, the last without clean-up | a failed creation leaves nothing; a switch in use stays |
| console manager `console/manager.go` | sessions under `m.mu`, each with its own mutex; log files | Open, Close, Read, Write, PersistLog with rotation, ReadLog | a blocking read under a mutex, a Close that fails, rotation without a lock | sessions are in the table while their device is open; calls return; no log line is lost but the oldest |
| MCP server `mcp/server.go` | the managers | Initialize, request loop | one handler that hangs stops everything; a bad request ends the server with VMs running | what it answers is so |

PROJECT.json lists under "hazards" the places in the code where these things
go wrong, each with the properties that watch it or the reason there is none.

## 2. The modules

| module | what it is |
|---|---|
| `VMState`, `VMManager` | state and actions of the VM manager on its host, its invariants, its map to `VMLifecycle` |
| `VMLifecycle` | what the VM manager promises for each VM: a life and one guest |
| `BhyveCommand` | `buildBhyveCommand`: the slots and the VNC port of a command line |
| `MCPServer` | the request loop, over `VMManager` and `BhyveCommand` |
| `StateStore` | the store and its two databases, and its map to `DurableStore` |
| `DurableStore` | what the databases promise: memory, and one copy that is saved at once |
| `ISODownloader` | Download and Delete |
| `DiskManager` | the disk manager over truncate, cp, qemu-img and zfs |
| `NetManager` | the network manager over ifconfig |
| `ConsoleSessions` | the table of consoles and their device I/O |
| `ConsoleLog` | PersistLog, its rotation, and ReadLog |
| `Sizes` | the three parseSize functions, signed and unsigned, with their overflow |
| `MC...` | symmetry sets and data for TLC's instances |
| `...Proofs` | theorems and proofs |

Operators marked "Mutant" are mistakes one could make in the code.  No action
uses them; PROJECT.json says which property notices each when it replaces the
action after it.

### VMManager

A goroutine's `frame` holds the operation it is in, its `pc`, the VM name and
the struct it looked up (`vm`, kept over everything others do), and the struct
the nested Stop looked up (`target`).  `heap` holds the structs, so that one
that left the table lives as long as a frame keeps it; `vms` is the table.
Lock regions are the unit of interleaving: an action is what happens between
two points at which another goroutine, the guest or a crash could make a
difference.  So Start is a call (Get), a lock, vm_open, and a fork; Stop is a
Get, a lock, a signal and a wait; Destroy is a call, a lock, an optional nested
Stop from its `Get` on, the kernel object, the file, and the removal from the
table.  The file system, the kernel objects and the process table (with
zombies, which only the parent collects) are variables of the host.  Faults are
a constant: refused signals ("signal"), a vm_open or vm_destroy that fails
("vmm"), a crash of the server, a reboot of the host, after which there are no
kernel objects.  A failing save, vm_create, SetupMemory, fork or removal needs
no permission.  Destroy looks at neither vm_open nor vm_destroy, and goes on
without the one and the other.  A new server loads any subset of the
configurations there are (`LoadAllVMs`): where ReadDir, ReadFile or the parse
fails, the code warns and goes on.  Stop sends SIGTERM and waits; SIGKILL
follows only when the sending itself has failed, so that a guest may keep Stop,
and who waits for its mutex, for ever.

Abstractions: the content of a configuration is "full" or torn (the server adds
what a command line depends on); `Get`, `List` and `GetStatus` only read; names
of processes stand for PIDs.

### MCPServer

The request loop is three phases, "decode", "handle" and "encode".  `Decode`
takes a request to the call of the VM manager it dispatches to (`CreateCall`,
`StartCall`, ... of `VMManager`), `Handle` is one step of that operation, and
the step with which it returns fixes the answer: "ok" if it was one of the
manager's successes.  The server may end anywhere, for instance because a
request cannot be decoded or an answer cannot be written; `Initialize` is the
next server, which loads what the files say by then, edited by hand perhaps
(`Edits`).  A step of the manager that forks gives the child a command line of
`BhyveCommand`, with the configuration of the VM and the manager's next VNC
port, which is taken before the fork is tried.  Handlers of the other managers
leave all of this alone, and are `DecodeAndAnswer`.  Shutdown has no caller in
the server (`MCPServerAssumption`).  `lost` is a history variable: the VMs
whose kernel object a Destroy has left behind as vm_open or vm_destroy failed.
What an answer says of processes it says of this server's children: a bhyve
that an earlier server started runs on, and no server speaks of it.

### StateStore

The databases put their own maps into the store's map, so that from the first
save on `data[d]` and `mem[d]` are one map (`aliased`).  An update holds its
database's mutex from the change to the end of the save and the store's mutex
from Set on; saving is marshal, create, write, rename, each of which can fail
or be the last thing the process does.  A caller of the other database may
change an aliased map while it is being marshalled: Go may end the program
there, which is the `Racing` disjunct of `Restart`.  `recent` is a history
variable: the states of a database since the last one acknowledged.

### ISODownloader

The directory entries `final` and `part` lead to inodes, and a goroutine keeps
the inode it opened and its offset: two downloads of one name share a `.part`
path, not what they believe to be in it.  A body is a number of chunks of one
source; a wrong body, a wrong checksum and a mixture of two bodies are then
told apart.  Sources announce a length or stream (`Announced`).  `Exclusive`
is the set of names callers do not download twice at a time.  A download that
fails closes its `.part` and removes it in a step of its own, between which
others' come; with the fault "remove" the removal fails, which nobody looks at.
`sum` is a history variable.

### DiskManager

One action per command.  zfs's refusals (a snapshot with a clone, a volume
with a snapshot, a snapshot that exists) are modelled from zfs(8), as the code
relies on them; with the fault "zfs" a command may also fail for no reason.
With the fault "file" a truncate leaves a new file empty, and a cp leaves a
copy as long as it got, where a whole image may have been: the code takes
neither away.  That a failing qemu-img or zfs leaves nothing is an assumption.
`cloneZvol` is the one operation of several commands, and other callers' come
between them; a truncate or a cp is one step.  Sizes of raw images go through
`Sizes`: `Half` stands for 2^63.  `asked` and `torn` (the images a command that
failed has left, and their copies) are history variables.

### NetManager

One action per ifconfig command; `frame` says which command of CreateSwitch or
DeleteSwitch comes next.  An interface is a member of at most one bridge, which
if_bridge(4) enforces and the clean-up relies on.  Every command may be refused
(`Faults`), the clean-up's destroy and the deletem of DeleteSwitch, at which
nobody looks, included.  `want` (the interface a switch was made with, until it
is taken away) and `refused` (the "up" or "destroy" whose refusal ended its
CreateSwitch) are history variables.  With `Exclusive`, callers work on one switch at
a time, as the server's single goroutine does; different switches still share
interfaces.

### ConsoleSessions and ConsoleLog

`m.mu` is held over a whole Open or Close, and only for the look-up in a Read
or Write, which then wait for `session.mu` and hold it over the I/O, with the
session they looked up whatever has become of it.  A call waits for `m.mu` at a
pc of its own (`open_get`, `close_get`, `read_get`, `write_get`), as Open's
open(2) of a terminal may block for ever with it held.  A device is pollable or
not: Go's os.File honours deadlines, and wakes I/O when it is closed, only for
devices its poller can watch.  For the others Close only marks the file
("closing"): its descriptor goes with the last Read or Write in it.  The device is a terminal that takes one piece of
input until the guest reads, which it need not do.  Session structs are reused
when nothing leads to them any more.

A log is a set of numbered lines in an inode; paths lead to inodes, and a call
that opened one writes to it wherever it has been renamed to.  Rotation is one
action per rename, in the code's order, and a crash may come between any two.
With the fault "rename" the removal or any rename fails: the code looks at the
last one only.  `max_log_files` is any integer, as the code does not check it;
below 1 the rotation moves the log to `.0` only, over what was there (`Oldest`).
os.Stat is taken to see a log that exists.  `raced` (some rotation has
overlapped another call) and `unmoved` (a rotated file could not be renamed)
are history variables.
ReadLog opens the log that has its path at that moment and scans it line by
line, from the file that descriptor leads to and whatever is renamed, removed
or written meanwhile; `reader` is its sliding window and how far it is.

## 3. What TLC checks

| run | instance | what it shows |
|---|---|---|
| `mcp_server` | 2 VMs, 2 structs, 2 processes, failing vm_open and vm_destroy, crashes and reboots, 2 configurations | types; what is answered "ok" is so of the table, the files, the kernel objects and the children; VNC ports and slots differ; processes, handles, kernel objects and configurations are accounted for; refinement of `VMLifecycle` |
| `vm_callers` | 1 VM, 2 callers, 2 structs, all operations, all faults | transient states only under the lock; a running VM has its own process; no process in two structs; every call returns, but for the named self-deadlocks, a Stop whose guest runs on, and who queues behind them |
| `vm_destroy_running` | 1 caller | violated: Destroy of a running VM returns |
| `vm_getstate_zombie` | 1 caller | violated: a VM reported running has a live process |
| `vm_two_processes` | 2 callers | violated: one VM, one live process |
| `store` | 2 databases, 2 callers, failing saves, crashes | types; acknowledged updates survive; who can race; refinement of `DurableStore`; updates return |
| `iso_downloads` | 2 names, one of them downloaded by any number at a time, 2 sources, 2 callers, 2 inodes, crashes, removals that fail | types; a visible ISO is whole and verified; no stray `.part` but after a crash or a failed removal; downloads return |
| `disk_clones` | 2 images, 3 volumes, 2 callers, failing commands, 5 sizes | types; a raw image has the size asked for if that fits, or less after a failed truncate or cp; a clone keeps snapshot and origin |
| `disk_snapshot` | 2 volumes, 1 caller | violated: a finished clone leaves no snapshot |
| `net_switches` | 2 switches, 1 port, 1 TAP, 2 callers, refused commands | types; no half-made switch but after two refusals; a switch that is up goes by its DeleteSwitch only |
| `console_sessions` | 1 VM, 3 callers, 2 structs, failing closes, devices that cannot be polled, opens that hang | types; table and open devices agree; a session's mutex is held for I/O only; calls return unless an open or a guest keeps them; Close returns unless an open does, and frees whoever waits |
| `console_log` | 2 rotated files, 2 callers and a reader of 2 or of -1 lines, 4 lines, 4 inodes, 6 limits, crashes, removals and renames that fail | types; the newest lines are kept, in order; only the oldest are forgotten, unless a rename failed; the log is bounded; what ReadLog has collected is at every step the tail of what it has scanned; rotation as configured |

Why the bounds are enough.  A VM name interferes with another one only through
`m.mu`, the VNC port and the process slots, so that two names show what there
is.  Of the structs of one name, two show an old one that a caller still holds
and the new one a Create has registered; structs that nobody refers to are
reused, so that this goes on for ever.  Two sessions show an old one that
callers still hold and the current one, with three callers on them.  Two databases are all there are,
and one record is enough, as a save writes whole maps.  A body of one chunk and
one of two differ in length and leave an interior point at which copies stop.
Two inodes are one for each of two names, or a file that a download still
writes after its name has gone and the next one of that name; a download that
finds none free fails.  Three volumes make a source, its clone and a clone of
the clone; two images a copy and one back.  Sizes are one of each kind
parseSize tells apart, with 8 or 16 for 2^63 and 2 for 1024.  Four lines fill a
log of the smallest limits and both rotated files and rotate again.  The bounds named in the modules are `MaxDisplays` (VMs with VNC one
server starts), `MaxSize` of `DiskManager` (QCOW2 images and volumes) and
`MaxLines`.  The
theorems of section 4 have no other bound, and hold for every value of these.

`CHECK_DEADLOCK FALSE` stands in the cfgs of the VM manager with several
callers only: the self-deadlocks of Destroy and Shutdown stop all of it, which
is a finding, and `CallsReturn` shows that nothing else does.

### Fairness

- A goroutine that can take its next step, or waits for a mutex that is free
  again and again, does at last (strong fairness of `Step`): the Go scheduler
  is preemptive, and sync.Mutex hands itself to a waiter that starved for a
  millisecond.  Calls are not fair: nobody has to call.
- Nothing is assumed of guests: one that was sent SIGTERM may run on, and
  Stop's Wait has no timeout.  `CallsReturn` of the VM manager excuses the calls
  that are `Stuck`, the least set with the self-deadlocks, the Stops that wait
  for a live guest, and whoever waits for a lock one of them holds.  A call
  begins when its m.Get has got `m.mu`: those that have not are no calls yet.
- A download's HTTP client has a timeout that covers the body, so that a copy
  ends or fails (`Timely`); nothing is assumed of the source.
- Open's open(2) is not fair, it may hang: `CallsReturn` and `ClosesReturn` of
  the consoles excuse who waits for `m.mu` behind it.
- A read deadline on a device that can be polled passes (`ReadTimeout` is part
  of `Step`); guests neither read nor write fairly.

### Findings

1. `vm_destroy_running`: Destroy locks `vm.mu` and calls Stop, which locks it
   again.  Destroying a running VM hangs the request loop for good.  Shutdown
   has the same flaw with `m.mu` (`SelfDeadlock` names both).
2. `vm_getstate_zombie`: GetState's signal 0 reaches zombies, and nobody waits
   for a guest that powered off by itself, so that it stays "running".
3. `vm_two_processes`: Start does not look again, after it has the lock,
   whether its struct is still the registered one.  It takes two callers.
4. `disk_snapshot`: the snapshot of a zvol clone cannot be destroyed while the
   clone exists; the next clone of the volume fails, and so does its deletion.

Met on the way, in the models and without a run of their own.  Where `.plan`
asks for something the code has no trace of, the line is quoted; a property
would be false from the first call on.

- A restarted server takes running VMs for defined (`NewManager`); its VNC
  ports start anew and may meet theirs.  .plan/00-master-plan.md:667 has "VM
  state is derived from `libvmmapi`, not cached"; the code caches it, and its
  libvmmapi wrapper's GetState is a stub.
- A restarted server may not know a VM at all, as it skips what it cannot read
  or parse.  The configuration and the kernel object stay.
- After a reboot VMs have no kernel object, and only Create makes one.
- "Destroy destroys a VM completely" (internal/vm/manager.go:232): it succeeds
  also when vm_open or vm_destroy fails, and then leaves the kernel object
  without a VM or a file.  `AnswersTrue` and `NoOrphanKernelObject` except these
  by name (`lost`).
- Stop waits without a timeout, with `vm.mu` held, for a guest that may ignore
  SIGTERM.
- Every VM with a network is given `tap0`, where .plan/04-bhyve-vm-management.md:116
  has "Create `tapN` on VM start" and line 118 "Destroy on VM stop".
- Two downloads of one name share a `.part`: the hash is of the stream and not
  of the file.
- A body without Content-Length passes the size limit, where
  .plan/09-iso-and-image-management.md:60 has "Enforce `limits.max_iso_size`".
- Delete removes a QCOW2 image that others are backed by, where
  .plan/09-iso-and-image-management.md:336 has "Delete a disk (with safety
  checks)"; Resize shrinks a raw disk, where line 139 has "allow_shrink: false
  # safety guard", and Create cuts one that exists.  Sizes past 64 bits wrap,
  without an error.
- A cp that fails leaves its part of a copy, and may have cut an image that was
  there; a clean-up that fails leaves a switch that is down.
- Overlapping rotations lose log lines that are not the oldest, and so does the
  next rotation after one that could not rename a file; a Write to a console
  has no deadline, and an Open of a terminal none either, with `m.mu` held; a
  session whose Close failed stays in the table, and Open refuses its VM from
  then on.

## 4. What TLAPS proves

For any sets of names, structs, processes, callers, files, switches and sizes,
for every width of integers, and for any faults unless said otherwise.  All
theorems are of the form "every behaviour of the specification satisfies ...".

| module | theorem | property |
|---|---|---|
| `VMManagerProofs` | `TypeCorrect` | `TypeOK` |
| | `LocksGuardTransients` | `TransientUnderLock` |
| | `CallersNeverLockCircularly` | `NoLockCycle` |
| | `RunningVMsHaveTheirProcess`, `ProcessesHaveOneOwner` | `RunningHasProcess`, `ProcessOwnedOnce` |
| `VMServerProofs` | `ServerRefinesManager` | the server implements `VMManager` |
| | `ServerTypeCorrect` | `MCPTypeOK` |
| | `NoProcessIsLost` | `NoUnmanagedProcess` |
| | `HandlesFollowStates` | `HandleFollowsState` |
| | `KernelObjectsHaveFiles` | `NoOrphanKernelObject` |
| | `ConfigurationsSurvive` | `ConfigOutlivesVM` |
| | `ServerImplementsLifecycle`, `GuestsBelongToVMsThatAreUp` | `ImplementsLifecycle`, and an invariant it carries over |
| | `AnswersAreTrue` | `AnswersTrue` |
| | `DisplaysStayApart`, `DevicesStayApart` | `DisplaysApart`, `DevicesApart` |
| `StateStoreProofs` | `TypeCorrect`, `StateFileAlwaysWhole`, `AcknowledgedUpdatesNeverLost`, `OnlyTwoDatabasesRace` | `TypeOK`, `StateFileWhole`, `AcknowledgedUpdatesSurvive`, `MarshallerUndisturbed` |
| | `UpdatesNeverLockCircularly` | `NoLockCycle` |
| | `StoreImplementsDurableStore` | `ImplementsDurableStore` |
| `ISODownloaderProofs` | `TypeCorrect`, `ExclusiveDownloadsAreSound`, `DownloadsCleanUp` | `TypeOK`, `AvailableAsVerified`, `NoStrayPart` |
| `DiskManagerProofs` | `TypeCorrect`, `RawImagesHaveTheirSizes`, `ClonesKeepTheirSnapshots` | `TypeOK`, `RawSizesAsAsked`, `CloneKeepsSnapshot` |
| `NetManagerProofs` | `TypeCorrect`, `NoSwitchIsLeftHalfMade`, `SwitchesStayUntilDeleted` | `TypeOK`, `NoHalfSwitch`, `UpUntilDeleted` |
| `ConsoleSessionsProofs` | `TypeCorrect`, `OneCallUsesADevice`, `OpenDevicesAreInTheTable` | `TypeOK`, `MutexHeldForIO`, `TableMatchesDevices` |
| `ConsoleLogProofs` | `TypeCorrect`, `TheNewestAreKept`, `OnlyTheOldestAreForgotten`, `LogsAreBounded`, `RotationsAsConfigured` | `TypeOK`, `KeepsTheNewest`, `ForgetsTheOldest`, `LogBounded`, `RotatedWhenFull` |
| | `TheTailIsRead` | `ReadsTheTail` |

Assumptions are the named ASSUMEs of the modules: that the markers (`NoObj`,
`Free`, ...) are not members of the sets they mark the absence of, what the
sizes and faults may be, and for a log that there are finitely many callers.
`MCPServerAssumption` is the server's: one goroutine, and no refused signals, as
the server owns its bhyves.

The arguments, in short.

- *VM manager.*  Three layers, and a fourth for its locks.  `TypeInv` adds to
  `TypeOK` what a frame must hold at each pc.  `LockInv` is
  `TransientUnderLock` with what makes it inductive: names of frames and
  structs match, and the struct a nested Stop works on is not the one its
  Destroy holds (`TargetApart`).  `ProcessInv` needs both: a struct that is
  running or stopping has a child process of its name that has not been waited
  for.  No two such structs may share it, or the wait of one would take away
  the other's, so injectivity is part of the invariant.  `CycleInv` is about
  who waits for whom.  A Destroy may hold the mutex of a struct that has left
  the table and wait, in Stop, for that of the one registered under its name
  since; so structs lead to structs.  A struct that leads somewhere has left
  the table and does not come back while it is in use (`Retired`), and a new
  wait is for a registered one: that graph stays acyclic (`Acyclic`).  With
  `MuOwner`, who holds `m.mu` waits for nobody but itself, so that a circle of
  callers would be one of such structs.
- *Server.*  A step of the server is a step of the manager or leaves it alone
  (`ServerRefinesManager`), so that the manager's invariants hold in it.  With
  one caller, a step changes one VM, the one its request names, and
  `ServerInv` is one statement for each name: `VMOK` relates struct, processes,
  handle, kernel object and file of a VM, and `MainInv` says how far they may
  be apart at each pc of the goroutine that is changing them.  The four
  accounting invariants and the step simulation of `VMLifecycle` follow from
  it, a lemma per abstract action.  `LoopInv` ties the request to the place of
  its operation, which gives `AnswersTrue` for the step with which it returns.
  `LineInv` bounds the ports of all children by `vncPortNext`; that slots
  differ is a counting argument over the three loops of the command line.
- *State store.*  The temporary file is written only with the store's mutex
  held, so that at "rename" it is whole and holds the snapshot; the database's
  mutex keeps its map as it was when marshalled; and the other database's part
  of the snapshot, which may be changing, is one of its states since its last
  acknowledgement, which only its own rename, under the same mutex, moves on.
  For `DurableStore`, the rename is the one step that saves: there the snapshot
  becomes what a start would load, all databases at once, and the update is
  acknowledged; a change of a map is a change in memory, a restart a reload, and
  every other step, a failed save included, stutters.  `Held` says that a mutex
  is held by an operation between its Lock and Unlock only; as databases' come
  before the store's, no circle can close.
- *ISO downloader.*  `Apart`: downloads under way of an exclusive name are one,
  and an inode has one name.  `PartsInv`: the `.part` of such a download at
  offset k is k chunks of its source and nothing else, also where a crash had
  left one, as os.Create truncates.  The rename therefore publishes a whole
  body.  `NoStrayPart` needs no exclusion: every way out of a download removes
  the path, whoever's file it leads to, or is the removal that fails.
- *Disk manager.*  While a clone is between its commands the snapshot is held
  by it: another clone of the source fails at zfs snapshot, before it could
  clean up, and a volume with a snapshot cannot be deleted.  Commands on images
  leave volumes alone, and what a size is parsed to is `ParsedSize`.
- *Network manager.*  `StageOK` is what a command of CreateSwitch finds of the
  one before (the bridge is down and without members before "addm", has its
  interface before "up"), `SwitchOK` what is true of a switch nobody makes: it
  is up and has its interface, or was left down by one of two refusals.
  Callers on other switches can take the interface before, never after.
- *Console sessions.*  `TableLocked`: the goroutine in Open or Close holds
  `m.mu`, so that the entry it looked up is still its own when it deletes it.
  `TableOK`: a session is in the table once.  A reused struct is in nobody's
  frame, which keeps stale callers from its mutex; a file that is closing has
  the I/O in it that keeps its descriptor.
- *Console log.*  `CallsApart`: until a rotation overlaps another call, who is
  about to write has the current log open, and who is about to rename has made
  room, crashes in between or not.  So a rename moves lines, a removal takes a
  prefix of all lines, and `Sorted` stays, also when a rename fails: the next
  one then overwrites the file that stayed, which is what `unmoved` excuses, and
  `Contiguous` stays until then.  For `LogBounded`,
  `RoomInv` counts the calls that have looked at the size and may still write.
  For ReadLog, the invariant is over the lines scanned so far: the window is
  their last n, and sliding it by one line keeps that, the lemma the theorem
  rests on; a file that is scanned is not reused, so that nothing scanned
  changes.

Only model-checked: liveness (`CallsReturn` of both managers, `ClosesReturn`,
`CloseFreesCallers`, `UpdatesReturn`, `DownloadsReturn`), which is out of the
prover's reach with its fairness.  What is proved of it are the two
`NoLockCycle`: that locks alone keep nobody waiting for ever.  Every safety
property and refinement that a passing run checks is the statement of a
theorem.  `StateFileWhole` and the two `NoLockCycle` are proved and in no run:
the runs of their modules check what implies them (the refinement; that calls
return).

## 5. What is not modelled

- Listings and look-ups, which change nothing: List, GetInfo, Verify,
  ListSwitches, GetSwitch and GetStatus's details.
- `config.Load` and most of `setDefaults`: a pure function of a file the server
  never reads; the VNC base port is in `MCPServer`.
- `Store.Set`, `Get` and `Delete` under other keys than the two databases',
  which have no callers.
- `vmmapi` beyond its effect on kernel objects: its GetState is a stub, and
  SetupMemory succeeds or fails.  Guests beyond running, reading and powering
  off.
- What a file system keeps after a power failure: crashes are of the process
  (or, for VMs, reboots); `state.json` is renamed without fsync.
- JSON, YAML and the wording of answers and errors.
- `.plan`, `Makefile`, `README.md`, `cmd`: no behaviour of their own; `.plan`
  holds the promises the findings quote.

Three hazards have no property: `tap0`, a streamed body of any size, and the
deletion of a disk others are backed by.  `.plan` asks for the opposite of each
(section 3 quotes the lines), and the code has nothing that could be called an
attempt: a property would be false from the first call on, without a behaviour
worth looking at, so none is stated.

## 6. What could come next

- A server with the disk, network and store managers in one specification.
  They share no state today, so that each request is the step of one of them.
- When `console` and `iso` are connected: their calls from the request loop,
  where a Read's timeout and a download's duration delay all other requests.
- `LogBounded` and `KeepsTheNewest` for callers that overlap rotations, once
  PersistLog takes a lock.
