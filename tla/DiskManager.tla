---------------------------- MODULE DiskManager ----------------------------
(***************************************************************************)
(* internal/disk/manager.go: raw images, QCOW2 images and ZFS volumes, by  *)
(* name, through truncate(1), cp(1), qemu-img(1) and zfs(8).  A qemu-img   *)
(* or a zfs takes effect or fails; a truncate or a cp that fails may leave *)
(* part of its effect, which nobody removes.  The clone of a volume takes  *)
(* three commands.  The manager keeps no state and takes no lock.  A       *)
(* volume's name is <vm>/<disk>.                                           *)
(***************************************************************************)
EXTENDS Sizes

CONSTANTS
  Images,      (* names of raw images and of QCOW2 images                  *)
  Volumes,     (* names of volumes                                         *)
  Requested,   (* the sizes raw images are asked for                       *)
  MaxSize,     (* those of the others, which the tools parse: 1..MaxSize   *)
  Goroutines,  (* concurrent callers; the server of internal/mcp has one   *)
  Faults,      (* "zfs": a zfs command may fail for no reason of its own;  *)
               (* "file": so may a truncate or a cp                        *)
  NoDisk

ASSUME DiskManagerAssumption ==
  /\ Requested \subseteq [numeric: BOOLEAN, number: Int, unit: Units]
  /\ MaxSize \in Nat \ {0}
  /\ NoDisk \notin Images \cup Volumes

VARIABLES
  raw,    (* <diskDir>/<name>.raw: its size, or NoImage                    *)
  asked,  (* what that size was asked to be, here or for the image it was  *)
          (* copied from (history)                                         *)
  torn,   (* the images a truncate or a cp that failed has left, and copies*)
          (* of those (history)                                            *)
  qcow,   (* <diskDir>/<name>.qcow2: its size and backing image            *)
  zvol,   (* <zpool>/vm/<name>: its volsize and the volume it was cloned   *)
          (* from                                                          *)
  snap,   (* <zpool>/vm/<name>@clone-snap: the volsize it keeps            *)
  frame   (* per goroutine: the clone of a volume it is in                 *)

vars == <<raw, asked, torn, qcow, zvol, snap, frame>>

NoImage == -1

Disk(names) == [size: 0..MaxSize, parent: names \cup {NoDisk}]

Absent == [size |-> 0, parent |-> NoDisk]

Frame == [pc: {"idle", "clone", "clean_up", "destroy_snap"},
          src: Volumes \cup {NoDisk}, dst: Volumes \cup {NoDisk}]

Idle == [pc |-> "idle", src |-> NoDisk, dst |-> NoDisk]

At(g, l) == frame[g].pc = l

Return(g) == frame' = [frame EXCEPT ![g] = Idle]

Init ==
  /\ raw = [n \in Images |-> NoImage]
  /\ asked = [n \in Images |-> 0]
  /\ torn = {}
  /\ qcow = [n \in Images |-> Absent]
  /\ zvol = [n \in Volumes |-> Absent]
  /\ snap = [n \in Volumes |-> 0]
  /\ frame = [g \in Goroutines |-> Idle]

----------------------------------------------------------------------------
(* Raw images                                                              *)

(* Mutant: truncate -s +size, which extends.                               *)
Extend(n, size) ==
  /\ ~ParseFailsUnsigned(size)
  /\ raw' = [raw EXCEPT ![n] =
               ParseSizeUnsigned(size) + (IF @ = NoImage THEN 0 ELSE @)]
  /\ asked' = [asked EXCEPT ![n] = Exact(size)]
  /\ torn' = torn \ {n}
  /\ UNCHANGED <<qcow, zvol, snap>>

(* Mutant: the size is printed without its top bit.                        *)
TruncateShort(n, size) ==
  /\ ~ParseFailsUnsigned(size)
  /\ raw' = [raw EXCEPT ![n] = ParseSizeUnsigned(size) % Half]
  /\ asked' = [asked EXCEPT ![n] = Exact(size)]
  /\ torn' = torn \ {n}
  /\ UNCHANGED <<qcow, zvol, snap>>

(* createRaw and resizeRaw: truncate -s makes the file if there is none,   *)
(* and cuts or extends it if there is; what is no off_t it refuses.        *)
Truncate(n, size) ==
  /\ ~ParseFailsUnsigned(size)
  /\ ParseSizeUnsigned(size) < Half
  /\ raw' = [raw EXCEPT ![n] = ParseSizeUnsigned(size)]
  /\ asked' = [asked EXCEPT ![n] = Exact(size)]
  /\ torn' = torn \ {n}
  /\ UNCHANGED <<qcow, zvol, snap>>

(* A file it has made for a size it cannot give it, truncate leaves empty. *)
TruncateFails(n, size) ==
  /\ ~ParseFailsUnsigned(size)
  /\ "file" \in Faults
  /\ raw[n] = NoImage
  /\ raw' = [raw EXCEPT ![n] = 0]
  /\ asked' = [asked EXCEPT ![n] = Exact(size)]
  /\ torn' = torn \cup {n}
  /\ UNCHANGED <<qcow, zvol, snap>>

DeleteRaw(n) ==
  /\ raw[n] # NoImage
  /\ raw' = [raw EXCEPT ![n] = NoImage]
  /\ asked' = [asked EXCEPT ![n] = 0]
  /\ torn' = torn \ {n}
  /\ UNCHANGED <<qcow, zvol, snap>>

CloneRaw(src, dst) ==
  /\ raw[src] # NoImage
  /\ src # dst
  /\ raw' = [raw EXCEPT ![dst] = raw[src]]
  /\ asked' = [asked EXCEPT ![dst] = asked[src]]
  /\ torn' = IF src \in torn THEN torn \cup {dst} ELSE torn \ {dst}
  /\ UNCHANGED <<qcow, zvol, snap>>

(* cp cuts an image that is there, and may fail anywhere in the copying.   *)
CloneRawFails(src, dst) ==
  /\ raw[src] # NoImage
  /\ src # dst
  /\ "file" \in Faults
  /\ \E size \in 0..raw[src] : raw' = [raw EXCEPT ![dst] = size]
  /\ asked' = [asked EXCEPT ![dst] = asked[src]]
  /\ torn' = torn \cup {dst}
  /\ UNCHANGED <<qcow, zvol, snap>>

----------------------------------------------------------------------------
(* QCOW2 images: qemu-img create replaces an image that exists             *)

CreateQCOW2(n, s) ==
  /\ qcow' = [qcow EXCEPT ![n] = [size |-> s, parent |-> NoDisk]]
  /\ UNCHANGED <<raw, asked, torn, zvol, snap>>

(* qemu-img resize does not shrink an image unless it is told to.          *)
ResizeQCOW2(n, s) ==
  /\ qcow[n].size \in 1..s
  /\ qcow' = [qcow EXCEPT ![n].size = s]
  /\ UNCHANGED <<raw, asked, torn, zvol, snap>>

DeleteQCOW2(n) ==
  /\ qcow[n].size # 0
  /\ qcow' = [qcow EXCEPT ![n] = Absent]
  /\ UNCHANGED <<raw, asked, torn, zvol, snap>>

(* An overlay of the source's size, backed by the source.  qemu-img before *)
(* 6.1 makes it; later ones refuse a -b without -F.                        *)
CloneQCOW2(src, dst) ==
  /\ qcow[src].size # 0
  /\ src # dst
  /\ qcow' = [qcow EXCEPT ![dst] = [size |-> qcow[src].size, parent |-> src]]
  /\ UNCHANGED <<raw, asked, torn, zvol, snap>>

----------------------------------------------------------------------------
(* ZFS volumes                                                             *)

CreateZvol(n, s) ==
  /\ zvol[n].size = 0
  /\ zvol' = [zvol EXCEPT ![n] = [size |-> s, parent |-> NoDisk]]
  /\ UNCHANGED <<raw, asked, torn, qcow, snap>>

ResizeZvol(n, s) ==
  /\ zvol[n].size # 0
  /\ zvol' = [zvol EXCEPT ![n].size = s]
  /\ UNCHANGED <<raw, asked, torn, qcow, snap>>

Dependents(n) == {d \in Volumes : zvol[d].parent = n}

(* Mutant: zfs destroy -r.                                                 *)
DeleteZvolRecursively(n) ==
  /\ zvol[n].size # 0
  /\ Dependents(n) = {}
  /\ zvol' = [zvol EXCEPT ![n] = Absent]
  /\ snap' = [snap EXCEPT ![n] = 0]
  /\ UNCHANGED <<raw, asked, torn, qcow>>

(* zfs destroy without -r refuses a volume that has a snapshot.            *)
DeleteZvol(n) ==
  /\ zvol[n].size # 0
  /\ snap[n] = 0
  /\ zvol' = [zvol EXCEPT ![n] = Absent]
  /\ UNCHANGED <<raw, asked, torn, qcow, snap>>

(* cloneZvol: zfs snapshot, which fails if the snapshot exists; then       *)
CloneZvol(g, src, dst) ==
  /\ At(g, "idle")
  /\ zvol[src].size # 0
  /\ snap[src] = 0
  /\ snap' = [snap EXCEPT ![src] = zvol[src].size]
  /\ frame' = [frame EXCEPT ![g] = [pc |-> "clone", src |-> src, dst |-> dst]]
  /\ UNCHANGED <<raw, asked, torn, qcow, zvol>>

(* zfs clone, or                                                           *)
ZfsClone(g) ==
  LET n == frame[g].src
      d == frame[g].dst IN
  /\ At(g, "clone")
  /\ zvol[d].size = 0
  /\ zvol' = [zvol EXCEPT ![d] = [size |-> snap[n], parent |-> n]]
  /\ frame' = [frame EXCEPT ![g].pc = "destroy_snap"]
  /\ UNCHANGED <<raw, asked, torn, qcow, snap>>

ZfsCloneFails(g) ==
  /\ At(g, "clone")
  /\ zvol[frame[g].dst].size # 0 \/ "zfs" \in Faults
  /\ frame' = [frame EXCEPT ![g].pc = "clean_up"]
  /\ UNCHANGED <<raw, asked, torn, qcow, zvol, snap>>

(* zfs destroy of the snapshot, which fails if it has a clone.  Neither    *)
(* the clean-up nor the clone looks at the outcome.                        *)
DestroySnapshot(g) ==
  /\ frame[g].pc \in {"clean_up", "destroy_snap"}
  /\ Dependents(frame[g].src) = {}
  /\ snap' = [snap EXCEPT ![frame[g].src] = 0]
  /\ Return(g)
  /\ UNCHANGED <<raw, asked, torn, qcow, zvol>>

DestroySnapshotFails(g) ==
  /\ frame[g].pc \in {"clean_up", "destroy_snap"}
  /\ Dependents(frame[g].src) # {} \/ "zfs" \in Faults
  /\ Return(g)
  /\ UNCHANGED <<raw, asked, torn, qcow, zvol, snap>>

----------------------------------------------------------------------------
FileCommand(n) ==
  \/ DeleteRaw(n) \/ DeleteQCOW2(n)
  \/ \E s \in Requested : Truncate(n, s) \/ TruncateFails(n, s)
  \/ \E s \in 1..MaxSize : CreateQCOW2(n, s) \/ ResizeQCOW2(n, s)
  \/ \E d \in Images : CloneRaw(n, d) \/ CloneRawFails(n, d) \/ CloneQCOW2(n, d)

VolumeCommand(n) ==
  \/ DeleteZvol(n)
  \/ \E s \in 1..MaxSize : CreateZvol(n, s) \/ ResizeZvol(n, s)

Next ==
  \E g \in Goroutines :
    \/ /\ At(g, "idle") /\ UNCHANGED frame
       /\ (\E n \in Images : FileCommand(n)) \/ (\E n \in Volumes : VolumeCommand(n))
    \/ \E n, d \in Volumes : CloneZvol(g, n, d)
    \/ ZfsClone(g) \/ ZfsCloneFails(g)
    \/ DestroySnapshot(g) \/ DestroySnapshotFails(g)

Spec == Init /\ [][Next]_vars

----------------------------------------------------------------------------
TypeOK ==
  /\ raw \in [Images -> NoImage..(Half - 1)]
  /\ asked \in [Images -> Nat]
  /\ torn \in SUBSET Images
  /\ qcow \in [Images -> Disk(Images)]
  /\ zvol \in [Volumes -> Disk(Volumes)]
  /\ snap \in [Volumes -> 0..MaxSize]
  /\ frame \in [Goroutines -> Frame]

(* Of the sizes nobody checks for overflow none is wrong that fits: a raw  *)
(* image, or a copy of one, has the size that was asked for, unless that   *)
(* is 2^64 or more (then it is what remains of it, truncate being happy);  *)
(* sizes in between, too large for a file, are refused and not cut.  What  *)
(* a command that failed has left, and its copies, are not longer.         *)
RawSizesAsAsked ==
  \A n \in Images : raw[n] # NoImage /\ asked[n] < 2 * Half =>
    /\ raw[n] <= asked[n]
    /\ n \notin torn => raw[n] = asked[n]

(* The snapshot a clone has taken stays its own, with the volume, until it *)
(* is used: no concurrent delete, or clone of the same source that fails   *)
(* and cleans up, takes it away; and a clone's origin outlives it.         *)
CloneKeepsSnapshot ==
  /\ \A g \in Goroutines : At(g, "clone") =>
       /\ zvol[frame[g].src].size # 0
       /\ snap[frame[g].src] # 0
       /\ \A h \in Goroutines \ {g} : frame[h].src # frame[g].src
  /\ \A d \in Volumes : zvol[d].parent # NoDisk =>
       zvol[zvol[d].parent].size # 0 /\ snap[zvol[d].parent] # 0

(* "// Destroy snapshot": when no clone of a volume is under way, the      *)
(* volume has no snapshot left to fail the next one.                       *)
SnapshotDestroyed ==
  \A n \in Volumes : snap[n] # 0 => \E g \in Goroutines : frame[g].src = n

=============================================================================
