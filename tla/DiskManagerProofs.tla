------------------------- MODULE DiskManagerProofs -------------------------
(***************************************************************************)
(* Safety of DiskManager for every set of disks and callers, every size    *)
(* and width of integers, and commands that may fail.  No lock keeps   *)
(* two clones apart: what does is that zfs snapshot fails if the snapshot  *)
(* exists, and that zfs destroy refuses what others depend on.             *)
(***************************************************************************)
EXTENDS DiskManager, TLAPS

(* A clone under way has a source, which has a snapshot, to itself.        *)
ClonesApart ==
  \A g \in Goroutines : ~At(g, "idle") =>
    /\ frame[g].src \in Volumes
    /\ frame[g].dst \in Volumes
    /\ zvol[frame[g].src].size # 0
    /\ snap[frame[g].src] # 0
    /\ \A h \in Goroutines \ {g} : frame[h].src # frame[g].src

OriginsKept ==
  \A d \in Volumes : zvol[d].parent # NoDisk =>
    zvol[zvol[d].parent].size # 0 /\ snap[zvol[d].parent] # 0

Inv ==
  /\ TypeOK
  /\ RawSizesAsAsked
  /\ \A g \in Goroutines : At(g, "idle") => frame[g] = Idle
  /\ ClonesApart
  /\ OriginsKept

(* What parseSize of a size it accepts returns: a natural number, which is *)
(* the one meant if that fits.                                             *)
LEMMA ParsedSize ==
  ASSUME NEW size \in Requested, ~ParseFailsUnsigned(size)
  PROVE  /\ Exact(size) \in Nat
         /\ ParseSizeUnsigned(size) \in Nat
         /\ Exact(size) < 2 * Half => ParseSizeUnsigned(size) = Exact(size)
<1> USE SizesAssumption, DiskManagerAssumption
<1>1. size.number \in Nat /\ size.unit \in Units
  BY DEF ParseFailsUnsigned
<1>2. Multiplier(size.unit) \in Nat
  <2>1. Kilo * Kilo \in Nat /\ (Kilo * Kilo) * Kilo \in Nat
    OBVIOUS
  <2> QED BY <1>1, <2>1 DEF Multiplier, Units
<1>3. Exact(size) \in Nat
  <2>1. \A a, b \in Nat : a * b \in Nat
    OBVIOUS
  <2> QED BY <1>1, <1>2, <2>1 DEF Exact
<1>4. \A x \in Nat, m \in Nat \ {0} : x % m \in Nat /\ (x < m => x % m = x)
  OBVIOUS
<1>5. 2 * Half \in Nat \ {0}
  OBVIOUS
<1> QED BY <1>3, <1>4, <1>5 DEF ParseSizeUnsigned, Uint64

(* A host without disks.                                                   *)
LEMMA InitInv == Init => Inv
BY DiskManagerAssumption, SizesAssumption
   DEF Init, Inv, TypeOK, RawSizesAsAsked, ClonesApart, OriginsKept, NoImage,
       Disk, Absent, Frame, Idle, At

(* A command on a file, one that fails included, does not disturb volumes. *)
LEMMA FileCommandInv ==
  ASSUME Inv, NEW n \in Images, FileCommand(n), UNCHANGED frame
  PROVE  Inv'
<1> USE DiskManagerAssumption, SizesAssumption
    DEF Inv, TypeOK, RawSizesAsAsked, ClonesApart, OriginsKept, Disk, Absent,
        NoImage, At
<1>1. CASE DeleteRaw(n)
  BY <1>1 DEF DeleteRaw
<1>2. ASSUME NEW d \in Images, CloneRaw(n, d) PROVE Inv'
  BY <1>2 DEF CloneRaw
<1>3. ASSUME NEW d \in Images, CloneRawFails(n, d) PROVE Inv'
  BY <1>3 DEF CloneRawFails
<1>4. CASE DeleteQCOW2(n) \/ \E d \in Images : CloneQCOW2(n, d)
  BY <1>4 DEF DeleteQCOW2, CloneQCOW2
<1>5. ASSUME NEW size \in Requested, Truncate(n, size) PROVE Inv'
  BY <1>5, ParsedSize DEF Truncate
<1>6. ASSUME NEW size \in Requested, TruncateFails(n, size) PROVE Inv'
  BY <1>6, ParsedSize DEF TruncateFails
<1>7. ASSUME NEW s \in 1..MaxSize, CreateQCOW2(n, s) \/ ResizeQCOW2(n, s) PROVE Inv'
  BY <1>7 DEF CreateQCOW2, ResizeQCOW2
<1> QED BY <1>1, <1>2, <1>3, <1>4, <1>5, <1>6, <1>7 DEF FileCommand

(* A command of one step on a volume keeps the snapshots and what they are *)
(* of.                                                                     *)
LEMMA VolumeCommandInv ==
  ASSUME Inv, NEW n \in Volumes, VolumeCommand(n), UNCHANGED frame
  PROVE  Inv'
<1> USE DiskManagerAssumption
    DEF Inv, TypeOK, RawSizesAsAsked, ClonesApart, OriginsKept, Disk, Absent, At
<1>1. CASE DeleteZvol(n)
  BY <1>1 DEF DeleteZvol
<1>2. ASSUME NEW s \in 1..MaxSize, CreateZvol(n, s) PROVE Inv'
  BY <1>2 DEF CreateZvol
<1>3. ASSUME NEW s \in 1..MaxSize, ResizeZvol(n, s) PROVE Inv'
  BY <1>3 DEF ResizeZvol
<1> QED BY <1>1, <1>2, <1>3 DEF VolumeCommand

(* So does every step of the clone of a volume.                            *)
LEMMA CloneInv ==
  ASSUME Inv, NEW g \in Goroutines,
         \/ \E n, d \in Volumes : CloneZvol(g, n, d)
         \/ ZfsClone(g) \/ ZfsCloneFails(g)
         \/ DestroySnapshot(g) \/ DestroySnapshotFails(g)
  PROVE  Inv'
<1> USE DiskManagerAssumption
    DEF Inv, TypeOK, RawSizesAsAsked, ClonesApart, OriginsKept, Disk, Frame,
        Idle, At, Return
<1>1. ASSUME NEW n \in Volumes, NEW d \in Volumes, CloneZvol(g, n, d) PROVE Inv'
  BY <1>1 DEF CloneZvol
<1>2. CASE ZfsClone(g)
  BY <1>2 DEF ZfsClone
<1>3. CASE ZfsCloneFails(g)
  BY <1>3 DEF ZfsCloneFails
<1>4. CASE DestroySnapshot(g)
  BY <1>4 DEF DestroySnapshot, Dependents
<1>5. CASE DestroySnapshotFails(g)
  BY <1>5 DEF DestroySnapshotFails
<1> QED BY <1>1, <1>2, <1>3, <1>4, <1>5

LEMMA Safety == Spec => []Inv
<1>1. Inv /\ [Next]_vars => Inv'
  <2> SUFFICES ASSUME Inv, [Next]_vars PROVE Inv'
    OBVIOUS
  <2>1. CASE UNCHANGED vars
    BY <2>1 DEF vars, Inv, TypeOK, RawSizesAsAsked, ClonesApart, OriginsKept, At
  <2>2. CASE Next
    BY <2>2, FileCommandInv, VolumeCommandInv, CloneInv DEF Next
  <2> QED BY <2>1, <2>2
<1> QED BY <1>1, InitInv, PTL DEF Spec

(* Images have sizes a file can have, and volumes a parent that exists.    *)
THEOREM TypeCorrect == Spec => []TypeOK
<1>1. Inv => TypeOK
  BY DEF Inv
<1> QED BY <1>1, Safety, PTL

(* A raw image has the size asked for whenever that fits 64 bits, whatever *)
(* parseSize made of it on the way; what a truncate or a cp that failed has*)
(* left is never longer than that.                                         *)
THEOREM RawImagesHaveTheirSizes == Spec => []RawSizesAsAsked
<1>1. Inv => RawSizesAsAsked
  BY DEF Inv
<1> QED BY <1>1, Safety, PTL

(* Two clones never share a snapshot, and nothing takes one away from a    *)
(* clone under way or an origin away from a finished one.                  *)
THEOREM ClonesKeepTheirSnapshots == Spec => []CloneKeepsSnapshot
<1>1. Inv => CloneKeepsSnapshot
  BY DEF Inv, ClonesApart, OriginsKept, CloneKeepsSnapshot, At
<1> QED BY <1>1, Safety, PTL

=============================================================================
