------------------------ MODULE ISODownloaderProofs ------------------------
(***************************************************************************)
(* Integrity of what Download publishes, for every set of ISOs, sources    *)
(* and callers, crashes included, under each name no two downloads of      *)
(* which are ever under way together (Exclusive), whatever happens to the  *)
(* other names.                                                            *)
(***************************************************************************)
EXTENDS ISODownloader, TLAPS

Busy(g) == ~At(g, "idle")

FrameOK ==
  \A g \in Goroutines :
    /\ Busy(g) => frame[g].name \in Names
    /\ Busy(g) /\ ~At(g, "remove") => frame[g].src \in Sources
    /\ At(g, "copy") <=> frame[g].fd # NoInode
    /\ At(g, "idle") => frame[g].name = NoName
    /\ At(g, "request") => frame[g].pos = 0

TypeInv == TypeOK /\ FrameOK

(* A download under way of a name nobody else is downloading.              *)
Alone(g) == Busy(g) /\ frame[g].name \in Exclusive

(* Every such download has its name to itself, every inode one name, and   *)
(* every descriptor leads to an inode of its own name or of none any more. *)
Apart ==
  /\ \A g, h \in Goroutines : Alone(g) /\ frame[h].name = frame[g].name => g = h
  /\ \A m, n \in Names :
       /\ final[m] = final[n] => m = n \/ final[m] = NoInode
       /\ part[m] = part[n] => m = n \/ part[m] = NoInode
       /\ final[m] = part[n] => final[m] = NoInode
  /\ \A g \in Goroutines : frame[g].fd # NoInode =>
       /\ \A h \in Goroutines :
            frame[h].fd = frame[g].fd => frame[h].name = frame[g].name
       /\ \A n \in Names :
            final[n] = frame[g].fd \/ part[n] = frame[g].fd => n = frame[g].name

(* What a download has of its source when it is at pos.                    *)
Prefix(s, pos) == [k \in 1..Chunks |-> IF k <= pos THEN s ELSE Hole]

(* The .part of such a download holds what it has written and nothing else.*)
PartsInv ==
  \A g \in Goroutines :
    LET f == frame[g] IN
    /\ Alone(g) /\ At(g, "copy") =>
         /\ part[f.name] \in Inodes
         /\ f.fd = part[f.name]
         /\ f.pos <= Length[f.src]
         /\ data[f.fd] = Prefix(f.src, f.pos)
    /\ Alone(g) /\ At(g, "rename") =>
         /\ part[f.name] \in Inodes
         /\ data[part[f.name]] = Body(f.src)
         /\ f.expected \in {NoSum, f.src}

Inv == TypeInv /\ Apart /\ PartsInv /\ AvailableAsVerified

----------------------------------------------------------------------------
(* An empty file, a growing one and a complete one.                        *)
LEMMA Prefixes ==
  ASSUME NEW s \in Sources
  PROVE  /\ Prefix(s, 0) = Nothing
         /\ \A p \in 0..Chunks : Prefix(s, p) \in Content
         /\ Prefix(s, Length[s]) = Body(s)
         /\ \A p \in 0..Chunks : p + 1 <= Chunks =>
              [Prefix(s, p) EXCEPT ![p + 1] = s] = Prefix(s, p + 1)
         /\ Nothing \in Content
<1> USE ISODownloaderAssumption
<1>1. Prefix(s, 0) = Nothing BY DEF Prefix, Nothing
<1>2. \A p \in 0..Chunks : Prefix(s, p) \in Content BY DEF Prefix, Content
<1>3. Prefix(s, Length[s]) = Body(s) BY DEF Prefix, Body
<1>4. ASSUME NEW p \in 0..Chunks, p + 1 <= Chunks
      PROVE  [Prefix(s, p) EXCEPT ![p + 1] = s] = Prefix(s, p + 1)
  <2> DEFINE longer == [Prefix(s, p) EXCEPT ![p + 1] = s]
  <2>1. p \in Nat /\ Chunks \in Nat OBVIOUS
  <2>2. ASSUME NEW k \in 1..Chunks PROVE longer[k] = Prefix(s, p + 1)[k]
    <3>1. CASE k = p + 1 BY <2>1, <3>1 DEF Prefix
    <3>2. CASE k # p + 1
      <4>1. k <= p <=> k <= p + 1 BY <2>1, <3>2
      <4> QED BY <3>2, <4>1 DEF Prefix
    <3> QED BY <3>1, <3>2
  <2>3. longer = [k \in 1..Chunks |-> longer[k]] BY DEF Prefix
  <2>4. Prefix(s, p + 1) = [k \in 1..Chunks |-> Prefix(s, p + 1)[k]] BY DEF Prefix
  <2> HIDE DEF longer
  <2>5. longer = Prefix(s, p + 1) BY <2>2, <2>3, <2>4
  <2> QED BY <2>5 DEF longer
<1>5. Nothing \in Content BY DEF Nothing, Content
<1> QED BY <1>1, <1>2, <1>3, <1>4, <1>5

(* An inode that keeps a name or a descriptor keeps its content.           *)
LEMMA KeepsUsed ==
  ASSUME FreeUnused, NEW i \in Inodes,
         \/ \E n \in Names : final'[n] = i \/ part'[n] = i
         \/ \E g \in Goroutines : frame'[g].fd = i
  PROVE  data'[i] = data[i]
BY DEF FreeUnused, Unused

(* A host without ISOs.                                                    *)
LEMMA InitInv == Init => Inv
<1> SUFFICES ASSUME Init PROVE Inv
  OBVIOUS
<1>1. TypeInv
  BY ISODownloaderAssumption
     DEF Init, TypeInv, TypeOK, FrameOK, Content, Nothing, Frame, PCs, Idle, At, Busy
<1>2. Apart /\ PartsInv /\ AvailableAsVerified
  BY ISODownloaderAssumption
     DEF Init, Apart, Alone, PartsInv, AvailableAsVerified, Idle, At, Busy
<1> QED BY <1>1, <1>2 DEF Inv

(* Freeing inodes keeps the type of the files.                             *)
LEMMA FreeType ==
  ASSUME data \in [Inodes -> Content], FreeUnused
  PROVE  data' \in [Inodes -> Content]
BY DEF FreeUnused, Content, Nothing

(* The frame of a new call.                                                *)
LEMMA CallFrame ==
  ASSUME NEW n \in Names, NEW s \in Sources, NEW e \in Sources \cup {NoSum}
  PROVE  [Idle EXCEPT !.pc = "request", !.name = n, !.src = s, !.expected = e]
           \in Frame
<1>1. 0 \in 0..Chunks BY ISODownloaderAssumption
<1>2. Idle \in Frame BY <1>1 DEF Idle, Frame, PCs
<1>3. "request" \in PCs BY DEF PCs
<1> QED BY <1>2, <1>3 DEF Frame

(* The frame of a call that has failed.                                    *)
LEMMA FailFrame ==
  ASSUME NEW n \in Names
  PROVE  LET f == [Idle EXCEPT !.pc = "remove", !.name = n] IN
         f \in Frame /\ f.pc = "remove" /\ f.name = n /\ f.fd = NoInode
<1>1. 0 \in 0..Chunks BY ISODownloaderAssumption
<1>2. Idle \in Frame BY <1>1 DEF Idle, Frame, PCs
<1>3. "remove" \in PCs BY DEF PCs
<1>4. [Idle EXCEPT !.pc = "remove", !.name = n] \in Frame BY <1>2, <1>3 DEF Frame
<1> QED BY <1>4 DEF Idle

(* Every step keeps the types.                                             *)
LEMMA NextTypeInv == TypeInv /\ [Next]_vars => TypeInv'
<1> SUFFICES ASSUME TypeInv, [Next]_vars PROVE TypeInv'
  OBVIOUS
<1> USE ISODownloaderAssumption
    DEF TypeInv, TypeOK, FrameOK, At, Busy, Return, Frame, PCs, Idle
<1>1. ASSUME NEW g \in Goroutines, NEW n \in Names, NEW s \in Sources,
             NEW e \in Sources \cup {NoSum}, Call(g, n, s, e)
      PROVE  TypeInv'
  <2>1. [Idle EXCEPT !.pc = "request", !.name = n, !.src = s, !.expected = e]
          \in Frame
    BY CallFrame
  <2>2. frame' \in [Goroutines -> Frame] BY <1>1, <2>1 DEF Call
  <2>3. TypeOK' BY <1>1, <2>2 DEF Call
  <2>4. FrameOK' BY <1>1 DEF Call
  <2> QED BY <2>3, <2>4
<1>2. ASSUME NEW g \in Goroutines, Step(g) PROVE TypeInv'
  <2>0. ASSUME Fail(g), Busy(g) PROVE TypeInv'
    <3> DEFINE f == [Idle EXCEPT !.pc = "remove", !.name = frame[g].name]
    <3>1. frame[g].name \in Names BY <2>0
    <3>2. f \in Frame /\ f.pc = "remove" /\ f.name \in Names /\ f.fd = NoInode
      BY <3>1, FailFrame
    <3>3. frame' = [frame EXCEPT ![g] = f] BY <2>0 DEF Fail
    <3> HIDE DEF f
    <3>4. frame' \in [Goroutines -> Frame] BY <3>2, <3>3
    <3>5. TypeOK' BY <2>0, <3>4, FreeType DEF Fail
    <3>6. FrameOK' BY <3>2, <3>3
    <3> QED BY <3>5, <3>6
  <2>2. CASE RequestFails(g) BY <2>2 DEF RequestFails
  <2>3. CASE Create(g)
    <3>1. PICK i \in Inodes :
            /\ part' = [part EXCEPT ![frame[g].name] = i]
            /\ data' = [data EXCEPT ![i] = Nothing]
            /\ frame' = [frame EXCEPT ![g].pc = "copy", ![g].fd = i]
      BY <2>3 DEF Create
    <3>2. data' \in [Inodes -> Content] BY <3>1 DEF Content, Nothing
    <3> QED BY <2>3, <3>1, <3>2 DEF Create
  <2>4. CASE CopyChunk(g)
    <3>1. frame[g].src \in Sources /\ frame[g].pos \in 0..Chunks
      BY <2>4 DEF CopyChunk
    <3>2. frame[g].pos + 1 \in 1..Chunks
      BY <2>4, <3>1 DEF CopyChunk
    <3>3. data' \in [Inodes -> Content]
      BY <2>4, <3>1, <3>2 DEF CopyChunk, Content
    <3> QED BY <2>4, <3>2, <3>3 DEF CopyChunk
  <2>5. CASE CopyFails(g) BY <2>5, <2>0 DEF CopyFails
  <2>6. CASE CopyEnds(g)
    <3>0. 0 \in 0..Chunks OBVIOUS
    <3>1. frame' \in [Goroutines -> Frame]
      <4> DEFINE f == frame[g]
      <4>0. f \in Frame /\ "rename" \in PCs /\ NoInode \in Inodes \cup {NoInode}
        OBVIOUS
      <4>2. frame' = [frame EXCEPT ![g] =
              [f EXCEPT !.pc = "rename", !.fd = NoInode, !.pos = 0]]
        BY <2>6 DEF CopyEnds
      <4> HIDE DEF f, PCs
      <4>1. [f EXCEPT !.pc = "rename", !.fd = NoInode, !.pos = 0] \in Frame
        BY <3>0, <4>0
      <4> HIDE DEF Frame
      <4> QED BY <4>1, <4>2
    <3>2. TypeOK' BY <2>6, <3>1, FreeType DEF CopyEnds
    <3>3. FrameOK' BY <2>6 DEF CopyEnds, Ended
    <3> QED BY <3>2, <3>3
  <2>7. CASE ChecksumMismatch(g) BY <2>7, <2>0 DEF ChecksumMismatch, Ended
  <2>8. CASE Rename(g) BY <2>8, FreeType DEF Rename
  <2>9. CASE RenameFails(g) BY <2>9, <2>0 DEF RenameFails
  <2>10. CASE RemovePart(g) BY <2>10, FreeType DEF RemovePart
  <2>11. CASE RemoveFails(g) BY <2>11 DEF RemoveFails
  <2> QED BY <1>2, <2>2, <2>3, <2>4, <2>5, <2>6, <2>7, <2>8, <2>9, <2>10, <2>11 DEF Step
<1>3. ASSUME NEW n \in Names, Delete(n) PROVE TypeInv'
  BY <1>3, FreeType DEF Delete
<1>4. CASE Restart BY <1>4, FreeType DEF Restart
<1>5. CASE UNCHANGED vars BY <1>5 DEF vars
<1> QED BY <1>1, <1>2, <1>3, <1>4, <1>5 DEF Next

(* The variables keep their types, overlapping downloads or not.           *)
THEOREM TypeCorrect == Spec => []TypeOK
<1>1. Init => TypeInv BY InitInv DEF Inv
<1>2. TypeInv => TypeOK BY DEF TypeInv
<1> QED BY <1>1, <1>2, NextTypeInv, PTL DEF Spec

----------------------------------------------------------------------------
(* Integrity                                                               *)

Safe == Apart /\ PartsInv /\ AvailableAsVerified

(* A download that has failed takes its own .part away and no other file,  *)
(* or none.                                                                *)
LEMMA FailSafe ==
  ASSUME Inv, NEW g \in Goroutines, Busy(g),
         \/ Fail(g) \/ RemovePart(g) \/ RemoveFails(g)
  PROVE  Safe'
<1> USE DEF Inv, TypeInv, TypeOK, FrameOK, Fail, RemovePart, RemoveFails, Return
<1>0. /\ final' = final
      /\ \A n \in Names : part'[n] = part[n] \/ (n = frame[g].name /\ part'[n] = NoInode)
      /\ \A i \in Inodes :
           (\/ \E n \in Names : final'[n] = i \/ part'[n] = i
            \/ \E h \in Goroutines : frame'[h].fd = i) => data'[i] = data[i]
  BY KeepsUsed
<1>f. /\ frame'[g].fd = NoInode /\ ~At(g, "copy")' /\ ~At(g, "rename")'
      /\ frame'[g] = Idle \/ (Busy(g)' /\ frame'[g].name = frame[g].name)
      /\ \A h \in Goroutines : h # g => frame'[h] = frame[h]
  <2>1. PICK f : /\ frame' = [frame EXCEPT ![g] = f]
                 /\ f \in {Idle, [Idle EXCEPT !.pc = "remove", !.name = frame[g].name]}
    OBVIOUS
  <2>2. frame'[g] = f /\ \A h \in Goroutines : h # g => frame'[h] = frame[h]
    BY <2>1
  <2>3. /\ f.fd = NoInode /\ f.pc \notin {"copy", "rename"}
        /\ f = Idle \/ (f.pc = "remove" /\ f.name = frame[g].name)
    <3>1. frame[g].name \in Names OBVIOUS
    <3>2. Idle.fd = NoInode /\ Idle.pc = "idle" BY DEF Idle
    <3>3. CASE f = Idle BY <3>2, <3>3
    <3>4. CASE f = [Idle EXCEPT !.pc = "remove", !.name = frame[g].name]
      <4> HIDE DEF Inv, TypeInv, Fail, RemovePart, RemoveFails
      <4> QED BY <3>1, <3>4, FailFrame
    <3> QED BY <2>1, <3>3, <3>4
  <2> QED BY <2>2, <2>3 DEF At, Busy
<1>1. Apart'
  <2>1. \A h, k \in Goroutines : Alone(h)' /\ frame'[k].name = frame'[h].name => h = k
    BY <1>f, ISODownloaderAssumption DEF Apart, Alone, Busy, At, Idle
  <2> QED BY <1>0, <1>f, <2>1 DEF Apart
<1>2. PartsInv'
  <2> SUFFICES ASSUME NEW h \in Goroutines, Alone(h)', h # g PROVE PartsInv!(h)'
    BY <1>f DEF PartsInv
  <2>1. frame'[h] = frame[h] /\ Alone(h) BY <1>f DEF Alone, Busy, At
  <2>2. frame[h].name \in Names /\ part'[frame[h].name] = part[frame[h].name]
    BY <1>0, <2>1 DEF Apart, Alone, Busy, At
  <2>3. part[frame[h].name] \in Inodes =>
          data'[part[frame[h].name]] = data[part[frame[h].name]]
    BY <1>0, <2>2
  <2> QED BY <2>1, <2>2, <2>3 DEF PartsInv, At, Alone, Busy
<1>3. AvailableAsVerified'
  BY <1>0, ISODownloaderAssumption DEF AvailableAsVerified
<1> QED BY <1>1, <1>2, <1>3 DEF Safe

(* One step of a download.                                                 *)
LEMMA StepSafe ==
  ASSUME Inv, NEW g \in Goroutines, Step(g)
  PROVE  Safe'
<1> USE ISODownloaderAssumption DEF Inv, TypeInv, TypeOK, FrameOK
<1>1. CASE RequestFails(g)
  <2>1. /\ frame' = [frame EXCEPT ![g] = Idle]
        /\ UNCHANGED <<final, part, data, sum>>
    BY <1>1 DEF RequestFails, Return
  <2>2. Apart' BY <2>1 DEF Apart, Alone, Busy, At, Idle
  <2>3. PartsInv' BY <2>1 DEF PartsInv, Alone, Busy, At, Idle
  <2>4. AvailableAsVerified' BY <2>1 DEF AvailableAsVerified
  <2> QED BY <2>2, <2>3, <2>4 DEF Safe
<1>2. CASE Create(g)
  <2> DEFINE n == frame[g].name
  <2>1. PICK i \in Inodes :
          /\ IF part[n] = NoInode THEN Unused(i) ELSE i = part[n]
          /\ part' = [part EXCEPT ![n] = i]
          /\ data' = [data EXCEPT ![i] = Nothing]
          /\ frame' = [frame EXCEPT ![g].pc = "copy", ![g].fd = i]
    BY <1>2 DEF Create, Allocated
  <2>2. n \in Names /\ frame[g].src \in Sources /\ frame[g].pos = 0
    BY <1>2 DEF Create, Busy, At
  <2>3. /\ \A m \in Names : final[m] # i /\ (part[m] = i => m = n)
        /\ \A h \in Goroutines : frame[h].fd = i => frame[h].name = n
    BY <2>1, <2>2 DEF Apart, Unused
  <2>4. Apart'
    BY <1>2, <2>1, <2>2, <2>3 DEF Create, Apart, Alone, Busy, At
  <2>5. PartsInv'
    <3> SUFFICES ASSUME NEW h \in Goroutines, Alone(h)' PROVE PartsInv!(h)'
      BY DEF PartsInv
    <3>1. CASE h = g
      <4>1. data'[i] = Prefix(frame[g].src, 0) BY <2>1, <2>2, Prefixes
      <4>2. 0 <= Length[frame[g].src] BY <2>2
      <4> QED BY <2>1, <2>2, <3>1, <4>1, <4>2 DEF At
    <3>2. CASE h # g
      <4>1. frame'[h] = frame[h] /\ Alone(h) BY <2>1, <3>2 DEF Alone, Busy, At
      <4>2. frame[h].name # n
        BY <3>2, <4>1 DEF Apart, Busy, At
      <4> QED BY <2>1, <2>2, <2>3, <4>1, <4>2 DEF PartsInv, At, Alone, Busy
    <3> QED BY <3>1, <3>2
  <2>6. AvailableAsVerified'
    BY <1>2, <2>1, <2>3 DEF Create, AvailableAsVerified
  <2> QED BY <2>4, <2>5, <2>6 DEF Safe
<1>3. CASE CopyChunk(g)
  <2> DEFINE f == frame[g]
  <2>1. /\ f.name \in Names /\ f.src \in Sources /\ f.pos \in 0..Chunks
        /\ f.fd \in Inodes
    BY <1>3 DEF CopyChunk, Busy, At, Frame
  <2>2. /\ data' = [data EXCEPT ![f.fd][f.pos + 1] = f.src]
        /\ frame' = [frame EXCEPT ![g].pos = f.pos + 1]
        /\ f.pos + 1 <= Length[f.src]
        /\ UNCHANGED <<final, part, sum>>
    BY <1>3 DEF CopyChunk
  <2>3. f.pos + 1 <= Chunks BY <2>1, <2>2
  <2>4. f.name \in Exclusive =>
          /\ f.fd = part[f.name]
          /\ data'[f.fd] = Prefix(f.src, f.pos + 1)
    <3>1. SUFFICES ASSUME f.name \in Exclusive
                   PROVE  /\ f.fd = part[f.name]
                          /\ data'[f.fd] = Prefix(f.src, f.pos + 1)
      OBVIOUS
    <3>2. f.fd = part[f.name] /\ data[f.fd] = Prefix(f.src, f.pos)
      BY <1>3, <3>1 DEF CopyChunk, PartsInv, Alone, Busy, At
    <3>3. data'[f.fd] = [data[f.fd] EXCEPT ![f.pos + 1] = f.src]
      BY <2>1, <2>2
    <3> QED BY <2>1, <2>3, <3>2, <3>3, Prefixes
  <2>5. \A m \in Exclusive : final[m] # f.fd /\ (part[m] = f.fd => m = f.name)
    BY <2>1, <2>4 DEF Apart
  <2>6. Apart' BY <1>3, <2>2 DEF Apart, Alone, Busy, At
  <2>7. PartsInv'
    <3> SUFFICES ASSUME NEW h \in Goroutines, Alone(h)' PROVE PartsInv!(h)'
      BY DEF PartsInv
    <3>1. CASE h = g
      <4>1. Alone(g) BY <2>2, <3>1 DEF Alone, Busy, At
      <4> QED BY <1>3, <2>1, <2>2, <2>4, <3>1, <4>1 DEF CopyChunk, Alone, At
    <3>2. CASE h # g
      <4>1. frame'[h] = frame[h] /\ Alone(h) BY <2>2, <3>2 DEF Alone, Busy, At
      <4>2. frame[h].name # f.name
        BY <3>2, <4>1 DEF Apart, Busy, At
      <4> QED BY <2>1, <2>2, <2>5, <4>1, <4>2 DEF PartsInv, At, Alone, Busy
    <3> QED BY <3>1, <3>2
  <2>8. AvailableAsVerified' BY <2>2, <2>5 DEF AvailableAsVerified
  <2> QED BY <2>6, <2>7, <2>8 DEF Safe
<1>4. CASE \/ CopyFails(g) \/ ChecksumMismatch(g) \/ RenameFails(g)
           \/ RemovePart(g) \/ RemoveFails(g)
  BY <1>4, FailSafe DEF CopyFails, ChecksumMismatch, RenameFails, RemovePart,
                        RemoveFails, Ended, Busy, At
<1>5. CASE CopyEnds(g)
  <2> DEFINE f == frame[g]
  <2>1. f.name \in Names /\ f.src \in Sources /\ f.expected \in {NoSum, f.src}
    BY <1>5 DEF CopyEnds, Ended, Verified, Busy, At
  <2>2. /\ frame' = [frame EXCEPT ![g].pc = "rename", ![g].fd = NoInode,
                                  ![g].pos = 0]
        /\ UNCHANGED <<final, part, sum>>
        /\ FreeUnused
        /\ f.pos = Length[f.src] /\ At(g, "copy")
    BY <1>5 DEF CopyEnds, Ended
  <2>3. Apart' BY <2>2 DEF Apart, Alone, Busy, At
  <2>4. PartsInv'
    <3> SUFFICES ASSUME NEW h \in Goroutines, Alone(h)' PROVE PartsInv!(h)'
      BY DEF PartsInv
    <3>1. CASE h = g
      <4>1. Alone(g) BY <2>2, <3>1 DEF Alone, Busy, At
      <4>2. /\ part[f.name] \in Inodes
            /\ data[part[f.name]] = Prefix(f.src, Length[f.src])
        BY <2>2, <4>1 DEF PartsInv
      <4>3. data'[part[f.name]] = Body(f.src)
        BY <2>1, <2>2, <4>2, KeepsUsed, Prefixes
      <4> QED BY <2>1, <2>2, <3>1, <4>2, <4>3 DEF At
    <3>2. CASE h # g
      <4>1. frame'[h] = frame[h] /\ Alone(h) BY <2>2, <3>2 DEF Alone, Busy, At
      <4>2. part[frame[h].name] \in Inodes =>
              data'[part[frame[h].name]] = data[part[frame[h].name]]
        BY <2>2, <4>1, KeepsUsed DEF Alone, Busy
      <4>3. PartsInv!(h) BY DEF PartsInv
      <4>4. part' = part BY <2>2
      <4> QED BY <4>1, <4>2, <4>3, <4>4 DEF At
    <3> QED BY <3>1, <3>2
  <2>5. AvailableAsVerified' BY <2>2, KeepsUsed DEF AvailableAsVerified
  <2> QED BY <2>3, <2>4, <2>5 DEF Safe
<1>6. CASE Rename(g)
  <2> DEFINE n == frame[g].name
  <2>1. /\ n \in Names /\ frame[g].src \in Sources
        /\ part[n] \in Inodes
        /\ n \in Exclusive => /\ data[part[n]] = Body(frame[g].src)
                              /\ frame[g].expected \in {NoSum, frame[g].src}
    BY <1>6 DEF Rename, PartsInv, Alone, Busy, At
  <2>2. /\ final' = [final EXCEPT ![n] = part[n]]
        /\ part' = [part EXCEPT ![n] = NoInode]
        /\ sum' = [sum EXCEPT ![n] = frame[g].expected]
        /\ frame' = [frame EXCEPT ![g] = Idle]
        /\ FreeUnused
    BY <1>6 DEF Rename, Return
  <2>3. Apart'
    BY <2>1, <2>2 DEF Apart, Alone, Busy, At, Idle
  <2>4. PartsInv'
    <3> SUFFICES ASSUME NEW h \in Goroutines, Alone(h)' PROVE PartsInv!(h)'
      BY DEF PartsInv
    <3>1. h # g BY <2>2 DEF Idle, Alone, Busy, At
    <3>2. frame'[h] = frame[h] /\ Alone(h) BY <2>2, <3>1 DEF Alone, Busy, At
    <3>3. frame[h].name \in Names /\ frame[h].name # n
      BY <1>6, <3>1, <3>2 DEF Rename, Apart, Alone, Busy, At
    <3>4. part[frame[h].name] \in Inodes =>
            data'[part[frame[h].name]] = data[part[frame[h].name]]
      BY <2>2, <3>3, KeepsUsed
    <3> QED BY <2>2, <3>2, <3>3, <3>4 DEF PartsInv, At, Alone, Busy
  <2>5. AvailableAsVerified'
    <3> SUFFICES ASSUME NEW m \in Exclusive, final'[m] # NoInode
                 PROVE  AvailableAsVerified!(m)'
      BY DEF AvailableAsVerified
    <3>1. final'[m] \in Inodes BY <2>1, <2>2
    <3>2. data'[final'[m]] = data[final'[m]] BY <2>2, <3>1, KeepsUsed
    <3> QED BY <2>1, <2>2, <3>2 DEF AvailableAsVerified
  <2> QED BY <2>3, <2>4, <2>5 DEF Safe
<1> QED BY <1>1, <1>2, <1>3, <1>4, <1>5, <1>6 DEF Step

(* The invariant is inductive.                                             *)
LEMMA NextInv == Inv /\ [Next]_vars => Inv'
<1> SUFFICES ASSUME Inv, [Next]_vars PROVE Safe'
  BY NextTypeInv DEF Inv, Safe
<1> USE ISODownloaderAssumption DEF Inv, TypeInv, TypeOK, FrameOK
<1>1. ASSUME NEW g \in Goroutines, NEW n \in Names, NEW s \in Sources,
             NEW e \in Sources \cup {NoSum}, Call(g, n, s, e)
      PROVE  Safe'
  <2>1. Apart' BY <1>1 DEF Call, Apart, Alone, Busy, At, Idle
  <2>2. PartsInv' BY <1>1 DEF Call, PartsInv, Alone, Busy, At, Idle
  <2>3. AvailableAsVerified' BY <1>1 DEF Call, AvailableAsVerified
  <2> QED BY <2>1, <2>2, <2>3 DEF Safe
<1>2. ASSUME NEW g \in Goroutines, Step(g) PROVE Safe'
  BY <1>2, StepSafe
<1>3. ASSUME NEW n \in Names, Delete(n) PROVE Safe'
  <2>1. Apart' BY <1>3 DEF Delete, Apart, Alone, Busy, At
  <2>2. \A h \in Goroutines : ~At(h, "idle") /\ part[frame[h].name] \in Inodes =>
          data'[part[frame[h].name]] = data[part[frame[h].name]]
    BY <1>3, KeepsUsed DEF Delete, Busy
  <2>3. PartsInv' BY <1>3, <2>2 DEF Delete, PartsInv, Alone, Busy, At
  <2>4. AvailableAsVerified' BY <1>3, KeepsUsed DEF Delete, AvailableAsVerified
  <2> QED BY <2>1, <2>3, <2>4 DEF Safe
<1>4. CASE Restart
  <2>1. Apart' BY <1>4 DEF Restart, Apart, Alone, Busy, At, Idle
  <2>2. PartsInv' BY <1>4 DEF Restart, PartsInv, Alone, Busy, At, Idle
  <2>3. AvailableAsVerified' BY <1>4, KeepsUsed DEF Restart, AvailableAsVerified
  <2> QED BY <2>1, <2>2, <2>3 DEF Safe
<1>5. CASE UNCHANGED vars
  BY <1>5 DEF vars, Safe, Apart, PartsInv, AvailableAsVerified, Alone, Busy, At
<1> QED BY <1>1, <1>2, <1>3, <1>4, <1>5 DEF Next

(* An ISO that is available is, to the end, what its checksum asked for,   *)
(* if no two downloads of its name are ever under way together.            *)
THEOREM ExclusiveDownloadsAreSound == Spec => []AvailableAsVerified
<1>1. Inv => AvailableAsVerified BY DEF Inv
<1> QED BY <1>1, InitInv, NextInv, PTL DEF Spec

----------------------------------------------------------------------------
(* Temporary files                                                         *)

(* A download that returns, by whatever path, leaves no .part of its name  *)
(* that was not there without an owner before, unless it cannot remove it. *)
THEOREM DownloadsCleanUp == Spec => NoStrayPart
<1>1. ASSUME TypeInv, [Next]_vars, NEW n \in Names, Stray(n)', ~Stray(n)
      PROVE  Restart \/ \E g \in Goroutines : RemoveFails(g)
  <2> USE ISODownloaderAssumption DEF TypeInv, TypeOK, FrameOK, Stray, At, Busy
  <2>1. ASSUME NEW g \in Goroutines, Fail(g), Busy(g) PROVE FALSE
    BY <1>1, <2>1 DEF Fail, Idle
  <2>2. ASSUME NEW g \in Goroutines, Step(g), ~RemoveFails(g) PROVE FALSE
    <3>1. CASE RequestFails(g) BY <1>1, <3>1 DEF RequestFails, Return, Idle
    <3>2. CASE Create(g) BY <1>1, <3>2 DEF Create
    <3>3. CASE CopyChunk(g) BY <1>1, <3>3 DEF CopyChunk
    <3>4. CASE CopyFails(g) \/ ChecksumMismatch(g) \/ RenameFails(g)
      BY <2>1, <3>4 DEF CopyFails, ChecksumMismatch, RenameFails, Ended
    <3>5. CASE CopyEnds(g) BY <1>1, <3>5 DEF CopyEnds, Ended
    <3>6. CASE Rename(g) BY <1>1, <3>6 DEF Rename, Return, Idle
    <3>7. CASE RemovePart(g) BY <1>1, <3>7 DEF RemovePart, Return, Idle
    <3> QED BY <2>2, <3>1, <3>2, <3>3, <3>4, <3>5, <3>6, <3>7 DEF Step
  <2>3. ASSUME NEW g \in Goroutines, NEW m \in Names, NEW s \in Sources,
               NEW e \in Sources \cup {NoSum}, Call(g, m, s, e)
        PROVE  FALSE
    BY <1>1, <2>3 DEF Call, Idle
  <2>4. ASSUME NEW m \in Names, Delete(m) PROVE FALSE
    BY <1>1, <2>4 DEF Delete
  <2>5. CASE UNCHANGED vars BY <1>1, <2>5 DEF vars
  <2> QED BY <1>1, <2>2, <2>3, <2>4, <2>5 DEF Next
<1>2. TypeInv /\ [Next]_vars =>
        [\A n \in Names : Stray(n)' =>
           Stray(n) \/ Restart \/ \E g \in Goroutines : RemoveFails(g)]_vars
  BY <1>1
<1>3. Init => TypeInv BY InitInv DEF Inv
<1> QED BY <1>2, <1>3, NextTypeInv, PTL DEF Spec, NoStrayPart

=============================================================================
