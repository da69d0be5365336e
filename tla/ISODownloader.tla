--------------------------- MODULE ISODownloader ---------------------------
(***************************************************************************)
(* internal/iso/downloader.go: Download writes <isoDir>/.tmp/<name>.part   *)
(* while it hashes the stream, then renames it to <isoDir>/<name>; Delete. *)
(*                                                                         *)
(* A body is a number of chunks of one source.  Files are inodes, as two   *)
(* downloads of one name open the same .part, and go on writing where they *)
(* are when another one truncates, renames or removes it.                  *)
(***************************************************************************)
EXTENDS Naturals

CONSTANTS
  Names,       (* of ISOs                                                  *)
  Sources,     (* what a URL may serve, and the checksum of it             *)
  Chunks,      (* the longest body, in chunks                              *)
  Length,      (* of the body of each source                               *)
  Announced,   (* the sources served with a Content-Length                 *)
  MaxSize,     (* d.maxSize, in chunks                                     *)
  Inodes,
  Goroutines,
  Exclusive,   (* the names callers never download twice at a time         *)
  Faults,      (* "crash": the server exits and starts again;              *)
               (* "remove": os.Remove fails on a .part that is there       *)
  NoName, NoSum, NoInode, Hole

ASSUME ISODownloaderAssumption ==
  /\ Chunks \in Nat
  /\ MaxSize \in Nat
  /\ Length \in [Sources -> 0..Chunks]
  /\ Announced \subseteq Sources
  /\ Exclusive \subseteq Names
  /\ NoName \notin Names
  /\ NoSum \notin Sources
  /\ Hole \notin Sources
  /\ NoInode \notin Inodes

VARIABLES
  final,  (* the directory isoDir: name -> inode                           *)
  part,   (* the directory isoDir/.tmp                                     *)
  data,   (* the inodes                                                    *)
  frame,  (* per goroutine: the download it is in                          *)
  sum     (* history: the checksum that came with what is in final         *)

vars == <<final, part, data, frame, sum>>

Content == [1..Chunks -> Sources \cup {Hole}]

Nothing == [k \in 1..Chunks |-> Hole]

Body(s) == [k \in 1..Chunks |-> IF k <= Length[s] THEN s ELSE Hole]

PCs == {"idle", "request", "copy", "rename", "remove"}

(* fd and pos: the open .part and the offset the next write goes to.       *)
Frame == [pc: PCs, name: Names \cup {NoName}, src: Sources \cup {NoSum},
          expected: Sources \cup {NoSum}, fd: Inodes \cup {NoInode},
          pos: 0..Chunks]

Idle == [pc |-> "idle", name |-> NoName, src |-> NoSum, expected |-> NoSum,
         fd |-> NoInode, pos |-> 0]

At(g, l) == frame[g].pc = l

Return(g) == frame' = [frame EXCEPT ![g] = Idle]

Unused(i) ==
  /\ \A n \in Names : final[n] # i /\ part[n] # i
  /\ \A g \in Goroutines : frame[g].fd # i

(* Which inode a new file gets makes no difference.                        *)
Allocated(i) == Unused(i) /\ i = CHOOSE j \in Inodes : Unused(j)

(* An inode goes with its last name and descriptor.                        *)
FreeUnused == data' = [i \in Inodes |-> IF Unused(i)' THEN Nothing ELSE data[i]]

Init ==
  /\ final = [n \in Names |-> NoInode]
  /\ part = [n \in Names |-> NoInode]
  /\ data = [i \in Inodes |-> Nothing]
  /\ frame = [g \in Goroutines |-> Idle]
  /\ sum = [n \in Names |-> NoSum]

----------------------------------------------------------------------------
(* Download                                                                *)

(* os.Stat finds no such ISO.                                              *)
Call(g, n, s, expected) ==
  /\ At(g, "idle")
  /\ n \in Exclusive => \A h \in Goroutines : frame[h].name # n
  /\ final[n] = NoInode
  /\ frame' = [frame EXCEPT ![g] =
       [Idle EXCEPT !.pc = "request", !.name = n, !.src = s,
                    !.expected = expected]]
  /\ UNCHANGED <<final, part, data, sum>>

(* No answer in time, not 200 OK, or announced as too large; or no .part   *)
(* can be created.                                                         *)
RequestFails(g) ==
  /\ At(g, "request")
  /\ Return(g)
  /\ UNCHANGED <<final, part, data, sum>>

(* An answer, and os.Create, which truncates the .part of another          *)
(* download, or of a crashed one.                                          *)
Create(g) ==
  LET n == frame[g].name IN
  /\ At(g, "request")
  /\ frame[g].src \in Announced => Length[frame[g].src] <= MaxSize
  /\ \E i \in Inodes :
       /\ IF part[n] = NoInode THEN Allocated(i) ELSE i = part[n]
       /\ part' = [part EXCEPT ![n] = i]
       /\ data' = [data EXCEPT ![i] = Nothing]
       /\ frame' = [frame EXCEPT ![g].pc = "copy", ![g].fd = i]
  /\ UNCHANGED <<final, sum>>

(* Mutant: the copy does not stop where the body ends.                     *)
CopyChunkPastEnd(g) ==
  LET i == frame[g].fd
      k == frame[g].pos + 1 IN
  /\ At(g, "copy")
  /\ data' = [data EXCEPT ![i][k] = frame[g].src]
  /\ frame' = [frame EXCEPT ![g].pos = k]
  /\ UNCHANGED <<final, part, sum>>

CopyChunk(g) ==
  LET i == frame[g].fd
      k == frame[g].pos + 1 IN
  /\ At(g, "copy")
  /\ k <= Length[frame[g].src]
  /\ data' = [data EXCEPT ![i][k] = frame[g].src]
  /\ frame' = [frame EXCEPT ![g].pos = k]
  /\ UNCHANGED <<final, part, sum>>

(* Download has failed, the .part is closed.                               *)
Fail(g) ==
  /\ frame' = [frame EXCEPT ![g] = [Idle EXCEPT !.pc = "remove", !.name = frame[g].name]]
  /\ UNCHANGED <<final, part, sum>>
  /\ FreeUnused

(* Mutant: out is closed but the file is left.                             *)
CopyFailsKeeping(g) ==
  /\ At(g, "copy")
  /\ Return(g)
  /\ UNCHANGED <<final, part, sum>>
  /\ FreeUnused

(* Mutant: a time limit on the answer's header, and none on its body.      *)
CopyFailsAtOnce(g) == At(g, "copy") /\ frame[g].pos = 0 /\ Fail(g)

(* The body breaks off, the client's timeout runs out or the disk is full. *)
CopyFails(g) == At(g, "copy") /\ Fail(g)

Ended(g) == At(g, "copy") /\ frame[g].pos = Length[frame[g].src]

(* The SHA-256 of the stream is the expected one, or none is.              *)
Verified(g) == frame[g].expected \in {NoSum, frame[g].src}

(* Mutant: the checksum is computed and not compared.                      *)
CopyEndsUnverified(g) ==
  /\ Ended(g)
  /\ frame' = [frame EXCEPT ![g].pc = "rename", ![g].fd = NoInode,
                            ![g].pos = 0]
  /\ UNCHANGED <<final, part, sum>>
  /\ FreeUnused

CopyEnds(g) ==
  /\ Ended(g)
  /\ Verified(g)
  /\ frame' = [frame EXCEPT ![g].pc = "rename", ![g].fd = NoInode,
                            ![g].pos = 0]
  /\ UNCHANGED <<final, part, sum>>
  /\ FreeUnused

ChecksumMismatch(g) == Ended(g) /\ ~Verified(g) /\ Fail(g)

(* os.Rename replaces what has come to be at finalPath meanwhile.          *)
Rename(g) ==
  LET n == frame[g].name IN
  /\ At(g, "rename")
  /\ part[n] # NoInode
  /\ final' = [final EXCEPT ![n] = part[n]]
  /\ part' = [part EXCEPT ![n] = NoInode]
  /\ sum' = [sum EXCEPT ![n] = frame[g].expected]
  /\ Return(g)
  /\ FreeUnused

RenameFails(g) == At(g, "rename") /\ Fail(g)

(* os.Remove(tempPath), whoever's file the path leads to by now; nobody    *)
(* looks at the outcome.                                                   *)
RemovePart(g) ==
  /\ At(g, "remove")
  /\ part' = [part EXCEPT ![frame[g].name] = NoInode]
  /\ Return(g)
  /\ UNCHANGED <<final, sum>>
  /\ FreeUnused

RemoveFails(g) ==
  /\ At(g, "remove")
  /\ "remove" \in Faults
  /\ part[frame[g].name] # NoInode
  /\ Return(g)
  /\ UNCHANGED <<final, part, data, sum>>

----------------------------------------------------------------------------
(* Delete, and a restart of the server: .part files stay                   *)

Delete(n) ==
  /\ final[n] # NoInode
  /\ final' = [final EXCEPT ![n] = NoInode]
  /\ sum' = [sum EXCEPT ![n] = NoSum]
  /\ UNCHANGED <<part, frame>>
  /\ FreeUnused

Restart ==
  /\ "crash" \in Faults
  /\ frame' = [g \in Goroutines |-> Idle]
  /\ UNCHANGED <<final, part, sum>>
  /\ FreeUnused

----------------------------------------------------------------------------
Step(g) ==
  \/ RequestFails(g) \/ Create(g) \/ CopyChunk(g) \/ CopyFails(g) \/ CopyEnds(g)
  \/ ChecksumMismatch(g) \/ Rename(g) \/ RenameFails(g)
  \/ RemovePart(g) \/ RemoveFails(g)

Next ==
  \/ \E g \in Goroutines :
       \/ Step(g)
       \/ \E n \in Names, s \in Sources, e \in Sources \cup {NoSum} :
            Call(g, n, s, e)
  \/ \E n \in Names : Delete(n)
  \/ Restart

Spec == Init /\ [][Next]_vars

(* The http.Client's Timeout covers the request and the reading of the     *)
(* body: each ends in time, well or in an error.  The source need not.     *)
Timely(g) ==
  \/ RequestFails(g) \/ CopyFails(g)
  \/ CopyEnds(g) \/ ChecksumMismatch(g) \/ Rename(g) \/ RenameFails(g)
  \/ RemovePart(g) \/ RemoveFails(g)

FairSpec == Spec /\ \A g \in Goroutines : WF_vars(Timely(g))

----------------------------------------------------------------------------
TypeOK ==
  /\ final \in [Names -> Inodes \cup {NoInode}]
  /\ part \in [Names -> Inodes \cup {NoInode}]
  /\ data \in [Inodes -> Content]
  /\ frame \in [Goroutines -> Frame]
  /\ sum \in [Names -> Sources \cup {NoSum}]

(* "Verify checksum before marking as available": an ISO under its final   *)
(* name is the whole body of one source, the one its checksum asked for.   *)
(* So it is for a name no two downloads of which overlap, whatever .part a *)
(* crash has left and whatever downloads of other names do; where they do  *)
(* overlap, the hash is right and the file is not.                         *)
AvailableAsVerified ==
  \A n \in Exclusive : final[n] # NoInode =>
    \E s \in Sources : /\ data[final[n]] = Body(s)
                       /\ sum[n] \in {NoSum, s}

(* A .part file that no download is writing, about to rename or to remove. *)
Stray(n) ==
  /\ part[n] # NoInode
  /\ \A g \in Goroutines :
       ~(frame[g].name = n /\ frame[g].pc \in {"copy", "rename", "remove"})

(* No error path leaves a .part file behind, not even when downloads of    *)
(* one name get in each other's way: only a crash does, or an os.Remove    *)
(* that fails.                                                             *)
NoStrayPart ==
  [][\A n \in Names : Stray(n)' =>
       Stray(n) \/ Restart \/ \E g \in Goroutines : RemoveFails(g)]_vars

(* A download that stalls does not hold its caller for ever.               *)
DownloadsReturn == \A g \in Goroutines : []<>At(g, "idle")

=============================================================================
