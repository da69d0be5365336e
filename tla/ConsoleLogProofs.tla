-------------------------- MODULE ConsoleLogProofs --------------------------
(***************************************************************************)
(* Theorems about ConsoleLog, for any number of rotated files, callers,    *)
(* lines and sizes, and for 64-bit as for every other width.               *)
(***************************************************************************)
EXTENDS ConsoleLog, FiniteSetTheorems, TLAPS

(* A rotation is at a file it moves up, a write has a file.                *)
FrameOK(f) ==
  /\ f \in Frame
  /\ f.pc = "rename" => f.i < Oldest
  /\ f.pc = "write" => f.fd \in Inodes

FramesOK == \A g \in Goroutines : FrameOK(frame[g])

(* ReadLog has a file open, and has read lines that were written.          *)
ReaderFile == reader # NoReader => reader.fd \in Inodes /\ reader.pos <= last

(* The limit is the one NewConsoleManager set, and no two names lead to    *)
(* one file.                                                               *)
FilesOK ==
  /\ maxLogSize = NewConsoleManager(size)
  /\ \A i, j \in Paths : path[i] = path[j] /\ path[i] # NoFile => i = j

(* Until a rotation overlaps another call, who is about to write has the   *)
(* log open.                                                               *)
CallsApart == \A g \in Goroutines : At(g, "write") => frame[g].fd = path[0]

(* Until also a rename fails, who is about to rename has made room, or     *)
(* overwrites the oldest.                                                  *)
RoomMade ==
  \A g \in Goroutines : At(g, "rename") =>
    path[frame[g].i + 1] = NoFile \/ frame[g].i + 1 = Oldest

Contiguous == \A k \in Kept : k..last \subseteq Kept

Sorted ==
  \A i, j \in Paths : i < j => \A k \in Lines(i), l \in Lines(j) : l < k

(* The inductive invariant.                                                *)
LogInv ==
  /\ TypeOK
  /\ FramesOK
  /\ FilesOK
  /\ ReaderFile
  /\ ~raced => CallsApart /\ Sorted
  /\ ~raced /\ ~unmoved => RoomMade /\ Contiguous

USE ConsoleLogAssumption, SizesAssumption

LEMMA OldestType == Oldest \in Nat \ {0}
  BY DEF Oldest

USE OldestType

----------------------------------------------------------------------------
(* Sizes                                                                   *)

LEMMA Multiplied ==
  ASSUME NEW c \in Configured
  PROVE  /\ Exact(c) \in Int
         /\ c.number >= 0 => Exact(c) >= c.number
         /\ c.number < 0 => Exact(c) <= c.number
<1>1. c.number \in Int /\ Multiplier(c.unit) \in Nat \ {0}
  <2>1. Kilo * Kilo \in Nat \ {0}
    OBVIOUS
  <2>2. (Kilo * Kilo) * Kilo \in Nat \ {0}
    BY <2>1
  <2>3. Multiplier(c.unit) \in {1, Kilo, Kilo * Kilo, (Kilo * Kilo) * Kilo}
    BY DEF Multiplier
  <2> QED BY <2>1, <2>2, <2>3
<1>2. \A n \in Int, m \in Nat \ {0} :
        n * m \in Int /\ (n >= 0 => n * m >= n) /\ (n < 0 => n * m <= n)
  <2> SUFFICES ASSUME NEW n \in Int, NEW m \in Nat \ {0}
               PROVE  n * m \in Int /\ (n >= 0 => n * m >= n) /\ (n < 0 => n * m <= n)
    OBVIOUS
  <2>1. n * m = n + n * (m - 1) /\ m - 1 \in Nat
    OBVIOUS
  <2>2. n >= 0 => n * (m - 1) >= 0
    BY <2>1
  <2>3. n < 0 => n * (m - 1) <= 0
    BY <2>1
  <2> QED BY <2>1, <2>2, <2>3
<1> QED BY <1>1, <1>2 DEF Exact

(* The limit is the size that was configured, if that is a number and fits.*)
LEMMA LimitAsConfigured ==
  ASSUME NEW c \in Configured
  PROVE  /\ NewConsoleManager(c) \in Int
         /\ c.numeric /\ Fits(c) => NewConsoleManager(c) = Exact(c)
<1>1. Exact(c) \in Int
  BY Multiplied
<1>2. \A n, m \in Int : m > 0 => n % m \in Int /\ (n \in 0..(m - 1) => n % m = n)
  OBVIOUS
<1>3. Exact(c) + Half \in Int /\ 2 * Half \in Int /\ 2 * Half > 0
  BY <1>1
<1>4. Int64(Exact(c)) \in Int /\ (Fits(c) => Int64(Exact(c)) = Exact(c))
  BY <1>1, <1>2, <1>3 DEF Int64, Fits
<1>5. c.numeric /\ Fits(c) => ~ParseFails(c)
  BY <1>1, Multiplied DEF Fits, ParseFails
<1> QED BY <1>4, <1>5 DEF NewConsoleManager, ParseSize

----------------------------------------------------------------------------
LEMMA InitLog == Init => LogInv
<1> SUFFICES ASSUME Init PROVE LogInv
  OBVIOUS
<1>1. maxLogSize \in Int
  BY LimitAsConfigured DEF Init
<1>2. \A i \in Paths : path[i] = NoFile /\ Lines(i) = {}
  BY DEF Init, Lines, Exists
<1>3. Idle \in Frame
  BY DEF Idle, Frame, Paths
<1>r. NoReader \in Reader
  BY DEF NoReader, Reader
<1>4. TypeOK /\ ReaderFile
  BY <1>1, <1>3, <1>r DEF Init, TypeOK, ReaderFile
<1>5. FramesOK
  BY <1>3 DEF Init, FramesOK, FrameOK, Idle
<1>6. FilesOK
  BY DEF Init, FilesOK, Paths
<1>7. CallsApart /\ RoomMade
  BY DEF Init, CallsApart, RoomMade, At, Idle
<1>8. Contiguous /\ Sorted
  BY <1>2 DEF Contiguous, Sorted, Kept
<1> QED BY <1>4, <1>5, <1>6, <1>7, <1>8 DEF LogInv

(* ReadLog changes nothing but its own state.                              *)
LEMMA ReadsOnly ==
  ReadLog => UNCHANGED <<size, maxLogSize, path, content, last, frame, raced, unmoved>>
  BY DEF ReadLog, ReadCall, ScanLine, ReadReturn

LEMMA SlideType ==
  ASSUME NEW w \in Seq(Nat), NEW k \in Nat, NEW n
  PROVE  Slide(w, k, n) \in Seq(Nat)
<1> DEFINE v == Append(w, k)
<1>1. v \in Seq(Nat) /\ v # <<>>
  OBVIOUS
<1>2. Tail(v) \in Seq(Nat)
  BY <1>1
<1> QED BY <1>1, <1>2 DEF Slide

LEMMA ReaderStep ==
  ASSUME LogInv, [Next]_vars
  PROVE  reader' \in Reader /\ ReaderFile'
<1> USE DEF LogInv, TypeOK, ReaderFile
<1>1. NoReader \in Reader
  BY DEF NoReader, Reader
<1>2. CASE reader' = NoReader
  BY <1>1, <1>2
<1>3. last \in Nat /\ last' \in Nat /\ last <= last'
  <2>1. last' = last \/ last' = last + 1
    BY ReadsOnly DEF Next, vars, PersistCall, Stat, RemoveOldest, Rename, RenameFails, RotateFails,
                     OpenLog, WriteLine, PersistFails, Crash
  <2> QED BY <2>1
<1>4. CASE UNCHANGED reader
  BY <1>3, <1>4 DEF Reader
<1>5. ASSUME NEW n \in Asked, ReadCall(n) PROVE reader' \in Reader /\ ReaderFile'
  <2>1. reader' = [fd |-> path[0], n |-> n, pos |-> 0, result |-> <<>>] /\ UNCHANGED last
    BY <1>5 DEF ReadCall, NoReader
  <2>2. path[0] \in Inodes
    BY <1>5 DEF ReadCall, Exists, Paths
  <2> QED BY <1>3, <2>1, <2>2 DEF Reader
<1>6. CASE ScanLine
  <2>1. PICK k \in Ahead :
          reader' = [reader EXCEPT !.pos = k, !.result = Slide(reader.result, k, reader.n)]
    BY <1>6 DEF ScanLine
  <2>2. reader.fd \in Inodes /\ reader \in Reader /\ UNCHANGED last
    BY <1>6 DEF ScanLine
  <2>3. k \in 1..last
    BY <2>2 DEF Ahead
  <2>4. Slide(reader.result, k, reader.n) \in Seq(Nat)
    BY <1>3, <2>2, <2>3, SlideType DEF Reader
  <2>5. k \in Nat /\ k <= last
    BY <1>3, <2>3
  <2> HIDE DEF LogInv, TypeOK
  <2> QED BY <2>1, <2>2, <2>4, <2>5 DEF Reader
<1> QED
  BY <1>2, <1>4, <1>5, <1>6
  DEF Next, vars, PersistCall, Stat, RemoveOldest, Rename, RenameFails, RotateFails, OpenLog,
      WriteLine, PersistFails, Crash, ReadLog, ReadReturn

(* A step of one call changes its own frame.                               *)
LEMMA FrameStep ==
  ASSUME TypeOK, FramesOK, NEW g \in Goroutines, NEW f, FrameOK(f),
         frame' = [frame EXCEPT ![g] = f]
  PROVE  frame' \in [Goroutines -> Frame] /\ FramesOK'
<1>1. frame \in [Goroutines -> Frame] /\ f \in Frame
  BY DEF TypeOK, FrameOK
<1>2. frame' \in [Goroutines -> Frame]
  BY <1>1
<1>3. \A h \in Goroutines : frame'[h] = IF h = g THEN f ELSE frame[h]
  BY <1>1
<1>4. ASSUME NEW h \in Goroutines PROVE FrameOK(frame'[h])
  BY <1>3 DEF FramesOK
<1>5. FramesOK'
  BY <1>4 DEF FramesOK, FrameOK
<1> QED BY <1>2, <1>5

LEMMA FrameSteps ==
  ASSUME TypeOK, FramesOK, NEW g \in Goroutines
  PROVE  /\ Return(g) => frame' \in [Goroutines -> Frame] /\ FramesOK'
         /\ \A l \in {"stat", "remove", "open"} :
              Goto(g, l) => frame' \in [Goroutines -> Frame] /\ FramesOK'
<1>1. Return(g) => frame' \in [Goroutines -> Frame] /\ FramesOK'
  <2>1. FrameOK(Idle)
    BY DEF Idle, Frame, FrameOK, Paths
  <2> QED BY <2>1, FrameStep DEF Return
<1>2. ASSUME NEW l \in {"stat", "remove", "open"}, Goto(g, l)
      PROVE  frame' \in [Goroutines -> Frame] /\ FramesOK'
  <2> DEFINE f == [frame[g] EXCEPT !.pc = l]
  <2>0. frame[g] \in Frame
    BY DEF TypeOK
  <2>1. FrameOK(f)
    BY <2>0, <1>2 DEF FrameOK, Frame
  <2>2. frame' = [frame EXCEPT ![g] = f]
    BY <1>2 DEF Goto
  <2> HIDE DEF f
  <2> QED BY <2>1, <2>2, FrameStep
<1> QED BY <1>1, <1>2

(* The frame of a rename that is over, and of a log that was opened.       *)
Renamed(f) == IF f.i = 0 THEN [Idle EXCEPT !.pc = "open"] ELSE [f EXCEPT !.i = f.i - 1]

Opened(f) == [pc |-> "write", i |-> 0, fd |-> f]

Removed(f) == [f EXCEPT !.pc = "rename", !.i = Oldest - 1]

LEMMA NewFrames ==
  /\ \A f \in Frame : f.pc = "rename" /\ FrameOK(f) => FrameOK(Renamed(f))
  /\ \A f \in Frame : FrameOK(Removed(f))
  /\ \A f \in Inodes : FrameOK(Opened(f))
<1> USE DEF Frame, FrameOK, Paths
<1>1. ASSUME NEW f \in Frame, f.pc = "rename", FrameOK(f) PROVE FrameOK(Renamed(f))
  <2>1. CASE f.i = 0
    BY <2>1 DEF Renamed, Idle
  <2>2. CASE f.i # 0
    <3>1. f.i - 1 \in 0..Oldest /\ f.i - 1 < Oldest
      BY <2>2, <1>1
    <3> QED BY <2>2, <3>1, <1>1 DEF Renamed
  <2> QED BY <2>1, <2>2
<1>2. ASSUME NEW f \in Frame PROVE FrameOK(Removed(f))
  <2>1. Oldest - 1 \in 0..Oldest /\ Oldest - 1 < Oldest
    OBVIOUS
  <2>2. Removed(f).pc = "rename" /\ Removed(f).i = Oldest - 1 /\ Removed(f) \in Frame
    BY <1>2, <2>1 DEF Removed
  <2> QED BY <2>1, <2>2
<1>3. ASSUME NEW f \in Inodes PROVE FrameOK(Opened(f))
  BY <1>3 DEF Opened
<1> QED BY <1>1, <1>2, <1>3

(* What each action does to the frame of its call.                         *)
LEMMA FrameChanges ==
  ASSUME LogInv, [Next]_vars
  PROVE  frame' \in [Goroutines -> Frame] /\ FramesOK'
<1> DEFINE F == frame' \in [Goroutines -> Frame] /\ FramesOK'
<1>0. TypeOK /\ FramesOK
  BY DEF LogInv
<1>1. CASE UNCHANGED frame
  BY <1>0, <1>1 DEF TypeOK, FramesOK
<1>2. CASE Crash
  <2>1. FrameOK(Idle)
    BY DEF Idle, Frame, FrameOK, Paths
  <2> QED BY <1>2, <2>1 DEF Crash, FramesOK, FrameOK
<1>3. ASSUME NEW g \in Goroutines, PersistCall(g) \/ Stat(g) PROVE F
  <2>1. Goto(g, "stat") \/ Goto(g, "remove") \/ Goto(g, "open")
    BY <1>3 DEF PersistCall, Stat
  <2> QED BY <1>0, <2>1, FrameSteps
<1>4. ASSUME NEW g \in Goroutines, RemoveOldest(g) PROVE F
  <2>1. frame' = [frame EXCEPT ![g] = Removed(frame[g])]
    BY <1>4 DEF RemoveOldest, Removed
  <2> QED BY <1>0, <2>1, FrameStep, NewFrames DEF TypeOK
<1>5. ASSUME NEW g \in Goroutines, Rename(g) PROVE F
  <2>1. frame' = [frame EXCEPT ![g] = Renamed(frame[g])] /\ frame[g].pc = "rename"
    BY <1>5 DEF Rename, Renamed, At
  <2>2. FrameOK(Renamed(frame[g]))
    BY <1>0, <2>1, NewFrames DEF TypeOK, FramesOK
  <2> QED BY <1>0, <2>1, <2>2, FrameStep
<1>8. ASSUME NEW g \in Goroutines, RenameFails(g) PROVE F
  <2>0. frame[g].pc = "rename" /\ frame[g].i # 0
    BY <1>8 DEF RenameFails, At
  <2>1. frame' = [frame EXCEPT ![g] = Renamed(frame[g])]
    BY <1>8, <2>0 DEF RenameFails, Renamed
  <2>2. FrameOK(Renamed(frame[g]))
    BY <1>0, <2>0, NewFrames DEF TypeOK, FramesOK
  <2> QED BY <1>0, <2>1, <2>2, FrameStep
<1>6. ASSUME NEW g \in Goroutines, RotateFails(g) \/ PersistFails(g) \/ WriteLine(g)
      PROVE  F
  BY <1>0, <1>6, FrameSteps DEF RotateFails, PersistFails, WriteLine
<1>7. ASSUME NEW g \in Goroutines, OpenLog(g) PROVE F
  <2>1. PICK f \in Inodes : frame' = [frame EXCEPT ![g] = Opened(f)]
    BY <1>0, <1>7 DEF OpenLog, Opened, TypeOK, Exists, Paths
  <2> QED BY <1>0, <2>1, FrameStep, NewFrames
<1> QED BY <1>1, <1>2, <1>3, <1>4, <1>5, <1>6, <1>7, <1>8, ReadsOnly DEF Next, vars

LEMMA TypeStep == LogInv /\ [Next]_vars => TypeOK' /\ FilesOK'
<1> SUFFICES ASSUME LogInv, [Next]_vars PROVE TypeOK' /\ FilesOK'
  OBVIOUS
<1>0. frame' \in [Goroutines -> Frame] /\ reader' \in Reader
  BY FrameChanges, ReaderStep
<1> USE DEF LogInv, TypeOK, FilesOK, Paths, Exists
<1>1. CASE UNCHANGED <<size, maxLogSize, path, content, last, raced, unmoved>>
  BY <1>0, <1>1
<1>2. ASSUME NEW g \in Goroutines, RemoveOldest(g)
      PROVE  TypeOK' /\ FilesOK'
  <2>1. CASE UNCHANGED path
    BY <1>0, <1>2, <2>1 DEF RemoveOldest, Races
  <2>2. CASE path' = [path EXCEPT ![Oldest] = NoFile]
    BY <1>0, <1>2, <2>2 DEF RemoveOldest, Races
  <2> QED BY <1>2, <2>1, <2>2 DEF RemoveOldest
<1>6. ASSUME NEW g \in Goroutines, RenameFails(g)
      PROVE  TypeOK' /\ FilesOK'
  BY <1>0, <1>6 DEF RenameFails, Races
<1>3. ASSUME NEW g \in Goroutines, Rename(g)
      PROVE  TypeOK' /\ FilesOK'
  <2>1. frame[g].i \in 0..(Oldest - 1)
    BY <1>3 DEF Rename, At, FramesOK, FrameOK, Frame
  <2>2. UNCHANGED <<size, maxLogSize, content, last, unmoved>> /\ raced' \in BOOLEAN
    BY <1>3 DEF Rename, Races
  <2>3. path' = IF Exists(frame[g].i)
               THEN [path EXCEPT ![frame[g].i + 1] = path[frame[g].i], ![frame[g].i] = NoFile]
               ELSE path
    BY <1>3 DEF Rename
  <2>4. CASE Exists(frame[g].i)
    <3>1. frame[g].i \in Paths /\ frame[g].i + 1 \in Paths
      BY <2>1
    <3>2. path' = [path EXCEPT ![frame[g].i + 1] = path[frame[g].i], ![frame[g].i] = NoFile]
      BY <2>3, <2>4
    <3>3. path' \in [Paths -> Inodes \cup {NoFile}]
      BY <3>1, <3>2
    <3>4. FilesOK'
      BY <2>2, <3>1, <3>2
    <3> QED BY <1>0, <2>2, <3>3, <3>4
  <2>5. CASE ~Exists(frame[g].i)
    BY <1>0, <2>2, <2>3, <2>5
  <2> QED BY <2>4, <2>5
<1>4. ASSUME NEW g \in Goroutines, OpenLog(g)
      PROVE  TypeOK' /\ FilesOK'
  <2>1. CASE Exists(0)
    BY <1>0, <1>4, <2>1 DEF OpenLog
  <2>2. CASE ~Exists(0)
    <3>1. PICK f \in Inodes : /\ Unlinked(f) /\ path' = [path EXCEPT ![0] = f]
                             /\ content' = [content EXCEPT ![f] = {}]
      BY <1>4, <2>2 DEF OpenLog
    <3>2. UNCHANGED <<size, maxLogSize, last, raced, unmoved>>
      BY <1>4 DEF OpenLog
    <3> QED BY <1>0, <3>1, <3>2 DEF Unlinked
  <2> QED BY <2>1, <2>2
<1>5. ASSUME NEW g \in Goroutines, WriteLine(g)
      PROVE  TypeOK' /\ FilesOK'
  <2>1. frame[g].fd \in Inodes
    BY <1>5 DEF WriteLine, At, FramesOK, FrameOK
  <2>2. /\ last' = last + 1 /\ UNCHANGED <<size, maxLogSize, path, raced, unmoved>>
        /\ content' = [content EXCEPT ![frame[g].fd] = content[frame[g].fd] \cup {last + 1}]
    BY <1>5 DEF WriteLine
  <2>3. \A f \in Inodes : content'[f] \in SUBSET (1..last')
    BY <2>1, <2>2
  <2>4. content' \in [Inodes -> SUBSET (1..last')]
    BY <2>2, <2>3
  <2>5. last' \in Nat
    BY <2>2
  <2> QED BY <1>0, <2>2, <2>4, <2>5
<1> QED
  BY <1>1, <1>2, <1>3, <1>4, <1>5, <1>6, ReadsOnly
  DEF Next, vars, Crash, PersistCall, Stat, RotateFails, PersistFails

----------------------------------------------------------------------------
(* Lines                                                                   *)

(* What the actions of PersistLog do to the lines under each name, while   *)
(* calls do not overlap a rotation.                                        *)
LinesStay == \A i \in Paths : Lines(i)' = Lines(i)

LEMMA RemovedLines ==
  ASSUME TypeOK, NEW g \in Goroutines, RemoveOldest(g)
  PROVE  \/ LinesStay
         \/ \A i \in Paths : Lines(i)' = IF i = Oldest THEN {} ELSE Lines(i)
<1>1. content' = content
  BY DEF RemoveOldest
<1>2. CASE UNCHANGED path
  BY <1>1, <1>2 DEF LinesStay, Lines, Exists
<1>3. CASE path' = [path EXCEPT ![Oldest] = NoFile]
  BY <1>1, <1>3 DEF TypeOK, Lines, Exists, Paths
<1> QED BY <1>2, <1>3 DEF RemoveOldest

LEMMA RenamedLines ==
  ASSUME TypeOK, NEW g \in Goroutines, Rename(g), NEW j \in 0..(Oldest - 1),
         j = frame[g].i
  PROVE  \/ LinesStay
         \/ \A i \in Paths : Lines(i)' = IF i = j + 1 THEN Lines(j)
                                         ELSE IF i = j THEN {} ELSE Lines(i)
<1>1. j \in Paths /\ j + 1 \in Paths /\ j # j + 1
  BY DEF Paths
<1>2. content' = content
  BY DEF Rename
<1>3. path' = IF Exists(j) THEN [path EXCEPT ![j + 1] = path[j], ![j] = NoFile] ELSE path
  BY DEF Rename
<1>4. path \in [Paths -> Inodes \cup {NoFile}]
  BY DEF TypeOK
<1>5. CASE Exists(j)
  BY <1>1, <1>2, <1>3, <1>4, <1>5 DEF Lines, Exists
<1>6. CASE ~Exists(j)
  BY <1>1, <1>2, <1>3, <1>6 DEF LinesStay, Lines, Exists
<1> QED BY <1>5, <1>6

LEMMA OpenedLines ==
  ASSUME TypeOK, NEW g \in Goroutines, OpenLog(g)
  PROVE  LinesStay
<1>1. CASE Exists(0)
  BY <1>1 DEF OpenLog, LinesStay, Lines, Exists
<1>2. CASE ~Exists(0)
  <2>1. PICK f \in Inodes : /\ Unlinked(f) /\ path' = [path EXCEPT ![0] = f]
                           /\ content' = [content EXCEPT ![f] = {}]
    BY <1>2 DEF OpenLog
  <2>2. /\ path \in [Paths -> Inodes \cup {NoFile}] /\ 0 \in Paths
        /\ content \in [Inodes -> SUBSET (1..last)] /\ path[0] = NoFile
    BY <1>2 DEF TypeOK, Paths, Exists
  <2>3. \A i \in Paths : path[i] # f
    BY <2>1 DEF Unlinked
  <2> QED BY <2>1, <2>2, <2>3 DEF LinesStay, Lines, Exists
<1> QED BY <1>1, <1>2

LEMMA WrittenLines ==
  ASSUME TypeOK, FilesOK, NEW g \in Goroutines, WriteLine(g), frame[g].fd \in Inodes
  PROVE  \A i \in Paths :
           Lines(i)' = IF path[i] = frame[g].fd THEN Lines(i) \cup {last + 1} ELSE Lines(i)
<1>1. /\ content' = [content EXCEPT ![frame[g].fd] = content[frame[g].fd] \cup {last + 1}]
      /\ path' = path
  BY DEF WriteLine
<1> QED BY <1>1 DEF TypeOK, Lines, Exists

LEMMA OtherLines ==
  ASSUME UNCHANGED <<path, content>>
  PROVE  LinesStay
  BY DEF LinesStay, Lines, Exists

(* Lines that stay, and are no more.                                       *)
LEMMA KeptLines ==
  LinesStay => Kept' = Kept
  BY DEF LinesStay, Kept, Paths

LEMMA ApartStep ==
  ASSUME LogInv, [Next]_vars, ~raced'
  PROVE  ~raced /\ CallsApart'
<1> USE DEF LogInv, TypeOK, FramesOK, FrameOK, CallsApart, Frame, At, Idle
<1>0. ~raced
  BY ReadsOnly DEF Next, vars, PersistCall, Stat, RemoveOldest, Rename, RenameFails, RotateFails,
         OpenLog, WriteLine, PersistFails, Crash, Races
<1>1. CASE UNCHANGED <<path, frame>>
  BY <1>0, <1>1
<1>2. CASE Crash
  BY <1>2 DEF Crash
<1>3. ASSUME NEW g \in Goroutines, PersistCall(g) \/ Stat(g) \/ RotateFails(g)
                                    \/ PersistFails(g) \/ WriteLine(g)
      PROVE  CallsApart'
  BY <1>0, <1>3 DEF PersistCall, Stat, RotateFails, PersistFails, WriteLine, Goto, Return
<1>4. ASSUME NEW g \in Goroutines, RemoveOldest(g) \/ Rename(g) \/ RenameFails(g)
      PROVE  CallsApart'
  <2>1. \A h \in Goroutines : h # g => frame'[h] = frame[h] /\ At(h, "idle")
    BY <1>4 DEF RemoveOldest, Rename, RenameFails, Races
  <2>2. frame'[g].pc \in {"rename", "open"}
    BY <1>4 DEF RemoveOldest, Rename, RenameFails
  <2>3. ASSUME NEW h \in Goroutines PROVE frame'[h].pc # "write"
    <3>1. CASE h = g
      BY <2>2, <3>1
    <3>2. CASE h # g
      BY <2>1, <3>2
    <3> QED BY <3>1, <3>2
  <2> QED BY <2>3
<1>6. ASSUME NEW g \in Goroutines, OpenLog(g) PROVE CallsApart'
  <2>1. \A h \in Goroutines : h # g => frame'[h] = frame[h]
    BY <1>6 DEF OpenLog
  <2>2. frame'[g].pc = "write" /\ frame'[g].fd = path'[0]
    BY <1>6 DEF OpenLog, Paths
  <2>4. \A h \in Goroutines : At(h, "write") => path'[0] = path[0]
    BY <1>0, <1>6 DEF OpenLog, Exists
  <2> QED BY <1>0, <2>1, <2>2, <2>4
<1> QED
  BY <1>0, <1>1, <1>2, <1>3, <1>4, <1>6, ReadsOnly DEF Next, vars

LEMMA RoomMadeStep ==
  ASSUME LogInv, [Next]_vars, ~raced', ~unmoved'
  PROVE  ~unmoved /\ RoomMade'
<1> USE DEF LogInv, TypeOK, FramesOK, FrameOK, RoomMade, Frame, At, Idle
<1>a. ~unmoved
  BY ReadsOnly DEF Next, vars, PersistCall, Stat, RemoveOldest, Rename, RenameFails, RotateFails,
         OpenLog, WriteLine, PersistFails, Crash
<1>0. ~raced /\ ~unmoved /\ RoomMade
  BY <1>a, ApartStep
<1>1. CASE UNCHANGED <<path, frame>>
  BY <1>0, <1>1
<1>2. CASE Crash
  BY <1>2 DEF Crash
<1>3. ASSUME NEW g \in Goroutines, PersistCall(g) \/ Stat(g) \/ RotateFails(g)
                                    \/ PersistFails(g) \/ WriteLine(g)
      PROVE  RoomMade'
  BY <1>0, <1>3 DEF PersistCall, Stat, RotateFails, PersistFails, WriteLine, Goto, Return
<1>4. ASSUME NEW g \in Goroutines, RemoveOldest(g) PROVE RoomMade'
  <2>1. \A h \in Goroutines : h # g => frame'[h] = frame[h] /\ At(h, "idle")
    BY <1>4 DEF RemoveOldest, Races
  <2>2. frame'[g].pc = "rename" /\ frame'[g].i = Oldest - 1
    BY <1>4 DEF RemoveOldest, Paths
  <2>3. frame'[g].i + 1 = Oldest
    BY <2>2
  <2>4. ASSUME NEW h \in Goroutines, h # g PROVE frame'[h].pc = "idle"
    BY <2>1, <2>4
  <2> QED BY <2>2, <2>3, <2>4
<1>5. ASSUME NEW g \in Goroutines, Rename(g) PROVE RoomMade'
  <2>1. \A h \in Goroutines : h # g => frame'[h] = frame[h] /\ At(h, "idle")
    BY <1>5 DEF Rename, Races
  <2>2. CASE frame[g].i = 0
    <3>1. frame'[g].pc = "open"
      BY <1>5, <2>2 DEF Rename
    <3> QED BY <2>1, <3>1
  <2>3. CASE frame[g].i # 0
    <3>1. frame'[g] = [frame[g] EXCEPT !.i = frame[g].i - 1]
      BY <1>5, <2>3 DEF Rename
    <3>2. frame'[g].pc = "rename" /\ frame'[g].i + 1 = frame[g].i
      BY <1>5, <3>1 DEF Rename, Paths
    <3>3. path'[frame[g].i] = NoFile
      <4>1. CASE Exists(frame[g].i)
        BY <1>5, <4>1 DEF Rename, Paths
      <4>2. CASE ~Exists(frame[g].i)
        BY <1>5, <4>2 DEF Rename, Exists
      <4> QED BY <4>1, <4>2
    <3> QED BY <2>1, <3>2, <3>3
  <2> QED BY <2>2, <2>3
<1>6. ASSUME NEW g \in Goroutines, OpenLog(g) PROVE RoomMade'
  <2>1. \A h \in Goroutines : h # g => frame'[h] = frame[h]
    BY <1>6 DEF OpenLog
  <2>2. frame'[g].pc = "write"
    BY <1>6 DEF OpenLog
  <2>3. \A i \in Paths : i # 0 => path'[i] = path[i]
    BY <1>6 DEF OpenLog, Paths
  <2>5. \A h \in Goroutines : At(h, "rename") => frame[h].i + 1 \in Paths /\ frame[h].i + 1 # 0
    BY DEF Paths
  <2> QED BY <1>0, <2>1, <2>2, <2>3, <2>5
<1>7. ASSUME NEW g \in Goroutines PROVE ~RenameFails(g)
  BY DEF RenameFails
<1> QED
  BY <1>0, <1>1, <1>2, <1>3, <1>4, <1>5, <1>6, <1>7, ReadsOnly DEF Next, vars

(* To forget the lines of the oldest file leaves the newest.               *)
LEMMA Forgetting ==
  ASSUME Contiguous, Sorted, UNCHANGED last, last \in Nat,
         \A i \in Paths : Lines(i) \subseteq 1..last,
         Kept' = Kept \ Lines(Oldest)
  PROVE  Contiguous'
<1> SUFFICES ASSUME NEW k \in Kept', NEW l \in k..last PROVE l \in Kept'
  BY DEF Contiguous
<1>1. PICK i \in Paths : k \in Lines(i) /\ i # Oldest
  BY DEF Kept
<1>2. k \in Nat /\ l \in Nat /\ k <= l
  BY <1>1
<1>3. l \in Kept
  BY DEF Contiguous
<1>4. \A m \in Lines(Oldest) : m < k
  BY <1>1 DEF Sorted, Paths
<1> QED BY <1>2, <1>3, <1>4

(* Rotation forgets the lines of the oldest file, moves the others one     *)
(* file up in order, and every new line is newer than all that are kept.   *)
LEMMA OrderStep ==
  ASSUME LogInv, [Next]_vars, ~raced'
  PROVE  /\ Sorted'
         /\ ~unmoved' => Contiguous' /\ Kept \ Kept' \subseteq Lines(Oldest)
<1> DEFINE Goal == /\ Sorted'
                   /\ ~unmoved' => Contiguous' /\ Kept \ Kept' \subseteq Lines(Oldest)
<1>0. /\ TypeOK /\ FramesOK /\ FilesOK /\ CallsApart /\ Sorted
      /\ \A i \in Paths : Lines(i) \subseteq 1..last
      /\ last \in Nat
  BY ApartStep DEF LogInv, TypeOK, Lines, Exists
<1>a. ~unmoved' => RoomMade /\ Contiguous
  BY ApartStep, RoomMadeStep DEF LogInv
<1>1. ASSUME LinesStay, UNCHANGED last PROVE Goal
  BY <1>0, <1>a, <1>1, KeptLines DEF LinesStay, Contiguous, Sorted
<1>2. ASSUME NEW g \in Goroutines, RemoveOldest(g) PROVE Goal
  <2>1. UNCHANGED last
    BY <1>2 DEF RemoveOldest
  <2>2. CASE \A i \in Paths : Lines(i)' = IF i = Oldest THEN {} ELSE Lines(i)
    <3>1. Kept' = Kept \ Lines(Oldest)
      <4>1. \A i \in Paths : i # Oldest => \A k \in Lines(i) : k \notin Lines(Oldest)
        BY <1>0 DEF Sorted, Paths
      <4>2. \A k : (\E i \in Paths : k \in Lines(i)')
                   <=> (\E i \in Paths : k \in Lines(i)) /\ k \notin Lines(Oldest)
        BY <2>2, <4>1
      <4> QED BY <4>2 DEF Kept, Paths
    <3>2. Sorted'
      BY <1>0, <2>2 DEF Sorted
    <3> QED BY <1>0, <1>a, <2>1, <3>1, <3>2, Forgetting
  <2> QED BY <1>0, <1>1, <1>2, <2>1, <2>2, RemovedLines
<1>3. ASSUME NEW g \in Goroutines, Rename(g) PROVE Goal
  <2> DEFINE j == frame[g].i
  <2>1. /\ j \in 0..(Oldest - 1)
        /\ RoomMade => path[j + 1] = NoFile \/ j + 1 = Oldest
    BY <1>0, <1>3 DEF Rename, At, FramesOK, FrameOK, Frame, Paths, RoomMade
  <2>2. UNCHANGED last
    BY <1>3 DEF Rename
  <2>3. \/ LinesStay
        \/ \A i \in Paths : Lines(i)' = IF i = j + 1 THEN Lines(j)
                                        ELSE IF i = j THEN {} ELSE Lines(i)
    BY <1>0, <1>3, <2>1, RenamedLines
  <2> HIDE DEF j
  <2>4. j \in Paths /\ j + 1 \in Paths /\ j # j + 1
    BY <2>1 DEF Paths
  <2>5. CASE \A i \in Paths : Lines(i)' = IF i = j + 1 THEN Lines(j)
                                         ELSE IF i = j THEN {} ELSE Lines(i)
    <3>1. Kept' = Kept \ Lines(j + 1)
      <4>1. \A i \in Paths : i # j + 1 => \A k \in Lines(i) : k \notin Lines(j + 1)
        BY <1>0, <2>4 DEF Sorted, Paths
      <4>2. \A k : (\E i \in Paths : k \in Lines(i)')
                   <=> (\E i \in Paths : k \in Lines(i)) /\ k \notin Lines(j + 1)
        BY <2>4, <2>5, <4>1
      <4> QED BY <4>2 DEF Kept, Paths
    <3>2. Sorted'
      <4> SUFFICES ASSUME NEW a \in Paths, NEW b \in Paths, a < b,
                          NEW k \in Lines(a)', NEW l \in Lines(b)'
                   PROVE  l < k
        BY DEF Sorted, Paths
      <4> DEFINE From(i) == IF i = j + 1 THEN j ELSE i
      <4>1. From(a) \in Paths /\ From(b) \in Paths /\ k \in Lines(From(a)) /\ l \in Lines(From(b))
        BY <2>4, <2>5
      <4>2. a # j /\ b # j
        BY <2>4, <2>5
      <4>3. From(a) < From(b)
        BY <2>1, <4>2 DEF Paths
      <4> HIDE DEF From
      <4> QED BY <1>0, <4>1, <4>3 DEF Sorted
    <3>3. ASSUME ~unmoved' PROVE Contiguous' /\ Kept \ Kept' \subseteq Lines(Oldest)
      <4>1. CASE path[j + 1] = NoFile
        <5>1. Kept' = Kept
          BY <3>1, <4>1 DEF Lines, Exists
        <5> QED BY <1>a, <2>2, <3>3, <5>1 DEF Contiguous
      <4>2. CASE j + 1 = Oldest
        BY <1>0, <1>a, <2>2, <3>1, <3>3, <4>2, Forgetting
      <4> QED BY <1>a, <2>1, <3>3, <4>1, <4>2
    <3> QED BY <3>2, <3>3
  <2> QED BY <1>1, <2>2, <2>3, <2>5
<1>4. ASSUME NEW g \in Goroutines, OpenLog(g) PROVE Goal
  BY <1>0, <1>1, <1>4, OpenedLines DEF OpenLog
<1>5. ASSUME NEW g \in Goroutines, WriteLine(g) PROVE Goal
  <2>1. frame[g].fd \in Inodes /\ frame[g].fd = path[0] /\ 0 \in Paths
    BY <1>0, <1>5 DEF WriteLine, FramesOK, FrameOK, CallsApart, At, Paths
  <2>2. \A i \in Paths : path[i] = frame[g].fd <=> i = 0
    BY <1>0, <2>1 DEF FilesOK
  <2>3. \A i \in Paths : Lines(i)' = IF i = 0 THEN Lines(i) \cup {last + 1} ELSE Lines(i)
    BY <1>0, <1>5, <2>1, <2>2, WrittenLines
  <2>4. last' = last + 1
    BY <1>5 DEF WriteLine
  <2>5. Kept' = Kept \cup {last + 1}
    <3>1. \A k : (\E i \in Paths : k \in Lines(i)')
                  <=> k = last + 1 \/ (\E i \in Paths : k \in Lines(i))
      BY <2>1, <2>3
    <3> QED BY <3>1 DEF Kept, Paths
  <2>6. \A k \in Kept : k \in 1..last
    BY <1>0 DEF Kept
  <2>7. ASSUME Contiguous PROVE Contiguous'
    <3> SUFFICES ASSUME NEW k \in Kept', NEW l \in k..last' PROVE l \in Kept'
      BY DEF Contiguous
    <3>1. CASE k = last + 1
      BY <1>0, <2>4, <2>5, <3>1
    <3>2. CASE k \in Kept
      <4>1. l \in k..last \/ l = last + 1
        BY <1>0, <2>4, <2>6, <3>2
      <4> QED BY <1>0, <2>5, <2>7, <3>2, <4>1 DEF Contiguous
    <3> QED BY <2>5, <3>1, <3>2
  <2>8. Sorted'
    <3> SUFFICES ASSUME NEW a \in Paths, NEW b \in Paths, a < b,
                        NEW k \in Lines(a)', NEW l \in Lines(b)'
                 PROVE  l < k
      BY DEF Sorted, Paths
    <3>1. b # 0 /\ l \in Lines(b)
      BY <2>3 DEF Paths
    <3>2. CASE k \in Lines(a)
      BY <1>0, <3>1, <3>2 DEF Sorted
    <3>3. CASE k = last + 1
      BY <1>0, <3>1, <3>3
    <3> QED BY <2>3, <3>2, <3>3
  <2> QED BY <1>a, <2>5, <2>7, <2>8
<1>6. ASSUME UNCHANGED <<path, content, last>> PROVE Goal
  BY <1>1, <1>6, OtherLines
<1> QED
  BY <1>2, <1>3, <1>4, <1>5, <1>6, ReadsOnly
  DEF Next, vars, Crash, PersistCall, Stat, RenameFails, RotateFails, PersistFails

LEMMA LogStep == LogInv /\ [Next]_vars => LogInv'
  BY TypeStep, ReaderStep, FrameChanges, ApartStep, RoomMadeStep, OrderStep DEF LogInv

LEMMA LogInvariant == Spec => []LogInv
  BY InitLog, LogStep, PTL DEF Spec

(* The variables keep their types; the limit is a number whatever was      *)
(* configured.                                                             *)
THEOREM TypeCorrect == Spec => []TypeOK
<1>1. LogInv => TypeOK
  BY DEF LogInv
<1> QED BY <1>1, LogInvariant, PTL

(* As long as no rotation overlapped another call the files are in order,  *)
(* wherever one was cut short and whatever could not be removed or         *)
(* renamed, and hold the lines written last, if every rotated file could   *)
(* be renamed.  MaxLogFiles is any integer.                                *)
THEOREM TheNewestAreKept == Spec => []KeepsTheNewest
<1>1. LogInv => KeepsTheNewest
  BY DEF LogInv, KeepsTheNewest, Contiguous, Sorted
<1> QED BY <1>1, LogInvariant, PTL

(* A step forgets lines of the oldest file only, as long as no rotation    *)
(* overlapped another call and every rotated file could be renamed.        *)
THEOREM OnlyTheOldestAreForgotten == Spec => ForgetsTheOldest
<1>1. LogInv /\ [Next]_vars =>
        [~raced' /\ ~unmoved' => Kept \ Kept' \subseteq Lines(Oldest)]_vars
  BY OrderStep
<1> QED BY <1>1, LogInvariant, PTL DEF Spec, ForgetsTheOldest

(* A log is rotated only if it is longer than what was configured, for     *)
(* every limit in every unit that the manager can hold.                    *)
THEOREM RotationsAsConfigured == Spec => RotatedWhenFull
<1>1. LogInv /\ [Next]_vars =>
        [\A g \in Goroutines :
           At(g, "stat") /\ frame'[g].pc = "remove" /\ size.numeric /\ Fits(size)
           => Size(0) > Exact(size)]_vars
  <2> SUFFICES ASSUME LogInv, Next, NEW g \in Goroutines,
                      At(g, "stat"), frame'[g].pc = "remove", size.numeric, Fits(size)
               PROVE  Size(0) > Exact(size)
    OBVIOUS
  <2>1. maxLogSize = Exact(size)
    BY LimitAsConfigured DEF LogInv, TypeOK, FilesOK
  <2>2. \A h \in Goroutines :
          h # g => ~(PersistCall(h) \/ RemoveOldest(h) \/ Rename(h) \/ RenameFails(h)
                     \/ RotateFails(h) \/ OpenLog(h) \/ WriteLine(h) \/ PersistFails(h) \/ Stat(h))
    BY DEF LogInv, TypeOK, At, PersistCall, RemoveOldest, Rename, RenameFails, RotateFails, OpenLog,
           WriteLine, PersistFails, Stat, Goto, Return
  <2>3. ~Crash
    BY DEF Crash, Idle
  <2>4. Stat(g)
    BY <2>2, <2>3, ReadsOnly
    DEF Next, At, PersistCall, RemoveOldest, Rename, RenameFails, RotateFails, OpenLog,
        WriteLine, PersistFails
  <2> QED BY <2>1, <2>4 DEF Stat, LogInv, TypeOK, Goto
<1> QED BY <1>1, LogInvariant, PTL DEF Spec, RotatedWhenFull

----------------------------------------------------------------------------
(* The length of a log                                                     *)

(* The calls that have looked at the size and may still write.             *)
Writers == {g \in Goroutines : frame[g].pc \in {"open", "write"}}

Limit == IF maxLogSize < 0 THEN 0 ELSE maxLogSize

(* Every call that is about to write has room left for its line.           *)
RoomInv == Size(0) + Cardinality(Writers) <= Limit + Cardinality(Goroutines)

CountsOK ==
  /\ IsFiniteSet(Lines(0)) /\ Size(0) \in Nat
  /\ IsFiniteSet(Writers) /\ Cardinality(Writers) \in Nat
  /\ Cardinality(Goroutines) \in Nat /\ Cardinality(Writers) <= Cardinality(Goroutines)
  /\ Limit \in Nat /\ maxLogSize <= Limit

LEMMA Counts == TypeOK => CountsOK
<1> SUFFICES ASSUME TypeOK PROVE CountsOK
  OBVIOUS
<1>1. Lines(0) \in SUBSET (1..last)
  BY DEF TypeOK, Lines, Exists, Paths
<1>2. IsFiniteSet(1..last)
  BY FS_Interval DEF TypeOK
<1>3. IsFiniteSet(Lines(0)) /\ Size(0) \in Nat
  BY <1>1, <1>2, FS_Subset, FS_CardinalityType DEF Size
<1>4. Writers \in SUBSET Goroutines
  BY DEF Writers
<1>5. /\ IsFiniteSet(Writers) /\ Cardinality(Writers) \in Nat
      /\ Cardinality(Goroutines) \in Nat /\ Cardinality(Writers) <= Cardinality(Goroutines)
  BY <1>4, FS_Subset, FS_CardinalityType
<1> QED BY <1>3, <1>5 DEF Limit, TypeOK, CountsOK

LEMMA RoomStep ==
  ASSUME LogInv, RoomInv, [Next]_vars
  PROVE  RoomInv'
<1>0. TypeOK /\ TypeOK' /\ FilesOK /\ FramesOK /\ frame \in [Goroutines -> Frame]
  BY TypeStep DEF LogInv, TypeOK
<1>1. Size(0)' \in Nat /\ Cardinality(Writers)' \in Nat
      /\ Cardinality(Writers)' <= Cardinality(Goroutines)
  <2>1. TypeOK' => CountsOK'
    BY Counts, PTL
  <2> QED BY <1>0, <2>1 DEF CountsOK
<1>2. Limit' = Limit
  BY ReadsOnly DEF Next, vars, PersistCall, Stat, RemoveOldest, Rename, RenameFails, RotateFails, OpenLog,
         WriteLine, PersistFails, Crash, Limit
<1>3. /\ Size(0) \in Nat /\ Cardinality(Writers) \in Nat /\ IsFiniteSet(Writers)
      /\ Cardinality(Goroutines) \in Nat /\ Limit \in Nat /\ maxLogSize <= Limit
      /\ IsFiniteSet(Lines(0))
  BY <1>0, Counts DEF CountsOK
<1>4. ASSUME Size(0)' <= Size(0), Cardinality(Writers)' <= Cardinality(Writers)
      PROVE  RoomInv'
  BY <1>1, <1>2, <1>3, <1>4 DEF RoomInv
<1>5. ASSUME Size(0)' <= Limit PROVE RoomInv'
  BY <1>1, <1>2, <1>3, <1>5 DEF RoomInv
<1>6. Lines(0)' = Lines(0) => Size(0)' = Size(0)
  BY DEF Size
<1>7. UNCHANGED <<path, content>> => Size(0)' = Size(0)
  BY <1>6, OtherLines DEF LinesStay, Paths
<1>8. ASSUME NEW g \in Goroutines, Return(g)
      PROVE  /\ Cardinality(Writers)' <= Cardinality(Writers)
             /\ g \in Writers => Cardinality(Writers)' = Cardinality(Writers) - 1
  <2>1. Writers' = Writers \ {g}
    BY <1>0, <1>8 DEF Writers, Return, Idle
  <2>2. Cardinality(Writers \ {g}) = IF g \in Writers THEN Cardinality(Writers) - 1
                                     ELSE Cardinality(Writers)
    BY <1>3, FS_RemoveElement
  <2> HIDE DEF Writers
  <2> QED BY <1>3, <2>1, <2>2
<1>9. ASSUME NEW g \in Goroutines, g \notin Writers, g \notin Writers',
             \A h \in Goroutines : h # g => frame'[h] = frame[h]
      PROVE  Writers' = Writers
  BY <1>9 DEF Writers
<1>10. CASE UNCHANGED vars
  <2>1. Writers' = Writers
    BY <1>10 DEF vars, Writers
  <2>2. UNCHANGED <<path, content>>
    BY <1>10 DEF vars
  <2> QED BY <1>3, <1>4, <1>7, <2>1, <2>2
<1>11. CASE Crash
  <2>1. Writers' = {}
    BY <1>11 DEF Crash, Writers, Idle
  <2>2. UNCHANGED <<path, content>>
    BY <1>11 DEF Crash
  <2> QED BY <1>3, <1>4, <1>7, <2>1, <2>2, FS_EmptySet
<1>12. ASSUME NEW g \in Goroutines, PersistCall(g) PROVE RoomInv'
  <2>1. Writers' = Writers
    BY <1>0, <1>9, <1>12 DEF PersistCall, Goto, At, Writers
  <2>2. UNCHANGED <<path, content>>
    BY <1>12 DEF PersistCall
  <2> QED BY <1>3, <1>4, <1>7, <2>1, <2>2
<1>13. ASSUME NEW g \in Goroutines, Stat(g) PROVE RoomInv'
  <2>1. UNCHANGED <<path, content>> /\ At(g, "stat")
        /\ \A h \in Goroutines : h # g => frame'[h] = frame[h]
    BY <1>13 DEF Stat, Goto
  <2>2. CASE Exists(0) /\ Size(0) > maxLogSize
    <3>1. frame'[g].pc = "remove"
      BY <1>0, <1>13, <2>2 DEF Stat, Goto
    <3>2. Writers' = Writers
      BY <1>9, <2>1, <3>1 DEF At, Writers
    <3> QED BY <1>3, <1>4, <1>7, <2>1, <3>2
  <2>3. CASE ~(Exists(0) /\ Size(0) > maxLogSize)
    <3>1. Size(0) <= Limit
      <4>1. CASE Exists(0)
        BY <1>0, <1>3, <2>3, <4>1 DEF TypeOK
      <4>2. CASE ~Exists(0)
        BY <1>3, <4>2, FS_EmptySet DEF Size, Lines
      <4> QED BY <4>1, <4>2
    <3> QED BY <1>5, <1>7, <2>1, <3>1
  <2> QED BY <2>2, <2>3
<1>14. ASSUME NEW g \in Goroutines, RemoveOldest(g) PROVE RoomInv'
  <2>1. /\ \A h \in Goroutines : h # g => frame'[h] = frame[h]
        /\ frame'[g].pc = "rename" /\ At(g, "remove")
    BY <1>0, <1>14 DEF RemoveOldest
  <2>2. Writers' = Writers
    BY <1>9, <2>1 DEF At, Writers
  <2>3. Lines(0)' = Lines(0)
    BY <1>0, <1>14, RemovedLines DEF LinesStay, Paths
  <2> QED BY <1>3, <1>4, <1>6, <2>2, <2>3
<1>15. ASSUME NEW g \in Goroutines, Rename(g) PROVE RoomInv'
  <2>0. frame[g].i \in 0..(Oldest - 1) /\ At(g, "rename") /\ content' = content
    BY <1>0, <1>15 DEF Rename, FramesOK, FrameOK, At, Frame, Paths
  <2>1. CASE frame[g].i = 0
    <3>1. path'[0] = NoFile
      <4>1. CASE Exists(0)
        BY <1>0, <1>15, <2>1, <4>1 DEF Rename, TypeOK, Paths
      <4>2. CASE ~Exists(0)
        BY <1>15, <2>1, <4>2 DEF Rename, Exists
      <4> QED BY <4>1, <4>2
    <3>2. Size(0)' = 0
      BY <3>1, FS_EmptySet DEF Size, Lines, Exists
    <3> QED BY <1>3, <1>5, <3>2
  <2>2. CASE frame[g].i # 0
    <3>1. path'[0] = path[0]
      <4>1. path' = IF Exists(frame[g].i)
                   THEN [path EXCEPT ![frame[g].i + 1] = path[frame[g].i], ![frame[g].i] = NoFile]
                   ELSE path
        BY <1>15 DEF Rename
      <4>2. path \in [Paths -> Inodes \cup {NoFile}] /\ 0 \in Paths
            /\ frame[g].i # 0 /\ frame[g].i + 1 # 0
        BY <1>0, <2>0, <2>2 DEF TypeOK, Paths
      <4> QED BY <4>1, <4>2
    <3>2. Lines(0)' = Lines(0)
      BY <2>0, <3>1 DEF Lines, Exists
    <3>3. /\ \A h \in Goroutines : h # g => frame'[h] = frame[h]
          /\ frame'[g].pc = "rename"
      BY <1>0, <1>15, <2>0, <2>2 DEF Rename, At
    <3>4. Writers' = Writers
      BY <1>9, <2>0, <3>3 DEF At, Writers
    <3> QED BY <1>3, <1>4, <1>6, <3>2, <3>4
  <2> QED BY <2>1, <2>2
<1>20. ASSUME NEW g \in Goroutines, RenameFails(g) PROVE RoomInv'
  <2>1. /\ \A h \in Goroutines : h # g => frame'[h] = frame[h]
        /\ frame'[g].pc = "rename" /\ At(g, "rename")
        /\ UNCHANGED <<path, content>>
    BY <1>0, <1>20 DEF RenameFails, At
  <2>2. Writers' = Writers
    BY <1>9, <2>1 DEF At, Writers
  <2> QED BY <1>3, <1>4, <1>7, <2>1, <2>2
<1>16. ASSUME NEW g \in Goroutines, RotateFails(g) \/ PersistFails(g) PROVE RoomInv'
  <2>1. Return(g) /\ UNCHANGED <<path, content>>
    BY <1>16 DEF RotateFails, PersistFails
  <2> QED BY <1>3, <1>4, <1>7, <1>8, <2>1
<1>17. ASSUME NEW g \in Goroutines, OpenLog(g) PROVE RoomInv'
  <2>1. /\ \A h \in Goroutines : h # g => frame'[h] = frame[h]
        /\ frame'[g].pc = "write" /\ At(g, "open")
    BY <1>0, <1>17 DEF OpenLog
  <2>2. Writers' = Writers
    BY <2>1 DEF At, Writers
  <2>3. Lines(0)' = Lines(0)
    BY <1>0, <1>17, OpenedLines DEF LinesStay, Paths
  <2> QED BY <1>3, <1>4, <1>6, <2>2, <2>3
<1>18. ASSUME NEW g \in Goroutines, WriteLine(g) PROVE RoomInv'
  <2>1. Return(g) /\ At(g, "write") /\ frame[g].fd \in Inodes
    BY <1>0, <1>18 DEF WriteLine, FramesOK, FrameOK, At
  <2>2. Cardinality(Writers)' = Cardinality(Writers) - 1
    BY <1>8, <2>1 DEF Writers, At
  <2>3. Lines(0)' = Lines(0) \/ Lines(0)' = Lines(0) \cup {last + 1}
    BY <1>0, <1>18, <2>1, WrittenLines DEF Paths
  <2>4. Size(0)' <= Size(0) + 1
    <3>1. Cardinality(Lines(0) \cup {last + 1}) <= Cardinality(Lines(0)) + 1
      <4>1. IsFiniteSet(Lines(0)) /\ Cardinality(Lines(0)) \in Nat
        BY <1>3 DEF Size
      <4>2. Cardinality(Lines(0) \cup {last + 1}) =
              IF last + 1 \in Lines(0) THEN Cardinality(Lines(0)) ELSE Cardinality(Lines(0)) + 1
        BY <4>1, FS_AddElement
      <4> QED BY <4>1, <4>2
    <3>2. Size(0) = Cardinality(Lines(0)) /\ Size(0)' = Cardinality(Lines(0)')
      BY DEF Size
    <3>3. Size(0)' = Size(0) \/ Size(0)' = Cardinality(Lines(0) \cup {last + 1})
      BY <2>3, <3>2
    <3>4. Size(0) \in Nat /\ Cardinality(Lines(0) \cup {last + 1}) <= Size(0) + 1
      BY <1>3, <3>1, <3>2
    <3> QED BY <3>3, <3>4
  <2> QED BY <1>1, <1>2, <1>3, <2>2, <2>4 DEF RoomInv
<1>19. CASE ReadLog
  <2>1. Writers' = Writers
    BY <1>19, ReadsOnly DEF Writers
  <2>2. UNCHANGED <<path, content>>
    BY <1>19, ReadsOnly
  <2> QED BY <1>3, <1>4, <1>7, <2>1, <2>2
<1> QED
  BY <1>10, <1>11, <1>12, <1>13, <1>14, <1>15, <1>16, <1>17, <1>18, <1>19,
     <1>20 DEF Next

(* A log is never longer than its limit by more than a line per caller.    *)
THEOREM LogsAreBounded == Spec => []LogBounded
<1>1. Init => LogInv /\ RoomInv
  <2> SUFFICES ASSUME Init PROVE LogInv /\ RoomInv
    OBVIOUS
  <2>1. LogInv
    BY InitLog
  <2>2. Writers = {} /\ Lines(0) = {}
    BY DEF Init, Writers, Idle, Lines, Exists, Paths
  <2>3. Limit \in Nat /\ Cardinality(Goroutines) \in Nat
    BY <2>1, Counts DEF LogInv, CountsOK
  <2>4. Size(0) = 0 /\ Cardinality(Writers) = 0
    BY <2>2, FS_EmptySet DEF Size
  <2> QED BY <2>1, <2>3, <2>4 DEF RoomInv
<1>2. (LogInv /\ RoomInv) /\ [Next]_vars => (LogInv /\ RoomInv)'
  BY LogStep, RoomStep
<1>3. LogInv /\ RoomInv => LogBounded
  <2> SUFFICES ASSUME LogInv, RoomInv PROVE LogBounded
    OBVIOUS
  <2>1. /\ Size(0) \in Nat /\ Cardinality(Writers) \in Nat
        /\ Limit \in Nat /\ Cardinality(Goroutines) \in Nat
    BY Counts DEF LogInv, CountsOK
  <2> QED BY <2>1 DEF RoomInv, LogBounded, Limit
<1> QED BY <1>1, <1>2, <1>3, PTL DEF Spec

----------------------------------------------------------------------------
(* ReadLog                                                                 *)

(* r is what is left of the lines of S, in order, by a window of n.        *)
WindowLength(n, c) == IF n < 0 THEN 0 ELSE IF c < n THEN c ELSE n

TailOf(r, S, n) ==
  /\ Len(r) = WindowLength(n, Cardinality(S))
  /\ \A a \in DOMAIN r : r[a] \in S
  /\ \A a, b \in DOMAIN r : a < b => r[a] < r[b]
  /\ \A a \in DOMAIN r, k \in S : k > r[a] => \E b \in DOMAIN r : r[b] = k

Seen == {k \in content[reader.fd] : k <= reader.pos}

(* A line longer, or longer and without its first line: either way the     *)
(* entries move by d, and the new line is the last.                        *)
LEMMA Slid ==
  ASSUME NEW w \in Seq(Nat), NEW k \in Nat, NEW n \in Int
  PROVE  LET d == IF Len(w) + 1 > n THEN 1 ELSE 0
             v == Slide(w, k, n)
         IN  /\ Len(v) = Len(w) + 1 - d
             /\ DOMAIN v = 1..(Len(w) + 1 - d)
             /\ \A a \in 1..(Len(w) + 1 - d) :
                  v[a] = IF a + d = Len(w) + 1 THEN k ELSE w[a + d]
<1> DEFINE u == Append(w, k)
<1>1. /\ u \in Seq(Nat) /\ Len(u) = Len(w) + 1 /\ DOMAIN u = 1..(Len(w) + 1)
      /\ \A a \in 1..(Len(w) + 1) : u[a] = IF a = Len(w) + 1 THEN k ELSE w[a]
      /\ Len(w) \in Nat
  OBVIOUS
<1> HIDE DEF u
<1>2. CASE Len(w) + 1 > n
  <2>1. Slide(w, k, n) = Tail(u)
    BY <1>1, <1>2 DEF Slide, u
  <2>2. /\ Len(Tail(u)) = Len(w) /\ DOMAIN Tail(u) = 1..Len(w)
        /\ \A a \in 1..Len(w) : Tail(u)[a] = u[a + 1]
    BY <1>1
  <2>3. \A a \in 1..Len(w) : Tail(u)[a] = IF a + 1 = Len(w) + 1 THEN k ELSE w[a + 1]
    <3>1. \A a \in 1..Len(w) : a + 1 \in 1..(Len(w) + 1)
      BY <1>1
    <3> QED BY <1>1, <2>2, <3>1
  <2>4. Len(w) + 1 - 1 = Len(w)
    BY <1>1
  <2> QED BY <1>2, <2>1, <2>2, <2>3, <2>4
<1>3. CASE ~(Len(w) + 1 > n)
  <2>1. Slide(w, k, n) = u
    BY <1>1, <1>3 DEF Slide, u
  <2> QED BY <1>1, <1>3, <2>1
<1> QED BY <1>2, <1>3

LEMMA SlideKeepsTheTail ==
  ASSUME NEW w \in Seq(Nat), NEW S \in SUBSET Nat, IsFiniteSet(S), NEW n \in Int,
         NEW k \in Nat, \A l \in S : l < k, TailOf(w, S, n)
  PROVE  TailOf(Slide(w, k, n), S \cup {k}, n)
<1> DEFINE d == IF Len(w) + 1 > n THEN 1 ELSE 0
           v == Slide(w, k, n)
           m == Len(w) + 1 - d
<1>1. /\ Len(v) = m /\ DOMAIN v = 1..m
      /\ \A a \in 1..m : v[a] = IF a + d = Len(w) + 1 THEN k ELSE w[a + d]
  BY Slid
<1>2. Len(w) \in Nat /\ d \in {0, 1} /\ m \in Nat /\ DOMAIN w = 1..Len(w)
  OBVIOUS
<1>3. \A a \in 1..m : a + d \in 1..(Len(w) + 1)
  BY <1>2
<1>4. Cardinality(S) \in Nat /\ Cardinality(S \cup {k}) = Cardinality(S) + 1
  <2>1. k \notin S
    OBVIOUS
  <2> QED BY <2>1, FS_CardinalityType, FS_AddElement
<1>5. m = WindowLength(n, Cardinality(S) + 1)
  <2>1. Len(w) = WindowLength(n, Cardinality(S))
    BY DEF TailOf
  <2> QED BY <1>4, <2>1 DEF WindowLength
<1>6. d = 0 \/ d = 1
  BY <1>2
<1> HIDE DEF d, v, m
<1>7. ASSUME NEW a \in 1..m PROVE v[a] \in S \cup {k}
  <2>1. a + d \in 1..(Len(w) + 1)
    BY <1>3
  <2>2. a + d # Len(w) + 1 => a + d \in DOMAIN w
    BY <1>2, <2>1
  <2> QED BY <1>1, <2>2 DEF TailOf
<1>8. ASSUME NEW a \in 1..m, NEW b \in 1..m, a < b PROVE v[a] < v[b]
  <2>1. a + d \in 1..(Len(w) + 1) /\ b + d \in 1..(Len(w) + 1) /\ a + d < b + d
    BY <1>2, <1>3, <1>8
  <2>2. a + d \in DOMAIN w /\ v[a] = w[a + d]
    <3>1. a + d \in 1..Len(w) /\ a + d # Len(w) + 1
      BY <1>2, <2>1
    <3> QED BY <1>1, <1>2, <3>1
  <2>3. CASE b + d = Len(w) + 1
    BY <1>1, <2>2, <2>3 DEF TailOf
  <2>4. CASE b + d # Len(w) + 1
    <3>0. b + d \in 1..Len(w)
      BY <1>2, <2>1, <2>4
    <3>1. b + d \in DOMAIN w /\ v[b] = w[b + d]
      BY <1>1, <1>2, <2>4, <3>0
    <3> QED BY <2>1, <2>2, <3>1 DEF TailOf
  <2> QED BY <2>3, <2>4
<1>9. ASSUME NEW a \in 1..m, NEW l \in S \cup {k}, l > v[a]
      PROVE  \E b \in 1..m : v[b] = l
  <2>0. a + d \in 1..(Len(w) + 1)
    BY <1>3
  <2>1. CASE l = k
    <3>1. m \in 1..m /\ m + d = Len(w) + 1
      BY <1>2 DEF m
    <3> QED BY <1>1, <2>1, <3>1
  <2>2. CASE l # k
    <3>1. l \in S /\ l < k
      BY <2>2
    <3>2. v[a] # k
      BY <1>9, <3>1
    <3>3. a + d \in DOMAIN w /\ v[a] = w[a + d]
      <4>1. v[a] = w[a + d] /\ a + d # Len(w) + 1
        BY <1>1, <3>2
      <4>2. a + d \in 1..Len(w)
        BY <1>2, <2>0, <4>1
      <4> QED BY <1>2, <4>1, <4>2
    <3>4. PICK c \in DOMAIN w : w[c] = l
      BY <1>9, <3>1, <3>3 DEF TailOf
    <3>5. c > a + d
      <4>1. c \in Nat /\ a + d \in Nat
        BY <1>2, <2>0, <3>4
      <4>2. w[c] > w[a + d] /\ w[c] \in Nat /\ w[a + d] \in Nat
        BY <1>9, <3>1, <3>3, <3>4 DEF TailOf
      <4>3. ~(c < a + d)
        BY <3>3, <3>4, <4>2 DEF TailOf
      <4>4. c # a + d
        BY <4>2
      <4> QED BY <4>1, <4>3, <4>4
    <3>6. c - d \in 1..m /\ (c - d) + d = c /\ c # Len(w) + 1
      <4>1. c \in 1..Len(w) /\ c > a + d /\ a \in 1..m
        BY <1>2, <3>4, <3>5
      <4> QED BY <1>2, <1>6, <4>1 DEF m
    <3> QED BY <1>1, <3>4, <3>6
  <2> QED BY <2>1, <2>2
<1> QED BY <1>1, <1>4, <1>5, <1>7, <1>8, <1>9 DEF TailOf, v

LEMMA AskedAreIntegers == \A n \in Asked \cup {0} : n \in Int
<1>1. \A n \in Asked : n \in Int
  BY DEF ConsoleLogAssumption
<1> QED BY <1>1

LEMMA TailStep ==
  ASSUME LogInv, reader # NoReader => TailOf(reader.result, Seen, reader.n), [Next]_vars,
         reader' # NoReader
  PROVE  TailOf(reader.result, Seen, reader.n)'
<1> USE DEF LogInv, TypeOK, ReaderFile
<1>1. ASSUME UNCHANGED <<reader, content>> PROVE TailOf(reader.result, Seen, reader.n)'
  BY <1>1 DEF Seen, TailOf
<1>2. ASSUME NEW g \in Goroutines, OpenLog(g) PROVE TailOf(reader.result, Seen, reader.n)'
  <2>1. UNCHANGED reader /\ reader.fd \in Inodes
    BY <1>2 DEF OpenLog
  <2>2. content'[reader.fd] = content[reader.fd]
    BY <1>2, <2>1 DEF OpenLog, Unlinked
  <2> QED BY <2>1, <2>2 DEF Seen, TailOf
<1>3. ASSUME NEW g \in Goroutines, WriteLine(g) PROVE TailOf(reader.result, Seen, reader.n)'
  <2>1. UNCHANGED reader /\ reader.fd \in Inodes /\ reader.pos \in Nat /\ reader.pos <= last
    BY <1>3 DEF WriteLine, Reader
  <2>2. content' = [content EXCEPT ![frame[g].fd] = content[frame[g].fd] \cup {last + 1}]
    BY <1>3 DEF WriteLine
  <2>3. \A k : k \in content'[reader.fd] <=>
                 k \in content[reader.fd] \/ (reader.fd = frame[g].fd /\ k = last + 1)
    BY <2>1, <2>2
  <2>4. Seen' = Seen
    BY <2>1, <2>3 DEF Seen
  <2> QED BY <2>1, <2>4 DEF TailOf
<1>4. ASSUME NEW n \in Asked, ReadCall(n) PROVE TailOf(reader.result, Seen, reader.n)'
  <2>1. reader' = [fd |-> path[0], n |-> n, pos |-> 0, result |-> <<>>]
        /\ UNCHANGED content
    BY <1>4 DEF ReadCall, NoReader
  <2>a. path[0] \in Inodes
    BY <1>4 DEF ReadCall, Exists, Paths
  <2>2. content[path[0]] \in SUBSET (1..last)
    BY <2>a
  <2>3. Seen' = {}
    BY <2>1, <2>2 DEF Seen
  <2>4. WindowLength(n, 0) = 0
    BY DEF WindowLength
  <2> QED BY <2>1, <2>3, <2>4, FS_EmptySet DEF TailOf
<1>5. CASE ScanLine
  <2>1. PICK k \in Ahead :
          /\ \A l \in Ahead : k <= l
          /\ reader' = [reader EXCEPT !.pos = k, !.result = Slide(reader.result, k, reader.n)]
    BY <1>5 DEF ScanLine
  <2>2. /\ reader.fd \in Inodes /\ reader \in Reader /\ reader # NoReader
        /\ UNCHANGED content /\ content[reader.fd] \in SUBSET (1..last)
    BY <1>5 DEF ScanLine
  <2>3. /\ reader.result \in Seq(Nat) /\ reader.pos \in Nat /\ reader.n \in Int
        /\ k \in content[reader.fd] /\ k \in 1..last /\ k > reader.pos
    <3>0. reader.result \in Seq(Nat) /\ reader.pos \in Nat /\ reader.n \in Asked \cup {0}
      BY <2>2 DEF Reader
    <3>1. reader.result \in Seq(Nat) /\ reader.pos \in Nat /\ reader.n \in Int
      BY <3>0, AskedAreIntegers
    <3>2. k \in content[reader.fd] /\ k > reader.pos
      BY DEF Ahead
    <3> QED BY <2>2, <3>1, <3>2
  <2>4. /\ reader'.fd = reader.fd /\ reader'.n = reader.n /\ reader'.pos = k
        /\ reader'.result = Slide(reader.result, k, reader.n)
    BY <2>1, <2>2 DEF Reader
  <2>5. Seen' = Seen \cup {k}
    <3>1. ASSUME NEW l \in content[reader.fd] PROVE l <= k <=> l <= reader.pos \/ l = k
      <4>1. l \in Nat
        BY <2>2
      <4>2. l > reader.pos => k <= l
        BY <2>1 DEF Ahead
      <4> QED BY <2>3, <4>1, <4>2
    <3>2. Seen' = {l \in content[reader.fd] : l <= k}
      BY <2>2, <2>4 DEF Seen
    <3> QED BY <2>3, <3>1, <3>2 DEF Seen
  <2>6. Seen \in SUBSET Nat /\ IsFiniteSet(Seen) /\ \A l \in Seen : l < k
    <3>1. Seen \in SUBSET (1..last)
      BY <2>2 DEF Seen
    <3>2. IsFiniteSet(1..last)
      BY FS_Interval
    <3> QED BY <2>3, <3>1, <3>2, FS_Subset DEF Seen
  <2>7. TailOf(reader.result, Seen, reader.n)
    BY <2>2
  <2>8. k \in Nat
    BY <2>3
  <2>9. TailOf(Slide(reader.result, k, reader.n), Seen \cup {k}, reader.n)
    BY <2>3, <2>6, <2>7, <2>8, SlideKeepsTheTail
  <2> QED BY <2>4, <2>5, <2>9 DEF TailOf
<1>6. ~ReadReturn /\ ~Crash
  BY DEF ReadReturn, Crash
<1> QED
  BY <1>1, <1>2, <1>3, <1>4, <1>5, <1>6
  DEF Next, vars, PersistCall, Stat, RemoveOldest, Rename, RenameFails, RotateFails, PersistFails, ReadLog

(* For every n and every file, ReadLog's result is the tail of what it has *)
(* read, whatever the other calls do with the file and its names.          *)
THEOREM TheTailIsRead == Spec => []ReadsTheTail
<1> DEFINE Inv == LogInv /\ (reader # NoReader => TailOf(reader.result, Seen, reader.n))
<1>1. Init => Inv
  BY InitLog DEF Init
<1>2. Inv /\ [Next]_vars => Inv'
  BY LogStep, TailStep
<1>3. Inv => ReadsTheTail
  BY DEF ReadsTheTail, TailOf, Seen, WindowLength
<1> QED BY <1>1, <1>2, <1>3, PTL DEF Spec

=============================================================================
