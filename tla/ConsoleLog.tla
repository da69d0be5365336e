---------------------------- MODULE ConsoleLog -----------------------------
(***************************************************************************)
(* The console log of a VM in internal/console/manager.go: PersistLog,     *)
(* which appends to <vm>.log and rotates it through <vm>.log.0, .1, ...    *)
(* when it has grown too long, and ReadLog.  Neither takes a lock.  A      *)
(* line's timestamp and text are left out: line k is the k-th written.     *)
(* Its size is 1.  One call of ReadLog at a time is followed: readers      *)
(* change nothing that another call looks at.                              *)
(***************************************************************************)
EXTENDS Sizes, FiniteSets, Sequences, TLC

CONSTANTS
  Inodes,       (* of log files; one that no path or descriptor leads to   *)
                (* is reused                                               *)
  MaxLogFiles,  (* how many rotated files are kept; nobody checks it       *)
  Configured,   (* values of max_log_size, see Sizes                       *)
  DefaultSize,  (* 100 * 1024 * 1024, for a max_log_size that is not one   *)
  Goroutines,
  Asked,        (* how many lines ReadLog is asked for                     *)
  MaxLines,     (* bound of the instance: lines ever written               *)
  Faults,       (* "crash", and "rename": os.Remove and os.Rename may fail *)
  NoFile

ASSUME ConsoleLogAssumption ==
  /\ MaxLogFiles \in Int
  /\ \A c \in Configured : c.number \in Int /\ c.unit \in Units
  /\ DefaultSize \in Int
  /\ Asked \subseteq Int
  /\ MaxLines \in Nat
  /\ IsFiniteSet(Goroutines)
  /\ NoFile \notin Inodes

VARIABLES
  size,     (* the configured max_log_size                                 *)
  maxLogSize,
  path,     (* path[0] is <vm>.log, path[i + 1] is <vm>.log.<i>            *)
  content,  (* per inode, the lines in it                                  *)
  last,     (* the number of the line written last                         *)
  frame,    (* per goroutine: where it is in PersistLog                    *)
  raced,    (* history: a rotation overlapped another call of PersistLog   *)
  unmoved,  (* history: a rotated file could not be renamed                *)
  reader    (* the call of ReadLog                                         *)

vars == <<size, maxLogSize, path, content, last, frame, raced, unmoved, reader>>

(* The log itself is renamed to <vm>.log.0 whatever MaxLogFiles is.        *)
Oldest == IF MaxLogFiles < 1 THEN 1 ELSE MaxLogFiles

Paths == 0..Oldest

Frame == [pc: {"idle", "stat", "remove", "rename", "open", "write"},
          i: Paths, fd: Inodes \cup {NoFile}]

Idle == [pc |-> "idle", i |-> 0, fd |-> NoFile]

(* The scanner is behind line pos; result is ReadLog's.                    *)
Reader == [fd: Inodes \cup {NoFile}, n: Asked \cup {0}, pos: Nat, result: Seq(Nat)]

NoReader == [fd |-> NoFile, n |-> 0, pos |-> 0, result |-> <<>>]

(* Mutant: parseSize multiplies the kilobytes of an "M" only once.         *)
NewConsoleManagerShort(c) ==
  IF ParseFails(c) THEN DefaultSize
  ELSE Int64(IF c.unit = "M" THEN c.number * Kilo ELSE Exact(c))

(* NewConsoleManager: what cannot be parsed is the default.                *)
NewConsoleManager(c) == IF ParseFails(c) THEN DefaultSize ELSE ParseSize(c)

Init ==
  /\ size \in Configured
  /\ maxLogSize = NewConsoleManager(size)
  /\ path = [i \in Paths |-> NoFile]
  /\ content = [f \in Inodes |-> {}]
  /\ last = 0
  /\ frame = [g \in Goroutines |-> Idle]
  /\ raced = FALSE
  /\ unmoved = FALSE
  /\ reader = NoReader

At(g, l) == frame[g].pc = l

Goto(g, l) == frame' = [frame EXCEPT ![g].pc = l]

Return(g) == frame' = [frame EXCEPT ![g] = Idle]

Exists(i) == path[i] # NoFile

Lines(i) == IF Exists(i) THEN content[path[i]] ELSE {}

Size(i) == Cardinality(Lines(i))

----------------------------------------------------------------------------
(* PersistLog and rotateLog                                                *)

PersistCall(g) ==
  /\ At(g, "idle")
  /\ Goto(g, "stat")
  /\ UNCHANGED <<size, maxLogSize, path, content, last, raced, unmoved, reader>>

(* Mutant: the log is never rotated.                                       *)
StatNever(g) ==
  /\ At(g, "stat")
  /\ Goto(g, "open")
  /\ UNCHANGED <<size, maxLogSize, path, content, last, raced, unmoved, reader>>

Stat(g) ==
  /\ At(g, "stat")
  /\ Goto(g, IF Exists(0) /\ Size(0) > maxLogSize THEN "remove" ELSE "open")
  /\ UNCHANGED <<size, maxLogSize, path, content, last, raced, unmoved, reader>>

Races(g) == raced' = (raced \/ \E h \in Goroutines \ {g} : ~At(h, "idle"))

(* Mutant: the loop starts at maxLogFiles.                                 *)
RemoveOldestOff(g) ==
  /\ At(g, "remove")
  /\ path' = [path EXCEPT ![Oldest] = NoFile]
  /\ frame' = [frame EXCEPT ![g].pc = "rename", ![g].i = Oldest + 1]
  /\ Races(g)
  /\ UNCHANGED <<size, maxLogSize, content, last, unmoved, reader>>

(* os.Remove of the oldest; whether there is one or it fails is not looked *)
(* at.  If MaxLogFiles is no number of files, its name is nobody's.        *)
RemoveOldest(g) ==
  /\ At(g, "remove")
  /\ \/ path' = IF MaxLogFiles < 1 THEN path ELSE [path EXCEPT ![Oldest] = NoFile]
     \/ "rename" \in Faults /\ UNCHANGED path
  /\ frame' = [frame EXCEPT ![g].pc = "rename", ![g].i = Oldest - 1]
  /\ Races(g)
  /\ UNCHANGED <<size, maxLogSize, content, last, unmoved, reader>>

(* Mutant: the files are renamed in ascending order.                       *)
RenameAscending(g) ==
  LET i == frame[g].i
      j == Oldest - 1 - i IN
  /\ At(g, "rename")
  /\ path' = IF Exists(j) THEN [path EXCEPT ![j + 1] = path[j], ![j] = NoFile]
             ELSE path
  /\ frame' = [frame EXCEPT ![g] = IF i = 0 THEN [Idle EXCEPT !.pc = "open"]
                                   ELSE [@ EXCEPT !.i = i - 1]]
  /\ Races(g)
  /\ UNCHANGED <<size, maxLogSize, content, last, unmoved, reader>>

(* os.Rename replaces the new path, and fails if there is no old one: only *)
(* the last, of the log itself, is looked at, after an os.Stat.            *)
Rename(g) ==
  LET i == frame[g].i IN
  /\ At(g, "rename")
  /\ path' = IF Exists(i) THEN [path EXCEPT ![i + 1] = path[i], ![i] = NoFile]
             ELSE path
  /\ frame' = [frame EXCEPT ![g] = IF i = 0 THEN [Idle EXCEPT !.pc = "open"]
                                   ELSE [@ EXCEPT !.i = i - 1]]
  /\ Races(g)
  /\ UNCHANGED <<size, maxLogSize, content, last, unmoved, reader>>

(* A rotated file stays where it is, and the next one is renamed to it.    *)
RenameFails(g) ==
  LET i == frame[g].i IN
  /\ At(g, "rename")
  /\ i > 0
  /\ Exists(i)
  /\ "rename" \in Faults
  /\ frame' = [frame EXCEPT ![g].i = i - 1]
  /\ unmoved' = TRUE
  /\ Races(g)
  /\ UNCHANGED <<size, maxLogSize, path, content, last, reader>>

(* The outcome of the last rename is PersistLog's; it fails as well if the *)
(* log goes away after the os.Stat.                                        *)
RotateFails(g) ==
  /\ At(g, "rename")
  /\ frame[g].i = 0
  /\ Exists(0) => "rename" \in Faults
  /\ Return(g)
  /\ UNCHANGED <<size, maxLogSize, path, content, last, raced, unmoved, reader>>

Unlinked(f) ==
  /\ \A i \in Paths : path[i] # f
  /\ \A g \in Goroutines : frame[g].fd # f
  /\ reader.fd # f

(* O_APPEND | O_CREATE                                                     *)
OpenLog(g) ==
  /\ At(g, "open")
  /\ \/ /\ Exists(0)
        /\ frame' = [frame EXCEPT ![g] = [pc |-> "write", i |-> 0, fd |-> path[0]]]
        /\ UNCHANGED <<path, content>>
     \/ /\ ~Exists(0)
        /\ \E f \in Inodes :
             /\ Unlinked(f)
             /\ path' = [path EXCEPT ![0] = f]
             /\ content' = [content EXCEPT ![f] = {}]
             /\ frame' = [frame EXCEPT ![g] = [pc |-> "write", i |-> 0, fd |-> f]]
  /\ UNCHANGED <<size, maxLogSize, last, raced, unmoved, reader>>

(* Mutant: the file is opened without O_APPEND and with O_TRUNC.           *)
WriteTruncated(g) ==
  /\ At(g, "write")
  /\ last < MaxLines
  /\ last' = last + 1
  /\ content' = [content EXCEPT ![frame[g].fd] = {last + 1}]
  /\ Return(g)
  /\ UNCHANGED <<size, maxLogSize, path, raced, unmoved, reader>>

WriteLine(g) ==
  /\ At(g, "write")
  /\ last < MaxLines
  /\ last' = last + 1
  /\ content' = [content EXCEPT ![frame[g].fd] = @ \cup {last + 1}]
  /\ Return(g)
  /\ UNCHANGED <<size, maxLogSize, path, raced, unmoved, reader>>

(* The file cannot be opened or written.                                   *)
PersistFails(g) ==
  /\ frame[g].pc \in {"open", "write"}
  /\ Return(g)
  /\ UNCHANGED <<size, maxLogSize, path, content, last, raced, unmoved, reader>>

----------------------------------------------------------------------------
(* ReadLog: the last n lines of <vm>.log, by a window over all of it.      *)

(* The answer without a log is an empty one.                               *)
ReadCall(n) ==
  /\ reader = NoReader
  /\ Exists(0)
  /\ reader' = [NoReader EXCEPT !.fd = path[0], !.n = n]
  /\ UNCHANGED <<size, maxLogSize, path, content, last, frame, raced, unmoved>>

(* Mutant: the window is cut one line too early.                           *)
SlideShort(window, line, n) ==
  LET w == Append(window, line) IN IF Len(w) >= n THEN Tail(w) ELSE w

Slide(window, line, n) ==
  LET w == Append(window, line) IN IF Len(w) > n THEN Tail(w) ELSE w

Ahead == {k \in content[reader.fd] : k > reader.pos}

(* scanner.Scan, from wherever the file and its names are by now.          *)
ScanLine ==
  /\ reader # NoReader
  /\ \E k \in Ahead :
       /\ \A l \in Ahead : k <= l
       /\ reader' = [reader EXCEPT !.pos = k, !.result = Slide(@, k, reader.n)]
  /\ UNCHANGED <<size, maxLogSize, path, content, last, frame, raced, unmoved>>

(* At the end of the file, or when it cannot be read on.                   *)
ReadReturn ==
  /\ reader # NoReader
  /\ reader' = NoReader
  /\ UNCHANGED <<size, maxLogSize, path, content, last, frame, raced, unmoved>>

ReadLog == (\E n \in Asked : ReadCall(n)) \/ ScanLine \/ ReadReturn

----------------------------------------------------------------------------
(* The server stops, perhaps in the middle of a rotation.                  *)
Crash ==
  /\ "crash" \in Faults
  /\ frame' = [g \in Goroutines |-> Idle]
  /\ reader' = NoReader
  /\ UNCHANGED <<size, maxLogSize, path, content, last, raced, unmoved>>

Next ==
  \/ \E g \in Goroutines :
       \/ PersistCall(g) \/ Stat(g) \/ RemoveOldest(g)
       \/ Rename(g) \/ RenameFails(g) \/ RotateFails(g)
       \/ OpenLog(g) \/ WriteLine(g) \/ PersistFails(g)
  \/ ReadLog
  \/ Crash

Spec == Init /\ [][Next]_vars

----------------------------------------------------------------------------
(* Properties                                                              *)

TypeOK ==
  /\ size \in Configured
  /\ maxLogSize \in Int
  /\ path \in [Paths -> Inodes \cup {NoFile}]
  /\ content \in [Inodes -> SUBSET (1..last)]
  /\ last \in Nat
  /\ frame \in [Goroutines -> Frame]
  /\ raced \in BOOLEAN
  /\ unmoved \in BOOLEAN
  /\ reader \in Reader

Kept == UNION {Lines(i) : i \in Paths}

(* As long as no rotation has overlapped another call, the files hold      *)
(* older lines in files of higher number: no crash in a rotation, and no   *)
(* file it cannot remove or rename, puts lines out of order.  And they     *)
(* hold all of the lines from some line on, up to the last, unless a       *)
(* rotated file could not be renamed, which is overwritten where it is.    *)
KeepsTheNewest == ~raced =>
  /\ ~unmoved => \A k \in Kept : k..last \subseteq Kept
  /\ \A i, j \in Paths : i < j =>
       \A k \in Lines(i), l \in Lines(j) : l < k

(* What is forgotten is in the oldest file when it is, under the same two  *)
(* conditions: no rename of a rotation overwrites another file, also when  *)
(* the oldest could not be removed, and in a rotation that follows one a   *)
(* crash or a log that could not be renamed has cut short.                 *)
ForgetsTheOldest ==
  [][~raced' /\ ~unmoved' => Kept \ Kept' \subseteq Lines(Oldest)]_vars

(* A log does not outgrow its limit by more than a line per caller, also   *)
(* when several of them have looked at its size before they write.         *)
LogBounded ==
  Size(0) <= (IF maxLogSize < 0 THEN 0 ELSE maxLogSize) + Cardinality(Goroutines)

(* A log is rotated only when it holds more than what was configured, if   *)
(* that is a number the manager can hold; the overflow of one that is not  *)
(* goes unnoticed.                                                         *)
RotatedWhenFull ==
  [][\A g \in Goroutines :
       At(g, "stat") /\ frame'[g].pc = "remove" /\ size.numeric /\ Fits(size)
       => Size(0) > Exact(size)]_vars

(* What ReadLog has to answer is, at every line, the last n of those it    *)
(* has read, in order and without a gap, for every n; other calls may      *)
(* write to, rename and remove the file meanwhile.                         *)
ReadsTheTail == reader # NoReader =>
  LET seen == {k \in content[reader.fd] : k <= reader.pos}
      r == reader.result IN
  /\ Len(r) = IF reader.n < 0 THEN 0
               ELSE IF Cardinality(seen) < reader.n THEN Cardinality(seen) ELSE reader.n
  /\ \A a \in DOMAIN r : r[a] \in seen
  /\ \A a, b \in DOMAIN r : a < b => r[a] < r[b]
  /\ \A a \in DOMAIN r, k \in seen : k > r[a] => \E b \in DOMAIN r : r[b] = k

=============================================================================
