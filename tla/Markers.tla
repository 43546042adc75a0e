------------------------------ MODULE Markers ------------------------------
(***************************************************************************)
(* h5markers (src/h5markers.cpp): the file is cut into one chunk per       *)
(* worker thread, a worker reads its chunk block by block, each block with *)
(* an overlap that lets a marker run across its end, and the main thread   *)
(* joins the workers, stops the progress display, and prints the matches   *)
(* of all of them sorted, or the first error and no match.                 *)
(*                                                                         *)
(* A byte is a member of a small alphabet.  The file may be cut short by   *)
(* somebody else while it is read.  Bytes that are overwritten meanwhile,  *)
(* the marker groups and the printed form are left out.                    *)
(***************************************************************************)
EXTENDS Naturals, FiniteSetsExt, SequencesExt

CONSTANTS
  Contents,      \* bound: the files, sequences of bytes
  Bytes,         \* marker name, a natural, to its bytes
  BlockSize,     \* kScanBlockSize
  MinChunkSize,  \* kMinChunkSize
  MaxThreads     \* the largest number of threads asked for

ASSUME MarkersAssumption ==
  /\ {BlockSize, MinChunkSize, MaxThreads} \subseteq Nat \ {0}
  /\ Contents \subseteq Seq(Nat)
  /\ IsFiniteSet(DOMAIN Bytes) /\ DOMAIN Bytes # {}
  /\ \A m \in DOMAIN Bytes : m \in Nat /\ Bytes[m] \in Seq(Nat) /\ Bytes[m] # <<>>

VARIABLES
  content,     \* the file's bytes when it was opened
  size,        \* its size now
  requested,   \* --threads, or the hardware's
  main,        \* where the main thread stands
  at,          \* its loop index
  worker,      \* "none", "read", "failing" or "done" for each thread
  block,       \* start of the block a worker is on
  matches,     \* what each worker returned
  scanned,     \* bytes_scanned
  error,       \* worker_error: the thread whose error was kept, 0 for none
  progress,    \* "none", "sleep", "awake" or "done"
  stop,        \* scan_done
  output       \* the matches printed
markersVars == <<content, size, requested, main, at, worker, block, matches, scanned, error,
          progress, stop, output>>
workers == <<worker, block, matches, scanned>>
display == <<progress, stop>>

Min2(a, b) == IF a <= b THEN a ELSE b
Max2(a, b) == IF a >= b THEN a ELSE b
CeilDiv(a, b) == (a + b - 1) \div b

FileSize == Len(content)
Names == DOMAIN Bytes
Longest == Max({Len(Bytes[m]) : m \in Names})
(* Fault: one byte less than the longest marker needs. *)
OverlapShort == IF Longest > 1 THEN Longest - 2 ELSE 0

Overlap == Longest - 1

(* Offsets count from 0. *)
OccursAt(m, o) ==
  /\ o + Len(Bytes[m]) <= FileSize
  /\ SubSeq(content, o + 1, o + Len(Bytes[m])) = Bytes[m]
Occurrences == {x \in (0..FileSize) \X Names : OccursAt(x[2], x[1])}

ThreadCount ==
  IF FileSize = 0 THEN 1
  ELSE Max2(1, Min2(requested, Max2(1, CeilDiv(FileSize, MinChunkSize))))
Threads == 1..ThreadCount

ChunkSize == CeilDiv(FileSize, ThreadCount)
ChunkStart(t) == ChunkSize * (t - 1)
ChunkEnd(t) == Min2(FileSize, ChunkStart(t) + ChunkSize)

BlockEnd(t) == Min2(ChunkEnd(t), block[t] + BlockSize)
ReadEnd(t) == Min2(FileSize, BlockEnd(t) + Overlap)

(* The order of the printed list, and of any pairs of numbers. *)
Before(a, b) == a[1] < b[1] \/ (a[1] = b[1] /\ a[2] < b[2])

-----------------------------------------------------------------------------
MarkersInit ==
  /\ content \in Contents
  /\ size = Len(content)
  /\ requested \in 1..MaxThreads
  /\ main = "spawn" /\ at = 1
  /\ worker = [t \in Threads |-> "none"]
  /\ block = [t \in Threads |-> ChunkStart(t)]
  /\ matches = [t \in Threads |-> <<>>]
  /\ scanned = 0 /\ error = 0
  /\ progress = "none" /\ stop = FALSE
  /\ output = <<>>

Spawn ==
  /\ main = "spawn" /\ at <= ThreadCount
  /\ worker' = [worker EXCEPT ![at] = IF ChunkStart(at) >= ChunkEnd(at) THEN "done" ELSE "read"]
  /\ at' = at + 1
  /\ UNCHANGED <<content, size, requested, main, block, matches, scanned, error, display, output>>

(* A thread that cannot be started ends the program: the threads that run are
   destroyed unjoined. *)
SpawnFails ==
  /\ main = "spawn"
  /\ main' = "aborted"
  /\ UNCHANGED <<content, size, requested, at, workers, error, display, output>>

(* The display runs when standard error is a terminal and the file not empty. *)
SpawnProgress ==
  /\ main = "spawn" /\ at > ThreadCount
  /\ progress' \in {"none"} \cup (IF FileSize > 0 THEN {"sleep"} ELSE {})
  /\ main' = "join" /\ at' = 1
  /\ UNCHANGED <<content, size, requested, workers, error, stop, output>>

(* pread_all stops short: a read error, or nothing left where more was expected. *)
ReadFails(t) ==
  /\ worker[t] = "read"
  /\ worker' = [worker EXCEPT ![t] = "failing"]
  /\ UNCHANGED <<content, size, requested, main, at, block, matches, scanned, error, display,
                 output>>

KeepFirst(t) == IF error = 0 THEN t ELSE error
RecordError(t) ==
  /\ worker[t] = "failing"
  /\ error' = KeepFirst(t)
  /\ worker' = [worker EXCEPT ![t] = "done"]
  /\ UNCHANGED <<content, size, requested, main, at, block, matches, scanned, display, output>>

(* The markers that start in the bytes this block owns and end in the buffer. *)
InBlock(t) ==
  {x \in (block[t]..(BlockEnd(t) - 1)) \X Names :
     x[1] + Len(Bytes[x[2]]) <= ReadEnd(t) /\ OccursAt(x[2], x[1])}
(* Every byte that is wanted is there, however many preads it takes, and the
   block is searched; the order of a block's matches is left open. *)
ScanBlock(t) ==
  /\ worker[t] = "read" /\ ReadEnd(t) <= size
  /\ block' = [block EXCEPT ![t] = @ + BlockSize]
  /\ scanned' = scanned + BlockEnd(t) - block[t]
  /\ worker' = [worker EXCEPT ![t] = IF block'[t] < ChunkEnd(t) THEN "read" ELSE "done"]
  /\ matches' = [matches EXCEPT ![t] = @ \o SetToSeq(InBlock(t))]
  /\ UNCHANGED <<content, size, requested, main, at, error, display, output>>

(* Fault: the loop waits for the first thread only. *)
JoinFirst ==
  /\ main = "join" /\ at <= ThreadCount
  /\ at = 1 => worker[at] = "done"
  /\ at' = at + 1
  /\ UNCHANGED <<content, size, requested, main, workers, error, display, output>>

Join ==
  /\ main = "join" /\ at <= ThreadCount
  /\ worker[at] = "done"
  /\ at' = at + 1
  /\ UNCHANGED <<content, size, requested, main, workers, error, display, output>>

(* Fault: the flag is never set. *)
StopProgressForgotten ==
  /\ main = "join" /\ at > ThreadCount
  /\ main' = "joinProgress"
  /\ UNCHANGED <<content, size, requested, at, workers, error, display, output>>

StopProgress ==
  /\ main = "join" /\ at > ThreadCount
  /\ stop' = TRUE
  /\ main' = "joinProgress"
  /\ UNCHANGED <<content, size, requested, at, workers, error, progress, output>>

(* The matches of all threads, sorted: the place of one is behind those before it. *)
Entries == UNION {{t} \X DOMAIN matches[t] : t \in Threads}
Entry(e) == matches[e[1]][e[2]]
Earlier(d, e) ==
  Before(Entry(d), Entry(e)) \/ (Entry(d) = Entry(e) /\ Before(d, e))
Place(e) == Cardinality({d \in Entries : Earlier(d, e)}) + 1
Collected ==
  [k \in 1..Cardinality(Entries) |-> Entry(CHOOSE e \in Entries : Place(e) = k)]
Report ==
  /\ main = "joinProgress" /\ progress \in {"none", "done"}
  /\ IF error # 0 THEN main' = "failed" /\ UNCHANGED output
     ELSE main' = "printed" /\ output' = Collected
  /\ UNCHANGED <<content, size, requested, at, workers, error, display>>

(* The progress thread: half a second asleep, then a look at the flag. *)
Wake ==
  /\ progress = "sleep"
  /\ progress' = IF stop THEN "done" ELSE "awake"
  /\ UNCHANGED <<content, size, requested, main, at, workers, error, stop, output>>
Show ==
  /\ progress = "awake"
  /\ progress' = IF stop THEN "done" ELSE "sleep"
  /\ UNCHANGED <<content, size, requested, main, at, workers, error, stop, output>>

(* Somebody else cuts the file short, once, by a byte or altogether. *)
Truncate ==
  /\ size = FileSize /\ size > 0
  /\ size' \in {0, size - 1}
  /\ UNCHANGED <<content, requested, main, at, workers, error, display, output>>

Over == main \in {"printed", "failed", "aborted"}
MainStep == Spawn \/ SpawnProgress \/ Join \/ StopProgress \/ Report
WorkerStep(t) == ScanBlock(t) \/ ReadFails(t) \/ RecordError(t)
ProgressStep == Wake \/ Show
MarkersNext ==
  \/ ~Over /\ (MainStep \/ SpawnFails \/ ProgressStep \/ Truncate \/ \E t \in Threads : WorkerStep(t))
  \/ Over /\ UNCHANGED markersVars

(* The operating system runs every thread that can run. *)
Fairness ==
  /\ WF_markersVars(~Over /\ MainStep)
  /\ WF_markersVars(~Over /\ ProgressStep)
  /\ \A t \in 1..MaxThreads : WF_markersVars(~Over /\ t \in Threads /\ WorkerStep(t))
MarkersSpec == MarkersInit /\ [][MarkersNext]_markersVars
FairSpec == MarkersSpec /\ Fairness

-----------------------------------------------------------------------------
MarkersTypeOK ==
  /\ content \in Seq(Nat) /\ size \in 0..FileSize /\ requested \in 1..MaxThreads
  /\ main \in {"spawn", "join", "joinProgress", "printed", "failed", "aborted"}
  /\ at \in 1..(ThreadCount + 1)
  /\ worker \in [Threads -> {"none", "read", "failing", "done"}]
  /\ block \in [Threads -> Nat] /\ matches \in [Threads -> Seq((0..FileSize) \X Names)]
  /\ scanned \in Nat /\ error \in 0..ThreadCount
  /\ progress \in {"none", "sleep", "awake", "done"} /\ stop \in BOOLEAN

(* The main thread leaves the scope that the threads write into only when none
   of them runs. *)
NobodyOutlivesMain ==
  main \in {"printed", "failed"} =>
    (\A t \in Threads : worker[t] = "done") /\ progress \in {"none", "done"}

(* The threads together are one search: no offset is examined twice or left
   out, a failed read of any thread withholds the answer, and what is printed
   is every occurrence once, in order, however the file was cut into chunks and
   blocks and whatever the order of the threads. *)
Examined == UNION {ChunkStart(t)..(Min2(block[t], ChunkEnd(t)) - 1) : t \in Threads}
Searching == INSTANCE Search WITH
  offsets <- 0..(FileSize - 1), occurrences <- Occurrences,
  examined <- Examined, found <- UNION {ToSet(matches[t]) : t \in Threads},
  outcome <- CASE main = "printed" -> "answered"
               [] main \in {"failed", "aborted"} -> "failed"
               [] OTHER -> "pending",
  answer <- output
ImplementsSearch == Searching!Spec

(* Every search ends, whichever thread fails and however long the display
   sleeps. *)
SearchEnds == <>Over
=============================================================================
