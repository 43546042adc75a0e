----------------------------- MODULE WalkProofs -----------------------------
(***************************************************************************)
(* Theorems about Walk, for any headers, depth limits, options and length  *)
(* of a cache image.  The queue is argued about first and on its own: that *)
(* it is breadth-first needs to know what a link did not enqueue.  What an *)
(* accepting report vouches for then follows from what each phase has      *)
(* established so far, given that it has not raised a rejection.           *)
(***************************************************************************)
EXTENDS Walk, SequenceTheorems, TLAPS

-----------------------------------------------------------------------------
(* The invariants.                                                         *)

\* What is said of the walk at each stage of an analysis.
StatusInv ==
  /\ pc \in {"superblock", "graph"} => ~started /\ ~completed /\ stopReason = "not_started"
  /\ pc = "seeding" => started /\ ~completed /\ stopReason = "walking"
  /\ pc \in {"walking", "header"} =>
       started /\ ~completed /\ stopReason \in {"walking", "cache_image_coverage_gap"}
  /\ pc \in {"sweep", "ratio", "done"} =>
       (completed <=> stopReason = "") /\ stopReason \notin {"not_started", "walking"}
  /\ pc \in {"idle", "done"} => ~replayMode

\* The entries of the queue that are behind the walk; that of an open header is not.
Behind == IF pc = "header" THEN 1..(pendingIndex - 1) ELSE 1..pendingIndex

\* No entry is deeper than a link of the current header would be.
Horizon == IF pendingIndex = 0 THEN 0 ELSE Current.depth + 1

\* A link that is not in the queue was refused because it leads too deep.
RefusedTooDeep ==
  \A e \in edges : \/ e[2] \in Queued
                   \/ \A i \in 1..Len(pending) :
                        pending[i].addr = e[1] => pending[i].depth >= options.depth

QueueInv ==
  /\ DepthIsDistance
  /\ visited \subseteq Queued
  /\ pc \in {"superblock", "graph"} => pending = <<>>
  /\ pc \in {"superblock", "graph", "seeding"} =>
       pendingIndex = 0 /\ edges = {} /\ validated = {}
  /\ \A e \in edges : \E i \in 1..pendingIndex : pending[i].addr = e[1]
  /\ \A i \in 1..Len(pending) : pending[i].depth <= Horizon
  /\ RefusedTooDeep
  /\ \A v \in validated : \E i \in Behind : pending[i].addr = v
  /\ pc = "seeding" =>
       \A i \in 1..Len(seeds) :
         seeds[i].ohdr => seeds[i].addr \in {file.root, file.ext} \cup BodyAddrs

\* A cache image found in the first pass leaves a boundary, and without a
\* rejection the bodies that make a second pass necessary.
ImageInv ==
  /\ pc \notin {"idle", "done"} => (replayed <=> replayMode)
  /\ ~replayed /\ imageRead => boundary
  /\ ~replayed /\ pc \in {"superblock", "graph", "seeding"} => ~imageRead
  /\ boundary => ~replayed
  /\ boundary /\ Accepts(decision) => replayReady /\ bodies # <<>>

HeaderBodies == {i \in 1..Len(bodies) : bodies[i].ohdr}

\* Where the walk of this pass starts.
Starts ==
  {file.root} \cup (Objects \cap {file.ext})
    \cup (IF replayed THEN {bodies[i].addr : i \in HeaderBodies} ELSE {})

Waiting(addr) == \E i \in 1..Len(seeds) : seeds[i] = Header(addr)

\* What an accepting report vouches for.
Vetted ==
  /\ started /\ completed
  /\ Root \in validated
  /\ file.ext \in Objects => file.ext \in validated
  /\ \A e \in edges : e[2] \in validated
  /\ replayed => \A i \in 1..Len(bodies) : bodies[i].ohdr => bodies[i].addr \in validated
  /\ imageRead => replayed /\ BodyAddrs \subseteq reached

Walks == {"graph", "seeding", "walking", "header"}

RootKnown == pc \in Walks /\ Accepts(decision) => file.root = Root
StartsWaiting == pc = "seeding" => \A a \in Starts : Waiting(a) \/ a \in Queued
StartsQueued == pc \in {"walking", "header"} => Starts \subseteq Queued
LinksQueued == Accepts(decision) => \A e \in edges : e[2] \in Queued
BehindVetted == Accepts(decision) /\ ~boundary => \A i \in Behind : pending[i].addr \in validated
ReportVetted ==
  pc \in {"sweep", "ratio", "done"} /\ Accepts(decision) => Vetted \/ (pc # "done" /\ boundary)

VettedInv ==
  RootKnown /\ StartsWaiting /\ StartsQueued /\ LinksQueued /\ BehindVetted /\ ReportVetted

\* Something of the file names the extension as an object of its own.
Aliased == file.root = file.ext \/ (replayed /\ \E i \in HeaderBodies : bodies[i].addr = file.ext)

ExtRecorded == pc \in {"seeding", "walking", "header"} => extAddr = file.ext
ExtFirst == pc = "seeding" /\ pending = <<>> => seeds = Seeds
AliasWaits == pc = "seeding" /\ pending # <<>> /\ Accepts(decision) /\ Aliased => Waiting(file.ext)
ExtQueued ==
  (pc = "seeding" /\ pending # <<>>) \/ pc \in {"walking", "header"} => file.ext \in Queued
NoAlias ==
  pc \in {"walking", "header", "sweep", "ratio", "done"} /\ started /\ Accepts(decision) => ~Aliased
NoLink == Accepts(decision) => \A e \in edges : e[2] # file.ext

\* The extension is recorded and queued before anything can name it again, and
\* what names it again is a rejection.
PrivateInv ==
  file.ext \in Objects =>
    ExtRecorded /\ ExtFirst /\ AliasWaits /\ ExtQueued /\ NoAlias /\ NoLink

-----------------------------------------------------------------------------
(* What the operators do.                                                  *)

Decisions == Classes \cup {"accept"}

\* Raising never hides a rejection.
LEMMA RaiseKeeps ==
  ASSUME NEW d \in Decisions, NEW k \in Decisions
  PROVE  /\ Raise(d, k) \in Decisions
         /\ Accepts(Raise(d, k)) <=> Accepts(d) /\ Accepts(k)
  BY DEF Decisions, Classes, Raise, ClassRank, Accepts

Terminal ==
  {"operation_budget", "time_budget", "mapping_failed", "internal_error"}

\* Every exception is a rejection and gives a reason.
LEMMA FailureRejects ==
  ASSUME NEW c \in Causes
  PROVE  /\ Failure(c).klass \in Classes /\ ~Accepts(Failure(c).klass)
         /\ Failure(c).stop \in Terminal
  BY BoundAssumption DEF Failure, Classes, Accepts, Terminal

LEMMA FilesKnown ==
  ASSUME TypeOK
  PROVE  /\ file.root \in {Root, PastEof, Outside}
         /\ file.ext \in {Ext, Root, PastEof, Outside, NoAddr}
         /\ options.depth \in Nat
         /\ file.root \in Addresses
         /\ file.ext \in Objects => file.ext \in Addresses
         /\ file.root \in Objects => file.root = Root
  BY FileAssumption, AddressAssumption DEF TypeOK, Addresses

LEMMA EntriesTyped ==
  ASSUME NEW s \in Entries
  PROVE  s \in Seq(Body)
  <1>1. PICK n \in 0..MaxBodies : s \in [1..n -> [addr : Objects \cup {Outside}, ohdr : BOOLEAN]]
    BY DEF Entries
  <1>2. n \in Nat
    BY BoundAssumption
  <1>3. s \in [1..n -> Body]
    BY <1>1 DEF Body
  <1> QED
    BY <1>2, <1>3, SeqDef

\* A sequence is over any set that holds its members.
LEMMA SeqOver ==
  ASSUME NEW S, NEW T, NEW s \in Seq(S), \A i \in 1..Len(s) : s[i] \in T
  PROVE  s \in Seq(T)
  <1>1. Len(s) \in Nat /\ s \in [1..Len(s) -> S]
    OBVIOUS
  <1>2. s \in [1..Len(s) -> T]
    BY <1>1
  <1> QED
    BY <1>1, <1>2, SeqDef

LEMMA SeedsTyped ==
  ASSUME TypeOK
  PROVE  Seeds \in Seq(Start)
  <1>1. Header(file.root) \in Start /\ (file.ext \in Objects => Header(file.ext) \in Start)
    BY FilesKnown DEF Header, Start
  <1>2. bodies \in Seq(Start)
    <2>1. bodies \in Seq(Body) /\ \A i \in 1..Len(bodies) : bodies[i] \in Body
      BY DEF TypeOK
    <2>2. Body \subseteq Start
      BY DEF Body, Start, Addresses
    <2> QED
      BY <2>1, <2>2, SeqOver
  <1>3. <<Header(file.root)>> \in Seq(Start) /\ (file.ext \in Objects => <<Header(file.ext)>> \in Seq(Start))
    BY <1>1
  <1>4. <<>> \in Seq(Start)
    OBVIOUS
  <1> QED
    BY <1>2, <1>3, <1>4 DEF Seeds

\* The three outcomes of h5policy_enqueue_ohdr.
TooDeep(addr, depth) ==
  depth > options.depth /\ pending' = pending /\ ~Accepts(decision')
Known(addr, depth) ==
  /\ depth <= options.depth /\ pending' = pending /\ addr \in visited \cup Queued
  /\ addr = extAddr => ~Accepts(decision')
Added(addr, depth) ==
  /\ depth <= options.depth /\ addr \notin visited \cup Queued
  /\ pending' = Append(pending, [addr |-> addr, depth |-> depth])

LEMMA EnqueueCases ==
  ASSUME TypeOK, NEW addr \in Addresses, NEW depth \in Nat, Enqueue(addr, depth)
  PROVE  /\ decision' \in Decisions /\ (Accepts(decision') => Accepts(decision))
         /\ TooDeep(addr, depth) \/ Known(addr, depth) \/ Added(addr, depth)
  <1>1. decision \in Decisions /\ {"resource", "corrupt"} \subseteq Decisions
        /\ ~Accepts("resource") /\ ~Accepts("corrupt")
    BY DEF TypeOK, Decisions, Classes, Accepts
  <1>2. options.depth \in Nat
    BY FilesKnown
  <1>3. CASE depth > options.depth
    BY <1>1, <1>3, RaiseKeeps DEF Enqueue, TooDeep
  <1>4. CASE ~(depth > options.depth) /\ addr \in visited \cup Queued
    BY <1>1, <1>2, <1>4, RaiseKeeps DEF Enqueue, Known
  <1>5. CASE ~(depth > options.depth) /\ addr \notin visited \cup Queued
    BY <1>1, <1>2, <1>5 DEF Enqueue, Added
  <1> QED
    BY <1>3, <1>4, <1>5

\* An added header comes last, and the others stay where they are.
LEMMA AddedLast ==
  ASSUME TypeOK, NEW addr \in Addresses, NEW depth \in Nat, Added(addr, depth)
  PROVE  /\ pending' \in Seq(QueueEntry)
         /\ Len(pending') = Len(pending) + 1
         /\ \A i \in 1..Len(pending) : pending'[i] = pending[i]
         /\ pending'[Len(pending) + 1] = [addr |-> addr, depth |-> depth]
         /\ Queued' = Queued \cup {addr}
  <1>1. [addr |-> addr, depth |-> depth] \in QueueEntry
    BY FilesKnown DEF Added, QueueEntry
  <1>2. /\ pending' \in Seq(QueueEntry)
        /\ Len(pending') = Len(pending) + 1
        /\ \A i \in 1..Len(pending) : pending'[i] = pending[i]
        /\ pending'[Len(pending) + 1] = [addr |-> addr, depth |-> depth]
    BY <1>1 DEF TypeOK, Added
  <1>3. Len(pending) \in Nat
    BY DEF TypeOK
  <1> HIDE DEF Added
  <1>4. \A a : a \in Queued' <=> a \in Queued \/ a = addr
    BY <1>2, <1>3 DEF Queued
  <1> QED
    BY <1>2, <1>4

-----------------------------------------------------------------------------
(* Types.                                                                  *)

LEMMA TypeInit == Init => TypeOK
  <1> SUFFICES ASSUME Init PROVE TypeOK
    OBVIOUS
  <1>1. Flags
    BY DEF Init, Flags
  <1> QED
    BY <1>1 DEF Init, TypeOK, StopReasons

LEMMA TypeReset ==
  ASSUME TypeOK, ResetAnalysis, options' \in Options, file' \in Files,
         bodies' \in Seq(Body), Flags'
  PROVE  TypeOK'
  <1>1. stopReason' \in StopReasons
    BY DEF ResetAnalysis, StopReasons
  <1> QED
    BY <1>1 DEF ResetAnalysis, ResetTraversal, TypeOK

\* The depths of the queue are bounded by the limit of the analysis.
LEMMA SameEntries ==
  ASSUME UNCHANGED options
  PROVE  QueueEntry' = QueueEntry
  BY DEF QueueEntry

LEMMA TypeBeforeWalk ==
  ASSUME TypeOK
  PROVE  /\ InvalidProfile => TypeOK'
         /\ SignatureMissing => TypeOK'
         /\ PreflightFails => TypeOK'
         /\ (\E k \in Faults \cup {"accept"} : ValidateSuperblock(k)) => TypeOK'
         /\ SkipWalk => TypeOK'
         /\ EnterWalk => TypeOK'
  <1>1. decision \in Decisions /\ {"internal", "corrupt", "unsupported", "accept"} \subseteq Decisions
        /\ Faults \subseteq Decisions
    BY BoundAssumption DEF TypeOK, Decisions, Classes
  <1>2. options.continue \in BOOLEAN
    BY FileAssumption DEF TypeOK
  <1>3. ASSUME InvalidProfile PROVE TypeOK'
    <2>1. decision' \in Decisions
      BY <1>1, <1>3, RaiseKeeps DEF InvalidProfile
    <2>2. Flags'
      BY <1>3 DEF InvalidProfile, TypeOK, Flags, image, trace
    <2> QED
      BY <1>3, <2>1, <2>2, SameEntries
      DEF InvalidProfile, TypeOK, StopReasons, Decisions, image, queue, trace
  <1>4. ASSUME SignatureMissing PROVE TypeOK'
    <2>1. decision' \in Decisions
      BY <1>1, <1>4, RaiseKeeps DEF SignatureMissing
    <2>2. Flags'
      BY <1>2, <1>4 DEF SignatureMissing, TypeOK, Flags, image, trace
    <2> QED
      BY <1>4, <2>1, <2>2, SameEntries
      DEF SignatureMissing, TypeOK, StopReasons, Decisions, image, queue, trace
  <1>5. ASSUME PreflightFails PROVE TypeOK'
    <2>1. decision' \in Decisions
      BY <1>1, <1>5, RaiseKeeps DEF PreflightFails
    <2>2. Flags'
      BY <1>5 DEF PreflightFails, TypeOK, Flags, image, trace
    <2> QED
      BY <1>5, <2>1, <2>2, SameEntries
      DEF PreflightFails, TypeOK, StopReasons, Decisions, image, queue, trace
  <1>6. ASSUME NEW k \in Faults \cup {"accept"}, ValidateSuperblock(k) PROVE TypeOK'
    <2> DEFINE bad == IF file.root \notin Objects \/ file.ext = Outside THEN "corrupt" ELSE "accept"
    <2>1. bad \in Decisions /\ k \in Decisions
      BY <1>1
    <2>2. Raise(decision, k) \in Decisions
      BY <1>1, <2>1, RaiseKeeps
    <2>3. decision' = Raise(Raise(decision, k), bad)
      BY <1>6 DEF ValidateSuperblock
    <2> HIDE DEF bad
    <2>4. decision' \in Decisions
      BY <2>1, <2>2, <2>3, RaiseKeeps
    <2>5. Flags'
      BY <1>6 DEF ValidateSuperblock, TypeOK, Flags, status, image, trace
    <2> QED
      BY <1>6, <2>4, <2>5, SameEntries
      DEF ValidateSuperblock, TypeOK, Decisions, status, image, queue, trace
  <1>7. ASSUME SkipWalk PROVE TypeOK'
    <2>1. Flags'
      BY <1>7 DEF SkipWalk, TypeOK, Flags, StopOnRejection, Accepts, image, trace
    <2> QED
      BY <1>7, <2>1, SameEntries
      DEF SkipWalk, TypeOK, StopReasons, image, queue, trace
  <1>8. ASSUME EnterWalk PROVE TypeOK'
    <2>1. Flags'
      BY <1>8 DEF EnterWalk, TypeOK, Flags, trace
    <2>2. stopReason' \in StopReasons
      BY <1>8 DEF EnterWalk, StopReasons
    <2> QED
      BY <1>8, <2>1, <2>2, SeedsTyped, SameEntries
      DEF EnterWalk, ResetTraversal, TypeOK, trace
  <1> QED
    BY <1>3, <1>4, <1>5, <1>6, <1>7, <1>8

\* An enqueued address is one of the file and its depth within the limit.
LEMMA TypeEnqueue ==
  ASSUME TypeOK, NEW addr \in Addresses, NEW depth \in Nat, Enqueue(addr, depth)
  PROVE  pending' \in Seq(QueueEntry) /\ decision' \in Decisions /\ Len(pending') >= Len(pending)
  <1>0. Len(pending) \in Nat
    BY DEF TypeOK
  <1>1. CASE Added(addr, depth)
    <2>1. pending' \in Seq(QueueEntry) /\ Len(pending') = Len(pending) + 1
      BY <1>1, AddedLast
    <2>2. decision' \in Decisions
      BY EnqueueCases
    <2> QED
      BY <1>0, <2>1, <2>2
  <1>2. CASE pending' = pending
    BY <1>0, <1>2, EnqueueCases DEF TypeOK
  <1> QED
    BY <1>1, <1>2, EnqueueCases DEF TooDeep, Known

\* What most steps of the walk leave alone.
LEMMA FlagsKept ==
  ASSUME TypeOK, UNCHANGED <<started, completed, image, replayMode, imageRead, replayed>>
  PROVE  Flags'
  BY DEF TypeOK, Flags, image

LEMMA TypeWalk ==
  ASSUME TypeOK
  PROVE  /\ EnqueueSeed => TypeOK'
         /\ Seeded => TypeOK'
         /\ StopAtRejection => TypeOK'
         /\ RefuseHeader => TypeOK'
         /\ SkipShadowed => TypeOK'
         /\ BeginHeader => TypeOK'
  <1>1. decision \in Decisions /\ {"resource", "corrupt"} \subseteq Decisions
    BY DEF TypeOK, Decisions, Classes
  <1>2. ASSUME Dequeue
        PROVE  /\ pendingIndex' \in 1..Len(pending)
               /\ pending[pendingIndex'] \in QueueEntry
               /\ pending[pendingIndex'].addr \in Addresses
    <2>1. pendingIndex' \in 1..Len(pending)
      BY <1>2 DEF Dequeue, TypeOK
    <2>2. pending[pendingIndex'] \in QueueEntry
      BY <2>1 DEF TypeOK
    <2> QED
      BY <2>1, <2>2 DEF QueueEntry
  <1>3. ASSUME EnqueueSeed PROVE TypeOK'
    <2>1. seeds # <<>> /\ seeds' = Tail(seeds)
      BY <1>3 DEF EnqueueSeed
    <2>2. Head(seeds) \in Start /\ seeds' \in Seq(Start)
      BY <2>1 DEF TypeOK
    <2>3. Head(seeds).addr \in Addresses
      BY <2>2 DEF Start
    <2>4. pending' \in Seq(QueueEntry) /\ decision' \in Decisions /\ Len(pending') >= Len(pending)
      <3>1. CASE Head(seeds).ohdr
        BY <1>3, <2>3, <3>1, TypeEnqueue DEF EnqueueSeed
      <3>2. CASE ~Head(seeds).ohdr
        BY <1>1, <1>3, <3>2 DEF EnqueueSeed, TypeOK
      <3> QED
        BY <3>1, <3>2
    <2>5. Flags'
      BY <1>3, FlagsKept DEF EnqueueSeed, status, trace
    <2> QED
      BY <1>3, <2>2, <2>4, <2>5, SameEntries
      DEF EnqueueSeed, TypeOK, Decisions, status, image, trace
  <1>4. ASSUME Seeded PROVE TypeOK'
    <2>1. Flags'
      BY <1>4, FlagsKept DEF Seeded, status, trace
    <2> QED
      BY <1>4, <2>1, SameEntries DEF Seeded, TypeOK, status, image, queue, trace
  <1>5. ASSUME StopAtRejection PROVE TypeOK'
    <2>1. Flags'
      BY <1>5, FlagsKept DEF StopAtRejection, trace
    <2>2. stopReason' \in StopReasons
      BY <1>5 DEF StopAtRejection, StopReasons
    <2> QED
      BY <1>2, <1>5, <2>1, <2>2, SameEntries
      DEF StopAtRejection, Dequeue, TypeOK, image, trace
  <1>6. ASSUME RefuseHeader PROVE TypeOK'
    <2>1. decision' \in Decisions
      BY <1>1, <1>6, RaiseKeeps DEF RefuseHeader
    <2>2. Flags'
      BY <1>6, FlagsKept DEF RefuseHeader, status, trace
    <2> QED
      BY <1>2, <1>6, <2>1, <2>2, SameEntries
      DEF RefuseHeader, Visit, Dequeue, TypeOK, Decisions, status, image, trace
  <1>7. ASSUME SkipShadowed PROVE TypeOK'
    <2>1. Flags'
      BY <1>7, FlagsKept DEF SkipShadowed, trace
    <2>2. stopReason' \in StopReasons
      BY <1>7 DEF SkipShadowed, StopReasons
    <2> QED
      BY <1>2, <1>7, <2>1, <2>2, SameEntries
      DEF SkipShadowed, Visit, Dequeue, TypeOK, image, trace
  <1>8. ASSUME BeginHeader PROVE TypeOK'
    <2>1. Flags'
      BY <1>8, FlagsKept DEF BeginHeader, status, trace
    <2>2. pendingIndex' > 0 /\ Current'.addr \in Objects
      BY <1>2, <1>8 DEF BeginHeader, Visit, Dequeue, Unreadable, Current
    <2> QED
      BY <1>2, <1>8, <2>1, <2>2, SameEntries
      DEF BeginHeader, Visit, Dequeue, TypeOK, status, image, trace
  <1> QED
    BY <1>3, <1>4, <1>5, <1>6, <1>7, <1>8

LEMMA TypeHeader ==
  ASSUME TypeOK
  PROVE  /\ (\E k \in Faults : Finding(k)) => TypeOK'
         /\ (\E t \in Objects \cup {Outside} : Link(t)) => TypeOK'
         /\ (\E s \in Entries, v \in BOOLEAN : ReadCacheImage(s, v)) => TypeOK'
         /\ (\E a \in ClientAddrs : ReachBody(a)) => TypeOK'
         /\ EndHeader => TypeOK'
  <1>1. decision \in Decisions /\ "corrupt" \in Decisions /\ Faults \subseteq Decisions
    BY BoundAssumption DEF TypeOK, Decisions, Classes
  <1>2. ASSUME NEW k \in Faults, Finding(k) PROVE TypeOK'
    <2>1. decision' \in Decisions
      BY <1>1, <1>2, RaiseKeeps DEF Finding
    <2>2. Flags'
      BY <1>2, FlagsKept DEF Finding, status, trace
    <2>3. Current' = Current
      BY <1>2 DEF Finding, queue, Current
    <2> QED
      BY <1>2, <2>1, <2>2, <2>3, SameEntries
      DEF Finding, TypeOK, Decisions, status, image, queue, trace
  <1>3. ASSUME pc = "header"
        PROVE  /\ Current \in QueueEntry /\ Current.addr \in Objects /\ Current.depth \in Nat
               /\ pendingIndex \in 1..Len(pending)
    <2>1. pendingIndex \in 1..Len(pending) /\ Current.addr \in Objects
      BY <1>3 DEF TypeOK
    <2>2. Current \in QueueEntry
      BY <2>1 DEF Current, TypeOK
    <2>3. options.depth \in Nat
      BY FilesKnown
    <2> QED
      BY <2>1, <2>2, <2>3 DEF QueueEntry
  <1>4. ASSUME NEW t \in Objects \cup {Outside}, Link(t)
        PROVE  TypeOK'
    <2>0. pc = "header" /\ UNCHANGED <<pc, pendingIndex>>
      BY <1>4 DEF Link
    <2>1. Flags'
      BY <1>4, FlagsKept DEF Link, status
    <2>2. CASE t \in Objects
      <3>1. Enqueue(t, Current.depth + 1) /\ t \in Addresses /\ Current.depth + 1 \in Nat
        BY <1>3, <1>4, <2>0, <2>2 DEF Link, Addresses
      <3>2. pending' \in Seq(QueueEntry) /\ decision' \in Decisions /\ Len(pending') >= Len(pending)
        BY <3>1, TypeEnqueue
      <3>3. Current' = Current
        <4>1. pending'[pendingIndex] = pending[pendingIndex]
          BY <1>3, <2>0, <3>1, EnqueueCases, AddedLast DEF TooDeep, Known
        <4> QED
          BY <2>0, <4>1 DEF Current
      <3>4. edges' = edges \cup {<<Current.addr, t>>}
        BY <1>4, <2>2 DEF Link
      <3>5. edges' \subseteq Objects \X Objects
        BY <1>3, <2>0, <2>2, <3>4 DEF TypeOK
      <3> QED
        BY <1>3, <1>4, <2>0, <2>1, <3>2, <3>3, <3>5, SameEntries
        DEF Link, TypeOK, Decisions, status, image
    <2>3. CASE t \notin Objects
      <3>1. decision' \in Decisions /\ UNCHANGED <<pending, edges>>
        BY <1>1, <1>4, <2>3, RaiseKeeps DEF Link
      <3>2. Current' = Current
        BY <2>0, <3>1 DEF Current
      <3> QED
        BY <1>3, <1>4, <2>0, <2>1, <3>1, <3>2, SameEntries
        DEF Link, TypeOK, Decisions, status, image
    <2> QED
      BY <2>2, <2>3
  <1>5. ASSUME NEW s \in Entries, NEW v \in BOOLEAN, ReadCacheImage(s, v) PROVE TypeOK'
    <2>1. bodies' \in Seq(Body) /\ UNCHANGED <<queue, pc, options, file, stopReason, seeds, reached,
                                               found, edges, validated>>
      BY <1>5, EntriesTyped DEF ReadCacheImage, TypeOK, status
    <2>2. decision' \in Decisions
      BY <1>1, <1>5, RaiseKeeps DEF ReadCacheImage
    <2>3. Flags'
      BY <1>5 DEF ReadCacheImage, TypeOK, Flags, status
    <2>4. Current' = Current
      BY <2>1 DEF queue, Current
    <2> QED
      BY <2>1, <2>2, <2>3, <2>4, SameEntries DEF TypeOK, Decisions, queue
  <1>6. ASSUME NEW a \in ClientAddrs, ReachBody(a) PROVE TypeOK'
    <2>1. a \in Addresses
      <3>1. PICK i \in 1..Len(bodies) : a = bodies[i].addr
        BY DEF ClientAddrs
      <3>2. bodies[i] \in Body
        BY DEF TypeOK
      <3> QED
        BY <3>1, <3>2 DEF Body, Addresses
    <2>2. Flags'
      BY <1>6, FlagsKept DEF ReachBody, status, trace
    <2>3. Current' = Current
      BY <1>6 DEF ReachBody, queue, Current
    <2> QED
      BY <1>6, <2>1, <2>2, <2>3, SameEntries
      DEF ReachBody, TypeOK, status, image, queue, trace
  <1>7. ASSUME EndHeader PROVE TypeOK'
    <2>1. Flags'
      BY <1>7, FlagsKept DEF EndHeader, status
    <2> QED
      BY <1>3, <1>7, <2>1, SameEntries DEF EndHeader, TypeOK, status, image, queue
  <1> QED
    BY <1>2, <1>4, <1>5, <1>6, <1>7

LEMMA TypeAfterWalk ==
  ASSUME TypeOK
  PROVE  /\ (\E k \in {"accept", "warning"} : Drain(k)) => TypeOK'
         /\ (\E k \in {"accept", "resource"} : Sweep(k)) => TypeOK'
         /\ (\E c \in Causes : Throw(c)) => TypeOK'
         /\ StartReplay => TypeOK'
         /\ (\E k \in {"accept", "warning", "resource"} : Finish(k)) => TypeOK'
         /\ (\E opts \in Options, f \in Files : BeginAnalysis(opts, f)) => TypeOK'
  <1>1. decision \in Decisions /\ {"accept", "warning", "resource", "unsupported"} \subseteq Decisions
    BY DEF TypeOK, Decisions, Classes
  <1>2. ASSUME NEW k \in {"accept", "warning"}, Drain(k) PROVE TypeOK'
    <2>1. Raise(decision, k) \in Decisions
      BY <1>1, RaiseKeeps
    <2>2. Raise(Raise(decision, k), "unsupported") \in Decisions
      BY <1>1, <2>1, RaiseKeeps
    <2>3. decision' \in Decisions /\ stopReason' \in StopReasons
      BY <1>2, <2>1, <2>2 DEF Drain, StopReasons
    <2>4. Flags'
      BY <1>2 DEF Drain, TypeOK, Flags, image, trace
    <2>5. pc' = "sweep" /\ UNCHANGED <<options, file, bodies, queue, seeds, reached, trace>>
      BY <1>2 DEF Drain, image
    <2> QED
      BY <2>3, <2>4, <2>5, SameEntries DEF TypeOK, Decisions, queue, trace
  <1>3. ASSUME NEW k \in {"accept", "resource"}, Sweep(k) PROVE TypeOK'
    <2>1. decision' \in Decisions
      BY <1>1, <1>3, RaiseKeeps DEF Sweep
    <2>2. Flags'
      BY <1>3, FlagsKept DEF Sweep, status, trace
    <2> QED
      BY <1>3, <2>1, <2>2, SameEntries
      DEF Sweep, TypeOK, Decisions, status, image, queue, trace
  <1>4. ASSUME NEW c \in Causes, Throw(c) PROVE TypeOK'
    <2>1. decision' \in Decisions
      BY <1>1, <1>4, FailureRejects, RaiseKeeps DEF Throw, Decisions
    <2>2. stopReason' \in StopReasons
      <3>1. Failure(c).stop \in StopReasons
        BY FailureRejects DEF Terminal, StopReasons
      <3> QED
        BY <1>4, <3>1 DEF Throw, TypeOK
    <2>3. Flags'
      BY <1>4, FlagsKept DEF Throw, trace
    <2>4. pc' = "ratio" /\ UNCHANGED <<options, file, bodies, queue, seeds, reached, trace>>
      BY <1>4 DEF Throw, image
    <2> QED
      BY <2>1, <2>2, <2>3, <2>4, SameEntries DEF TypeOK, Decisions, queue, trace
  <1>5. ASSUME StartReplay PROVE TypeOK'
    <2>1. Flags'
      BY <1>5 DEF StartReplay, ResetAnalysis, TypeOK, Flags
    <2>2. ResetAnalysis /\ UNCHANGED <<options, file, bodies>>
      BY <1>5 DEF StartReplay
    <2> QED
      BY <2>1, <2>2, TypeReset DEF TypeOK
  <1>6. ASSUME NEW k \in {"accept", "warning", "resource"}, Finish(k) PROVE TypeOK'
    <2>1. decision' \in Decisions
      BY <1>1, <1>6, RaiseKeeps DEF Finish
    <2>2. Flags'
      BY <1>6 DEF Finish, TypeOK, Flags, status, image, trace
    <2>3. pc' = "done" /\ UNCHANGED <<options, file, stopReason, bodies, queue, seeds, reached, trace>>
      BY <1>6 DEF Finish, status, image
    <2> QED
      BY <2>1, <2>2, <2>3, SameEntries DEF TypeOK, Decisions, queue, trace
  <1>7. ASSUME NEW opts \in Options, NEW f \in Files, BeginAnalysis(opts, f) PROVE TypeOK'
    <2>1. Flags'
      BY <1>7 DEF BeginAnalysis, ResetAnalysis, TypeOK, Flags
    <2>2. ResetAnalysis /\ options' \in Options /\ file' \in Files /\ bodies' \in Seq(Body)
      BY <1>7 DEF BeginAnalysis
    <2> QED
      BY <2>1, <2>2, TypeReset
  <1> QED
    BY <1>2, <1>3, <1>4, <1>5, <1>6, <1>7

LEMMA TypeStep == TypeOK /\ [Next]_vars => TypeOK'
  <1> SUFFICES ASSUME TypeOK, [Next]_vars PROVE TypeOK'
    OBVIOUS
  <1>1. CASE UNCHANGED vars
    <2>1. Flags'
      BY <1>1, FlagsKept DEF vars, status, trace
    <2>2. Current' = Current
      BY <1>1 DEF vars, queue, Current
    <2> QED
      BY <1>1, <2>1, <2>2, SameEntries DEF TypeOK, vars, status, image, queue, trace
  <1>2. CASE Next
    BY <1>2, TypeBeforeWalk, TypeWalk, TypeHeader, TypeAfterWalk DEF Next, Step
  <1> QED
    BY <1>1, <1>2

\* Every reachable state is well typed.
THEOREM TypeCorrect == Spec => []TypeOK
  BY TypeInit, TypeStep, PTL DEF Spec

-----------------------------------------------------------------------------
(* What is said of the walk.                                               *)

LEMMA StatusStep == TypeOK /\ StatusInv /\ [Next]_vars => StatusInv'
  <1> SUFFICES ASSUME TypeOK, StatusInv, [Next]_vars PROVE StatusInv'
    OBVIOUS
  <1>1. ASSUME UNCHANGED <<status, replayMode>>,
               \/ pc' = pc
               \/ pc \in {"walking", "header"} /\ pc' \in {"walking", "header"}
               \/ pc = "superblock" /\ pc' = "graph"
               \/ pc = "seeding" /\ pc' = "walking"
               \/ pc = "sweep" /\ pc' = "ratio"
        PROVE  StatusInv'
    BY <1>1 DEF StatusInv, status
  <1>2. ASSUME InvalidProfile PROVE StatusInv'
    BY <1>2 DEF InvalidProfile, StatusInv
  <1>3. ASSUME SignatureMissing PROVE StatusInv'
    BY <1>3 DEF SignatureMissing, StatusInv
  <1>4. ASSUME PreflightFails PROVE StatusInv'
    BY <1>4 DEF PreflightFails, StatusInv
  <1>5. ASSUME NEW k \in Faults \cup {"accept"}, ValidateSuperblock(k) PROVE StatusInv'
    BY <1>1, <1>5 DEF ValidateSuperblock
  <1>6. ASSUME SkipWalk PROVE StatusInv'
    BY <1>6 DEF SkipWalk, StatusInv
  <1>7. ASSUME EnterWalk PROVE StatusInv'
    BY <1>7 DEF EnterWalk, StatusInv
  <1>8. ASSUME EnqueueSeed \/ Seeded PROVE StatusInv'
    BY <1>1, <1>8 DEF EnqueueSeed, Seeded
  <1>9. ASSUME StopAtRejection PROVE StatusInv'
    BY <1>9 DEF StopAtRejection, Dequeue, StatusInv
  <1>10. ASSUME RefuseHeader \/ BeginHeader PROVE StatusInv'
    BY <1>1, <1>10 DEF RefuseHeader, BeginHeader, Visit, Dequeue
  <1>11. ASSUME SkipShadowed PROVE StatusInv'
    BY <1>11 DEF SkipShadowed, Visit, Dequeue, StatusInv
  <1>12. ASSUME \/ \E k \in Faults : Finding(k)
                \/ \E t \in Objects \cup {Outside} : Link(t)
                \/ \E s \in Entries, v \in BOOLEAN : ReadCacheImage(s, v)
                \/ \E a \in ClientAddrs : ReachBody(a)
                \/ EndHeader
         PROVE  StatusInv'
    <2>1. UNCHANGED <<status, replayMode>> /\ pc = "header" /\ pc' \in {"walking", "header"}
      BY <1>12 DEF Finding, Link, ReadCacheImage, ReachBody, EndHeader
    <2> QED
      BY <1>1, <2>1
  <1>13. ASSUME NEW k \in {"accept", "warning"}, Drain(k) PROVE StatusInv'
    <2>1. pc = "walking" /\ pc' = "sweep"
          /\ (\/ stopReason' = "cache_image_coverage_gap" /\ completed' = completed
              \/ stopReason' = "" /\ completed' = TRUE)
      BY <1>13 DEF Drain
    <2>2. (completed' <=> stopReason' = "") /\ stopReason' \notin {"not_started", "walking"}
      <3>1. CASE stopReason' = "cache_image_coverage_gap" /\ completed' = completed
        <4>1. ~completed'
          BY <2>1, <3>1 DEF StatusInv
        <4> QED
          BY <3>1, <4>1
      <3>2. CASE stopReason' = "" /\ completed' = TRUE
        BY <3>2
      <3> QED
        BY <2>1, <3>1, <3>2
    <2> QED
      BY <2>1, <2>2 DEF StatusInv
  <1>14. ASSUME NEW k \in {"accept", "resource"}, Sweep(k) PROVE StatusInv'
    BY <1>1, <1>14 DEF Sweep
  <1>15. ASSUME NEW c \in Causes, Throw(c) PROVE StatusInv'
    <2>1. Failure(c).stop \notin {"", "not_started", "walking"}
      BY FailureRejects DEF Terminal
    <2>2. completed' = completed /\ pc' = "ratio" /\ pc \notin {"idle", "done"}
          /\ (completed => pc = "sweep")
      BY <1>15 DEF Throw, StatusInv
    <2>3. (completed' <=> stopReason' = "") /\ stopReason' \notin {"not_started", "walking"}
      <3>1. CASE completed
        BY <1>15, <2>2, <3>1 DEF Throw, StatusInv
      <3>2. CASE ~completed
        <4>1. stopReason' = Failure(c).stop
          BY <1>15, <3>2 DEF Throw
        <4>2. ~completed'
          BY <2>2, <3>2
        <4> QED
          BY <2>1, <4>1, <4>2
      <3> QED
        BY <3>1, <3>2
    <2> QED
      BY <2>2, <2>3 DEF StatusInv
  <1>16. ASSUME StartReplay PROVE StatusInv'
    BY <1>16 DEF StartReplay, ResetAnalysis, StatusInv
  <1>17. ASSUME NEW k \in {"accept", "warning", "resource"}, Finish(k) PROVE StatusInv'
    <2>1. pc = "ratio" /\ pc' = "done" /\ ~replayMode' /\ UNCHANGED <<completed, stopReason>>
      BY <1>17 DEF Finish, status
    <2> QED
      BY <2>1 DEF StatusInv
  <1>18. ASSUME NEW opts \in Options, NEW f \in Files, BeginAnalysis(opts, f) PROVE StatusInv'
    BY <1>18 DEF BeginAnalysis, ResetAnalysis, StatusInv
  <1>19. CASE UNCHANGED vars
    BY <1>1, <1>19 DEF vars
  <1> QED
    BY <1>2, <1>3, <1>4, <1>5, <1>6, <1>7, <1>8, <1>9, <1>10, <1>11, <1>12, <1>13, <1>14,
       <1>15, <1>16, <1>17, <1>18, <1>19
    DEF Next, Step

\* A finished analysis says why its walk ended, whatever exception ended it.
THEOREM ConclusiveReportCorrect == Spec => []ConclusiveReport
  <1>1. Init => StatusInv
    BY DEF Init, StatusInv
  <1>2. StatusInv => ConclusiveReport
    BY DEF StatusInv, ConclusiveReport
  <1> QED
    BY <1>1, <1>2, StatusStep, TypeCorrect, PTL DEF Spec

-----------------------------------------------------------------------------
(* The queue.                                                              *)

Distinct == \A i, j \in 1..Len(pending) : pending[i].addr = pending[j].addr => i = j
Monotone == \A i, j \in 1..Len(pending) : i < j => pending[i].depth <= pending[j].depth
Relaxed ==
  \A i, j \in 1..Len(pending) :
    <<pending[i].addr, pending[j].addr>> \in edges => pending[j].depth <= pending[i].depth + 1
Grounded(j) == pending[j].addr \in {file.root, file.ext} \cup BodyAddrs
Derived(j) ==
  \E i \in 1..(j - 1) : /\ <<pending[i].addr, pending[j].addr>> \in edges
                        /\ pending[j].depth = pending[i].depth + 1
Justified ==
  \A j \in 1..Len(pending) : IF pending[j].depth = 0 THEN Grounded(j) ELSE Derived(j)

LEMMA DepthParts ==
  /\ DepthIsDistance <=> Distinct /\ Monotone /\ Relaxed /\ Justified
  /\ DepthIsDistance' <=> Distinct' /\ Monotone' /\ Relaxed' /\ Justified'
  <1>1. DepthIsDistance <=> Distinct /\ Monotone /\ Relaxed /\ Justified
    BY DEF DepthIsDistance, Distinct, Monotone, Relaxed, Justified, Grounded, Derived
  <1>2. DepthIsDistance' <=> Distinct' /\ Monotone' /\ Relaxed' /\ Justified'
    BY <1>1, PTL
  <1> QED
    BY <1>1, <1>2

LEMMA EntryTypes ==
  ASSUME TypeOK
  PROVE  /\ Len(pending) \in Nat /\ pendingIndex \in 0..Len(pending)
         /\ \A i \in 1..Len(pending) : /\ pending[i].addr \in Addresses
                                       /\ pending[i].depth \in Nat
         /\ options.depth \in Nat
  <1>1. \A i \in 1..Len(pending) : pending[i] \in QueueEntry
    BY DEF TypeOK
  <1>2. options.depth \in Nat
    BY FilesKnown
  <1> QED
    BY <1>1, <1>2 DEF TypeOK, QueueEntry

\* A step that leaves queue and links alone, whatever it finds.
LEMMA QueueFrame ==
  ASSUME TypeOK, QueueInv, UNCHANGED <<options, file, pending, pendingIndex, visited, edges, seeds>>,
         validated' = validated, BodyAddrs \subseteq BodyAddrs',
         \/ pc' = pc
         \/ pc' \in {"walking", "sweep", "ratio", "done"}
         \/ pc = "superblock" /\ pc' = "graph"
  PROVE  QueueInv'
  <1>1. Queued' = Queued /\ Horizon' = Horizon
    BY DEF Queued, Horizon, Current
  <1>2. DepthIsDistance'
    <2>1. Distinct' /\ Monotone' /\ Relaxed'
      BY DepthParts DEF QueueInv, Distinct, Monotone, Relaxed
    <2>2. Justified'
      <3>1. \A j \in 1..Len(pending) : (Grounded(j) => Grounded(j)') /\ (Derived(j) => Derived(j)')
        BY DEF Grounded, Derived
      <3>2. SUFFICES ASSUME NEW j \in 1..Len(pending)
                     PROVE  IF pending[j].depth = 0 THEN Grounded(j)' ELSE Derived(j)'
        BY DEF Justified
      <3>3. IF pending[j].depth = 0 THEN Grounded(j) ELSE Derived(j)
        BY DepthParts DEF QueueInv, Justified
      <3> QED
        BY <3>1, <3>3
    <2> QED
      BY <2>1, <2>2, DepthParts
  <1>3. Behind \subseteq Behind'
    BY EntryTypes DEF Behind
  <1>4. \A v \in validated' : \E i \in Behind' : pending'[i].addr = v
    BY <1>3 DEF QueueInv
  <1>5. RefusedTooDeep'
    BY <1>1 DEF QueueInv, RefusedTooDeep
  <1>6. pc' = "seeding" => pc = "seeding"
    OBVIOUS
  <1>7. pc' = "seeding" =>
          \A i \in 1..Len(seeds') :
            seeds'[i].ohdr => seeds'[i].addr \in {file'.root, file'.ext} \cup BodyAddrs'
    BY <1>6 DEF QueueInv
  <1> QED
    BY <1>1, <1>2, <1>4, <1>5, <1>7 DEF QueueInv

EmptyQueue ==
  /\ pending = <<>> /\ pendingIndex = 0 /\ visited = {} /\ edges = {} /\ validated = {}
  /\ pc = "seeding" =>
       \A i \in 1..Len(seeds) :
         seeds[i].ohdr => seeds[i].addr \in {file.root, file.ext} \cup BodyAddrs

\* An empty queue is in order.
LEMMA QueueEmpty ==
  /\ EmptyQueue => QueueInv
  /\ EmptyQueue' => QueueInv'
  <1>1. EmptyQueue => QueueInv
    <2>1. SUFFICES ASSUME EmptyQueue PROVE QueueInv
      OBVIOUS
    <2>2. Len(pending) = 0
      BY <2>1 DEF EmptyQueue
    <2>3. DepthIsDistance
      BY <2>2 DEF DepthIsDistance
    <2> QED
      BY <2>1, <2>2, <2>3 DEF EmptyQueue, QueueInv, RefusedTooDeep
  <1>2. EmptyQueue' => QueueInv'
    BY <1>1, PTL
  <1> QED
    BY <1>1, <1>2

\* The root, the extension and the cached bodies are where a walk may start.
LEMMA SeedsGrounded ==
  ASSUME TypeOK
  PROVE  \A i \in 1..Len(Seeds) : Seeds[i].addr \in {file.root, file.ext} \cup BodyAddrs
  <1> DEFINE G == [addr : {file.root, file.ext} \cup BodyAddrs, ohdr : BOOLEAN]
  <1>1. Header(file.root) \in G /\ Header(file.ext) \in G
    BY DEF Header
  <1>2. bodies \in Seq(G)
    <2>1. bodies \in Seq(Body) /\ \A i \in 1..Len(bodies) : bodies[i] \in Body
      BY DEF TypeOK
    <2>2. \A i \in 1..Len(bodies) : bodies[i].addr \in BodyAddrs
      BY DEF BodyAddrs
    <2>3. \A i \in 1..Len(bodies) : bodies[i] \in G
      BY <2>1, <2>2 DEF Body
    <2> QED
      BY <2>1, <2>3, SeqOver
  <1> HIDE DEF G
  <1>3. <<Header(file.root)>> \in Seq(G) /\ <<Header(file.ext)>> \in Seq(G) /\ <<>> \in Seq(G)
    BY <1>1
  <1>4. Seeds \in Seq(G)
    BY <1>2, <1>3 DEF Seeds
  <1>5. \A i \in 1..Len(Seeds) : Seeds[i] \in G
    BY <1>4
  <1> QED
    BY <1>5 DEF G

\* Dequeuing one more header.
LEMMA QueueDequeue ==
  ASSUME TypeOK, QueueInv, Dequeue, UNCHANGED <<options, file, pending, edges, bodies, seeds>>,
         validated' = validated, pc' \notin {"superblock", "graph", "seeding"},
         visited' \subseteq visited \cup {pending[pendingIndex'].addr}
  PROVE  QueueInv'
  <1>1. /\ pc = "walking" /\ pendingIndex' = pendingIndex + 1
        /\ pendingIndex' \in 1..Len(pending) /\ pendingIndex \in Nat
    BY EntryTypes DEF Dequeue
  <1>2. Queued' = Queued /\ BodyAddrs' = BodyAddrs
    BY DEF Queued, BodyAddrs
  <1>3. DepthIsDistance'
    BY <1>2 DEF QueueInv, DepthIsDistance
  <1>4. visited' \subseteq Queued'
    BY <1>1, <1>2 DEF QueueInv, Queued
  <1>5. \A e \in edges : \E i \in 1..pendingIndex' : pending[i].addr = e[1]
    BY <1>1 DEF QueueInv
  <1>6. \A i \in 1..Len(pending) : pending[i].depth <= Horizon'
    <2>1. Horizon' = pending[pendingIndex'].depth + 1
      BY <1>1 DEF Horizon, Current
    <2>2. SUFFICES ASSUME NEW i \in 1..Len(pending)
                   PROVE  pending[i].depth <= pending[pendingIndex'].depth + 1
      BY <2>1
    <2>3. pending[i].depth <= Horizon
      BY DEF QueueInv
    <2>4. CASE pendingIndex = 0
      BY <1>1, <2>3, <2>4, EntryTypes DEF Horizon
    <2>5. CASE pendingIndex # 0
      <3>1. pending[pendingIndex].depth <= pending[pendingIndex'].depth
        BY <1>1, <2>5, DepthParts DEF QueueInv, Monotone
      <3> QED
        BY <1>1, <2>3, <2>5, <3>1, EntryTypes DEF Horizon, Current
    <2> QED
      BY <2>4, <2>5
  <1>7. RefusedTooDeep'
    BY <1>2 DEF QueueInv, RefusedTooDeep
  <1>8. \A v \in validated' : \E i \in Behind' : pending'[i].addr = v
    <2>1. Behind = 1..pendingIndex /\ Behind \subseteq Behind'
      BY <1>1 DEF Behind
    <2> QED
      BY <2>1 DEF QueueInv
  <1> QED
    BY <1>3, <1>4, <1>5, <1>6, <1>7, <1>8 DEF QueueInv

\* One of the headers that the walk starts from.
LEMMA QueueSeed ==
  ASSUME TypeOK, QueueInv, EnqueueSeed
  PROVE  QueueInv'
  <1> DEFINE a == Head(seeds).addr
  <1>0. /\ pc = "seeding" /\ pc' = pc /\ seeds # <<>> /\ seeds' = Tail(seeds) /\ seeds \in Seq(Start)
        /\ UNCHANGED <<options, file, pendingIndex, visited, bodies, edges, validated>>
    BY DEF EnqueueSeed, TypeOK, image, trace
  <1>1. /\ Len(seeds) \in Nat /\ Len(seeds') = Len(seeds) - 1 /\ Head(seeds) = seeds[1]
        /\ Head(seeds) \in Start /\ 1 \in 1..Len(seeds)
        /\ \A i \in 1..Len(seeds') : seeds'[i] = seeds[i + 1] /\ i + 1 \in 1..Len(seeds)
    BY <1>0
  <1>2. /\ pendingIndex = 0 /\ edges = {} /\ validated = {}
        /\ \A i \in 1..Len(pending) : pending[i].depth = 0
    <2>1. pendingIndex = 0 /\ edges = {} /\ validated = {}
          /\ \A i \in 1..Len(pending) : pending[i].depth <= Horizon
      BY <1>0 DEF QueueInv
    <2> QED
      BY <2>1, EntryTypes DEF Horizon
  <1>3. BodyAddrs' = BodyAddrs
    BY <1>0 DEF BodyAddrs
  <1>4. \A i \in 1..Len(seeds') :
          seeds'[i].ohdr => seeds'[i].addr \in {file'.root, file'.ext} \cup BodyAddrs'
    BY <1>0, <1>1, <1>3 DEF QueueInv
  <1>5. CASE pending' = pending
    <2>1. Queued' = Queued
      BY <1>5 DEF Queued
    <2>2. DepthIsDistance'
      <3>1. Distinct' /\ Monotone' /\ Relaxed'
        BY <1>0, <1>5, DepthParts DEF QueueInv, Distinct, Monotone, Relaxed
      <3>2. Justified'
        BY <1>0, <1>3, <1>5, DepthParts DEF QueueInv, Justified, Grounded, Derived
      <3> QED
        BY <3>1, <3>2, DepthParts
    <2>3. visited' \subseteq Queued'
      BY <1>0, <2>1 DEF QueueInv
    <2>4. \A i \in 1..Len(pending') : pending'[i].depth <= Horizon'
      BY <1>0, <1>2, <1>5 DEF Horizon
    <2> QED
      BY <1>0, <1>2, <1>4, <2>2, <2>3, <2>4 DEF QueueInv, RefusedTooDeep
  <1>6. CASE Head(seeds).ohdr /\ Added(a, 0)
    <2> DEFINE n == Len(pending) + 1
    <2>1. a \in Addresses /\ 0 \in Nat
      BY <1>1 DEF Start
    <2> HIDE DEF a
    <2>2. /\ Len(pending') = n /\ Len(pending) \in Nat
          /\ \A i \in 1..Len(pending) : pending'[i] = pending[i]
          /\ pending'[n] = [addr |-> a, depth |-> 0]
          /\ Queued' = Queued \cup {a}
      BY <1>6, <2>1, AddedLast, EntryTypes
    <2>3. a \notin Queued /\ a \in {file.root, file.ext} \cup BodyAddrs
      <3>1. a \notin Queued
        BY <1>6 DEF Added
      <3>2. seeds[1].addr \in {file.root, file.ext} \cup BodyAddrs
        BY <1>0, <1>1, <1>6 DEF QueueInv
      <3> QED
        BY <1>1, <3>1, <3>2 DEF a
    <2>4. \A i \in 1..n : pending'[i].depth = 0
      BY <1>2, <2>2
    <2>5. Distinct'
      <3>1. \A i \in 1..Len(pending) : pending[i].addr \in Queued
        BY DEF Queued
      <3> QED
        BY <2>2, <2>3, <3>1, DepthParts DEF QueueInv, Distinct
    <2>6. Monotone' /\ Relaxed'
      BY <1>0, <1>2, <2>2, <2>4 DEF Monotone, Relaxed
    <2>7. Justified'
      <3>1. \A j \in 1..Len(pending) : pending[j].addr \in {file.root, file.ext} \cup BodyAddrs
        BY <1>2, DepthParts DEF QueueInv, Justified, Grounded
      <3>2. \A j \in 1..n : pending'[j].addr \in {file.root, file.ext} \cup BodyAddrs
        BY <2>2, <2>3, <3>1
      <3> QED
        BY <1>0, <1>3, <2>2, <2>4, <3>2 DEF Justified, Grounded
    <2>8. visited' \subseteq Queued'
      BY <1>0, <2>2 DEF QueueInv
    <2>9. \A i \in 1..Len(pending') : pending'[i].depth <= Horizon'
      BY <1>0, <1>2, <2>2, <2>4 DEF Horizon
    <2> QED
      BY <1>0, <1>2, <1>4, <2>5, <2>6, <2>7, <2>8, <2>9, DepthParts DEF QueueInv, RefusedTooDeep
  <1>7. pending' = pending \/ (Head(seeds).ohdr /\ Added(a, 0))
    <2>1. CASE Head(seeds).ohdr
      <3>1. Enqueue(a, 0) /\ a \in Addresses
        BY <1>1, <2>1 DEF EnqueueSeed, Start
      <3> HIDE DEF a
      <3> QED
        BY <2>1, <3>1, EnqueueCases DEF TooDeep, Known
    <2>2. CASE ~Head(seeds).ohdr
      BY <2>2 DEF EnqueueSeed
    <2> QED
      BY <2>1, <2>2
  <1> QED
    BY <1>5, <1>6, <1>7

\* A link: the header it names is queued, was queued before, or lies too deep.
LEMMA QueueLink ==
  ASSUME TypeOK, QueueInv, NEW t \in Objects, Link(t)
  PROVE  QueueInv'
  <1> DEFINE d == Current.depth + 1
             step == <<Current.addr, t>>
  <1>0. /\ pc = "header" /\ Enqueue(t, d) /\ edges' = edges \cup {step}
        /\ UNCHANGED <<pc, options, file, pendingIndex, visited, bodies, seeds, validated>>
    BY DEF Link, image
  <1>1. /\ pendingIndex \in 1..Len(pending) /\ Len(pending) \in Nat /\ pendingIndex \in Nat
        /\ Current = pending[pendingIndex]
        /\ t \in Addresses /\ d \in Nat /\ Current.depth \in Nat /\ Horizon = d
    BY <1>0, EntryTypes DEF TypeOK, Current, Addresses, Horizon
  <1>2. \A i \in 1..Len(pending) : /\ pending[i].depth <= d
                                   /\ pending[i].addr = Current.addr => i = pendingIndex
                                   /\ pending[i].addr \in Queued
    BY <1>1, DepthParts DEF QueueInv, Distinct, Queued
  <1>3. visited \subseteq Queued
    BY DEF QueueInv
  <1>4. BodyAddrs' = BodyAddrs
    BY <1>0 DEF BodyAddrs
  <1> HIDE DEF d, step
  <1>5. CASE pending' = pending /\ (t \in Queued \/ d > options.depth)
    <2>1. Queued' = Queued /\ Horizon' = Horizon /\ Behind' = Behind
      BY <1>0, <1>5 DEF Queued, Horizon, Behind, Current
    <2>2. Distinct' /\ Monotone'
      BY <1>5, DepthParts DEF QueueInv, Distinct, Monotone
    <2>3. Relaxed'
      <3>1. SUFFICES ASSUME NEW i \in 1..Len(pending), NEW j \in 1..Len(pending),
                            <<pending[i].addr, pending[j].addr>> \in edges \cup {step}
                     PROVE  pending[j].depth <= pending[i].depth + 1
        BY <1>0, <1>5 DEF Relaxed
      <3>2. CASE <<pending[i].addr, pending[j].addr>> \in edges
        BY <3>2, DepthParts DEF QueueInv, Relaxed
      <3>3. CASE <<pending[i].addr, pending[j].addr>> = step
        <4>1. i = pendingIndex
          BY <1>2, <3>3 DEF step
        <4> QED
          BY <1>1, <1>2, <4>1 DEF d
      <3> QED
        BY <3>1, <3>2, <3>3
    <2>4. Justified'
      <3>1. \A j \in 1..Len(pending) : (Grounded(j) => Grounded(j)') /\ (Derived(j) => Derived(j)')
        BY <1>0, <1>4, <1>5 DEF Grounded, Derived
      <3>2. SUFFICES ASSUME NEW j \in 1..Len(pending)
                     PROVE  IF pending[j].depth = 0 THEN Grounded(j)' ELSE Derived(j)'
        BY <1>5 DEF Justified
      <3>3. IF pending[j].depth = 0 THEN Grounded(j) ELSE Derived(j)
        BY DepthParts DEF QueueInv, Justified
      <3> QED
        BY <3>1, <3>3
    <2>5. \A e \in edges' : \E i \in 1..pendingIndex' : pending'[i].addr = e[1]
      <3>1. pendingIndex \in 1..pendingIndex /\ step[1] = pending[pendingIndex].addr
        BY <1>1 DEF step
      <3> QED
        BY <1>0, <1>5, <3>1 DEF QueueInv
    <2>6. RefusedTooDeep'
      <3>1. step[2] \in Queued \/ \A i \in 1..Len(pending) :
                                    pending[i].addr = step[1] => pending[i].depth >= options.depth
        <4>1. step[2] = t /\ step[1] = Current.addr
          BY DEF step
        <4>2. d > options.depth => Current.depth >= options.depth
          BY <1>1, EntryTypes DEF d
        <4> QED
          BY <1>1, <1>2, <1>5, <4>1, <4>2
      <3>2. RefusedTooDeep
        BY DEF QueueInv
      <3> QED
        BY <1>0, <1>5, <2>1, <3>1, <3>2 DEF RefusedTooDeep
    <2>7. /\ visited' \subseteq Queued'
          /\ \A i \in 1..Len(pending') : pending'[i].depth <= Horizon'
          /\ \A v \in validated' : \E i \in Behind' : pending'[i].addr = v
      BY <1>0, <1>5, <2>1 DEF QueueInv
    <2> QED
      BY <1>0, <2>2, <2>3, <2>4, <2>5, <2>6, <2>7, DepthParts DEF QueueInv
  <1>6. CASE Added(t, d)
    <2>0. PICK n \in Nat : n = Len(pending) + 1
      BY <1>1
    <2>1. /\ Len(pending') = n /\ n = Len(pending) + 1
          /\ \A i \in 1..Len(pending) : pending'[i] = pending[i]
          /\ pending'[n].addr = t /\ pending'[n].depth = d
          /\ Queued' = Queued \cup {t}
          /\ t \notin Queued /\ d <= options.depth
      BY <1>1, <1>6, <2>0, AddedLast DEF Added
    <2>2. Horizon' = Horizon /\ Behind' = Behind /\ Current' = Current
      BY <1>0, <1>1, <2>1 DEF Horizon, Behind, Current
    <2>3. Distinct'
      <3>1. SUFFICES ASSUME NEW i \in 1..n, NEW j \in 1..n, pending'[i].addr = pending'[j].addr
                     PROVE  i = j
        BY <2>1 DEF Distinct
      <3>2. CASE i \in 1..Len(pending) /\ j \in 1..Len(pending)
        BY <2>1, <3>1, <3>2, DepthParts DEF QueueInv, Distinct
      <3>3. CASE i \notin 1..Len(pending) \/ j \notin 1..Len(pending)
        <4>1. ASSUME NEW k \in 1..n, pending'[k].addr = t PROVE k = n
          <5>1. CASE k \in 1..Len(pending)
            BY <1>2, <2>1, <4>1, <5>1
          <5>2. CASE k \notin 1..Len(pending)
            BY <1>1, <2>1, <5>2
          <5> QED
            BY <5>1, <5>2
        <4>2. i = n \/ j = n
          BY <1>1, <2>1, <3>3
        <4> QED
          BY <2>1, <3>1, <4>1, <4>2
      <3> QED
        BY <3>2, <3>3
    <2>4. Monotone'
      BY <1>1, <1>2, <2>1, DepthParts, EntryTypes DEF QueueInv, Monotone
    <2>5. \A i \in 1..Len(pending) : <<pending[i].addr, t>> \notin edges
      <3>1. SUFFICES ASSUME NEW i \in 1..Len(pending), <<pending[i].addr, t>> \in edges
                     PROVE  FALSE
        OBVIOUS
      <3>2. pending[i].depth >= options.depth
        BY <2>1, <3>1 DEF QueueInv, RefusedTooDeep
      <3>3. PICK k \in 1..pendingIndex : pending[k].addr = pending[i].addr
        BY <3>1 DEF QueueInv
      <3>4. k = i /\ i <= pendingIndex
        BY <1>1, <3>3, DepthParts DEF QueueInv, Distinct
      <3>5. pending[i].depth <= Current.depth
        BY <1>1, <3>4, DepthParts, EntryTypes DEF QueueInv, Monotone
      <3> QED
        BY <1>1, <2>1, <3>2, <3>5, EntryTypes DEF d
    <2>6. \A e \in edges' : e[1] \in Queued
      BY <1>0, <1>1, <1>2 DEF QueueInv, step
    <2>7. Relaxed'
      <3>1. SUFFICES ASSUME NEW i \in 1..n, NEW j \in 1..n,
                            <<pending'[i].addr, pending'[j].addr>> \in edges'
                     PROVE  pending'[j].depth <= pending'[i].depth + 1
        BY <2>1 DEF Relaxed
      <3>2. i \in 1..Len(pending)
        <4>1. pending'[i].addr \in Queued
          BY <2>6, <3>1
        <4> QED
          BY <1>1, <2>1, <4>1
      <3>3. CASE j \in 1..Len(pending)
        <4>1. <<pending[i].addr, pending[j].addr>> \in edges
          BY <1>0, <1>2, <2>1, <3>1, <3>2, <3>3 DEF step
        <4> QED
          BY <2>1, <3>2, <3>3, <4>1, DepthParts DEF QueueInv, Relaxed
      <3>4. CASE j = n
        <4>1. pending[i].addr = Current.addr
          BY <1>0, <2>1, <2>5, <3>1, <3>2, <3>4 DEF step
        <4>2. i = pendingIndex
          BY <1>2, <3>2, <4>1
        <4> QED
          BY <1>1, <2>1, <3>2, <3>4, <4>2 DEF d
      <3> QED
        BY <1>1, <2>1, <3>3, <3>4
    <2>8. Justified'
      <3>1. \A j \in 1..Len(pending) : (Grounded(j) => Grounded(j)') /\ (Derived(j) => Derived(j)')
        <4>1. \A j \in 1..Len(pending) : Grounded(j) => Grounded(j)'
          BY <1>0, <1>4, <2>1 DEF Grounded
        <4>2. \A j \in 1..Len(pending) : \A i \in 1..(j - 1) :
                pending'[i] = pending[i] /\ pending'[j] = pending[j]
          BY <1>1, <2>1
        <4>3. \A j \in 1..Len(pending) : Derived(j) => Derived(j)'
          BY <1>0, <4>2 DEF Derived
        <4> QED
          BY <4>1, <4>3
      <3>2. pending'[n].depth # 0 /\ Derived(n)'
        <4>1. pendingIndex \in 1..(n - 1) /\ pending'[pendingIndex] = Current
          BY <1>1, <2>1
        <4>2. <<Current.addr, t>> \in edges'
          BY <1>0 DEF step
        <4>3. d # 0 /\ d = Current.depth + 1
          BY <1>1 DEF d
        <4> QED
          BY <2>1, <4>1, <4>2, <4>3 DEF Derived
      <3>3. SUFFICES ASSUME NEW j \in 1..n
                     PROVE  IF pending'[j].depth = 0 THEN Grounded(j)' ELSE Derived(j)'
        BY <2>1 DEF Justified
      <3>4. CASE j \in 1..Len(pending)
        <4>1. IF pending[j].depth = 0 THEN Grounded(j) ELSE Derived(j)
          BY <3>4, DepthParts DEF QueueInv, Justified
        <4> QED
          BY <2>1, <3>1, <3>4, <4>1
      <3>5. CASE j = n
        BY <3>2, <3>5
      <3> QED
        BY <1>1, <2>1, <3>4, <3>5
    <2>9. \A e \in edges' : \E i \in 1..pendingIndex' : pending'[i].addr = e[1]
      <3>1. \A i \in 1..pendingIndex : pending'[i] = pending[i]
        BY <1>1, <2>1
      <3>2. pendingIndex \in 1..pendingIndex /\ step[1] = pending[pendingIndex].addr
        BY <1>1 DEF step
      <3> QED
        BY <1>0, <3>1, <3>2 DEF QueueInv
    <2>10. RefusedTooDeep'
      <3>1. SUFFICES ASSUME NEW e \in edges', e[2] \notin Queued', NEW i \in 1..n,
                            pending'[i].addr = e[1]
                     PROVE  pending'[i].depth >= options.depth
        BY <1>0, <2>1 DEF RefusedTooDeep
      <3>2. e \in edges
        BY <1>0, <2>1, <3>1 DEF step
      <3>3. i \in 1..Len(pending)
        BY <1>1, <2>1, <2>6, <3>1
      <3> QED
        BY <2>1, <3>1, <3>2, <3>3 DEF QueueInv, RefusedTooDeep
    <2>11. \A i \in 1..Len(pending') : pending'[i].depth <= Horizon'
      BY <1>1, <1>2, <2>1, <2>2
    <2>12. \A v \in validated' : \E i \in Behind' : pending'[i].addr = v
      <3>1. Behind \subseteq 1..Len(pending)
        BY <1>0, <1>1 DEF Behind
      <3> QED
        BY <1>0, <2>1, <2>2, <3>1 DEF QueueInv
    <2>13. visited' \subseteq Queued'
      BY <1>0, <1>3, <2>1
    <2> QED
      BY <1>0, <2>3, <2>4, <2>7, <2>8, <2>9, <2>10, <2>11, <2>12, <2>13, DepthParts DEF QueueInv
  <1>7. Added(t, d) \/ (pending' = pending /\ (t \in Queued \/ d > options.depth))
    BY <1>0, <1>1, <1>3, EnqueueCases DEF TooDeep, Known
  <1> QED
    BY <1>5, <1>6, <1>7

LEMMA QueueStep == TypeOK /\ QueueInv /\ [Next]_vars => QueueInv'
  <1> SUFFICES ASSUME TypeOK, QueueInv, [Next]_vars PROVE QueueInv'
    OBVIOUS
  <1> DEFINE Kept == UNCHANGED <<options, file, queue, edges, validated, seeds>>
  <1>1. ASSUME Kept, BodyAddrs \subseteq BodyAddrs',
               \/ pc' = pc
               \/ pc' \in {"walking", "sweep", "ratio", "done"}
               \/ pc = "superblock" /\ pc' = "graph"
        PROVE  QueueInv'
    BY <1>1, QueueFrame DEF queue
  <1>2. ASSUME UNCHANGED bodies PROVE BodyAddrs' = BodyAddrs
    BY <1>2 DEF BodyAddrs
  <1>3. ASSUME InvalidProfile \/ SignatureMissing \/ PreflightFails \/ SkipWalk PROVE QueueInv'
    <2>1. Kept /\ UNCHANGED bodies /\ pc' \in {"walking", "sweep", "ratio", "done"}
      BY <1>3 DEF InvalidProfile, SignatureMissing, PreflightFails, SkipWalk, image, trace
    <2> HIDE DEF Kept
    <2> QED
      BY <1>1, <1>2, <2>1
  <1>4. ASSUME NEW k \in Faults \cup {"accept"}, ValidateSuperblock(k) PROVE QueueInv'
    <2>1. Kept /\ UNCHANGED bodies /\ pc = "superblock" /\ pc' = "graph"
      BY <1>4 DEF ValidateSuperblock, image, trace
    <2> HIDE DEF Kept
    <2> QED
      BY <1>1, <1>2, <2>1
  <1>5. ASSUME EnterWalk PROVE QueueInv'
    <2>1. /\ pending' = <<>> /\ pendingIndex' = 0 /\ visited' = {} /\ seeds' = Seeds
          /\ UNCHANGED <<file, bodies, edges, validated>> /\ pc = "graph"
      BY <1>5 DEF EnterWalk, ResetTraversal, trace
    <2>2. edges' = {} /\ validated' = {}
      BY <2>1 DEF QueueInv
    <2>3. \A i \in 1..Len(seeds') : seeds'[i].addr \in {file'.root, file'.ext} \cup BodyAddrs'
      BY <1>2, <2>1, SeedsGrounded
    <2> QED
      BY <2>1, <2>2, <2>3, QueueEmpty DEF EmptyQueue
  <1>6. ASSUME EnqueueSeed PROVE QueueInv'
    BY <1>6, QueueSeed
  <1>7. ASSUME Seeded PROVE QueueInv'
    <2>1. Kept /\ UNCHANGED bodies /\ pc' = "walking"
      BY <1>7 DEF Seeded, image, trace
    <2> HIDE DEF Kept
    <2> QED
      BY <1>1, <1>2, <2>1
  <1>8. ASSUME StopAtRejection \/ RefuseHeader \/ SkipShadowed \/ BeginHeader PROVE QueueInv'
    <2>1. /\ Dequeue /\ UNCHANGED <<options, file, pending, edges, bodies, seeds, validated>>
          /\ visited' \subseteq visited \cup {pending[pendingIndex'].addr}
      BY <1>8 DEF StopAtRejection, RefuseHeader, SkipShadowed, BeginHeader, Visit, image, trace
    <2>2. pc' \in {"walking", "sweep", "header"}
      BY <1>8 DEF StopAtRejection, RefuseHeader, SkipShadowed, BeginHeader, Visit, Dequeue
    <2> QED
      BY <2>1, <2>2, QueueDequeue
  <1>9. ASSUME \/ \E k \in Faults : Finding(k)
               \/ \E a \in ClientAddrs : ReachBody(a)
        PROVE  QueueInv'
    <2>1. Kept /\ UNCHANGED bodies /\ pc' = pc
      BY <1>9 DEF Finding, ReachBody, image, trace
    <2> HIDE DEF Kept
    <2> QED
      BY <1>1, <1>2, <2>1
  <1>10. ASSUME NEW t \in Objects \cup {Outside}, Link(t) PROVE QueueInv'
    <2>1. CASE t \in Objects
      BY <1>10, <2>1, QueueLink
    <2>2. CASE t \notin Objects
      <3>1. Kept /\ UNCHANGED bodies /\ pc' = pc
        BY <1>10, <2>2 DEF Link, queue, image
      <3> HIDE DEF Kept
      <3> QED
        BY <1>1, <1>2, <3>1
    <2> QED
      BY <2>1, <2>2
  <1>11. ASSUME NEW s \in Entries, NEW v \in BOOLEAN, ReadCacheImage(s, v) PROVE QueueInv'
    <2>1. Kept /\ bodies' = bodies \o s /\ pc' = pc
      BY <1>11 DEF ReadCacheImage
    <2>2. BodyAddrs \subseteq BodyAddrs'
      <3>1. bodies \in Seq(Body) /\ s \in Seq(Body)
        BY EntriesTyped DEF TypeOK
      <3>2. Len(bodies) <= Len(bodies') /\ Len(bodies) \in Nat /\ Len(bodies') \in Nat
            /\ \A i \in 1..Len(bodies) : bodies'[i] = bodies[i]
        BY <2>1, <3>1
      <3> QED
        BY <3>2 DEF BodyAddrs
    <2> HIDE DEF Kept
    <2> QED
      BY <1>1, <2>1, <2>2
  <1>12. ASSUME EndHeader PROVE QueueInv'
    <2>1. /\ pc = "header" /\ pc' = "walking" /\ validated' = validated \cup {Current.addr}
          /\ UNCHANGED <<options, file, pending, pendingIndex, visited, edges, bodies>>
      BY <1>12 DEF EndHeader, queue, image
    <2>2. Queued' = Queued /\ Horizon' = Horizon /\ BodyAddrs' = BodyAddrs
      BY <1>2, <2>1 DEF Queued, Horizon, Current
    <2>3. DepthIsDistance'
      BY <2>1, <2>2 DEF QueueInv, DepthIsDistance
    <2>4. \A v \in validated' : \E i \in Behind' : pending'[i].addr = v
      <3>1. pendingIndex \in Behind' /\ Behind \subseteq Behind'
        BY <2>1 DEF Behind, TypeOK
      <3> QED
        BY <2>1, <3>1 DEF QueueInv, Current
    <2> QED
      BY <2>1, <2>2, <2>3, <2>4 DEF QueueInv, RefusedTooDeep
  <1>13. ASSUME \/ \E k \in {"accept", "warning"} : Drain(k)
                \/ \E k \in {"accept", "resource"} : Sweep(k)
                \/ \E c \in Causes : Throw(c)
                \/ \E k \in {"accept", "warning", "resource"} : Finish(k)
         PROVE  QueueInv'
    <2>1. Kept /\ UNCHANGED bodies /\ pc' \in {"sweep", "ratio", "done"}
      BY <1>13 DEF Drain, Sweep, Throw, Finish, image, trace
    <2> HIDE DEF Kept
    <2> QED
      BY <1>1, <1>2, <2>1
  <1>14. ASSUME StartReplay \/ (\E opts \in Options, f \in Files : BeginAnalysis(opts, f))
         PROVE  QueueInv'
    <2>1. ResetAnalysis
      BY <1>14 DEF StartReplay, BeginAnalysis
    <2> QED
      BY <2>1, QueueEmpty DEF EmptyQueue, ResetAnalysis, ResetTraversal
  <1>15. CASE UNCHANGED vars
    <2>1. Kept /\ UNCHANGED bodies /\ pc' = pc
      BY <1>15 DEF vars, image, trace
    <2> HIDE DEF Kept
    <2> QED
      BY <1>1, <1>2, <2>1
  <1> QED
    BY <1>3, <1>4, <1>5, <1>6, <1>7, <1>8, <1>9, <1>10, <1>11, <1>12, <1>13, <1>14, <1>15
    DEF Next, Step

LEMMA QueueAlways == Spec => []QueueInv
  <1>1. Init => QueueInv
    BY QueueEmpty DEF Init, EmptyQueue
  <1> QED
    BY <1>1, QueueStep, TypeCorrect, PTL DEF Spec

\* The queue is breadth-first: the depth of a header is its distance from where
\* the walk starts, whatever the files link and in whatever order.
THEOREM DepthIsDistanceCorrect == Spec => []DepthIsDistance
  BY QueueAlways, PTL DEF QueueInv

\* A header that is validated was not validated before in the same pass.
THEOREM ValidatedOnceCorrect == Spec => ValidatedOnce
  <1>1. TypeOK /\ QueueInv /\ [Next]_vars => [EndHeader => Current.addr \notin validated]_vars
    <2> SUFFICES ASSUME TypeOK, QueueInv, EndHeader, Current.addr \in validated
                 PROVE  FALSE
      OBVIOUS
    <2>1. pc = "header" /\ pendingIndex \in 1..Len(pending)
      BY DEF EndHeader, TypeOK
    <2>2. PICK i \in 1..(pendingIndex - 1) : pending[i].addr = pending[pendingIndex].addr
      BY <2>1 DEF QueueInv, Behind, Current
    <2>3. i = pendingIndex
      BY <2>1, <2>2, EntryTypes, DepthParts DEF QueueInv, Distinct
    <2> QED
      BY <2>1, <2>2, <2>3
  <1> QED
    BY <1>1, QueueAlways, TypeCorrect, PTL DEF Spec, ValidatedOnce

-----------------------------------------------------------------------------
(* What a report that accepts vouches for.                                 *)

\* Within one pass a rejection stays.
LEMMA RejectionStays ==
  ASSUME TypeOK, Step, pc' # "superblock", Accepts(decision')
  PROVE  Accepts(decision)
  <1>1. decision \in Decisions /\ Faults \subseteq Decisions
        /\ {"warning", "unsupported", "resource", "corrupt", "internal", "accept"} \subseteq Decisions
    BY BoundAssumption DEF TypeOK, Decisions, Classes
  <1>2. ASSUME NEW k \in Decisions, decision' = Raise(decision, k) PROVE Accepts(decision)
    BY <1>1, <1>2, RaiseKeeps
  <1>3. ASSUME NEW j \in Decisions, NEW k \in Decisions, decision' = Raise(Raise(decision, j), k)
        PROVE  Accepts(decision)
    <2>1. Raise(decision, j) \in Decisions
      BY <1>1, RaiseKeeps
    <2> QED
      BY <1>1, <1>3, <2>1, RaiseKeeps
  <1>4. ASSUME InvalidProfile \/ SignatureMissing \/ PreflightFails PROVE Accepts(decision)
    BY <1>1, <1>2, <1>4 DEF InvalidProfile, SignatureMissing, PreflightFails
  <1>5. ASSUME NEW k \in Faults \cup {"accept"}, ValidateSuperblock(k) PROVE Accepts(decision)
    <2> DEFINE bad == IF file.root \notin Objects \/ file.ext = Outside THEN "corrupt" ELSE "accept"
    <2>1. k \in Decisions /\ bad \in Decisions
      BY <1>1
    <2>2. decision' = Raise(Raise(decision, k), bad)
      BY <1>5 DEF ValidateSuperblock
    <2> HIDE DEF bad
    <2> QED
      BY <1>3, <2>1, <2>2
  <1>6. ASSUME UNCHANGED decision PROVE Accepts(decision)
    BY <1>6
  <1>7. ASSUME SkipWalk \/ EnterWalk \/ Seeded \/ StopAtRejection \/ SkipShadowed \/ BeginHeader
               \/ (\E a \in ClientAddrs : ReachBody(a)) \/ EndHeader
        PROVE  Accepts(decision)
    <2>1. UNCHANGED decision
      BY <1>7 DEF SkipWalk, EnterWalk, Seeded, StopAtRejection, SkipShadowed, BeginHeader, ReachBody, EndHeader
    <2> QED
      BY <1>6, <2>1
  <1>8. ASSUME EnqueueSeed PROVE Accepts(decision)
    <2>1. CASE Head(seeds).ohdr
      <3>1. Enqueue(Head(seeds).addr, 0)
        BY <1>8, <2>1 DEF EnqueueSeed
      <3>2. seeds # <<>> /\ seeds \in Seq(Start)
        BY <1>8 DEF EnqueueSeed, TypeOK
      <3>3. Head(seeds) \in Start
        BY <3>2
      <3>4. Head(seeds).addr \in Addresses
        BY <3>3 DEF Start
      <3> QED
        BY <3>1, <3>4, EnqueueCases
    <2>2. CASE ~Head(seeds).ohdr
      <3>1. UNCHANGED decision
        BY <1>8, <2>2 DEF EnqueueSeed
      <3> QED
        BY <1>6, <3>1
    <2> QED
      BY <2>1, <2>2
  <1>9. ASSUME RefuseHeader PROVE Accepts(decision)
    BY <1>1, <1>2, <1>9 DEF RefuseHeader
  <1>10. ASSUME NEW k \in Faults, Finding(k) PROVE Accepts(decision)
    BY <1>1, <1>2, <1>10 DEF Finding
  <1>11. ASSUME NEW t \in Objects \cup {Outside}, Link(t) PROVE Accepts(decision)
    <2>1. CASE t \in Objects
      <3>1. Enqueue(t, Current.depth + 1) /\ pendingIndex \in 1..Len(pending) /\ t \in Addresses
        BY <1>11, <2>1 DEF Link, TypeOK, Addresses
      <3>2. Current.depth \in Nat
        BY <3>1, EntryTypes DEF Current
      <3> QED
        BY <3>1, <3>2, EnqueueCases
    <2>2. CASE t \notin Objects
      BY <1>1, <1>2, <1>11, <2>2 DEF Link
    <2> QED
      BY <2>1, <2>2
  <1>12. ASSUME NEW s \in Entries, NEW v \in BOOLEAN, ReadCacheImage(s, v) PROVE Accepts(decision)
    BY <1>1, <1>2, <1>6, <1>12 DEF ReadCacheImage
  <1>13. ASSUME NEW k \in {"accept", "warning"}, Drain(k) PROVE Accepts(decision)
    <2>1. decision' = Raise(decision, k) \/ decision' = Raise(Raise(decision, k), "unsupported")
      BY <1>13 DEF Drain
    <2> QED
      BY <1>1, <1>2, <1>3, <2>1
  <1>14. ASSUME NEW k \in {"accept", "resource"}, Sweep(k) PROVE Accepts(decision)
    BY <1>1, <1>2, <1>14 DEF Sweep
  <1>15. ASSUME NEW c \in Causes, Throw(c) PROVE Accepts(decision)
    <2>1. Failure(c).klass \in Decisions /\ decision' = Raise(decision, Failure(c).klass)
      BY <1>15, FailureRejects DEF Throw, Decisions
    <2> QED
      BY <1>2, <2>1
  <1>16. ASSUME NEW k \in {"accept", "warning", "resource"}, Finish(k) PROVE Accepts(decision)
    BY <1>1, <1>2, <1>16 DEF Finish
  <1> QED
    BY <1>4, <1>5, <1>7, <1>8, <1>9, <1>10, <1>11, <1>12, <1>13, <1>14, <1>15, <1>16
    DEF Step, StartReplay, ResetAnalysis

\* These steps reject.
LEMMA StepsThatReject ==
  ASSUME TypeOK
  PROVE  /\ InvalidProfile \/ SignatureMissing \/ PreflightFails => ~Accepts(decision')
         /\ StopAtRejection \/ RefuseHeader => ~Accepts(decision')
         /\ (\E c \in Causes : Throw(c)) => ~Accepts(decision')
  <1>1. decision \in Decisions
        /\ {"unsupported", "resource", "corrupt", "internal"} \subseteq Decisions \ {"accept", "warning"}
    BY DEF TypeOK, Decisions, Classes
  <1>2. \A k \in Decisions \ {"accept", "warning"} : ~Accepts(Raise(decision, k))
    BY <1>1, RaiseKeeps DEF Accepts
  <1>3. InvalidProfile \/ SignatureMissing \/ PreflightFails => ~Accepts(decision')
    BY <1>1, <1>2 DEF InvalidProfile, SignatureMissing, PreflightFails
  <1>4. RefuseHeader => ~Accepts(decision')
    BY <1>1, <1>2 DEF RefuseHeader
  <1>5. StopAtRejection => ~Accepts(decision')
    BY DEF StopAtRejection, StopOnRejection
  <1>6. ASSUME NEW c \in Causes, Throw(c) PROVE ~Accepts(decision')
    <2>1. Failure(c).klass \in Decisions \ {"accept", "warning"} /\ decision' = Raise(decision, Failure(c).klass)
      BY <1>6, FailureRejects DEF Throw, Decisions, Accepts
    <2> QED
      BY <1>2, <2>1
  <1> QED
    BY <1>3, <1>4, <1>5, <1>6

LEMMA ImageStep == TypeOK /\ StatusInv /\ ImageInv /\ [Next]_vars => ImageInv'
  <1> SUFFICES ASSUME TypeOK, StatusInv, ImageInv, [Next]_vars PROVE ImageInv'
    OBVIOUS
  <1>1. ASSUME UNCHANGED <<image, replayMode, imageRead, replayed>>,
               Accepts(decision') => Accepts(decision),
               \/ pc' = pc
               \/ pc \notin {"idle", "done"} /\ pc' \notin {"superblock", "graph", "seeding"}
               \/ pc = "superblock" /\ pc' = "graph"
        PROVE  ImageInv'
    BY <1>1 DEF ImageInv, image
  <1>2. ASSUME InvalidProfile \/ SignatureMissing \/ PreflightFails \/ SkipWalk PROVE ImageInv'
    <2>1. /\ UNCHANGED <<image, replayMode, imageRead, replayed>>
          /\ pc \notin {"idle", "done"} /\ pc' \notin {"superblock", "graph", "seeding"}
      BY <1>2 DEF InvalidProfile, SignatureMissing, PreflightFails, SkipWalk, trace
    <2> QED
      BY <1>1, <1>2, <2>1, RejectionStays DEF Step
  <1>3. ASSUME NEW k \in Faults \cup {"accept"}, ValidateSuperblock(k) PROVE ImageInv'
    <2>1. UNCHANGED <<image, replayMode, imageRead, replayed>> /\ pc = "superblock" /\ pc' = "graph"
      BY <1>3 DEF ValidateSuperblock, trace
    <2> QED
      BY <1>1, <1>3, <2>1, RejectionStays DEF Step
  <1>4. ASSUME EnterWalk PROVE ImageInv'
    <2>1. pc = "graph" /\ pc' = "seeding" /\ ~boundary' /\ UNCHANGED <<replayMode, imageRead, replayed>>
      BY <1>4 DEF EnterWalk, trace
    <2> QED
      BY <2>1 DEF ImageInv
  <1>5. ASSUME EnqueueSeed PROVE ImageInv'
    <2>1. UNCHANGED <<image, replayMode, imageRead, replayed, pc>> /\ pc = "seeding"
      BY <1>5 DEF EnqueueSeed, trace
    <2> QED
      BY <1>1, <1>5, <2>1, RejectionStays DEF Step
  <1>6. ASSUME Seeded \/ StopAtRejection \/ RefuseHeader \/ SkipShadowed \/ BeginHeader
               \/ (\E k \in Faults : Finding(k))
               \/ (\E t \in Objects \cup {Outside} : Link(t))
               \/ (\E a \in ClientAddrs : ReachBody(a))
               \/ EndHeader
               \/ (\E k \in {"accept", "warning"} : Drain(k))
        PROVE  ImageInv'
    <2>1. /\ UNCHANGED <<image, replayMode, imageRead, replayed>>
          /\ pc \in {"seeding", "walking", "header"} /\ pc' \in {"walking", "header", "sweep"}
      BY <1>6 DEF Seeded, StopAtRejection, RefuseHeader, SkipShadowed, BeginHeader, Visit, Dequeue,
                  Finding, Link, ReachBody, EndHeader, Drain, trace
    <2>2. Step
      BY <1>6 DEF Step
    <2> QED
      BY <1>1, <2>1, <2>2, RejectionStays
  <1>7. ASSUME NEW s \in Entries, NEW v \in BOOLEAN, ReadCacheImage(s, v) PROVE ImageInv'
    <2>1. /\ pc = "header" /\ pc' = "header" /\ ~replayMode /\ boundary' = TRUE
          /\ UNCHANGED <<replayMode, replayed>>
      BY <1>7 DEF ReadCacheImage
    <2>2. ~replayed /\ ~replayed'
      BY <2>1 DEF ImageInv
    <2>3. Accepts(decision') => replayReady' /\ bodies' # <<>>
      <3>1. CASE v
        <4>1. s # <<>> /\ bodies' = bodies \o s
          BY <1>7, <3>1 DEF ReadCacheImage
        <4>2. bodies \in Seq(Body) /\ s \in Seq(Body)
          BY EntriesTyped DEF TypeOK
        <4>3. bodies' # <<>>
          BY <4>1, <4>2
        <4>4. replayReady'
          BY <1>7, <3>1 DEF ReadCacheImage
        <4> QED
          BY <4>3, <4>4
      <3>2. CASE ~v
        <4>1. decision' = Raise(decision, "corrupt")
          BY <1>7, <3>2 DEF ReadCacheImage
        <4>2. decision \in Decisions /\ "corrupt" \in Decisions /\ ~Accepts("corrupt")
          BY DEF TypeOK, Decisions, Classes, Accepts
        <4> QED
          BY <4>1, <4>2, RaiseKeeps
      <3> QED
        BY <3>1, <3>2
    <2> QED
      BY <2>1, <2>2, <2>3 DEF ImageInv
  <1>8. ASSUME \/ \E k \in {"accept", "resource"} : Sweep(k)
               \/ \E c \in Causes : Throw(c)
        PROVE  ImageInv'
    <2>1. /\ UNCHANGED <<image, replayMode, imageRead, replayed>>
          /\ pc \notin {"idle", "done"} /\ pc' = "ratio"
      BY <1>8 DEF Sweep, Throw, trace
    <2>2. Step
      BY <1>8 DEF Step
    <2> QED
      BY <1>1, <2>1, <2>2, RejectionStays
  <1>9. ASSUME StartReplay PROVE ImageInv'
    <2>1. pc' = "superblock" /\ replayMode' = TRUE /\ replayed' = TRUE /\ boundary' = FALSE
      BY <1>9 DEF StartReplay, ResetAnalysis
    <2> QED
      BY <2>1 DEF ImageInv
  <1>10. ASSUME NEW k \in {"accept", "warning", "resource"}, Finish(k) PROVE ImageInv'
    <2>1. pc = "ratio" /\ pc' = "done" /\ UNCHANGED <<image, imageRead, replayed>>
      BY <1>10 DEF Finish, trace
    <2>2. Accepts(decision') => Accepts(decision)
      BY <1>10, <2>1, RejectionStays DEF Step
    <2> QED
      BY <2>1, <2>2 DEF ImageInv, image
  <1>11. ASSUME NEW opts \in Options, NEW f \in Files, BeginAnalysis(opts, f) PROVE ImageInv'
    <2>1. /\ pc \in {"idle", "done"} /\ boundary' = FALSE /\ imageRead' = FALSE /\ replayed' = FALSE
          /\ replayMode' = replayMode
      BY <1>11 DEF BeginAnalysis, ResetAnalysis
    <2>2. ~replayMode'
      BY <2>1 DEF StatusInv
    <2> QED
      BY <2>1, <2>2 DEF ImageInv
  <1>12. CASE UNCHANGED vars
    BY <1>1, <1>12 DEF vars, trace
  <1> QED
    BY <1>2, <1>3, <1>4, <1>5, <1>6, <1>7, <1>8, <1>9, <1>10, <1>11, <1>12 DEF Next, Step

LEMMA PhasesAlways == Spec => [](TypeOK /\ StatusInv /\ QueueInv /\ ImageInv)
  <1>1. Init => StatusInv /\ ImageInv
    BY DEF Init, StatusInv, ImageInv
  <1> QED
    BY <1>1, StatusStep, ImageStep, QueueAlways, TypeCorrect, PTL DEF Spec

-----------------------------------------------------------------------------
(* The headers that a pass starts from.                                    *)

IsJoined(all, first, x, rest) == all = first \o <<x>> \o rest
HasParts(all, first, x, rest) ==
  /\ \A i \in 1..Len(first) : \E j \in 1..Len(all) : all[j] = first[i]
  /\ \E j \in 1..Len(all) : all[j] = x
  /\ \A i \in 1..Len(rest) : \E j \in 1..Len(all) : all[j] = rest[i]

LEMMA ThreeParts ==
  ASSUME NEW T, NEW first \in Seq(T), NEW x \in T, NEW rest \in Seq(T),
         NEW all \in Seq(T), IsJoined(all, first, x, rest)
  PROVE  HasParts(all, first, x, rest)
  <1>1. first \o <<x>> \in Seq(T) /\ Len(first) \in Nat /\ Len(rest) \in Nat
        /\ Len(first \o <<x>>) = Len(first) + 1 /\ Len(all) = Len(first) + 1 + Len(rest)
    BY DEF IsJoined
  <1>2. ASSUME NEW i \in 1..Len(first) PROVE \E j \in 1..Len(all) : all[j] = first[i]
    <2>1. i \in 1..Len(all) /\ all[i] = first[i]
      BY <1>1 DEF IsJoined
    <2> QED
      BY <2>1
  <1>3. Len(first) + 1 \in 1..Len(all) /\ all[Len(first) + 1] = x
    BY <1>1 DEF IsJoined
  <1>4. ASSUME NEW i \in 1..Len(rest) PROVE \E j \in 1..Len(all) : all[j] = rest[i]
    <2>1. Len(first) + 1 + i \in 1..Len(all) /\ all[Len(first) + 1 + i] = rest[i]
      BY <1>1 DEF IsJoined
    <2> QED
      BY <2>1
  <1> QED
    BY <1>2, <1>3, <1>4 DEF HasParts

\* Each of them is among the seeds.
LEMMA StartsSeeded ==
  ASSUME TypeOK, ImageInv, pc = "graph", NEW a \in Starts
  PROVE  \E i \in 1..Len(Seeds) : Seeds[i] = Header(a)
  <1> DEFINE first == IF file.ext \in Objects THEN <<Header(file.ext)>> ELSE <<>>
             rest  == IF replayMode THEN bodies ELSE <<>>
  <1>1. Seeds = (first \o <<Header(file.root)>>) \o rest
    BY DEF Seeds
  <1> DEFINE T == Body \cup {Header(file.ext), Header(file.root)}
  <1>2. first \in Seq(T)
    <2>1. <<Header(file.ext)>> \in Seq(T) /\ <<>> \in Seq(T)
      OBVIOUS
    <2> QED
      BY <2>1
  <1>3. rest \in Seq(T)
    <2>1. bodies \in Seq(Body) /\ \A i \in 1..Len(bodies) : bodies[i] \in Body
      BY DEF TypeOK
    <2>2. bodies \in Seq(T) /\ <<>> \in Seq(T)
      BY <2>1, SeqOver
    <2> QED
      BY <2>2
  <1> DEFINE h == Header(file.root)
  <1>4. h \in T
    OBVIOUS
  <1>5. file.ext \in Objects => 1 \in 1..Len(first) /\ first[1] = Header(file.ext)
    OBVIOUS
  <1>6. replayed => rest = bodies
    BY DEF ImageInv
  <1>7. Seeds = first \o <<h>> \o rest
    BY <1>1
  <1> HIDE DEF first, rest, T, h, Seeds
  <1>8. Seeds \in Seq(T) /\ IsJoined(Seeds, first, h, rest)
    BY <1>2, <1>3, <1>4, <1>7 DEF IsJoined
  <1>8a. HasParts(Seeds, first, h, rest)
    BY <1>2, <1>3, <1>4, <1>8, ThreeParts
  <1>9. /\ \A i \in 1..Len(first) : \E j \in 1..Len(Seeds) : Seeds[j] = first[i]
        /\ \E j \in 1..Len(Seeds) : Seeds[j] = h
        /\ \A i \in 1..Len(rest) : \E j \in 1..Len(Seeds) : Seeds[j] = rest[i]
    BY <1>8a DEF HasParts
  <1>10. CASE a = file.root
    BY <1>9, <1>10 DEF h
  <1>11. CASE a \in Objects /\ a = file.ext
    BY <1>5, <1>9, <1>11
  <1>12. CASE replayed /\ a \in {bodies[i].addr : i \in HeaderBodies}
    <2>1. PICK i \in 1..Len(bodies) : bodies[i].ohdr /\ a = bodies[i].addr
      BY <1>12 DEF HeaderBodies
    <2>2. bodies[i] \in Body
      BY DEF TypeOK
    <2>3. bodies[i] = Header(a)
      <3>1. bodies[i].ohdr = TRUE
        BY <2>1, <2>2 DEF Body
      <3> QED
        BY <2>1, <2>2, <3>1 DEF Body, Header
    <2> QED
      BY <1>6, <1>9, <1>12, <2>3
  <1> QED
    BY <1>10, <1>11, <1>12 DEF Starts

-----------------------------------------------------------------------------
(* An accepting report vouches for every header.                           *)

\* A step that leaves the walk where it is.
LEMMA VettedFrame ==
  ASSUME VettedInv, Accepts(decision') => Accepts(decision), reached \subseteq reached',
         UNCHANGED <<file, started, completed, boundary, bodies, pending, pendingIndex, seeds, edges,
                     validated, imageRead, replayed>>,
         pc' = pc \/ (pc = "sweep" /\ pc' = "ratio")
  PROVE  VettedInv'
  <1>1. Queued' = Queued /\ Behind' = Behind /\ BodyAddrs' = BodyAddrs
    BY DEF Queued, Behind, BodyAddrs
  <1>2. Starts' = Starts
    BY DEF Starts, HeaderBodies
  <1>3. \A a : Waiting(a) => Waiting(a)'
    BY DEF Waiting
  <1>4. RootKnown' /\ StartsWaiting' /\ StartsQueued'
    BY <1>1, <1>2, <1>3 DEF VettedInv, RootKnown, StartsWaiting, StartsQueued, Walks
  <1>5. LinksQueued' /\ BehindVetted'
    BY <1>1 DEF VettedInv, LinksQueued, BehindVetted
  <1>6. Vetted => Vetted'
    BY <1>1 DEF Vetted
  <1>7. ReportVetted'
    BY <1>6 DEF VettedInv, ReportVetted
  <1> QED
    BY <1>4, <1>5, <1>7 DEF VettedInv

\* A step that ends the walk with a rejection.
LEMMA VettedRejected ==
  ASSUME ~Accepts(decision'), pc' \in {"sweep", "ratio", "done"}
  PROVE  VettedInv'
  BY DEF VettedInv, RootKnown, StartsWaiting, StartsQueued, LinksQueued, BehindVetted, ReportVetted, Walks

\* A step that starts a pass.
LEMMA VettedReset ==
  ASSUME ResetAnalysis
  PROVE  VettedInv'
  <1>1. pc' = "superblock" /\ edges' = {} /\ pendingIndex' = 0
    BY DEF ResetAnalysis, ResetTraversal
  <1>2. Behind' = {}
    BY <1>1 DEF Behind
  <1> QED
    BY <1>1, <1>2
    DEF VettedInv, RootKnown, StartsWaiting, StartsQueued, LinksQueued, BehindVetted, ReportVetted, Walks

\* The superblock is validated, and the walk is set up.
LEMMA VettedSetUp ==
  ASSUME TypeOK, QueueInv, ImageInv, VettedInv
  PROVE  /\ (\E k \in Faults \cup {"accept"} : ValidateSuperblock(k)) => VettedInv'
         /\ SkipWalk => VettedInv'
         /\ EnterWalk => VettedInv'
         /\ EnqueueSeed => VettedInv'
         /\ Seeded => VettedInv'
  <1>1. ASSUME NEW k \in Faults \cup {"accept"}, ValidateSuperblock(k) PROVE VettedInv'
    <2>1. pc = "superblock" /\ pc' = "graph" /\ UNCHANGED <<file, pendingIndex, edges>>
      BY <1>1 DEF ValidateSuperblock, queue, trace
    <2>2. pendingIndex' = 0 /\ edges' = {}
      BY <2>1 DEF QueueInv
    <2>3. Behind' = {}
      BY <2>1, <2>2 DEF Behind
    <2>4. Accepts(decision') => file.root \in Objects
      <3> DEFINE bad == IF file.root \notin Objects \/ file.ext = Outside THEN "corrupt" ELSE "accept"
      <3>1. decision \in Decisions /\ k \in Decisions /\ bad \in Decisions
        BY BoundAssumption DEF TypeOK, Decisions, Classes
      <3>2. decision' = Raise(Raise(decision, k), bad)
        BY <1>1 DEF ValidateSuperblock
      <3>3. Accepts(bad) => file.root \in Objects
        BY DEF Accepts
      <3> HIDE DEF bad
      <3>4. Raise(decision, k) \in Decisions
        BY <3>1, RaiseKeeps
      <3> QED
        BY <3>1, <3>2, <3>3, <3>4, RaiseKeeps
    <2>5. Accepts(decision') => file'.root = Root
      BY <2>1, <2>4, FilesKnown
    <2> QED
      BY <2>1, <2>2, <2>3, <2>5
      DEF VettedInv, RootKnown, StartsWaiting, StartsQueued, LinksQueued, BehindVetted, ReportVetted
  <1>2. ASSUME SkipWalk PROVE VettedInv'
    <2>1. pc = "graph" /\ pc' = "sweep" /\ decision' = decision
          /\ (file.root = Outside \/ ~Accepts(decision))
      BY <1>2 DEF SkipWalk, StopOnRejection
    <2>2. ~Accepts(decision)
      BY <2>1, AddressAssumption DEF VettedInv, RootKnown, Walks
    <2> QED
      BY <2>1, <2>2, VettedRejected
  <1>3. ASSUME EnterWalk PROVE VettedInv'
    <2>1. /\ pc = "graph" /\ pc' = "seeding" /\ decision' = decision /\ pendingIndex' = 0
          /\ seeds' = Seeds /\ UNCHANGED <<file, bodies, edges, replayed>>
      BY <1>3 DEF EnterWalk, ResetTraversal, trace
    <2>2. edges' = {} /\ Behind' = {}
      BY <2>1 DEF QueueInv, Behind
    <2>3. Starts' = Starts
      BY <2>1 DEF Starts, HeaderBodies
    <2>4. \A a \in Starts' : Waiting(a)'
      BY <2>1, <2>3, StartsSeeded DEF Waiting
    <2>5. file'.root = Root \/ ~Accepts(decision')
      BY <2>1 DEF VettedInv, RootKnown, Walks
    <2> QED
      BY <2>1, <2>2, <2>4, <2>5
      DEF VettedInv, RootKnown, StartsWaiting, StartsQueued, LinksQueued, BehindVetted, ReportVetted
  <1>4. ASSUME EnqueueSeed PROVE VettedInv'
    <2>1. /\ pc = "seeding" /\ pc' = "seeding" /\ seeds # <<>> /\ seeds' = Tail(seeds)
          /\ UNCHANGED <<file, bodies, edges, replayed, pendingIndex>>
      BY <1>4 DEF EnqueueSeed, image, trace
    <2>2. edges' = {} /\ Behind' = {}
      BY <2>1 DEF QueueInv, Behind
    <2>3. Starts' = Starts
      BY <2>1 DEF Starts, HeaderBodies
    <2>4. seeds \in Seq(Start) /\ Head(seeds) = seeds[1] /\ Len(seeds) \in Nat
          /\ \A i \in 1..Len(seeds) : i # 1 => i - 1 \in 1..Len(seeds') /\ seeds'[i - 1] = seeds[i]
      BY <2>1 DEF TypeOK
    <2>5. Queued \subseteq Queued' /\ (Head(seeds).ohdr => Head(seeds).addr \in Queued')
      <3>1. CASE Head(seeds).ohdr
        <4>1. Enqueue(Head(seeds).addr, 0)
          BY <1>4, <3>1 DEF EnqueueSeed
        <4>2. Head(seeds) \in Start
          BY <2>1, <2>4
        <4>3. Head(seeds).addr \in Addresses
          BY <4>2 DEF Start
        <4>4. visited \subseteq Queued
          BY DEF QueueInv
        <4>5. ~TooDeep(Head(seeds).addr, 0)
          BY EntryTypes DEF TooDeep
        <4>6. CASE Known(Head(seeds).addr, 0)
          BY <4>4, <4>6 DEF Known, Queued
        <4>7. CASE Added(Head(seeds).addr, 0)
          BY <4>3, <4>7, AddedLast
        <4> QED
          BY <4>1, <4>3, <4>5, <4>6, <4>7, EnqueueCases
      <3>2. CASE ~Head(seeds).ohdr
        <4>1. pending' = pending
          BY <1>4, <3>2 DEF EnqueueSeed
        <4> QED
          BY <3>2, <4>1 DEF Queued
      <3> QED
        BY <3>1, <3>2
    <2>6. ASSUME NEW a \in Starts PROVE Waiting(a)' \/ a \in Queued'
      <3>1. CASE a \in Queued
        BY <2>5, <3>1
      <3>2. CASE Waiting(a)
        <4>1. PICK i \in 1..Len(seeds) : seeds[i] = Header(a)
          BY <3>2 DEF Waiting
        <4>2. CASE i = 1
          BY <2>4, <2>5, <4>1, <4>2 DEF Header
        <4>3. CASE i # 1
          BY <2>4, <4>1, <4>3 DEF Waiting
        <4> QED
          BY <4>2, <4>3
      <3> QED
        BY <2>1, <3>1, <3>2 DEF VettedInv, StartsWaiting
    <2>7. Accepts(decision') => file'.root = Root
      <3>1. Accepts(decision') => Accepts(decision)
        BY <1>4, <2>1, RejectionStays DEF Step
      <3> QED
        BY <2>1, <3>1 DEF VettedInv, RootKnown, Walks
    <2> QED
      BY <2>1, <2>2, <2>3, <2>6, <2>7
      DEF VettedInv, RootKnown, StartsWaiting, StartsQueued, LinksQueued, BehindVetted, ReportVetted
  <1>5. ASSUME Seeded PROVE VettedInv'
    <2>1. /\ pc = "seeding" /\ pc' = "walking" /\ seeds = <<>>
          /\ UNCHANGED <<file, decision, bodies, pending, pendingIndex, edges, replayed>>
      BY <1>5 DEF Seeded, image, queue, trace
    <2>2. edges' = {} /\ Behind' = {}
      BY <2>1 DEF QueueInv, Behind
    <2>3. Starts' = Starts /\ Queued' = Queued
      BY <2>1 DEF Starts, HeaderBodies, Queued
    <2>4. \A a : ~Waiting(a)
      BY <2>1 DEF Waiting
    <2>5. Starts' \subseteq Queued'
      BY <2>1, <2>3, <2>4 DEF VettedInv, StartsWaiting
    <2>6. Accepts(decision') => file'.root = Root
      BY <2>1 DEF VettedInv, RootKnown, Walks
    <2> QED
      BY <2>1, <2>2, <2>5, <2>6
      DEF VettedInv, RootKnown, StartsWaiting, StartsQueued, LinksQueued, BehindVetted, ReportVetted
  <1> QED
    BY <1>1, <1>2, <1>3, <1>4, <1>5

\* The headers are dequeued, and those behind the walk have been validated.
LEMMA VettedWalk ==
  ASSUME TypeOK, VettedInv
  PROVE  /\ StopAtRejection => VettedInv'
         /\ RefuseHeader => VettedInv'
         /\ SkipShadowed => VettedInv'
         /\ BeginHeader => VettedInv'
         /\ EndHeader => VettedInv'
  <1>1. ASSUME StopAtRejection PROVE VettedInv'
    <2>1. ~Accepts(decision') /\ pc' = "sweep"
      BY <1>1, StepsThatReject DEF StopAtRejection
    <2> QED
      BY <2>1, VettedRejected
  <1>2. ASSUME RefuseHeader \/ SkipShadowed \/ BeginHeader
        PROVE  /\ pc = "walking" /\ pc' \in {"walking", "header"}
               /\ Starts' = Starts /\ Queued' = Queued
               /\ StartsQueued' /\ (Accepts(decision') => Accepts(decision) /\ file'.root = Root)
               /\ LinksQueued' /\ UNCHANGED <<pending, validated, boundary>>
    <2>1. /\ pc = "walking" /\ pc' \in {"walking", "header"}
          /\ UNCHANGED <<file, pending, bodies, boundary, edges, validated, replayed>>
      BY <1>2 DEF RefuseHeader, SkipShadowed, BeginHeader, Visit, Dequeue, image, trace
    <2>2. Starts' = Starts /\ Queued' = Queued
      BY <2>1 DEF Starts, HeaderBodies, Queued
    <2>3. Accepts(decision') => Accepts(decision)
      BY <1>2, <2>1, RejectionStays DEF Step
    <2>4. StartsQueued' /\ LinksQueued'
      BY <2>1, <2>2, <2>3 DEF VettedInv, StartsQueued, LinksQueued
    <2>5. Accepts(decision') => file'.root = Root
      BY <2>1, <2>3 DEF VettedInv, RootKnown, Walks
    <2> QED
      BY <2>1, <2>2, <2>3, <2>4, <2>5
  <1>3. ASSUME RefuseHeader PROVE VettedInv'
    <2>1. ~Accepts(decision')
      BY <1>3, StepsThatReject
    <2> QED
      BY <1>2, <1>3, <2>1
      DEF VettedInv, RootKnown, StartsWaiting, StartsQueued, LinksQueued, BehindVetted, ReportVetted
  <1>4. ASSUME SkipShadowed PROVE VettedInv'
    <2>1. boundary'
      BY <1>2, <1>4 DEF SkipShadowed
    <2> QED
      BY <1>2, <1>4, <2>1
      DEF VettedInv, RootKnown, StartsWaiting, StartsQueued, LinksQueued, BehindVetted, ReportVetted
  <1>5. ASSUME BeginHeader PROVE VettedInv'
    <2>1. Behind' = Behind
      <3>1. pc = "walking" /\ pc' = "header" /\ pendingIndex' = pendingIndex + 1 /\ pendingIndex \in Nat
        BY <1>5, EntryTypes DEF BeginHeader, Visit, Dequeue
      <3> QED
        BY <3>1 DEF Behind
    <2>2. BehindVetted'
      BY <1>2, <1>5, <2>1 DEF VettedInv, BehindVetted
    <2> QED
      BY <1>2, <1>5, <2>2
      DEF VettedInv, RootKnown, StartsWaiting, StartsQueued, LinksQueued, ReportVetted
  <1>6. ASSUME EndHeader PROVE VettedInv'
    <2>1. /\ pc = "header" /\ pc' = "walking" /\ validated' = validated \cup {Current.addr}
          /\ UNCHANGED <<file, decision, pending, pendingIndex, bodies, boundary, edges, replayed>>
      BY <1>6 DEF EndHeader, image, queue
    <2>2. Starts' = Starts /\ Queued' = Queued
      BY <2>1 DEF Starts, HeaderBodies, Queued
    <2>3. BehindVetted'
      <3>1. SUFFICES ASSUME Accepts(decision), ~boundary, NEW i \in 1..pendingIndex
                     PROVE  pending[i].addr \in validated'
        BY <2>1 DEF BehindVetted, Behind
      <3>2. CASE i = pendingIndex
        BY <2>1, <3>2 DEF Current
      <3>3. CASE i # pendingIndex
        <4>1. i \in Behind
          BY <2>1, <3>3, EntryTypes DEF Behind
        <4> QED
          BY <2>1, <3>1, <4>1 DEF VettedInv, BehindVetted
      <3> QED
        BY <3>2, <3>3
    <2> QED
      BY <2>1, <2>2, <2>3
      DEF VettedInv, RootKnown, StartsWaiting, StartsQueued, LinksQueued, ReportVetted, Walks
  <1> QED
    BY <1>1, <1>3, <1>4, <1>5, <1>6

\* A link that an accepted file holds leads to a header in the queue.
LEMMA VettedHeader ==
  ASSUME TypeOK, QueueInv, ImageInv, VettedInv
  PROVE  /\ (\E k \in Faults : Finding(k)) => VettedInv'
         /\ (\E t \in Objects \cup {Outside} : Link(t)) => VettedInv'
         /\ (\E s \in Entries, v \in BOOLEAN : ReadCacheImage(s, v)) => VettedInv'
         /\ (\E a \in ClientAddrs : ReachBody(a)) => VettedInv'
  <1>1. ASSUME (\E k \in Faults : Finding(k)) \/ (\E a \in ClientAddrs : ReachBody(a)) PROVE VettedInv'
    <2>1. /\ pc = "header" /\ pc' = pc /\ reached \subseteq reached'
          /\ UNCHANGED <<file, started, completed, boundary, bodies, pending, pendingIndex, seeds, edges,
                         validated, imageRead, replayed>>
      BY <1>1 DEF Finding, ReachBody, status, image, queue, trace
    <2>2. Accepts(decision') => Accepts(decision)
      BY <1>1, <2>1, RejectionStays DEF Step
    <2> QED
      BY <2>1, <2>2, VettedFrame
  <1>2. ASSUME NEW t \in Objects \cup {Outside}, Link(t) PROVE VettedInv'
    <2>1. /\ pc = "header" /\ pc' = pc /\ reached \subseteq reached'
          /\ UNCHANGED <<file, started, completed, boundary, bodies, pendingIndex, seeds,
                         validated, imageRead, replayed>>
      BY <1>2 DEF Link, status, image
    <2>2. Accepts(decision') => Accepts(decision)
      BY <1>2, <2>1, RejectionStays DEF Step
    <2>3. CASE t \notin Objects
      <3>1. UNCHANGED <<pending, edges>>
        BY <1>2, <2>3 DEF Link
      <3> QED
        BY <2>1, <2>2, <3>1, VettedFrame
    <2>4. CASE t \in Objects
      <3> DEFINE d == Current.depth + 1
      <3>1. /\ Enqueue(t, d) /\ edges' = edges \cup {<<Current.addr, t>>} /\ t \in Addresses
            /\ pendingIndex \in 1..Len(pending)
        BY <1>2, <2>1, <2>4 DEF Link, Addresses, TypeOK
      <3>2. d \in Nat
        BY <3>1, EntryTypes DEF Current
      <3> HIDE DEF d
      <3>3. /\ \A i \in 1..Len(pending) : pending'[i] = pending[i]
            /\ Queued \subseteq Queued'
            /\ Accepts(decision') => t \in Queued'
        <4>1. CASE TooDeep(t, d)
          BY <4>1 DEF TooDeep, Queued
        <4>2. CASE Known(t, d)
          <5>1. visited \subseteq Queued
            BY DEF QueueInv
          <5> QED
            BY <4>2, <5>1 DEF Known, Queued
        <4>3. CASE Added(t, d)
          BY <3>1, <3>2, <4>3, AddedLast
        <4> QED
          BY <3>1, <3>2, <4>1, <4>2, <4>3, EnqueueCases
      <3>4. Starts' = Starts /\ Behind' = Behind /\ Behind \subseteq 1..Len(pending)
        BY <2>1, <3>1, EntryTypes DEF Starts, HeaderBodies, Behind
      <3>5. LinksQueued'
        BY <2>2, <3>1, <3>3 DEF VettedInv, LinksQueued
      <3>6. BehindVetted'
        BY <2>1, <2>2, <3>3, <3>4 DEF VettedInv, BehindVetted
      <3>7. StartsQueued'
        BY <2>1, <3>3, <3>4 DEF VettedInv, StartsQueued
      <3>8. RootKnown'
        BY <2>1, <2>2 DEF VettedInv, RootKnown, Walks
      <3> QED
        BY <2>1, <3>5, <3>6, <3>7, <3>8 DEF VettedInv, StartsWaiting, ReportVetted
    <2> QED
      BY <2>3, <2>4
  <1>3. ASSUME NEW s \in Entries, NEW v \in BOOLEAN, ReadCacheImage(s, v) PROVE VettedInv'
    <2>1. /\ pc = "header" /\ pc' = "header" /\ ~replayMode /\ boundary' = TRUE
          /\ UNCHANGED <<file, pending, edges, replayed>>
      BY <1>3 DEF ReadCacheImage, queue
    <2>2. Starts' = Starts /\ Queued' = Queued
      <3>1. ~replayed /\ ~replayed'
        BY <2>1 DEF ImageInv
      <3> QED
        BY <2>1, <3>1 DEF Starts, Queued
    <2>3. Accepts(decision') => Accepts(decision)
      BY <1>3, <2>1, RejectionStays DEF Step
    <2>4. boundary'
      BY <2>1
    <2>5. LinksQueued' /\ StartsQueued' /\ RootKnown'
      BY <2>1, <2>2, <2>3 DEF VettedInv, LinksQueued, StartsQueued, RootKnown, Walks
    <2> QED
      BY <2>1, <2>4, <2>5 DEF VettedInv, StartsWaiting, BehindVetted, ReportVetted
  <1> QED
    BY <1>1, <1>2, <1>3

\* The walk ran dry: every queued header is behind it.
LEMMA VettedDrain ==
  ASSUME TypeOK, StatusInv, ImageInv, VettedInv, NEW k \in {"accept", "warning"}, Drain(k)
  PROVE  VettedInv'
  <1>1. /\ pc = "walking" /\ pc' = "sweep" /\ pendingIndex = Len(pending)
        /\ UNCHANGED <<file, started, boundary, bodies, pending, pendingIndex, edges, validated,
                       reached, imageRead, replayed>>
    BY DEF Drain, image, queue, trace
  <1>2. Accepts(decision') => Accepts(decision)
    BY <1>1, RejectionStays DEF Step
  <1>3. Queued' = Queued /\ Behind' = Behind
    BY <1>1 DEF Queued, Behind
  <1>4. LinksQueued' /\ BehindVetted'
    BY <1>1, <1>2, <1>3 DEF VettedInv, LinksQueued, BehindVetted
  <1>5. ASSUME Accepts(decision'), ~boundary PROVE Vetted'
    <2>1. ~(replayMode /\ UnreachedBodies # {})
      <3>1. SUFFICES ASSUME replayMode /\ UnreachedBodies # {} PROVE FALSE
        OBVIOUS
      <3>2. decision' = Raise(Raise(decision, k), "unsupported")
        BY <1>5, <3>1 DEF Drain
      <3>3. decision \in Decisions /\ k \in Decisions /\ "unsupported" \in Decisions
            /\ ~Accepts("unsupported")
        BY DEF TypeOK, Decisions, Classes, Accepts
      <3>4. Raise(decision, k) \in Decisions
        BY <3>3, RaiseKeeps
      <3> QED
        BY <1>5, <3>2, <3>3, <3>4, RaiseKeeps
    <2>2. completed' = TRUE
      BY <1>5, <2>1 DEF Drain
    <2>3. started'
      BY <1>1 DEF StatusInv
    <2>4. Queued \subseteq validated
      <3>1. Behind = 1..Len(pending)
        BY <1>1 DEF Behind
      <3> QED
        BY <1>2, <1>5, <3>1 DEF VettedInv, BehindVetted, Queued
    <2>5. Starts \subseteq validated /\ \A e \in edges : e[2] \in validated
      BY <1>1, <1>2, <1>5, <2>4 DEF VettedInv, StartsQueued, LinksQueued
    <2>6. file.root = Root
      BY <1>1, <1>2, <1>5 DEF VettedInv, RootKnown, Walks
    <2>7. Root \in validated /\ (file.ext \in Objects => file.ext \in validated)
          /\ (replayed => \A i \in 1..Len(bodies) : bodies[i].ohdr => bodies[i].addr \in validated)
      BY <2>5, <2>6 DEF Starts, HeaderBodies
    <2>8. imageRead => replayed /\ BodyAddrs \subseteq reached
      BY <1>1, <1>5, <2>1 DEF ImageInv, UnreachedBodies
    <2>9. BodyAddrs' = BodyAddrs
      BY <1>1 DEF BodyAddrs
    <2>10. completed' /\ started'
      BY <2>2, <2>3
    <2> QED
      BY <1>1, <2>5, <2>7, <2>8, <2>9, <2>10 DEF Vetted
  <1>6. ReportVetted'
    BY <1>1, <1>5 DEF ReportVetted
  <1> QED
    BY <1>1, <1>4, <1>6 DEF VettedInv, RootKnown, StartsWaiting, StartsQueued, Walks

\* The caller gets a report that accepts only when no replay was owed.
LEMMA VettedFinish ==
  ASSUME TypeOK, ImageInv, VettedInv, NEW k \in {"accept", "warning", "resource"}, Finish(k)
  PROVE  VettedInv'
  <1>1. /\ pc = "ratio" /\ pc' = "done" /\ ~MustReplay
        /\ UNCHANGED <<file, started, completed, boundary, bodies, pending, pendingIndex, edges,
                       validated, reached, imageRead, replayed>>
    BY DEF Finish, status, image, queue, trace
  <1>2. Accepts(decision') => Accepts(decision)
    BY <1>1, RejectionStays DEF Step
  <1>3. Queued' = Queued /\ Behind' = Behind /\ BodyAddrs' = BodyAddrs
    BY <1>1 DEF Queued, Behind, BodyAddrs
  <1>4. LinksQueued' /\ BehindVetted'
    BY <1>1, <1>2, <1>3 DEF VettedInv, LinksQueued, BehindVetted
  <1>5. ~(boundary /\ Accepts(decision))
    BY <1>1 DEF ImageInv, MustReplay
  <1>6. Vetted => Vetted'
    BY <1>1, <1>3 DEF Vetted
  <1>7. ReportVetted'
    BY <1>1, <1>2, <1>5, <1>6 DEF VettedInv, ReportVetted
  <1> QED
    BY <1>1, <1>4, <1>7 DEF VettedInv, RootKnown, StartsWaiting, StartsQueued, Walks

LEMMA VettedStep ==
  TypeOK /\ StatusInv /\ QueueInv /\ ImageInv /\ VettedInv /\ [Next]_vars => VettedInv'
  <1> SUFFICES ASSUME TypeOK, StatusInv, QueueInv, ImageInv, VettedInv, [Next]_vars PROVE VettedInv'
    OBVIOUS
  <1>1. ASSUME InvalidProfile \/ SignatureMissing \/ PreflightFails PROVE VettedInv'
    <2>1. ~Accepts(decision') /\ pc' \in {"ratio", "done"}
      BY <1>1, StepsThatReject DEF InvalidProfile, SignatureMissing, PreflightFails
    <2> QED
      BY <2>1, VettedRejected
  <1>2. ASSUME NEW c \in Causes, Throw(c) PROVE VettedInv'
    <2>1. ~Accepts(decision') /\ pc' = "ratio"
      BY <1>2, StepsThatReject DEF Throw
    <2> QED
      BY <2>1, VettedRejected
  <1>3. ASSUME StartReplay \/ (\E opts \in Options, f \in Files : BeginAnalysis(opts, f))
        PROVE  VettedInv'
    BY <1>3, VettedReset DEF StartReplay, BeginAnalysis
  <1>4. ASSUME NEW k \in {"accept", "resource"}, Sweep(k) PROVE VettedInv'
    <2>1. /\ pc = "sweep" /\ pc' = "ratio" /\ reached' = reached
          /\ UNCHANGED <<file, started, completed, boundary, bodies, pending, pendingIndex, seeds, edges,
                         validated, imageRead, replayed>>
      BY <1>4 DEF Sweep, status, image, queue, trace
    <2>2. Accepts(decision') => Accepts(decision)
      BY <1>4, <2>1, RejectionStays DEF Step
    <2> QED
      BY <2>1, <2>2, VettedFrame
  <1>5. CASE UNCHANGED vars
    BY <1>5, VettedFrame DEF vars, status, image, queue, trace
  <1> QED
    BY <1>1, <1>2, <1>3, <1>4, <1>5, VettedSetUp, VettedWalk, VettedHeader, VettedDrain, VettedFinish
    DEF Next, Step

\* A report accepts only a file whose whole reachable graph was validated to
\* its end in the pass it describes: the root, the extension, every cached
\* header and every linked one, and all of a cache image by the replay pass.
THEOREM AcceptMeansVettedCorrect == Spec => []AcceptMeansVetted
  <1>1. Init => VettedInv
    <2> SUFFICES ASSUME Init PROVE VettedInv
      OBVIOUS
    <2>1. pc = "idle" /\ edges = {} /\ pendingIndex = 0
      BY DEF Init
    <2>2. Behind = {}
      BY <2>1 DEF Behind
    <2> QED
      BY <2>1, <2>2
      DEF VettedInv, RootKnown, StartsWaiting, StartsQueued, LinksQueued, BehindVetted, ReportVetted, Walks
  <1>2. VettedInv => AcceptMeansVetted
    BY DEF VettedInv, ReportVetted, Vetted, AcceptMeansVetted
  <1> QED
    BY <1>1, <1>2, VettedStep, PhasesAlways, PTL DEF Spec

-----------------------------------------------------------------------------
(* The extension is not part of the object graph.                          *)

\* A step that leaves the walk where it is, or ends it.
LEMMA PrivateFrame ==
  ASSUME PrivateInv, Accepts(decision') => Accepts(decision),
         UNCHANGED <<file, started, bodies, pending, extAddr, seeds, edges, replayed>>,
         \/ pc' = pc /\ replayMode' = replayMode
         \/ pc \in {"walking", "header"} /\ pc' \in {"walking", "header"}
         \/ pc \in {"walking", "header", "sweep", "ratio"} /\ pc' \in {"sweep", "ratio", "done"}
  PROVE  PrivateInv'
  <1> SUFFICES ASSUME file.ext \in Objects
               PROVE  ExtRecorded' /\ ExtFirst' /\ AliasWaits' /\ ExtQueued' /\ NoAlias' /\ NoLink'
    BY DEF PrivateInv
  <1>1. ExtRecorded /\ ExtFirst /\ AliasWaits /\ ExtQueued /\ NoAlias /\ NoLink
    BY DEF PrivateInv
  <1>2. Aliased' = Aliased /\ Queued' = Queued /\ Waiting(file.ext)' = Waiting(file.ext)
    BY DEF Aliased, HeaderBodies, Queued, Waiting
  <1>3. pc' = "seeding" => Seeds' = Seeds
    BY DEF Seeds
  <1>4. ExtRecorded' /\ ExtFirst' /\ NoLink'
    BY <1>1, <1>3 DEF ExtRecorded, ExtFirst, NoLink
  <1>5. AliasWaits' /\ ExtQueued'
    BY <1>1, <1>2 DEF AliasWaits, ExtQueued
  <1>6. NoAlias'
    BY <1>1, <1>2 DEF NoAlias
  <1> QED
    BY <1>4, <1>5, <1>6

LEMMA PrivateRejected ==
  ASSUME ~Accepts(decision'), pc' \in {"sweep", "ratio", "done"}
  PROVE  PrivateInv'
  BY DEF PrivateInv, ExtRecorded, ExtFirst, AliasWaits, ExtQueued, NoAlias, NoLink

\* No link has been read, and the walk has not been set up.
LEMMA PrivateBefore ==
  ASSUME edges' = {}, pc' \in {"superblock", "graph"} \/ (pc' = "sweep" /\ ~started')
  PROVE  PrivateInv'
  BY DEF PrivateInv, ExtRecorded, ExtFirst, AliasWaits, ExtQueued, NoAlias, NoLink

\* Past the first seed, every other name of the extension is still to come.
LEMMA AliasIsSeeded ==
  ASSUME TypeOK, ImageInv, pc = "seeding", file.ext \in Objects
  PROVE  /\ Len(Seeds) > 0 /\ Head(Seeds) = Header(file.ext)
         /\ Aliased => \E j \in 1..Len(Tail(Seeds)) : Tail(Seeds)[j] = Header(file.ext)
  <1> DEFINE rest == IF replayMode THEN bodies ELSE <<>>
             h == Header(file.root)
             x == Header(file.ext)
             T == Body \cup {h, x}
  <1>1. Seeds = <<x>> \o <<h>> \o rest
    BY DEF Seeds
  <1>2. rest \in Seq(T)
    <2>1. bodies \in Seq(Body) /\ \A i \in 1..Len(bodies) : bodies[i] \in Body
      BY DEF TypeOK
    <2>2. bodies \in Seq(T) /\ <<>> \in Seq(T)
      BY <2>1, SeqOver
    <2> QED
      BY <2>2
  <1>3. h \in T /\ x \in T
    OBVIOUS
  <1>4. replayed => rest = bodies
    BY DEF ImageInv
  <1> HIDE DEF rest, h, x, T
  <1>5. Len(Seeds) > 0 /\ Head(Seeds) = x /\ Tail(Seeds) = <<>> \o <<h>> \o rest
        /\ Tail(Seeds) \in Seq(T)
    BY <1>1, <1>2, <1>3
  <1> HIDE DEF Seeds
  <1> DEFINE others == Tail(Seeds)
             none == <<>>
  <1>6. IsJoined(others, none, h, rest) /\ none \in Seq(T) /\ others \in Seq(T)
    BY <1>5 DEF IsJoined
  <1> HIDE DEF others, none
  <1>6a. HasParts(others, none, h, rest)
    BY <1>2, <1>3, <1>6, ThreeParts
  <1>7. /\ \E j \in 1..Len(others) : others[j] = h
        /\ \A i \in 1..Len(rest) : \E j \in 1..Len(others) : others[j] = rest[i]
    BY <1>6a DEF HasParts
  <1>8. CASE file.root = file.ext
    BY <1>5, <1>7, <1>8 DEF h, x, others
  <1>9. CASE replayed /\ \E i \in HeaderBodies : bodies[i].addr = file.ext
    <2>1. PICK i \in 1..Len(bodies) : bodies[i].ohdr /\ bodies[i].addr = file.ext
      BY <1>9 DEF HeaderBodies
    <2>2. bodies[i] \in Body
      BY DEF TypeOK
    <2>3. bodies[i] = x
      <3>1. bodies[i].ohdr = TRUE
        BY <2>1, <2>2 DEF Body
      <3> QED
        BY <2>1, <2>2, <3>1 DEF Body, Header, x
    <2> QED
      BY <1>4, <1>5, <1>7, <1>9, <2>3 DEF x, others
  <1> QED
    BY <1>5, <1>8, <1>9 DEF Aliased, x

LEMMA PrivateSeed ==
  ASSUME TypeOK, QueueInv, ImageInv, PrivateInv, EnqueueSeed
  PROVE  PrivateInv'
  <1> SUFFICES ASSUME file.ext \in Objects PROVE PrivateInv'
    BY DEF EnqueueSeed, PrivateInv
  <1>1. /\ pc = "seeding" /\ pc' = "seeding" /\ seeds # <<>> /\ seeds' = Tail(seeds)
        /\ UNCHANGED <<file, bodies, edges, replayed, replayMode, extAddr>>
    BY DEF EnqueueSeed, image, trace
  <1>2. ExtRecorded /\ ExtFirst /\ AliasWaits /\ ExtQueued /\ NoAlias /\ NoLink
    BY DEF PrivateInv
  <1>3. edges' = {} /\ extAddr = file.ext /\ visited \subseteq Queued
    BY <1>1, <1>2 DEF QueueInv, ExtRecorded
  <1>4. Aliased' = Aliased
    BY <1>1 DEF Aliased, HeaderBodies
  <1>5. Accepts(decision') => Accepts(decision)
    BY <1>1, RejectionStays DEF Step
  <1>6. file.ext \in Addresses /\ options.depth \in Nat
    BY FilesKnown
  <1>7. SUFFICES /\ pending' # <<>> /\ file.ext \in Queued'
                 /\ Accepts(decision') /\ Aliased => Waiting(file.ext)'
    BY <1>1, <1>3, <1>4 DEF PrivateInv, ExtRecorded, ExtFirst, AliasWaits, ExtQueued, NoAlias, NoLink
  <1>8. CASE pending = <<>>
    <2>1. seeds = Seeds
      BY <1>1, <1>2, <1>8 DEF ExtFirst
    <2>2. Head(seeds) = Header(file.ext)
      BY <1>1, <2>1, AliasIsSeeded
    <2>3. Enqueue(file.ext, 0)
      BY <2>2 DEF EnqueueSeed, Header
    <2>4. Queued = {}
      BY <1>8 DEF Queued
    <2>5. Added(file.ext, 0)
      <3>1. ~TooDeep(file.ext, 0)
        BY <1>6 DEF TooDeep
      <3>2. ~Known(file.ext, 0)
        BY <1>3, <2>4 DEF Known
      <3> QED
        BY <1>6, <2>3, <3>1, <3>2, EnqueueCases
    <2>6. pending' # <<>> /\ file.ext \in Queued'
      <3>1. Len(pending') = Len(pending) + 1 /\ Queued' = Queued \cup {file.ext}
        BY <1>6, <2>5, AddedLast
      <3>2. Len(pending') # 0
        BY <3>1, EntryTypes
      <3> QED
        BY <3>1, <3>2
    <2>7. Aliased => Waiting(file.ext)'
      BY <1>1, <2>1, AliasIsSeeded DEF Waiting
    <2> QED
      BY <2>6, <2>7
  <1>9. CASE pending # <<>>
    <2>1. file.ext \in Queued
      BY <1>1, <1>2, <1>9 DEF ExtQueued
    <2>2. Head(seeds) \in Start
      BY <1>1 DEF TypeOK
    <2>3. pending' # <<>> /\ file.ext \in Queued'
      <3>1. CASE Head(seeds).ohdr
        <4>1. Enqueue(Head(seeds).addr, 0) /\ Head(seeds).addr \in Addresses
          BY <2>2, <3>1 DEF EnqueueSeed, Start
        <4>2. CASE pending' = pending
          BY <1>9, <2>1, <4>2 DEF Queued
        <4>3. CASE Added(Head(seeds).addr, 0)
          <5>1. Len(pending') = Len(pending) + 1 /\ file.ext \in Queued'
            BY <2>1, <4>1, <4>3, AddedLast
          <5>2. Len(pending') # 0
            BY <5>1, EntryTypes
          <5> QED
            BY <5>1, <5>2
        <4> QED
          BY <4>1, <4>2, <4>3, EnqueueCases DEF TooDeep, Known
      <3>2. CASE ~Head(seeds).ohdr
        <4>1. pending' = pending
          BY <3>2 DEF EnqueueSeed
        <4> QED
          BY <1>9, <2>1, <4>1 DEF Queued
      <3> QED
        BY <3>1, <3>2
    <2>4. ASSUME Accepts(decision'), Aliased PROVE Waiting(file.ext)'
      <3>1. PICK i \in 1..Len(seeds) : seeds[i] = Header(file.ext)
        BY <1>1, <1>2, <1>5, <1>9, <2>4 DEF AliasWaits, Waiting
      <3>2. CASE i = 1
        <4>1. Head(seeds) = Header(file.ext)
          BY <1>1, <3>1, <3>2 DEF TypeOK
        <4>2. Enqueue(file.ext, 0)
          BY <4>1 DEF EnqueueSeed, Header
        <4>3. ~TooDeep(file.ext, 0) /\ ~Added(file.ext, 0)
          BY <1>6, <2>1 DEF TooDeep, Added
        <4>4. Known(file.ext, 0)
          BY <1>6, <4>2, <4>3, EnqueueCases
        <4> QED
          BY <1>3, <2>4, <4>4 DEF Known
      <3>3. CASE i # 1
        <4>1. i - 1 \in 1..Len(seeds') /\ seeds'[i - 1] = seeds[i]
          BY <1>1, <3>1, <3>3 DEF TypeOK
        <4> QED
          BY <1>1, <3>1, <4>1 DEF Waiting
      <3> QED
        BY <3>2, <3>3
    <2> QED
      BY <2>3, <2>4
  <1> QED
    BY <1>8, <1>9

\* A link to the extension finds it in the queue.
LEMMA PrivateLink ==
  ASSUME TypeOK, QueueInv, PrivateInv, NEW t \in Objects, Link(t)
  PROVE  PrivateInv'
  <1> SUFFICES ASSUME file.ext \in Objects PROVE PrivateInv'
    BY DEF Link, PrivateInv
  <1> DEFINE d == Current.depth + 1
  <1>1. /\ pc = "header" /\ pc' = pc /\ Enqueue(t, d) /\ edges' = edges \cup {<<Current.addr, t>>}
        /\ UNCHANGED <<file, started, bodies, extAddr, replayed>>
        /\ t \in Addresses /\ pendingIndex \in 1..Len(pending)
    BY DEF Link, status, image, Addresses, TypeOK
  <1>2. ExtRecorded /\ ExtQueued /\ NoAlias /\ NoLink
    BY DEF PrivateInv
  <1>3. extAddr = file.ext /\ file.ext \in Queued
    BY <1>1, <1>2 DEF ExtRecorded, ExtQueued
  <1>4. d \in Nat
    BY <1>1, EntryTypes DEF Current
  <1> HIDE DEF d
  <1>5. Accepts(decision') => Accepts(decision)
    BY <1>1, <1>4, EnqueueCases
  <1>6. file.ext \in Queued' /\ (t = file.ext => ~Accepts(decision'))
    <2>1. CASE TooDeep(t, d)
      BY <1>3, <2>1 DEF TooDeep, Queued
    <2>2. CASE Known(t, d)
      BY <1>3, <2>2 DEF Known, Queued
    <2>3. CASE Added(t, d)
      <3>1. Queued' = Queued \cup {t} /\ t \notin Queued
        BY <1>1, <1>4, <2>3, AddedLast DEF Added
      <3> QED
        BY <1>3, <3>1
    <2> QED
      BY <1>1, <1>4, <2>1, <2>2, <2>3, EnqueueCases
  <1>7. Aliased' = Aliased
    BY <1>1 DEF Aliased, HeaderBodies
  <1>8. NoAlias' /\ NoLink'
    BY <1>1, <1>2, <1>5, <1>6, <1>7 DEF NoAlias, NoLink
  <1> QED
    BY <1>1, <1>3, <1>6, <1>8 DEF PrivateInv, ExtRecorded, ExtFirst, AliasWaits, ExtQueued

\* The superblock is validated, and the walk is set up.
LEMMA PrivateSetUp ==
  ASSUME TypeOK, StatusInv, QueueInv, ImageInv, PrivateInv
  PROVE  /\ (\E k \in Faults \cup {"accept"} : ValidateSuperblock(k)) => PrivateInv'
         /\ SkipWalk => PrivateInv'
         /\ EnterWalk => PrivateInv'
         /\ Seeded => PrivateInv'
  <1>1. ASSUME NEW k \in Faults \cup {"accept"}, ValidateSuperblock(k) PROVE PrivateInv'
    <2>1. pc = "superblock" /\ pc' = "graph" /\ edges' = edges
      BY <1>1 DEF ValidateSuperblock, trace
    <2> QED
      BY <2>1, PrivateBefore DEF QueueInv
  <1>2. ASSUME SkipWalk PROVE PrivateInv'
    <2>1. pc = "graph" /\ pc' = "sweep" /\ edges' = edges /\ started' = started
      BY <1>2 DEF SkipWalk, trace
    <2>2. ~started'
      BY <2>1 DEF StatusInv
    <2> QED
      BY <2>1, <2>2, PrivateBefore DEF QueueInv
  <1>3. ASSUME EnterWalk PROVE PrivateInv'
    <2>1. /\ pc = "graph" /\ pc' = "seeding" /\ pending' = <<>> /\ seeds' = Seeds
          /\ UNCHANGED <<file, bodies, replayMode, edges>>
          /\ (file.ext \in Objects => extAddr' = file.ext)
      BY <1>3 DEF EnterWalk, ResetTraversal, trace
    <2>2. Seeds' = Seeds
      BY <2>1 DEF Seeds
    <2>3. edges' = {}
      BY <2>1 DEF QueueInv
    <2> QED
      BY <2>1, <2>2, <2>3
      DEF PrivateInv, ExtRecorded, ExtFirst, AliasWaits, ExtQueued, NoAlias, NoLink
  <1>4. ASSUME Seeded PROVE PrivateInv'
    <2> SUFFICES ASSUME file.ext \in Objects PROVE PrivateInv'
      BY <1>4 DEF Seeded, PrivateInv
    <2>1. /\ pc = "seeding" /\ pc' = "walking" /\ seeds = <<>>
          /\ UNCHANGED <<file, decision, bodies, pending, extAddr, edges, replayed>>
      BY <1>4 DEF Seeded, image, queue, trace
    <2>2. ExtRecorded /\ ExtFirst /\ AliasWaits /\ ExtQueued /\ NoLink
      BY DEF PrivateInv
    <2>3. pending # <<>>
      <3>1. Len(Seeds) > 0
        BY <2>1, AliasIsSeeded
      <3>2. seeds # Seeds
        BY <2>1, <3>1
      <3> QED
        BY <2>1, <2>2, <3>2 DEF ExtFirst
    <2>4. Queued' = Queued /\ Aliased' = Aliased
      BY <2>1 DEF Queued, Aliased, HeaderBodies
    <2>5. ~Waiting(file.ext)
      BY <2>1 DEF Waiting
    <2>6. ExtQueued' /\ NoAlias'
      BY <2>1, <2>2, <2>3, <2>4, <2>5 DEF ExtQueued, AliasWaits, NoAlias
    <2> QED
      BY <2>1, <2>2, <2>6 DEF PrivateInv, ExtRecorded, ExtFirst, AliasWaits, NoLink
  <1> QED
    BY <1>1, <1>2, <1>3, <1>4

LEMMA PrivateStep ==
  TypeOK /\ StatusInv /\ QueueInv /\ ImageInv /\ PrivateInv /\ [Next]_vars => PrivateInv'
  <1> SUFFICES ASSUME TypeOK, StatusInv, QueueInv, ImageInv, PrivateInv, [Next]_vars PROVE PrivateInv'
    OBVIOUS
  <1>1. ASSUME InvalidProfile \/ SignatureMissing \/ PreflightFails \/ (\E c \in Causes : Throw(c))
        PROVE  PrivateInv'
    <2>1. ~Accepts(decision') /\ pc' \in {"ratio", "done"}
      BY <1>1, StepsThatReject DEF InvalidProfile, SignatureMissing, PreflightFails, Throw
    <2> QED
      BY <2>1, PrivateRejected
  <1>2. ASSUME StartReplay \/ (\E opts \in Options, f \in Files : BeginAnalysis(opts, f))
        PROVE  PrivateInv'
    <2>1. ResetAnalysis
      BY <1>2 DEF StartReplay, BeginAnalysis
    <2> QED
      BY <2>1, PrivateBefore DEF ResetAnalysis
  <1>3. ASSUME \/ StopAtRejection \/ RefuseHeader \/ SkipShadowed \/ BeginHeader
               \/ \E k \in Faults : Finding(k)
               \/ \E a \in ClientAddrs : ReachBody(a)
               \/ EndHeader
               \/ \E k \in {"accept", "warning"} : Drain(k)
        PROVE  PrivateInv'
    <2>1. /\ UNCHANGED <<file, started, bodies, pending, extAddr, seeds, edges, replayed>>
          /\ pc \in {"walking", "header"} /\ pc' \in {"walking", "header", "sweep"}
      BY <1>3 DEF StopAtRejection, RefuseHeader, SkipShadowed, BeginHeader, Visit, Dequeue, Finding,
                  ReachBody, EndHeader, Drain, status, image, queue, trace
    <2>2. Accepts(decision') => Accepts(decision)
      BY <1>3, <2>1, RejectionStays DEF Step
    <2> QED
      BY <2>1, <2>2, PrivateFrame
  <1>4. ASSUME \/ \E k \in {"accept", "resource"} : Sweep(k)
               \/ \E k \in {"accept", "warning", "resource"} : Finish(k)
        PROVE  PrivateInv'
    <2>1. /\ UNCHANGED <<file, started, bodies, pending, extAddr, seeds, edges, replayed>>
          /\ pc \in {"sweep", "ratio"} /\ pc' \in {"ratio", "done"}
      BY <1>4 DEF Sweep, Finish, status, image, queue, trace
    <2>2. Accepts(decision') => Accepts(decision)
      BY <1>4, <2>1, RejectionStays DEF Step
    <2> QED
      BY <2>1, <2>2, PrivateFrame
  <1>5. ASSUME NEW t \in Objects \cup {Outside}, Link(t) PROVE PrivateInv'
    <2>1. CASE t \in Objects
      BY <1>5, <2>1, PrivateLink
    <2>2. CASE t \notin Objects
      <3>1. /\ UNCHANGED <<file, started, bodies, pending, extAddr, seeds, edges, replayed, replayMode, pc>>
            /\ pc = "header"
        BY <1>5, <2>2 DEF Link, status, image
      <3>2. Accepts(decision') => Accepts(decision)
        BY <1>5, <3>1, RejectionStays DEF Step
      <3> QED
        BY <3>1, <3>2, PrivateFrame
    <2> QED
      BY <2>1, <2>2
  <1>6. ASSUME NEW s \in Entries, NEW v \in BOOLEAN, ReadCacheImage(s, v) PROVE PrivateInv'
    <2>1. /\ pc = "header" /\ pc' = pc /\ ~replayMode
          /\ UNCHANGED <<file, started, pending, extAddr, edges, replayed>>
      BY <1>6 DEF ReadCacheImage, status, queue
    <2>2. Accepts(decision') => Accepts(decision)
      BY <1>6, <2>1, RejectionStays DEF Step
    <2>3. Aliased' = Aliased /\ Queued' = Queued
      <3>1. ~replayed /\ ~replayed'
        BY <2>1 DEF ImageInv
      <3> QED
        BY <2>1, <3>1 DEF Aliased, Queued
    <2>4. file.ext \in Objects =>
            ExtRecorded' /\ ExtFirst' /\ AliasWaits' /\ ExtQueued' /\ NoAlias' /\ NoLink'
      BY <2>1, <2>2, <2>3
      DEF PrivateInv, ExtRecorded, ExtFirst, AliasWaits, ExtQueued, NoAlias, NoLink
    <2> QED
      BY <2>1, <2>4 DEF PrivateInv
  <1>7. CASE UNCHANGED vars
    BY <1>7, PrivateFrame DEF vars, status, image, queue, trace
  <1> QED
    BY <1>1, <1>2, <1>3, <1>4, <1>5, <1>6, <1>7, PrivateSetUp, PrivateSeed DEF Next, Step

\* In an accepted file nothing but the superblock names the extension: no link,
\* not the root address, no cached header.
THEOREM ExtensionIsPrivateCorrect == Spec => []ExtensionIsPrivate
  <1>1. Init => PrivateInv
    BY DEF Init, PrivateInv, ExtRecorded, ExtFirst, AliasWaits, ExtQueued, NoAlias, NoLink
  <1>2. TypeOK /\ PrivateInv => ExtensionIsPrivate
    <2> SUFFICES ASSUME TypeOK, PrivateInv, pc = "done", started, Accepts(decision), file.ext \in Objects
                 PROVE  /\ file.root # file.ext
                        /\ \A e \in edges : e[2] # file.ext
                        /\ replayed => file.ext \notin BodyAddrs \ ClientAddrs
      BY DEF ExtensionIsPrivate
    <2>1. ~Aliased /\ \A e \in edges : e[2] # file.ext
      BY DEF PrivateInv, NoAlias, NoLink
    <2>2. ASSUME replayed, file.ext \in BodyAddrs \ ClientAddrs PROVE FALSE
      <3>1. PICK i \in 1..Len(bodies) : bodies[i].addr = file.ext
        BY <2>2 DEF BodyAddrs
      <3>2. bodies[i].ohdr
        BY <2>2, <3>1 DEF ClientAddrs
      <3> QED
        BY <2>1, <2>2, <3>1, <3>2 DEF Aliased, HeaderBodies
    <2> QED
      BY <2>1, <2>2 DEF Aliased
  <1> QED
    BY <1>1, <1>2, PrivateStep, PhasesAlways, PTL DEF Spec
=============================================================================
