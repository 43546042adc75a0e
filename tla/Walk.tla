-------------------------------- MODULE Walk --------------------------------
(***************************************************************************)
(* One h5policy session: h5policy_analyze (h5_policy.pk) run on one file   *)
(* after another, the breadth-first walk of the reachable object headers   *)
(* (h5policy_walk_reachable_metadata in h5_validate.pk), and the replay    *)
(* pass over a metadata cache image.                                       *)
(*                                                                         *)
(* A file is discovered as it is read: what a header contains (links,      *)
(* findings, a cache image) is chosen while it is validated.  Addresses    *)
(* stand for whole object headers and cached bodies.  The finding list is  *)
(* abstracted to the gravest class emitted, which module Findings shows    *)
(* the store to compute.                                                   *)
(*                                                                         *)
(* A definition whose comment begins "Fault" is not part of Next: it is    *)
(* the operator below it with one plausible mistake, kept to show that a   *)
(* property notices it.                                                    *)
(***************************************************************************)
EXTENDS FindingClasses, Sequences

CONSTANTS
  Objects,      \* header addresses below the declared end of file
  Root, Ext,    \* the root group's header, the superblock extension's
  PastEof,      \* an address between the declared and the physical end
  Outside,      \* an address beyond the physical end
  NoAddr,       \* HADDR_UNDEF
  Files,        \* the superblocks: records of a root and an extension address
  Options,      \* the run options: continue_after_corruption, sweep and the
                \* profile's resources.max_link_traversal_depth
  Faults,       \* bound: classes of finding a header or a superblock can raise
  Causes,       \* bound: exceptions that can end a walk
  MaxBodies     \* bound: cache-image entries in one file

ASSUME AddressAssumption ==
  /\ Root \in Objects /\ Ext \in Objects
  /\ PastEof \notin Objects /\ Outside \notin Objects /\ NoAddr \notin Objects
  /\ PastEof # Outside /\ NoAddr \notin {PastEof, Outside}

ASSUME FileAssumption ==
  /\ Files \subseteq [root : {Root, PastEof, Outside},
                      ext : {Ext, Root, PastEof, Outside, NoAddr}]
  /\ Options \subseteq [continue : BOOLEAN, sweep : BOOLEAN, depth : Nat]

ASSUME BoundAssumption ==
  /\ MaxBodies \in Nat
  /\ Faults \subseteq Classes
  /\ Causes \subseteq {"operation_budget", "time_budget", "mapping", "other"}

Addresses == Objects \cup {PastEof, Outside}

VARIABLES
  pc,            \* where h5policy_analyze stands
  options,       \* h5policy_run_options, and the profile's depth limit
  file,          \* the root and extension addresses in the superblock
  decision,      \* gravest class emitted, "accept" if none
  started, completed, stopReason,    \* h5policy_walk_*
  boundary,      \* h5policy_cache_image_boundary
  bodies,        \* h5policy_mdci_body_addrs and _types, in entry order
  replayMode, replayReady,           \* h5policy_mdci_replay_*
  pending,       \* h5policy_pending_ohdrs and _depths, in queue order
  pendingIndex,  \* h5policy_pending_index: entries dequeued
  visited,       \* h5policy_visited_ohdrs
  extAddr,       \* h5policy_ext_ohdr_addr
  seeds,         \* where the walk starts, as far as not yet enqueued
  reached,       \* h5policy_reached_addrs
  found,         \* history: links read from the current header
  edges,         \* history: links read in this pass
  validated,     \* history: headers validated to their end in this pass
  imageRead,     \* history: the file names a defined cache image
  replayed       \* history: the replay pass has been entered

status == <<started, completed, stopReason>>
image  == <<boundary, bodies, replayReady>>
queue  == <<pending, pendingIndex, visited, extAddr>>
trace  == <<found, edges, validated, imageRead, replayed>>
vars   == <<pc, options, file, decision, status, image, replayMode, queue,
            seeds, reached, trace>>

Accepts(d) == d \in {"accept", "warning"}

\* h5policy_consider_exit, on the class instead of its rank.
Raise(d, klass) == IF ClassRank(klass) > ClassRank(d) THEN klass ELSE d

\* !continue_after_corruption and an exit code other than ACCEPT and WARN.
StopOnRejection == ~options.continue /\ ~Accepts(decision)

Queued    == {pending[i].addr : i \in 1..Len(pending)}
Current   == pending[pendingIndex]
BodyAddrs == {bodies[i].addr : i \in 1..Len(bodies)}
ClientAddrs == {b.addr : b \in {bodies[i] : i \in {j \in 1..Len(bodies) : ~bodies[j].ohdr}}}

\* h5policy_addr_is_shadowed: the entries recorded by the first pass.
Shadowed(addr) == ~replayMode /\ addr \in BodyAddrs

-----------------------------------------------------------------------------

Init ==
  /\ pc = "idle"
  /\ options \in Options
  /\ file \in Files
  /\ decision = "accept"
  /\ started = FALSE /\ completed = FALSE /\ stopReason = "not_started"
  /\ boundary = FALSE /\ bodies = <<>> /\ replayReady = FALSE
  /\ replayMode = FALSE
  /\ pending = <<>> /\ pendingIndex = 0 /\ visited = {} /\ extAddr = NoAddr
  /\ seeds = <<>> /\ reached = {}
  /\ found = {} /\ edges = {} /\ validated = {}
  /\ imageRead = FALSE /\ replayed = FALSE

\* Fault: the visited set survives from the previous file.
ResetTraversalKeepsVisited ==
  /\ pending' = <<>>
  /\ pendingIndex' = 0
  /\ UNCHANGED visited

\* h5policy_reset_traversal_state
ResetTraversal ==
  /\ pending' = <<>>
  /\ pendingIndex' = 0
  /\ visited' = {}

\* The reset list at the head of h5policy_analyze, shared by both passes.
ResetAnalysis ==
  /\ decision' = "accept"
  /\ started' = FALSE /\ completed' = FALSE /\ stopReason' = "not_started"
  /\ boundary' = FALSE
  /\ ResetTraversal
  /\ extAddr' = NoAddr
  /\ seeds' = <<>>
  /\ reached' = {}
  /\ found' = {} /\ edges' = {} /\ validated' = {}
  /\ pc' = "superblock"

\* h5policy_analyze called by the session on its next file.
BeginAnalysis(opts, f) ==
  /\ pc \in {"idle", "done"}
  /\ ResetAnalysis
  /\ options' = opts
  /\ file' = f
  /\ bodies' = <<>> /\ replayReady' = FALSE
  /\ imageRead' = FALSE /\ replayed' = FALSE
  /\ UNCHANGED replayMode

\* h5policy_profile_validation_error: refuse to walk; the ratio check and the
\* replay are skipped by the early return.
InvalidProfile ==
  /\ pc = "superblock" /\ ~replayMode
  /\ stopReason' = "invalid_profile"
  /\ decision' = Raise(decision, "internal")
  /\ pc' = "done"
  /\ UNCHANGED <<options, file, started, completed, image, replayMode, queue,
                 seeds, reached, trace>>

-----------------------------------------------------------------------------
\* Before the walk.

\* h5policy_locate_superblock found no signature.
SignatureMissing ==
  /\ pc = "superblock"
  /\ decision' = Raise(decision, "corrupt")
  /\ completed' = options.continue
  /\ stopReason' = IF options.continue THEN "" ELSE "prewalk_rejection"
  /\ pc' = "ratio"
  /\ UNCHANGED <<options, file, started, image, replayMode, queue, seeds,
                 reached, trace>>

\* h5policy_preflight_super_widths refused the widths.
PreflightFails ==
  /\ pc = "superblock"
  /\ decision' = Raise(decision, "unsupported")
  /\ stopReason' = "prewalk_rejection"
  /\ pc' = "ratio"
  /\ UNCHANGED <<options, file, started, completed, image, replayMode, queue,
                 seeds, reached, trace>>

\* h5policy_validate_superblock.  The root is held against the declared end of
\* file (h5policy_ceiling), the extension against the physical one.
ValidateSuperblock(klass) ==
  /\ pc = "superblock"
  /\ decision' = Raise(Raise(decision, klass),
                       IF file.root \notin Objects \/ file.ext = Outside
                       THEN "corrupt" ELSE "accept")
  /\ pc' = "graph"
  /\ UNCHANGED <<options, file, status, image, replayMode, queue, seeds,
                 reached, trace>>

\* The root address is not in the file image, or the superblock is rejected.
SkipWalk ==
  /\ pc = "graph"
  /\ file.root = Outside \/ StopOnRejection
  /\ completed' = ~StopOnRejection
  /\ stopReason' = IF StopOnRejection THEN "prewalk_rejection" ELSE ""
  /\ pc' = "sweep"
  /\ UNCHANGED <<options, file, decision, started, image, replayMode, queue,
                 seeds, reached, trace>>

\* What the walk starts from: the extension if it is defined and below the
\* ceiling, the root, and in the replay pass the cached bodies, of which the
\* object headers are enqueued.
Header(addr) == [addr |-> addr, ohdr |-> TRUE]
Seeds ==
  (IF file.ext \in Objects THEN <<Header(file.ext)>> ELSE <<>>)
  \o <<Header(file.root)>>
  \o (IF replayMode THEN bodies ELSE <<>>)

\* Fault: the extension's address is not recorded before it is enqueued.
EnterWalkForgetsExtension ==
  /\ pc = "graph"
  /\ file.root # Outside /\ ~StopOnRejection
  /\ started' = TRUE /\ completed' = FALSE /\ stopReason' = "walking"
  /\ boundary' = FALSE
  /\ ResetTraversal
  /\ extAddr' = NoAddr
  /\ seeds' = Seeds
  /\ pc' = "seeding"
  /\ UNCHANGED <<options, file, decision, bodies, replayReady, replayMode,
                 reached, trace>>

\* The head of h5policy_walk_reachable_metadata.
EnterWalk ==
  /\ pc = "graph"
  /\ file.root # Outside /\ ~StopOnRejection
  /\ started' = TRUE /\ completed' = FALSE /\ stopReason' = "walking"
  /\ boundary' = FALSE
  /\ ResetTraversal
  /\ extAddr' = IF file.ext \in Objects THEN file.ext ELSE NoAddr
  /\ seeds' = Seeds
  /\ pc' = "seeding"
  /\ UNCHANGED <<options, file, decision, bodies, replayReady, replayMode,
                 reached, trace>>

-----------------------------------------------------------------------------
\* The queue.

\* Fault: only headers already visited are recognised, not those still queued.
EnqueueAgain(addr, depth) ==
  IF depth > options.depth
  THEN decision' = Raise(decision, "resource") /\ UNCHANGED pending
  ELSE IF addr \in visited
  THEN UNCHANGED <<decision, pending>>
  ELSE /\ pending' = Append(pending, [addr |-> addr, depth |-> depth])
       /\ UNCHANGED decision

\* Fault: new headers are pushed to be walked next, depth first.
EnqueueFirst(addr, depth) ==
  IF depth > options.depth
  THEN decision' = Raise(decision, "resource") /\ UNCHANGED pending
  ELSE IF addr \in visited \cup Queued
  THEN UNCHANGED <<decision, pending>>
  ELSE /\ pending' = SubSeq(pending, 1, pendingIndex)
                     \o <<[addr |-> addr, depth |-> depth]>>
                     \o SubSeq(pending, pendingIndex + 1, Len(pending))
       /\ UNCHANGED decision

\* h5policy_enqueue_ohdr
Enqueue(addr, depth) ==
  IF depth > options.depth
  THEN /\ decision' = Raise(decision, "resource")
       /\ UNCHANGED pending
  ELSE IF addr \in visited \cup Queued
  THEN /\ decision' = IF addr = extAddr THEN Raise(decision, "corrupt") ELSE decision
       /\ UNCHANGED pending
  ELSE /\ pending' = Append(pending, [addr |-> addr, depth |-> depth])
       /\ UNCHANGED decision

EnqueueSeed ==
  /\ pc = "seeding" /\ seeds # <<>>
  /\ IF Head(seeds).ohdr
     THEN Enqueue(Head(seeds).addr, 0)
     ELSE UNCHANGED <<decision, pending>>
  /\ seeds' = Tail(seeds)
  /\ UNCHANGED <<pc, options, file, status, image, replayMode, pendingIndex,
                 visited, extAddr, reached, trace>>

Seeded ==
  /\ pc = "seeding" /\ seeds = <<>>
  /\ pc' = "walking"
  /\ UNCHANGED <<options, file, decision, status, image, replayMode, queue,
                 seeds, reached, trace>>

Dequeue ==
  /\ pc = "walking" /\ pendingIndex < Len(pending)
  /\ pendingIndex' = pendingIndex + 1

\* Default mode returns from the walk at the first rejection it dequeues after.
StopAtRejection ==
  /\ Dequeue /\ StopOnRejection
  /\ stopReason' = "rejection"
  /\ pc' = "sweep"
  /\ UNCHANGED <<options, file, decision, started, completed, image, replayMode,
                 pending, visited, extAddr, seeds, reached, trace>>

Visit ==
  /\ Dequeue /\ ~StopOnRejection
  /\ visited' = visited \cup {pending[pendingIndex'].addr}

Unreadable(e) == e.depth > options.depth \/ e.addr \notin Objects

\* Too deep, or at or beyond the declared end of file.
RefuseHeader ==
  /\ Visit
  /\ LET e == pending[pendingIndex']
     IN /\ Unreadable(e)
        /\ decision' = Raise(decision, IF e.depth > options.depth THEN "resource" ELSE "corrupt")
  /\ UNCHANGED <<pc, options, file, status, image, replayMode, pending, extAddr,
                 seeds, reached, trace>>

\* The cache image holds the live bytes of this header.
SkipShadowed ==
  /\ Visit
  /\ LET e == pending[pendingIndex']
     IN ~Unreadable(e) /\ boundary /\ Shadowed(e.addr)
  /\ stopReason' = "cache_image_coverage_gap"
  /\ UNCHANGED <<pc, options, file, decision, started, completed, image,
                 replayMode, pending, extAddr, seeds, reached, trace>>

\* h5policy_validate_ohdr_raw
BeginHeader ==
  /\ Visit
  /\ LET e == pending[pendingIndex']
     IN /\ ~Unreadable(e) /\ ~(boundary /\ Shadowed(e.addr))
        /\ reached' = reached \cup {e.addr}
  /\ pc' = "header"
  /\ UNCHANGED <<options, file, decision, status, image, replayMode, pending,
                 extAddr, seeds, trace>>

-----------------------------------------------------------------------------
\* Inside one header: its messages, in any order.

Finding(klass) ==
  /\ pc = "header"
  /\ decision' = Raise(decision, klass)
  /\ UNCHANGED <<pc, options, file, status, image, replayMode, queue, seeds,
                 reached, trace>>

\* A hard link or a symbol-table entry.
Link(target) ==
  /\ pc = "header" /\ target \notin found
  /\ found' = found \cup {target}
  /\ IF target \in Objects
     THEN /\ Enqueue(target, Current.depth + 1)
          /\ edges' = edges \cup {<<Current.addr, target>>}
     ELSE /\ decision' = Raise(decision, "corrupt")
          /\ UNCHANGED <<pending, edges>>
  /\ UNCHANGED <<pc, options, file, status, image, replayMode, pendingIndex,
                 visited, extAddr, seeds, reached, validated, imageRead, replayed>>

\* h5policy_validate_mdci_payload on a defined image, first pass.  A defect is
\* a finding, and the entries recorded before it stay recorded.
ReadCacheImage(entries, valid) ==
  /\ pc = "header" /\ ~replayMode
  /\ Len(bodies) + Len(entries) <= MaxBodies
  /\ valid => entries # <<>>
  /\ boundary' = TRUE
  /\ bodies' = bodies \o entries
  /\ replayReady' = (replayReady \/ valid)
  /\ decision' = IF valid THEN decision ELSE Raise(decision, "corrupt")
  /\ imageRead' = TRUE
  /\ UNCHANGED <<pc, options, file, status, replayMode, queue, seeds, reached,
                 found, edges, validated, replayed>>

\* A cached structure that is not an object header is read by its decoder.
ReachBody(addr) ==
  /\ pc = "header" /\ addr \notin reached
  /\ reached' = reached \cup {addr}
  /\ UNCHANGED <<pc, options, file, decision, status, image, replayMode, queue,
                 seeds, trace>>

EndHeader ==
  /\ pc = "header"
  /\ validated' = validated \cup {Current.addr}
  /\ found' = {}
  /\ pc' = "walking"
  /\ UNCHANGED <<options, file, decision, status, image, replayMode, queue,
                 seeds, reached, edges, imageRead, replayed>>

-----------------------------------------------------------------------------
\* After the walk.

\* The cached bodies no decoder read.
UnreachedBodies == BodyAddrs \ reached

\* The tail of h5policy_walk_reachable_metadata: region references are judged
\* (at most a warning), then the walk is incomplete, not covered, or complete.
Drain(klass) ==
  /\ pc = "walking" /\ pendingIndex = Len(pending)
  /\ IF boundary
     THEN /\ decision' = Raise(decision, klass)
          /\ stopReason' = "cache_image_coverage_gap"
          /\ UNCHANGED completed
     ELSE IF replayMode /\ UnreachedBodies # {}
     THEN /\ decision' = Raise(Raise(decision, klass), "unsupported")
          /\ stopReason' = "cache_image_coverage_gap"
          /\ UNCHANGED completed
     ELSE /\ decision' = Raise(decision, klass)
          /\ stopReason' = ""
          /\ completed' = TRUE
  /\ pc' = "sweep"
  /\ UNCHANGED <<options, file, started, image, replayMode, queue, seeds,
                 reached, trace>>

\* h5policy_unreachable_gcol_sweep, when the options ask for it.
Sweep(klass) ==
  /\ pc = "sweep"
  /\ klass # "accept" => options.sweep
  /\ decision' = Raise(decision, klass)
  /\ pc' = "ratio"
  /\ UNCHANGED <<options, file, status, image, replayMode, queue, seeds,
                 reached, trace>>

\* The catch of h5policy_analyze.  Budget exceptions, failed mappings of file
\* bytes and any other exception, each from anywhere in the try block.
Failure(cause) ==
  IF cause \in {"operation_budget", "time_budget"}
    THEN [stop |-> cause, klass |-> "unsupported"]
  ELSE IF cause = "mapping" \/ ClassRank(decision) >= ClassRank("unsupported")
    THEN [stop |-> "mapping_failed", klass |-> "corrupt"]
  ELSE [stop |-> "internal_error", klass |-> "internal"]

\* Fault: an exception leaves the stop reason of the moment in place.
ThrowWithoutReason(cause) ==
  /\ pc \in {"superblock", "graph", "seeding", "walking", "header", "sweep"}
  /\ pc = "sweep" => options.sweep
  /\ decision' = Raise(decision, Failure(cause).klass)
  /\ pc' = "ratio"
  /\ UNCHANGED <<options, file, status, image, replayMode, queue, seeds,
                 reached, trace>>

Throw(cause) ==
  /\ pc \in {"superblock", "graph", "seeding", "walking", "header", "sweep"}
  /\ pc = "sweep" => options.sweep
  /\ decision' = Raise(decision, Failure(cause).klass)
  /\ stopReason' = IF completed THEN stopReason ELSE Failure(cause).stop
  /\ pc' = "ratio"
  /\ UNCHANGED <<options, file, started, completed, image, replayMode, queue,
                 seeds, reached, trace>>

\* Fault: the replay pass replays again.
MustReplayForever == replayReady /\ bodies # <<>>

MustReplay == ~replayMode /\ replayReady /\ bodies # <<>>

\* The recursive h5policy_analyze: everything is reset but the cached bodies,
\* the finding of the ratio check before it included.
StartReplay ==
  /\ pc = "ratio" /\ MustReplay
  /\ replayMode' = TRUE
  /\ ResetAnalysis
  /\ replayed' = TRUE
  /\ UNCHANGED <<options, file, bodies, replayReady, imageRead>>

\* h5policy_check_metadata_ratio and the return to the caller.
Finish(klass) ==
  /\ pc = "ratio" /\ ~MustReplay
  /\ decision' = Raise(decision, klass)
  /\ replayMode' = FALSE
  /\ pc' = "done"
  /\ UNCHANGED <<options, file, status, image, queue, seeds, reached, trace>>

-----------------------------------------------------------------------------

\* Entry lists of one cache image; the addresses of its entries are distinct.
Entries ==
  {s \in UNION {[1..n -> [addr : Objects \cup {Outside}, ohdr : BOOLEAN]] : n \in 0..MaxBodies} :
     \A i, j \in 1..Len(s) : s[i].addr = s[j].addr => i = j}

\* Everything h5policy_analyze does once it is called.
Step ==
  \/ InvalidProfile
  \/ SignatureMissing
  \/ PreflightFails
  \/ \E k \in Faults \cup {"accept"} : ValidateSuperblock(k)
  \/ SkipWalk
  \/ EnterWalk
  \/ EnqueueSeed
  \/ Seeded
  \/ StopAtRejection
  \/ RefuseHeader
  \/ SkipShadowed
  \/ BeginHeader
  \/ \E k \in Faults : Finding(k)
  \/ \E t \in Objects \cup {Outside} : Link(t)
  \/ \E s \in Entries, v \in BOOLEAN : ReadCacheImage(s, v)
  \/ \E a \in ClientAddrs : ReachBody(a)
  \/ EndHeader
  \/ \E k \in {"accept", "warning"} : Drain(k)
  \/ \E k \in {"accept", "resource"} : Sweep(k)
  \/ \E c \in Causes : Throw(c)
  \/ StartReplay
  \/ \E k \in {"accept", "warning", "resource"} : Finish(k)

Next == Step \/ \E opts \in Options, f \in Files : BeginAnalysis(opts, f)

Spec == Init /\ [][Next]_vars

\* One thread runs an analysis and nothing blocks it, so a started analysis
\* keeps taking steps; nothing obliges the session to analyse another file.
FairSpec == Spec /\ WF_vars(Step)

-----------------------------------------------------------------------------

StopReasons ==
  {"not_started", "invalid_profile", "prewalk_rejection", "walking", "rejection",
   "cache_image_coverage_gap", "operation_budget", "time_budget",
   "mapping_failed", "internal_error", ""}

Body       == [addr : Objects \cup {Outside}, ohdr : BOOLEAN]
QueueEntry == [addr : Addresses, depth : 0..options.depth]
Start      == [addr : Addresses, ohdr : BOOLEAN]

Flags ==
  /\ started \in BOOLEAN /\ completed \in BOOLEAN
  /\ boundary \in BOOLEAN /\ replayMode \in BOOLEAN /\ replayReady \in BOOLEAN
  /\ imageRead \in BOOLEAN /\ replayed \in BOOLEAN

TypeOK ==
  /\ pc \in {"idle", "superblock", "graph", "seeding", "walking", "header",
             "sweep", "ratio", "done"}
  /\ options \in Options
  /\ file \in Files
  /\ decision \in Classes \cup {"accept"}
  /\ stopReason \in StopReasons
  /\ Flags
  /\ bodies \in Seq(Body)
  /\ pending \in Seq(QueueEntry)
  /\ pendingIndex \in 0..Len(pending)
  /\ pc = "header" => pendingIndex > 0 /\ Current.addr \in Objects
  /\ visited \subseteq Addresses
  /\ extAddr \in Objects \cup {NoAddr}
  /\ seeds \in Seq(Start)
  /\ reached \subseteq Addresses
  /\ found \subseteq Objects \cup {Outside}
  /\ edges \subseteq Objects \X Objects
  /\ validated \subseteq Objects

\* An accepting report vouches for the whole reachable graph: the walk ran to
\* its end, and the root, an extension below the end of file, every cached
\* object header and every header any of them links to were validated to their
\* end in the pass the report describes; a file with a cache image is accepted
\* only on the evidence of the replay pass, when that read every cached body.
AcceptMeansVetted ==
  pc = "done" /\ Accepts(decision) =>
    /\ started /\ completed
    /\ Root \in validated
    /\ file.ext \in Objects => file.ext \in validated
    /\ \A e \in edges : e[2] \in validated
    /\ replayed => \A i \in 1..Len(bodies) : bodies[i].ohdr => bodies[i].addr \in validated
    /\ imageRead => replayed /\ BodyAddrs \subseteq reached

\* The superblock extension is never part of the object graph of an accepted
\* file: a link, the root or a cached header that names it is a rejection.
ExtensionIsPrivate ==
  pc = "done" /\ started /\ Accepts(decision) /\ file.ext \in Objects =>
    /\ file.root # file.ext
    /\ \A e \in edges : e[2] # file.ext
    /\ replayed => file.ext \notin BodyAddrs \ ClientAddrs

\* A finished analysis says why its walk ended, and "completed" is said exactly
\* of the walks that give no reason, whatever exception ended them.
ConclusiveReport ==
  pc = "done" =>
    /\ completed <=> stopReason = ""
    /\ stopReason \notin {"not_started", "walking"}
    /\ ~replayMode

\* Breadth-first order: no header is queued twice, depths never decrease along
\* the queue, and the depth of a header is its distance from the seeds over the
\* links read so far, so the depth limit cuts the graph and not the order.
DepthIsDistance ==
  /\ \A i, j \in 1..Len(pending) :
       /\ pending[i].addr = pending[j].addr => i = j
       /\ i < j => pending[i].depth <= pending[j].depth
       /\ <<pending[i].addr, pending[j].addr>> \in edges =>
            pending[j].depth <= pending[i].depth + 1
  /\ \A j \in 1..Len(pending) :
       IF pending[j].depth = 0
       THEN pending[j].addr \in {file.root, file.ext} \cup BodyAddrs
       ELSE \E i \in 1..(j - 1) : /\ <<pending[i].addr, pending[j].addr>> \in edges
                                  /\ pending[j].depth = pending[i].depth + 1

\* No header is validated twice in a pass, although marking a header visited
\* tests nothing.
ValidatedOnce == [][EndHeader => Current.addr \notin validated]_vars

\* Every analysis ends with a report, cache image or not.
AnalysisEnds == pc = "superblock" ~> pc = "done"

\* docs/H5POLICY_WORKFLOW.md:100 says that the reachable walk starts with the
\* superblock extension, when present.
ExtensionVetted ==
  pc = "done" /\ Accepts(decision) /\ file.ext # NoAddr => file.ext \in validated
=============================================================================
