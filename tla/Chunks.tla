------------------------------- MODULE Chunks -------------------------------
(***************************************************************************)
(* Object-header message chunks and the continuation messages that chain   *)
(* them (h5policy_validate_msg_chunk in h5_dispatch.pk, and                *)
(* h5policy_claim_cont_interval in h5_walk.pk).                            *)
(*                                                                         *)
(* The recursion of validate_msg_chunk is an explicit stack of the chunks  *)
(* being decoded.  A message other than a continuation is abstracted: a    *)
(* chunk's messages are the continuations it can hold, at most one for     *)
(* each unit of its message region, and the chunk may end at any of them.  *)
(* Headers are decoded one after another within one walk.                  *)
(*                                                                         *)
(* A definition whose comment begins "Fault" is not part of Next: it is    *)
(* the operator below it with one plausible mistake, kept to show that a   *)
(* property notices it.                                                    *)
(***************************************************************************)
EXTENDS Integers, Sequences

CONSTANTS
  FileEnd,     \* h5policy_ceiling
  Overhead,    \* a v2 continuation's signature and checksum
  Budget,      \* profile.resources.max_object_header_chunks
  MaxHeaders,  \* bound: object headers in one file
  MaxTargets   \* bound: continuation messages read in one walk

ASSUME ChunksAssumption ==
  /\ FileEnd \in Nat /\ Overhead \in Nat /\ Budget \in Nat
  /\ MaxHeaders \in Nat /\ MaxTargets \in Nat

VARIABLES
  version,    \* of the object header being decoded
  stack,      \* the chunks being decoded, innermost last
  cont,       \* h5policy_cont_lo and _hi
  chunkCount, \* ctx.object_header_chunk_count
  corrupt,    \* a corrupt finding was emitted
  overBudget, \* H5_RESOURCE_OBJECT_HEADER_CHUNKS was emitted
  roots,      \* history: the first chunks of the headers decoded in this walk
  targets     \* history: the chunks the continuation messages read so far name

vars == <<version, stack, cont, chunkCount, corrupt, overBudget, roots, targets>>

Interval(lo, size) == [lo |-> lo, hi |-> lo + size]

\* h5policy_intervals_overlap
IntervalsOverlap(a, b) == a.lo < b.hi /\ b.lo < a.hi

InFile(c) == c.hi <= FileEnd

Claimed == {cont[i] : i \in 1..Len(cont)}
Top == stack[Len(stack)]

\* A chunk of the stack: its physical extent and the room left for messages.
Frame(c, room) == [lo |-> c.lo, hi |-> c.hi, room |-> room]

-----------------------------------------------------------------------------

Init ==
  /\ version = 1
  /\ stack = <<>>
  /\ cont = <<>>
  /\ chunkCount = 0
  /\ corrupt = FALSE /\ overBudget = FALSE
  /\ roots = <<>> /\ targets = <<>>

\* The next file: a fresh context, and h5policy_reset_traversal_state.
BeginWalk ==
  /\ stack = <<>> /\ roots # <<>>
  /\ cont' = <<>>
  /\ chunkCount' = 0
  /\ corrupt' = FALSE /\ overBudget' = FALSE
  /\ roots' = <<>> /\ targets' = <<>>
  /\ UNCHANGED <<version, stack>>

\* h5policy_validate_ohdr_raw found the whole first chunk inside the file.
BeginHeader(v, root) ==
  /\ stack = <<>> /\ Len(roots) < MaxHeaders
  /\ version' = v
  /\ stack' = <<Frame(root, root.hi - root.lo)>>
  /\ roots' = Append(roots, root)
  /\ UNCHANGED <<cont, chunkCount, corrupt, overBudget, targets>>

\* Fault: only the start addresses of continuation chunks are compared.
ClaimClassByStart(source, target) ==
  IF source.lo = target.lo THEN 1
  ELSE IF \E c \in Claimed : c.lo = target.lo THEN 2 ELSE 0

\* h5policy_claim_cont_interval: 0 unique, 1 self-referential, 2 aliased.
ClaimClass(source, target) ==
  IF IntervalsOverlap(target, source) THEN 1
  ELSE IF \E c \in Claimed : IntervalsOverlap(target, c) THEN 2 ELSE 0

\* The message region of a continuation chunk.  One too small for signature
\* and checksum is reported, and read as if it had neither.
TooSmall(c) == version = 2 /\ c.hi - c.lo < Overhead
Region(c) ==
  IF version = 2 /\ ~TooSmall(c) THEN c.hi - c.lo - Overhead ELSE c.hi - c.lo

\* The source chunk goes past the message once the chunk it names is decoded.
Advanced == [stack EXCEPT ![Len(stack)].room = @ - 1]

\* Fault: a continuation into claimed bytes is passed over in silence.
RefuseSilently(target) ==
  /\ target.lo = target.hi \/ ~InFile(target) \/ ClaimClass(Top, target) # 0
  /\ corrupt' = (corrupt \/ target.lo = target.hi \/ ~InFile(target))
  /\ stack' = Advanced
  /\ UNCHANGED <<cont, chunkCount, overBudget>>

\* A continuation that names an empty chunk, one outside the file, or bytes
\* already claimed: reported, and not followed.
RefuseContinuation(target) ==
  /\ \/ target.lo = target.hi
     \/ ~InFile(target)
     \/ ClaimClass(Top, target) # 0
  /\ corrupt' = TRUE
  /\ stack' = Advanced
  /\ UNCHANGED <<cont, chunkCount, overBudget>>

\* The chunk is decoded next, unless it has no message region.
Enter(target) ==
  IF Region(target) > 0 THEN Append(Advanced, Frame(target, Region(target))) ELSE Advanced

\* Fault: a chunk is followed without being recorded.
FollowUnrecorded(target, damaged) ==
  /\ target.lo < target.hi /\ InFile(target) /\ ClaimClass(Top, target) = 0
  /\ chunkCount' = IF chunkCount < Budget THEN chunkCount + 1 ELSE Budget
  /\ overBudget' = (overBudget \/ chunkCount >= Budget)
  /\ corrupt' = (corrupt \/ TooSmall(target) \/ damaged)
  /\ stack' = Enter(target)
  /\ UNCHANGED cont

\* A continuation into unclaimed bytes: claimed, counted and decoded, in spite
\* of a wrong signature or checksum (damaged), which only version 2 has.
FollowContinuation(target, damaged) ==
  /\ target.lo < target.hi /\ InFile(target) /\ ClaimClass(Top, target) = 0
  /\ damaged => version = 2 /\ ~TooSmall(target)
  /\ cont' = Append(cont, target)
  /\ chunkCount' = IF chunkCount < Budget THEN chunkCount + 1 ELSE Budget
  /\ overBudget' = (overBudget \/ chunkCount >= Budget)
  /\ corrupt' = (corrupt \/ TooSmall(target) \/ damaged)
  /\ stack' = Enter(target)

\* One continuation message of the innermost chunk.
ReadContinuation(target, damaged) ==
  /\ stack # <<>> /\ Top.room > 0 /\ Len(targets) < MaxTargets
  /\ RefuseContinuation(target) \/ FollowContinuation(target, damaged)
  /\ targets' = Append(targets, target)
  /\ UNCHANGED <<version, roots>>

\* The innermost chunk ends: its region is read, or a message overran it.
EndChunk(overrun) ==
  /\ stack # <<>>
  /\ stack' = SubSeq(stack, 1, Len(stack) - 1)
  /\ corrupt' = (corrupt \/ overrun)
  /\ UNCHANGED <<version, cont, chunkCount, overBudget, roots, targets>>

\* First chunks lie in the file; a continuation message can name anything.
RootChunks == {c \in {Interval(lo, n) : lo \in 0..FileEnd, n \in 1..FileEnd} : InFile(c)}
Targets == {Interval(lo, n) : lo \in 0..FileEnd, n \in 0..FileEnd}

Next ==
  \/ BeginWalk
  \/ \E v \in {1, 2}, c \in RootChunks : BeginHeader(v, c)
  \/ \E t \in Targets, d \in BOOLEAN : ReadContinuation(t, d)
  \/ \E o \in BOOLEAN : EndChunk(o)

Spec == Init /\ [][Next]_vars

-----------------------------------------------------------------------------

Chunk == [lo : 0..FileEnd, hi : 0..FileEnd]

TypeOK ==
  /\ version \in {1, 2}
  /\ stack \in Seq([lo : 0..FileEnd, hi : 0..FileEnd, room : 0..FileEnd])
  /\ cont \in Seq(Chunk)
  /\ chunkCount \in 0..Budget
  /\ corrupt \in BOOLEAN /\ overBudget \in BOOLEAN
  /\ roots \in Seq(Chunk)
  /\ targets \in Seq([lo : 0..FileEnd, hi : 0..(2 * FileEnd)])

\* No two continuation chunks decoded in one walk share a byte, over all the
\* headers of the file.
ClaimedDisjoint ==
  \A i, j \in 1..Len(cont) : i # j => ~IntervalsOverlap(cont[i], cont[j])

\* No byte is decoded twice on the stack: every chunk but the first is claimed,
\* none is entered while it is being decoded, and none follows one it overlaps.
StackDisjoint ==
  /\ \A i \in 2..Len(stack) : [lo |-> stack[i].lo, hi |-> stack[i].hi] \in Claimed
  /\ \A i, j \in 2..Len(stack) : i # j => ~IntervalsOverlap(stack[i], stack[j])
  /\ \A i \in 2..Len(stack) : ~IntervalsOverlap(stack[i - 1], stack[i])

\* The reported count is that of the distinct chunks followed, refused ones not
\* included, saturated at the budget; and it is over budget exactly when more
\* chunks were followed than the budget allows.
CountExact ==
  /\ chunkCount = IF Len(cont) < Budget THEN Len(cont) ELSE Budget
  /\ overBudget <=> Len(cont) > Budget

\* A clean walk followed every continuation message it read: each named a chunk
\* of its own inside the file.
CleanFollowsAll == ~corrupt => targets = cont

\* h5_dispatch.pk:638 says that a followed target is disjoint from its source
\* chunk and from every chunk already decoded on this walk.
DisjointFromDecoded ==
  [][\A t \in Targets, d \in BOOLEAN : ReadContinuation(t, d) /\ cont' # cont =>
       \A i \in 1..Len(roots) : ~IntervalsOverlap(t, roots[i])]_vars

\* H5PolicyProfile.md:364 says that the count increments for every continuation
\* message encountered, before its size, target and cycle are validated.
CountsEveryMessage ==
  chunkCount = IF Len(targets) < Budget THEN Len(targets) ELSE Budget
=============================================================================
