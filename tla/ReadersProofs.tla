--------------------------- MODULE ReadersProofs ----------------------------
(***************************************************************************)
(* Theorems about what reads a file piece by piece: the chunks of an       *)
(* object header, the blocks of h5markers, the objects of a heap.          *)
(*                                                                         *)
(* Chunks, the messages of an object header: TypeOK /\ Safe is inductive;  *)
(* the clean-walk property also needs that a chunk is decoded only after   *)
(* it was read, which CleanFollowsAll itself says.                         *)
(*                                                                         *)
(* Markers, the threads of h5markers: the invariant says which workers     *)
(* have begun and ended, that one that ended early left an error, and that *)
(* a worker has found what occurs in the part of its chunk it has been     *)
(* through.  With the arithmetic of the chunks and of the places in the    *)
(* sorted list it gives the refinement of Search.                          *)
(*                                                                         *)
(* Sweep, the check of a global heap collection beside a reader of it: the *)
(* two are never more than one object apart while the check runs, and a    *)
(* narrow advance is what is left of the wide one.                         *)
(***************************************************************************)
EXTENDS Chunks, Markers, Sweep, FiniteSetTheorems, WellFoundedInduction, TLAPS

Frames == [lo : 0..FileEnd, hi : 0..FileEnd, room : 0..FileEnd]
Named == [lo : 0..FileEnd, hi : 0..(2 * FileEnd)]

Safe == ClaimedDisjoint /\ StackDisjoint /\ CountExact /\ CleanFollowsAll

-----------------------------------------------------------------------------
\* The chunks the actions range over have the types the state records.

LEMMA RootType ==
  ASSUME NEW c \in RootChunks
  PROVE  /\ c \in Chunk
         /\ Frame(c, c.hi - c.lo) \in Frames
  BY ChunksAssumption DEF RootChunks, Interval, InFile, Chunk, Frame, Frames

LEMMA TargetType ==
  ASSUME NEW t \in Targets
  PROVE  /\ t \in Named
         /\ InFile(t) => t \in Chunk
  BY ChunksAssumption DEF Targets, Interval, InFile, Chunk, Named

LEMMA RegionType ==
  ASSUME NEW t \in Chunk, t.lo < t.hi
  PROVE  /\ Region(t) \in 0..FileEnd
         /\ Frame(t, Region(t)) \in Frames
  <1>1. Region(t) \in 0..FileEnd
    BY ChunksAssumption DEF Region, TooSmall, Chunk
  <1> QED BY <1>1 DEF Frame, Frames, Chunk

\* Going past a message changes no chunk of the stack but its room.
LEMMA AdvancedKeeps ==
  ASSUME stack \in Seq(Frames), stack # <<>>, Top.room > 0
  PROVE  /\ Advanced \in Seq(Frames)
         /\ Len(Advanced) = Len(stack)
         /\ \A i \in 1..Len(stack) :
              Advanced[i].lo = stack[i].lo /\ Advanced[i].hi = stack[i].hi
  <1> DEFINE n == Len(stack)
  <1>1. n \in Nat \ {0} /\ stack[n] \in Frames
    OBVIOUS
  <1>2. stack[n].room - 1 \in 0..FileEnd
    BY <1>1, ChunksAssumption DEF Top, Frames
  <1>3. [stack[n] EXCEPT !.room = @ - 1] \in Frames
    BY <1>1, <1>2 DEF Frames
  <1>4. Advanced = [stack EXCEPT ![n] = [stack[n] EXCEPT !.room = @ - 1]]
    BY <1>1 DEF Advanced
  <1>5. Advanced \in Seq(Frames) /\ Len(Advanced) = n
    BY <1>1, <1>3, <1>4
  <1>6. ASSUME NEW i \in 1..n
        PROVE  Advanced[i].lo = stack[i].lo /\ Advanced[i].hi = stack[i].hi
    BY <1>1, <1>4, <1>6 DEF Frames
  <1> QED BY <1>5, <1>6

\* What a followed continuation leaves on the stack: the source chunk, and the
\* named one above it unless its message region is empty.
LEMMA EnterStack ==
  ASSUME stack \in Seq(Frames), stack # <<>>, Top.room > 0,
         NEW t \in Chunk, t.lo < t.hi
  PROVE  /\ Enter(t) \in Seq(Frames)
         /\ Len(Enter(t)) \in {Len(stack), Len(stack) + 1}
         /\ \A i \in 1..Len(stack) :
              Enter(t)[i].lo = stack[i].lo /\ Enter(t)[i].hi = stack[i].hi
         /\ Len(Enter(t)) = Len(stack) + 1 =>
              Enter(t)[Len(stack) + 1] = Frame(t, Region(t))
  <1>1. /\ Advanced \in Seq(Frames) /\ Len(Advanced) = Len(stack)
        /\ \A i \in 1..Len(stack) :
             Advanced[i].lo = stack[i].lo /\ Advanced[i].hi = stack[i].hi
    BY AdvancedKeeps
  <1>2. Frame(t, Region(t)) \in Frames
    BY RegionType
  <1>3. CASE Region(t) > 0
    <2>1. Enter(t) = Append(Advanced, Frame(t, Region(t)))
      BY <1>3 DEF Enter
    <2> QED BY <1>1, <1>2, <2>1
  <1>4. CASE ~(Region(t) > 0)
    <2>1. Enter(t) = Advanced
      BY <1>4 DEF Enter
    <2> QED BY <1>1, <2>1
  <1> QED BY <1>3, <1>4

-----------------------------------------------------------------------------
\* Type correctness.

\* Every step keeps every variable in its type; the count stays at the budget.
LEMMA TypeStep == TypeOK /\ [Next]_vars => TypeOK'
  <1> SUFFICES ASSUME TypeOK, [Next]_vars PROVE TypeOK'
    OBVIOUS
  <1>0. stack \in Seq(Frames) /\ targets \in Seq(Named)
    BY DEF TypeOK, Frames, Named
  <1>1. CASE BeginWalk
    <2>1. /\ <<>> \in Seq(Chunk)
          /\ <<>> \in Seq([lo : 0..FileEnd, hi : 0..(2 * FileEnd)])
      OBVIOUS
    <2>2. 0 \in 0..Budget
      BY ChunksAssumption
    <2> QED BY <1>1, <2>1, <2>2 DEF BeginWalk, TypeOK
  <1>2. ASSUME NEW v \in {1, 2}, NEW c \in RootChunks, BeginHeader(v, c) PROVE TypeOK'
    <2>1. c \in Chunk /\ Frame(c, c.hi - c.lo) \in Frames
      BY RootType
    <2>2. stack' \in Seq(Frames) /\ roots' \in Seq(Chunk)
      BY <1>2, <2>1 DEF BeginHeader, TypeOK
    <2> QED BY <1>2, <2>2 DEF BeginHeader, TypeOK, Frames
  <1>3. ASSUME NEW t \in Targets, NEW d \in BOOLEAN, ReadContinuation(t, d) PROVE TypeOK'
    <2>1. t \in Named /\ (InFile(t) => t \in Chunk)
      BY TargetType
    <2>2. stack # <<>> /\ Top.room > 0 /\ targets' \in Seq(Named)
      BY <1>3, <1>0, <2>1 DEF ReadContinuation
    <2>3. CASE RefuseContinuation(t)
      <3>1. stack' \in Seq(Frames)
        BY <1>0, <2>2, <2>3, AdvancedKeeps DEF RefuseContinuation
      <3> QED
        BY <1>3, <2>2, <2>3, <3>1
           DEF RefuseContinuation, ReadContinuation, TypeOK, Frames, Named
    <2>4. CASE FollowContinuation(t, d)
      <3>1. t \in Chunk /\ t.lo < t.hi
        BY <2>1, <2>4 DEF FollowContinuation
      <3>2. stack' \in Seq(Frames)
        BY <1>0, <2>2, <2>4, <3>1, EnterStack DEF FollowContinuation
      <3>3. cont' \in Seq(Chunk) /\ chunkCount' \in 0..Budget
        BY <2>4, <3>1, ChunksAssumption DEF FollowContinuation, TypeOK
      <3>4. corrupt' \in BOOLEAN /\ overBudget' \in BOOLEAN
        BY <2>4 DEF FollowContinuation, TypeOK
      <3> QED
        BY <1>3, <2>2, <3>2, <3>3, <3>4 DEF ReadContinuation, TypeOK, Frames, Named
    <2> QED BY <1>3, <2>3, <2>4 DEF ReadContinuation
  <1>4. ASSUME NEW o \in BOOLEAN, EndChunk(o) PROVE TypeOK'
    <2>1. stack' \in Seq(Frames)
      BY <1>0, <1>4 DEF EndChunk
    <2> QED BY <1>4, <2>1 DEF EndChunk, TypeOK, Frames
  <1>5. CASE UNCHANGED vars
    BY <1>5 DEF vars, TypeOK
  <1> QED BY <1>1, <1>2, <1>3, <1>4, <1>5 DEF Next

\* The continuation counter never leaves 0..Budget, and every chunk on the stack
\* or in the claimed set lies in the file.
THEOREM TypeCorrect == Spec => []TypeOK
  <1>1. Init => TypeOK
    <2>1. /\ <<>> \in Seq(Frames) /\ <<>> \in Seq(Chunk) /\ <<>> \in Seq(Named)
      OBVIOUS
    <2>2. 0 \in 0..Budget
      BY ChunksAssumption
    <2> QED BY <2>1, <2>2 DEF Init, TypeOK, Frames, Named
  <1> QED BY <1>1, TypeStep, PTL DEF Spec

-----------------------------------------------------------------------------
\* Disjointness, the count and clean walks.

\* A target that claim_cont_interval calls unique shares no byte with the chunk
\* its message is in, nor with any continuation chunk claimed before.
LEMMA UniqueClaim ==
  ASSUME NEW s, NEW t, ClaimClass(s, t) = 0
  PROVE  /\ ~IntervalsOverlap(t, s)
         /\ \A i \in 1..Len(cont) : ~IntervalsOverlap(t, cont[i])
  BY DEF ClaimClass, Claimed

LEMMA FollowKeepsClaims ==
  ASSUME TypeOK, Safe, NEW t \in Chunk, NEW d \in BOOLEAN, FollowContinuation(t, d)
  PROVE  ClaimedDisjoint' /\ CountExact'
  <1>1. /\ cont \in Seq(Chunk) /\ cont' = Append(cont, t)
        /\ Len(cont') = Len(cont) + 1
        /\ cont'[Len(cont) + 1] = t
        /\ \A i \in 1..Len(cont) : cont'[i] = cont[i]
    BY DEF FollowContinuation, TypeOK
  <1>2. \A i \in 1..Len(cont) : ~IntervalsOverlap(t, cont[i])
    BY UniqueClaim DEF FollowContinuation
  <1>3. ClaimedDisjoint'
    <2> SUFFICES ASSUME NEW i \in 1..Len(cont'), NEW j \in 1..Len(cont'), i # j
                 PROVE  ~IntervalsOverlap(cont'[i], cont'[j])
      BY DEF ClaimedDisjoint, IntervalsOverlap
    <2>1. CASE i \in 1..Len(cont) /\ j \in 1..Len(cont)
      BY <1>1, <2>1 DEF Safe, ClaimedDisjoint
    <2>2. CASE i = Len(cont) + 1
      BY <1>1, <1>2, <2>2
    <2>3. CASE j = Len(cont) + 1
      BY <1>1, <1>2, <2>3 DEF IntervalsOverlap
    <2> QED BY <1>1, <2>1, <2>2, <2>3
  <1>4. /\ chunkCount' = IF Len(cont') < Budget THEN Len(cont') ELSE Budget
        /\ Len(cont') > Budget <=> chunkCount >= Budget
        /\ Len(cont) > Budget => chunkCount >= Budget
    BY <1>1, ChunksAssumption DEF FollowContinuation, TypeOK, Safe, CountExact
  <1>5. overBudget' <=> Len(cont') > Budget
    <2> DEFINE over == Len(cont) > Budget
               over1 == Len(cont') > Budget
               full == chunkCount >= Budget
    <2>1. (overBudget <=> over) /\ overBudget' = (overBudget \/ full)
      BY DEF Safe, CountExact, FollowContinuation
    <2>2. (over1 <=> full) /\ (over => full)
      BY <1>4
    <2> HIDE DEF over, over1, full
    <2>3. overBudget' <=> over1
      BY <2>1, <2>2
    <2> QED BY <2>3 DEF over1
  <1> QED BY <1>3, <1>4, <1>5 DEF CountExact

\* Following a continuation keeps the chunks on the stack disjoint.
LEMMA FollowKeepsStack ==
  ASSUME TypeOK, Safe, NEW t \in Chunk, NEW d \in BOOLEAN,
         stack # <<>>, Top.room > 0, FollowContinuation(t, d)
  PROVE  StackDisjoint'
  <1> DEFINE n == Len(stack)
  <1>0. stack \in Seq(Frames) /\ cont \in Seq(Chunk) /\ n \in Nat \ {0}
    BY DEF TypeOK, Frames
  <1>1. /\ Len(stack') \in {n, n + 1}
        /\ \A i \in 1..n : stack'[i].lo = stack[i].lo /\ stack'[i].hi = stack[i].hi
        /\ Len(stack') = n + 1 => stack'[n + 1] = Frame(t, Region(t))
    BY <1>0, EnterStack DEF FollowContinuation
  <1>2. Claimed' = Claimed \cup {t}
    BY <1>0 DEF FollowContinuation, Claimed
  <1>3. /\ ~IntervalsOverlap(t, stack[n])
        /\ \A c \in Claimed : ~IntervalsOverlap(t, c)
    BY DEF FollowContinuation, ClaimClass, Top
  <1>4. /\ \A i \in 2..n : [lo |-> stack[i].lo, hi |-> stack[i].hi] \in Claimed
        /\ \A i, j \in 2..n : i # j => ~IntervalsOverlap(stack[i], stack[j])
        /\ \A i \in 2..n : ~IntervalsOverlap(stack[i - 1], stack[i])
    BY DEF Safe, StackDisjoint
  <1>5. Len(stack') = n + 1 =>
          /\ stack'[n + 1].lo = t.lo /\ stack'[n + 1].hi = t.hi
          /\ [lo |-> stack'[n + 1].lo, hi |-> stack'[n + 1].hi] = t
    BY <1>1 DEF Frame, Chunk
  <1>6. \A i \in 2..Len(stack') :
          [lo |-> stack'[i].lo, hi |-> stack'[i].hi] \in Claimed'
    BY <1>0, <1>1, <1>2, <1>4, <1>5
  <1>7. \A i \in 2..n : ~IntervalsOverlap(t, stack[i])
    BY <1>3, <1>4 DEF IntervalsOverlap
  <1>8. ASSUME NEW i \in 2..Len(stack'), NEW j \in 2..Len(stack'), i # j
        PROVE  ~IntervalsOverlap(stack'[i], stack'[j])
    <2>1. CASE i \in 2..n /\ j \in 2..n
      BY <1>0, <1>1, <1>4, <2>1, <1>8 DEF IntervalsOverlap
    <2>2. CASE i = n + 1
      BY <1>0, <1>1, <1>5, <1>7, <2>2, <1>8 DEF IntervalsOverlap
    <2>3. CASE j = n + 1
      BY <1>0, <1>1, <1>5, <1>7, <2>3, <1>8 DEF IntervalsOverlap
    <2> QED BY <1>0, <1>1, <2>1, <2>2, <2>3
  <1>9. ASSUME NEW i \in 2..Len(stack')
        PROVE  ~IntervalsOverlap(stack'[i - 1], stack'[i])
    <2>1. CASE i \in 2..n
      BY <1>0, <1>1, <1>4, <2>1 DEF IntervalsOverlap
    <2>2. CASE i = n + 1
      BY <1>0, <1>1, <1>3, <1>5, <2>2 DEF IntervalsOverlap
    <2> QED BY <1>0, <1>1, <2>1, <2>2
  <1> QED BY <1>6, <1>8, <1>9 DEF StackDisjoint, IntervalsOverlap

\* A step that claims nothing and leaves each chunk it keeps where it was.
LEMMA StackKept ==
  ASSUME TypeOK, TypeOK', StackDisjoint, cont' = cont, Len(stack') <= Len(stack),
         \A i \in 1..Len(stack') :
           stack'[i].lo = stack[i].lo /\ stack'[i].hi = stack[i].hi
  PROVE  StackDisjoint'
  <1>1. Len(stack) \in Nat /\ Len(stack') \in Nat /\ Claimed' = Claimed
    BY DEF TypeOK, Claimed
  <1>2. \A i \in 2..Len(stack') : [lo |-> stack'[i].lo, hi |-> stack'[i].hi] \in Claimed'
    BY <1>1 DEF StackDisjoint
  <1>3. \A i, j \in 2..Len(stack') : i # j => ~IntervalsOverlap(stack'[i], stack'[j])
    BY <1>1 DEF StackDisjoint, IntervalsOverlap
  <1>4. \A i \in 2..Len(stack') : ~IntervalsOverlap(stack'[i - 1], stack'[i])
    BY <1>1 DEF StackDisjoint, IntervalsOverlap
  <1> QED BY <1>2, <1>3, <1>4 DEF StackDisjoint, IntervalsOverlap

\* Every step keeps the conjuncts of Safe.
LEMMA SafeStep == TypeOK /\ Safe /\ [Next]_vars => Safe'
  <1> SUFFICES ASSUME TypeOK, Safe, [Next]_vars PROVE Safe'
    OBVIOUS
  <1>0. TypeOK' /\ stack \in Seq(Frames) /\ cont \in Seq(Chunk)
    BY TypeStep DEF TypeOK, Frames
  <1>1. CASE BeginWalk
    BY <1>1, ChunksAssumption
       DEF BeginWalk, Safe, ClaimedDisjoint, StackDisjoint, CountExact, CleanFollowsAll
  <1>2. ASSUME NEW v \in {1, 2}, NEW c \in RootChunks, BeginHeader(v, c) PROVE Safe'
    <2>1. Len(stack') = 1
      BY <1>2 DEF BeginHeader
    <2>2. StackDisjoint'
      BY <2>1 DEF StackDisjoint
    <2> QED
      BY <1>2, <2>2 DEF BeginHeader, Safe, ClaimedDisjoint, CountExact, CleanFollowsAll
  <1>3. ASSUME NEW t \in Targets, NEW d \in BOOLEAN, ReadContinuation(t, d) PROVE Safe'
    <2>1. stack # <<>> /\ Top.room > 0 /\ targets' = Append(targets, t)
      BY <1>3 DEF ReadContinuation
    <2>2. CASE RefuseContinuation(t)
      <3>1. /\ Len(stack') <= Len(stack)
            /\ \A i \in 1..Len(stack') :
                 stack'[i].lo = stack[i].lo /\ stack'[i].hi = stack[i].hi
        BY <1>0, <2>1, <2>2, AdvancedKeeps DEF RefuseContinuation
      <3>2. StackDisjoint'
        BY <1>0, <2>2, <3>1, StackKept DEF RefuseContinuation, Safe
      <3> QED
        BY <2>2, <3>2
           DEF RefuseContinuation, Safe, ClaimedDisjoint, CountExact, CleanFollowsAll
    <2>3. CASE FollowContinuation(t, d)
      <3>1. t \in Chunk
        BY <2>3, TargetType DEF FollowContinuation
      <3>2. ClaimedDisjoint' /\ CountExact'
        BY <2>3, <3>1, FollowKeepsClaims
      <3>3. StackDisjoint'
        BY <2>1, <2>3, <3>1, FollowKeepsStack
      <3>4. CleanFollowsAll'
        <4>1. corrupt \in BOOLEAN /\ (~corrupt' => ~corrupt)
          BY <2>3 DEF FollowContinuation, TypeOK
        <4> QED BY <2>1, <2>3, <4>1 DEF FollowContinuation, Safe, CleanFollowsAll
      <3> QED BY <3>2, <3>3, <3>4 DEF Safe
    <2> QED BY <1>3, <2>2, <2>3 DEF ReadContinuation
  <1>4. ASSUME NEW o \in BOOLEAN, EndChunk(o) PROVE Safe'
    <2>1. Len(stack') <= Len(stack) /\ \A i \in 1..Len(stack') : stack'[i] = stack[i]
      BY <1>0, <1>4 DEF EndChunk
    <2>2. StackDisjoint'
      BY <1>0, <1>4, <2>1, StackKept DEF EndChunk, Safe
    <2>3. ~corrupt' => ~corrupt
      BY <1>4 DEF EndChunk
    <2> QED
      BY <1>4, <2>2, <2>3 DEF EndChunk, Safe, ClaimedDisjoint, CountExact, CleanFollowsAll
  <1>5. CASE UNCHANGED vars
    BY <1>5 DEF vars, Safe, ClaimedDisjoint, StackDisjoint, CountExact, CleanFollowsAll,
                Claimed
  <1> QED BY <1>1, <1>2, <1>3, <1>4, <1>5 DEF Next

\* The inductive invariant holds in every reachable state.
THEOREM SafeCorrect == Spec => []Safe
  <1>1. Init => Safe
    BY ChunksAssumption
       DEF Init, Safe, ClaimedDisjoint, StackDisjoint, CountExact, CleanFollowsAll
  <1> QED BY <1>1, SafeStep, TypeCorrect, PTL DEF Spec

\* No byte is decoded as part of two continuation chunks of one walk.
THEOREM ClaimedDisjointCorrect == Spec => []ClaimedDisjoint
  <1>1. Safe => ClaimedDisjoint
    BY DEF Safe
  <1> QED BY <1>1, SafeCorrect, PTL

\* The chunks being decoded at one time share no byte, the first one excepted.
THEOREM StackDisjointCorrect == Spec => []StackDisjoint
  <1>1. Safe => StackDisjoint
    BY DEF Safe
  <1> QED BY <1>1, SafeCorrect, PTL

\* The metric is the number of chunks followed, saturated at the budget.
THEOREM CountExactCorrect == Spec => []CountExact
  <1>1. Safe => CountExact
    BY DEF Safe
  <1> QED BY <1>1, SafeCorrect, PTL

\* A walk without a corrupt finding followed each continuation it read.
THEOREM CleanFollowsAllCorrect == Spec => []CleanFollowsAll
  <1>1. Safe => CleanFollowsAll
    BY DEF Safe
  <1> QED BY <1>1, SafeCorrect, PTL

-----------------------------------------------------------------------------
\* Arithmetic of cutting a file into chunks of one size.

LEMMA ProductGrows ==
  ASSUME NEW c \in Nat, NEW a \in Nat, NEW b \in Nat, a <= b
  PROVE  c * a <= c * b /\ c * a \in Nat
  <1>1. PICK d \in Nat : b = a + d
    <2>1. b - a \in Nat /\ b = a + (b - a)
      OBVIOUS
    <2> QED BY <2>1
  <1>2. c * b = c * a + c * d /\ c * d \in Nat /\ c * a \in Nat
    BY <1>1
  <1> QED BY <1>2

LEMMA CeilDivCovers ==
  ASSUME NEW a \in Nat, NEW b \in Nat \ {0}
  PROVE  /\ CeilDiv(a, b) \in Nat
         /\ a <= CeilDiv(a, b) * b
         /\ a > 0 => CeilDiv(a, b) > 0
  <1> DEFINE q == (a + b - 1) \div b
             m == (a + b - 1) % b
  <1>1. q \in Int /\ m \in 0..(b - 1) /\ a + b - 1 = b * q + m
    OBVIOUS
  <1>2. q >= 0
    OBVIOUS
  <1>3. b * q = q * b
    BY <1>1
  <1>4. a > 0 => q > 0
    OBVIOUS
  <1>5. CeilDiv(a, b) = q
    BY DEF CeilDiv
  <1> HIDE DEF q, m
  <1> QED BY <1>1, <1>2, <1>3, <1>4, <1>5

\* A finite set of numbers that is not empty has a greatest one: among the sets of
\* what is greater than a member, one has no other below it, and it is empty.
LEMMA MaxIsGreatest ==
  ASSUME NEW S \in SUBSET Nat, IsFiniteSet(S), S # {}
  PROVE  Max(S) \in S /\ \A y \in S : y <= Max(S)
  <1> DEFINE Above(x) == {y \in S : y > x}
             T == {Above(x) : x \in S}
  <1>1. T \subseteq FiniteSubsetsOf(S)
    BY FS_Subset DEF FiniteSubsetsOf
  <1>2. T # {}
    OBVIOUS
  <1>3. PICK U \in T : \A V \in T : ~(<<V, U>> \in StrictSubsetOrdering(S))
    BY <1>1, <1>2, FS_StrictSubsetOrderingWellFounded, WFMin
  <1>4. PICK x \in S : U = Above(x)
    BY <1>3
  <1>5. Above(x) = {}
    <2> SUFFICES ASSUME NEW y \in Above(x) PROVE FALSE
      OBVIOUS
    <2> y \in S /\ y > x /\ x \in Nat /\ y \in Nat
      OBVIOUS
    <2>0. Above(y) \in T
      OBVIOUS
    <2>1. Above(y) \subseteq Above(x) /\ y \notin Above(y) /\ Above(y) \in T
      <3> HIDE DEF T
      <3>1. \A z \in S : z \in Nat
        OBVIOUS
      <3>2. \A z \in S : z > y => z > x
        BY <3>1
      <3>3. y \notin Above(y)
        OBVIOUS
      <3> QED BY <2>0, <3>2, <3>3, Zenon
    <2>2. <<Above(y), Above(x)>> \in StrictSubsetOrdering(S)
      <3> HIDE DEF T
      <3> QED BY <2>1 DEF StrictSubsetOrdering
    <2> QED BY <1>3, <1>4, <2>1, <2>2
  <1>6. \A y \in S : x >= y
    BY <1>5
  <1> QED BY <1>6 DEF Max

LEMMA LongestIsLongest ==
  /\ Longest \in Nat \ {0}
  /\ \A m \in Names : Len(Bytes[m]) \in Nat \ {0} /\ Len(Bytes[m]) <= Longest
  <1> DEFINE L == {Len(Bytes[m]) : m \in Names}
             f == [m \in Names |-> Len(Bytes[m])]
  <1>0. \A m \in Names : Len(Bytes[m]) \in Nat \ {0}
    <2> SUFFICES ASSUME NEW m \in Names PROVE Len(Bytes[m]) \in Nat \ {0}
      OBVIOUS
    <2> Bytes[m] \in Seq(Nat) /\ Bytes[m] # <<>>
      BY MarkersAssumption DEF Names
    <2> QED OBVIOUS
  <1>1. L \in SUBSET (Nat \ {0}) /\ L # {}
    BY <1>0, MarkersAssumption DEF Names
  <1>2. f \in Surjection(Names, L)
    BY DEF Surjection
  <1>3. IsFiniteSet(L)
    BY <1>2, MarkersAssumption, FS_Surjection DEF Names
  <1>4. Longest = Max(L)
    BY DEF Longest
  <1>5. \A m \in Names : Len(Bytes[m]) \in L
    OBVIOUS
  <1> HIDE DEF L
  <1> QED BY <1>1, <1>3, <1>4, <1>5, MaxIsGreatest

\* A finite set as a sequence: each member once.
LEMMA SetToSeqLists ==
  ASSUME NEW S, IsFiniteSet(S)
  PROVE  /\ SetToSeq(S) \in Seq(S)
         /\ IsInjective(SetToSeq(S))
         /\ ToSet(SetToSeq(S)) = S
  <1> DEFINE n == Cardinality(S)
  <1>1. n \in Nat /\ Bijection(1..n, S) # {}
    BY FS_CardinalityType DEF ExistsBijection
  <1>2. PICK f \in Bijection(1..n, S) : TRUE
    BY <1>1
  <1>3. f \in [1..n -> S] /\ IsInjective(f)
    BY DEF Bijection, Injection
  <1>4. SetToSeq(S) \in [1..n -> S] /\ IsInjective(SetToSeq(S))
    BY <1>3 DEF SetToSeq
  <1>5. IsFiniteSet(1..n) /\ Cardinality(1..n) = n
    BY <1>1, FS_Interval
  <1>6. SetToSeq(S) \in Injection(1..n, S)
    BY <1>4 DEF Injection
  <1>7. SetToSeq(S) \in Surjection(1..n, S)
    BY <1>5, <1>6, FS_Injection
  <1>8. SetToSeq(S) \in Seq(S) /\ DOMAIN SetToSeq(S) = 1..n
    BY <1>1, <1>4
  <1>9. ToSet(SetToSeq(S)) = S
    BY <1>7, <1>8, <1>4 DEF ToSet, Surjection
  <1> QED BY <1>4, <1>8, <1>9

LEMMA ConcatLists ==
  ASSUME NEW S, NEW a \in Seq(S), NEW b \in Seq(S), IsInjective(a), IsInjective(b),
         ToSet(a) \cap ToSet(b) = {}
  PROVE  /\ a \o b \in Seq(S)
         /\ IsInjective(a \o b)
         /\ ToSet(a \o b) = ToSet(a) \cup ToSet(b)
  <1> DEFINE c == a \o b
  <1>1. /\ c \in Seq(S) /\ Len(c) = Len(a) + Len(b)
        /\ \A i \in 1..Len(c) : c[i] = IF i <= Len(a) THEN a[i] ELSE b[i - Len(a)]
    OBVIOUS
  <1>2. /\ Len(a) \in Nat /\ Len(b) \in Nat
        /\ DOMAIN a = 1..Len(a) /\ DOMAIN b = 1..Len(b) /\ DOMAIN c = 1..Len(c)
    BY <1>1
  <1> HIDE DEF c
  <1>3. \A i \in DOMAIN a : i \in DOMAIN c /\ c[i] = a[i]
    BY <1>1, <1>2
  <1>4. \A i \in DOMAIN b : (i + Len(a)) \in DOMAIN c /\ c[i + Len(a)] = b[i]
    BY <1>1, <1>2
  <1>5. \A i \in DOMAIN c : \/ i \in DOMAIN a /\ c[i] = a[i]
                            \/ (i - Len(a)) \in DOMAIN b /\ c[i] = b[i - Len(a)]
    BY <1>1, <1>2
  <1>6. ToSet(c) = ToSet(a) \cup ToSet(b)
    BY <1>3, <1>4, <1>5 DEF ToSet
  <1>7. ASSUME NEW i \in DOMAIN c, NEW j \in DOMAIN c, c[i] = c[j]
        PROVE  i = j
    <2>1. CASE i \in DOMAIN a /\ c[i] = a[i] /\ j \in DOMAIN a /\ c[j] = a[j]
      BY <2>1, <1>7 DEF IsInjective
    <2>2. CASE i \in DOMAIN a /\ c[i] = a[i] /\ (j - Len(a)) \in DOMAIN b /\ c[j] = b[j - Len(a)]
      BY <2>2, <1>7 DEF ToSet
    <2>3. CASE j \in DOMAIN a /\ c[j] = a[j] /\ (i - Len(a)) \in DOMAIN b /\ c[i] = b[i - Len(a)]
      BY <2>3, <1>7 DEF ToSet
    <2>4. CASE (i - Len(a)) \in DOMAIN b /\ c[i] = b[i - Len(a)]
               /\ (j - Len(a)) \in DOMAIN b /\ c[j] = b[j - Len(a)]
      <3>1. i - Len(a) = j - Len(a)
        BY <2>4, <1>7 DEF IsInjective
      <3> QED BY <3>1, <1>2, <1>1
    <2> QED BY <1>5, <2>1, <2>2, <2>3, <2>4
  <1>8. IsInjective(c)
    BY <1>7 DEF IsInjective
  <1> QED BY <1>1, <1>6, <1>8 DEF c

-----------------------------------------------------------------------------
\* How the file is cut: the chunks follow one another, and together they are it.

LEMMA ChunksCover ==
  ASSUME content \in Seq(Nat), requested \in 1..MaxThreads
  PROVE  /\ FileSize \in Nat /\ ThreadCount \in Nat \ {0} /\ ChunkSize \in Nat
         /\ FileSize <= ChunkSize * ThreadCount
         /\ FileSize > 0 => ChunkSize > 0
  <1>1. FileSize \in Nat
    BY DEF FileSize
  <1>2. CeilDiv(FileSize, MinChunkSize) \in Nat
    BY <1>1, CeilDivCovers, MarkersAssumption
  <1>3. ThreadCount \in Nat \ {0}
    BY <1>1, <1>2, MarkersAssumption DEF ThreadCount, Max2, Min2
  <1> QED BY <1>1, <1>3, CeilDivCovers DEF ChunkSize

LEMMA ChunkBounds ==
  ASSUME content \in Seq(Nat), requested \in 1..MaxThreads, NEW t \in Threads
  PROVE  /\ ChunkStart(t) \in Nat /\ ChunkEnd(t) \in Nat
         /\ ChunkEnd(t) <= FileSize /\ ChunkEnd(t) <= ChunkStart(t) + ChunkSize
         /\ \/ ChunkEnd(t) = FileSize \/ ChunkEnd(t) = ChunkStart(t) + ChunkSize
         /\ \A u \in Threads : t < u => ChunkEnd(t) <= ChunkStart(u)
  <1>1. FileSize \in Nat /\ ThreadCount \in Nat /\ ChunkSize \in Nat
    BY ChunksCover
  <1>2. t \in Nat /\ t - 1 \in Nat
    BY <1>1 DEF Threads
  <1>3. ChunkStart(t) \in Nat
    BY <1>1, <1>2, ProductGrows DEF ChunkStart
  <1>4. /\ ChunkEnd(t) \in Nat /\ ChunkEnd(t) <= FileSize /\ ChunkEnd(t) <= ChunkStart(t) + ChunkSize
        /\ \/ ChunkEnd(t) = FileSize \/ ChunkEnd(t) = ChunkStart(t) + ChunkSize
    BY <1>1, <1>3 DEF ChunkEnd, Min2
  <1>5. ASSUME NEW u \in Threads, t < u PROVE ChunkEnd(t) <= ChunkStart(u)
    <2>1. u \in Nat /\ u - 1 \in Nat /\ t <= u - 1
      BY <1>1, <1>2, <1>5 DEF Threads
    <2>2. ChunkSize * t <= ChunkSize * (u - 1) /\ ChunkSize * t \in Nat
          /\ ChunkSize * (u - 1) \in Nat
      BY <1>1, <1>2, <2>1, ProductGrows
    <2>3. ChunkSize * t = ChunkSize * (t - 1) + ChunkSize
      BY <1>1, <1>2
    <2> QED BY <1>4, <1>1, <1>3, <2>2, <2>3 DEF ChunkStart
  <1> QED BY <1>3, <1>4, <1>5

LEMMA EveryOffsetInAChunk ==
  ASSUME content \in Seq(Nat), requested \in 1..MaxThreads, NEW o \in 0..(FileSize - 1)
  PROVE  \E t \in Threads : ChunkStart(t) <= o /\ o < ChunkEnd(t)
  <1>1. /\ FileSize \in Nat /\ ThreadCount \in Nat /\ ChunkSize \in Nat
        /\ FileSize <= ChunkSize * ThreadCount /\ ChunkSize > 0
    BY ChunksCover
  <1> DEFINE q == o \div ChunkSize
             m == o % ChunkSize
  <1>2. q \in Int /\ m \in 0..(ChunkSize - 1) /\ o = ChunkSize * q + m /\ o \in Nat
    BY <1>1
  <1>3. q >= 0
    BY <1>1
  <1> HIDE DEF q, m
  <1>4. q + 1 <= ThreadCount
    <2> SUFFICES ASSUME ThreadCount <= q PROVE FALSE
      BY <1>1, <1>2
    <2>1. ChunkSize * ThreadCount <= ChunkSize * q /\ ChunkSize * q \in Nat
          /\ ChunkSize * ThreadCount \in Nat
      BY <1>1, <1>2, <1>3, ProductGrows
    <2> QED BY <1>1, <1>2, <2>1
  <1>5. (q + 1) \in Threads
    BY <1>1, <1>2, <1>3, <1>4 DEF Threads
  <1>6. ChunkStart(q + 1) = ChunkSize * q
    BY <1>2 DEF ChunkStart
  <1>7. ChunkSize * q \in Nat
    BY <1>1, <1>2, <1>3, ProductGrows
  <1>8. o < ChunkEnd(q + 1)
    BY <1>1, <1>2, <1>6, <1>7 DEF ChunkEnd, Min2
  <1> QED BY <1>5, <1>6, <1>7, <1>8, <1>2

-----------------------------------------------------------------------------
\* The invariant.  Who has begun and who has ended follows from where the main
\* thread stands.
Lifecycle ==
  /\ main = "spawn" => \A t \in Threads : at <= t => worker[t] = "none"
  /\ main = "join" => \A t \in Threads : t < at => worker[t] = "done"
  /\ main \in {"joinProgress", "printed", "failed"} => \A t \in Threads : worker[t] = "done"
  /\ main \in {"printed", "failed"} => progress \in {"none", "done"}

\* A worker that ended before the end of its chunk left an error behind.
Working ==
  \A t \in Threads :
    /\ ChunkStart(t) <= block[t]
    /\ worker[t] = "none" => block[t] = ChunkStart(t)
    /\ worker[t] \in {"read", "failing"} => block[t] < ChunkEnd(t)
    /\ worker[t] = "done" => error # 0 \/ ChunkEnd(t) <= block[t]

\* What a worker has found is what occurs in the part of its chunk it has been
\* through, each occurrence once.
Searched(t) == ChunkStart(t)..(Min2(block[t], ChunkEnd(t)) - 1)
Found ==
  \A t \in Threads :
    /\ ToSet(matches[t]) = {x \in Occurrences : x[1] \in Searched(t)}
    /\ IsInjective(matches[t])

MarkersInv == MarkersTypeOK /\ Lifecycle /\ Working /\ Found

LEMMA CutFixed ==
  ASSUME UNCHANGED <<content, requested>>
  PROVE  /\ FileSize' = FileSize /\ ThreadCount' = ThreadCount /\ Threads' = Threads
         /\ Occurrences' = Occurrences
         /\ \A t : ChunkStart(t)' = ChunkStart(t) /\ ChunkEnd(t)' = ChunkEnd(t)
  <1>1. FileSize' = FileSize
    BY DEF FileSize
  <1>2. ThreadCount' = ThreadCount /\ Threads' = Threads
    BY <1>1 DEF ThreadCount, Threads
  <1>3. ChunkSize' = ChunkSize
    BY <1>1, <1>2 DEF ChunkSize
  <1>4. \A t : ChunkStart(t)' = ChunkStart(t) /\ ChunkEnd(t)' = ChunkEnd(t)
    BY <1>1, <1>3 DEF ChunkStart, ChunkEnd
  <1>5. Occurrences' = Occurrences
    BY <1>1 DEF Occurrences, OccursAt
  <1> QED BY <1>1, <1>2, <1>4, <1>5

LEMMA FoundFixed ==
  ASSUME UNCHANGED <<content, requested, block, matches>>, Found
  PROVE  Found' /\ \A t : Searched(t)' = Searched(t)
  <1>1. \A t : Searched(t)' = Searched(t)
    BY CutFixed DEF Searched
  <1> QED BY <1>1, CutFixed DEF Found

LEMMA MarkersStart == MarkersInit => MarkersInv
  <1> SUFFICES ASSUME MarkersInit PROVE MarkersInv
    OBVIOUS
  <1>1. content \in Seq(Nat) /\ requested \in 1..MaxThreads /\ FileSize \in Nat
    BY MarkersAssumption DEF MarkersInit, FileSize
  <1>2. \A t \in Threads : ChunkStart(t) \in Nat /\ ChunkEnd(t) \in Nat
    BY <1>1, ChunkBounds
  <1>3. ThreadCount \in Nat \ {0}
    BY <1>1, ChunksCover
  <1>4. MarkersTypeOK
    <2>1. size \in 0..FileSize
      BY <1>1 DEF MarkersInit, FileSize
    <2>2. /\ worker \in [Threads -> {"none", "read", "failing", "done"}]
          /\ block \in [Threads -> Nat] /\ matches \in [Threads -> Seq((0..FileSize) \X Names)]
      BY <1>2 DEF MarkersInit
    <2>3. stop \in BOOLEAN
      BY Zenon DEF MarkersInit
    <2>4. /\ main = "spawn" /\ at \in 1..(ThreadCount + 1) /\ scanned \in Nat
          /\ error \in 0..ThreadCount /\ progress = "none"
      BY <1>3 DEF MarkersInit
    <2> QED BY <1>1, <2>1, <2>2, <2>3, <2>4 DEF MarkersTypeOK
  <1>5. Lifecycle
    BY DEF MarkersInit, Lifecycle
  <1>6. Working
    BY <1>2 DEF MarkersInit, Working
  <1>7. Found
    <2> SUFFICES ASSUME NEW t \in Threads
                 PROVE  /\ ToSet(matches[t]) = {x \in Occurrences : x[1] \in Searched(t)}
                        /\ IsInjective(matches[t])
      BY DEF Found
    <2>1. matches[t] = <<>> /\ block[t] = ChunkStart(t)
      BY DEF MarkersInit
    <2>2. Searched(t) = {}
      BY <1>2, <2>1 DEF Searched, Min2
    <2> QED BY <2>1, <2>2 DEF ToSet, IsInjective
  <1> QED BY <1>4, <1>5, <1>6, <1>7 DEF MarkersInv

\* A step that reads nothing moves no worker's block and adds no match.
LEMMA SpawnKeeps ==
  ASSUME MarkersInv, Spawn PROVE MarkersInv'
  <1>1. UNCHANGED <<content, size, requested, main, block, matches, scanned, error, display, output>>
    BY DEF Spawn
  <1>2. Found'
    BY <1>1, FoundFixed DEF MarkersInv
  <1>3. /\ FileSize \in Nat /\ ThreadCount \in Nat
        /\ \A t \in Threads : ChunkStart(t) \in Nat /\ ChunkEnd(t) \in Nat /\ t \in Nat
    BY ChunkBounds, ChunksCover DEF MarkersInv, MarkersTypeOK, Threads
  <1>4. at \in Threads
    <2>1. at \in 1..(ThreadCount + 1) /\ at <= ThreadCount
      BY DEF Spawn, MarkersInv, MarkersTypeOK
    <2> QED BY <1>3, <2>1 DEF Threads
  <1>5. /\ worker \in [Threads -> {"none", "read", "failing", "done"}]
        /\ worker' = [worker EXCEPT ![at] = worker'[at]] /\ worker'[at] \in {"read", "done"}
        /\ at' = at + 1 /\ main = "spawn"
    BY <1>4 DEF MarkersInv, MarkersTypeOK, Spawn
  <1>8. /\ worker' \in [Threads -> {"none", "read", "failing", "done"}]
        /\ at' \in 1..(ThreadCount + 1)
    BY <1>3, <1>4, <1>5 DEF Threads
  <1>9. MarkersTypeOK'
    BY <1>1, <1>8, CutFixed DEF MarkersInv, MarkersTypeOK, display
  <1>6. Lifecycle'
    <2>1. \A t \in Threads : at + 1 <= t => worker[t] = "none" /\ t # at
      BY <1>3, <1>4, <1>5 DEF MarkersInv, Lifecycle
    <2>2. main' = "spawn" /\ Threads' = Threads /\ at' = at + 1
      BY <1>1, <1>5, CutFixed
    <2>3. \A t \in Threads : at' <= t => worker'[t] = "none"
      BY <2>1, <2>2, <1>5
    <2> QED BY <2>2, <2>3 DEF Lifecycle
  <1>7. Working'
    <2>1. block[at] = ChunkStart(at)
      BY <1>3, <1>4, <1>5 DEF MarkersInv, Lifecycle, Working
    <2>2. worker'[at] = IF ChunkStart(at) >= ChunkEnd(at) THEN "done" ELSE "read"
      BY <1>4, <1>5 DEF Spawn
    <2>3. /\ worker'[at] # "none" /\ worker'[at] # "failing"
          /\ worker'[at] = "read" => block[at] < ChunkEnd(at)
          /\ worker'[at] = "done" => ChunkEnd(at) <= block[at]
      BY <1>3, <1>4, <2>1, <2>2
    <2>4. \A t \in Threads : t # at => worker'[t] = worker[t]
      BY <1>4, <1>5
    <2>5. block' = block /\ error' = error
      BY <1>1
    <2> QED BY <1>3, <1>4, <2>1, <2>3, <2>4, <2>5, <1>1, CutFixed DEF MarkersInv, Working
  <1> QED BY <1>2, <1>9, <1>6, <1>7 DEF MarkersInv

LEMMA MainKeeps ==
  ASSUME MarkersInv, SpawnFails \/ SpawnProgress \/ Join \/ StopProgress \/ Report
  PROVE  MarkersInv'
  <1>1. UNCHANGED <<content, size, requested, worker, block, matches, scanned, error>>
    BY DEF SpawnFails, SpawnProgress, Join, StopProgress, Report, workers
  <1>2. Found'
    BY <1>1, FoundFixed DEF MarkersInv
  <1>3. FileSize \in Nat /\ ThreadCount \in Nat /\ \A t \in Threads : t \in 1..ThreadCount
    BY ChunksCover DEF MarkersInv, MarkersTypeOK, Threads
  <1>4. /\ at' \in 1..(ThreadCount + 1)
        /\ main' \in {"spawn", "join", "joinProgress", "printed", "failed", "aborted"}
        /\ progress' \in {"none", "sleep", "awake", "done"}
    BY <1>3
    DEF MarkersInv, MarkersTypeOK, SpawnFails, SpawnProgress, Join, StopProgress, Report, display
  <1>8. stop' \in BOOLEAN
    BY Zenon
    DEF MarkersInv, MarkersTypeOK, SpawnFails, SpawnProgress, Join, StopProgress, Report, display
  <1>5. MarkersTypeOK'
    BY <1>1, <1>4, <1>8, CutFixed DEF MarkersInv, MarkersTypeOK
  <1>6. Lifecycle'
    BY <1>1, <1>3, CutFixed
    DEF MarkersInv, MarkersTypeOK, Lifecycle, SpawnFails, SpawnProgress, Join, StopProgress,
        Report, display
  <1>7. Working'
    BY <1>1, CutFixed DEF MarkersInv, Working
  <1> QED BY <1>2, <1>5, <1>6, <1>7 DEF MarkersInv

LEMMA OthersKeepMarkers ==
  ASSUME MarkersInv, ~Over, Wake \/ Show \/ Truncate
  PROVE  MarkersInv'
  <1>1. UNCHANGED <<content, requested, main, at, worker, block, matches, scanned, error>>
    BY DEF Wake, Show, Truncate, workers
  <1>2. Found'
    BY <1>1, FoundFixed DEF MarkersInv
  <1>3. FileSize \in Nat
    BY DEF MarkersInv, MarkersTypeOK, FileSize
  <1>5. MarkersTypeOK'
    BY <1>1, <1>3, CutFixed DEF MarkersInv, MarkersTypeOK, Wake, Show, Truncate, display
  <1>6. Lifecycle'
    BY <1>1, CutFixed DEF MarkersInv, Lifecycle, Over
  <1>7. Working'
    BY <1>1, CutFixed DEF MarkersInv, Working
  <1> QED BY <1>2, <1>5, <1>6, <1>7 DEF MarkersInv

LEMMA FailureKeeps ==
  ASSUME MarkersInv, ~Over, NEW t \in Threads, ReadFails(t) \/ RecordError(t)
  PROVE  MarkersInv'
  <1>1. UNCHANGED <<content, size, requested, main, at, block, matches, scanned, display, output>>
    BY DEF ReadFails, RecordError
  <1>2. Found'
    BY <1>1, FoundFixed DEF MarkersInv
  <1>3. /\ FileSize \in Nat /\ ThreadCount \in Nat \ {0}
        /\ \A u \in Threads : u \in 1..ThreadCount
    BY ChunksCover DEF MarkersInv, MarkersTypeOK, Threads
  <1>4. worker[t] # "none" /\ worker[t] # "done"
    BY DEF ReadFails, RecordError
  <1>9. worker' \in [Threads -> {"none", "read", "failing", "done"}]
    BY DEF MarkersInv, MarkersTypeOK, ReadFails, RecordError
  <1>8. error' \in 0..ThreadCount
    BY <1>3 DEF MarkersInv, MarkersTypeOK, ReadFails, RecordError, KeepFirst
  <1>5. MarkersTypeOK'
    BY <1>1, <1>8, <1>9, CutFixed DEF MarkersInv, MarkersTypeOK, display
  <1>6. Lifecycle'
    BY <1>1, <1>3, <1>4, CutFixed
    DEF MarkersInv, MarkersTypeOK, Lifecycle, Over, ReadFails, RecordError, display
  <1>7. Working'
    BY <1>1, <1>3, <1>4, CutFixed
    DEF MarkersInv, MarkersTypeOK, Working, ReadFails, RecordError, KeepFirst
  <1> QED BY <1>2, <1>5, <1>6, <1>7 DEF MarkersInv

\* A block is searched completely: a marker that begins in it ends, if not in the
\* block, in the overlap.
LEMMA BlockComplete ==
  ASSUME MarkersTypeOK, NEW t \in Threads
  PROVE  /\ InBlock(t) = {x \in Occurrences : x[1] \in block[t]..(BlockEnd(t) - 1)}
         /\ IsFiniteSet(InBlock(t))
  <1>1. /\ FileSize \in Nat /\ block[t] \in Nat
        /\ ChunkEnd(t) \in Nat /\ ChunkEnd(t) <= FileSize
    BY ChunksCover, ChunkBounds DEF MarkersTypeOK
  <1>2. BlockEnd(t) \in Nat /\ BlockEnd(t) <= FileSize
    BY <1>1, MarkersAssumption DEF BlockEnd, Min2
  <1>3. ASSUME NEW x \in InBlock(t)
        PROVE  x \in Occurrences /\ x[1] \in block[t]..(BlockEnd(t) - 1)
    BY <1>1, <1>2 DEF InBlock, Occurrences
  <1>4. ASSUME NEW x \in Occurrences, x[1] \in block[t]..(BlockEnd(t) - 1)
        PROVE  x \in InBlock(t)
    <2>1. x \in (block[t]..(BlockEnd(t) - 1)) \X Names /\ OccursAt(x[2], x[1])
      BY <1>4 DEF Occurrences
    <2>2. x[1] + Len(Bytes[x[2]]) <= FileSize
      BY <2>1 DEF OccursAt
    <2>3. Len(Bytes[x[2]]) \in Nat /\ Len(Bytes[x[2]]) <= Longest /\ Longest \in Nat
      BY <2>1, LongestIsLongest
    <2>4. x[1] + Len(Bytes[x[2]]) <= ReadEnd(t)
      BY <1>1, <1>2, <2>1, <2>2, <2>3 DEF ReadEnd, Min2, Overlap
    <2> QED BY <2>1, <2>4 DEF InBlock
  <1>5. IsFiniteSet((block[t]..(BlockEnd(t) - 1)) \X Names)
    <2>1. block[t] \in Int /\ BlockEnd(t) - 1 \in Int
      BY <1>1, <1>2
    <2>2. IsFiniteSet(block[t]..(BlockEnd(t) - 1))
      BY <2>1, FS_Interval
    <2>3. IsFiniteSet(Names)
      BY MarkersAssumption DEF Names
    <2> QED BY <2>2, <2>3, FS_Product
  <1>6. IsFiniteSet(InBlock(t))
    BY <1>5, FS_Subset DEF InBlock
  <1> QED BY <1>3, <1>4, <1>6

\* What a block adds to the part of the chunk that was searched, and to no other's.
LEMMA ScanExtends ==
  ASSUME MarkersInv, NEW t \in Threads, ScanBlock(t)
  PROVE  /\ \A u \in Threads : u # t => Searched(u)' = Searched(u)
         /\ Searched(t)' = Searched(t) \cup (block[t]..(BlockEnd(t) - 1))
         /\ Searched(t) \cap (block[t]..(BlockEnd(t) - 1)) = {}
         /\ block[t] \in block[t]..(BlockEnd(t) - 1) /\ block[t] < BlockEnd(t)
         /\ BlockEnd(t) \in Nat /\ BlockEnd(t) <= ChunkEnd(t)
         /\ block'[t] = block[t] + BlockSize
         /\ block'[t] < ChunkEnd(t) \/ block'[t] >= ChunkEnd(t)
  <1>1. UNCHANGED <<content, requested>> /\ block \in [Threads -> Nat]
    BY DEF ScanBlock, MarkersInv, MarkersTypeOK
  <1>2. /\ ChunkStart(t) \in Nat /\ ChunkEnd(t) \in Nat /\ BlockSize \in Nat \ {0}
        /\ block[t] \in Nat /\ ChunkStart(t) <= block[t] /\ block[t] < ChunkEnd(t)
    BY ChunkBounds, MarkersAssumption DEF MarkersInv, MarkersTypeOK, Working, ScanBlock
  <1>3. block' = [block EXCEPT ![t] = @ + BlockSize]
    BY DEF ScanBlock
  <1>4. /\ block'[t] = block[t] + BlockSize
        /\ \A u \in Threads : u # t => block'[u] = block[u]
    BY <1>1, <1>3
  <1>5. \A u \in Threads : u # t => Searched(u)' = Searched(u)
    BY <1>1, <1>4, CutFixed DEF Searched
  <1>6. Searched(t)' = ChunkStart(t)..(BlockEnd(t) - 1)
    <2>1. Min2(block'[t], ChunkEnd(t)) = BlockEnd(t)
      BY <1>2, <1>4 DEF BlockEnd, Min2
    <2> QED BY <1>1, <2>1, CutFixed DEF Searched
  <1>7. Searched(t) = ChunkStart(t)..(block[t] - 1)
    BY <1>2 DEF Searched, Min2
  <1>8. BlockEnd(t) \in Nat /\ block[t] < BlockEnd(t) /\ BlockEnd(t) <= ChunkEnd(t)
    BY <1>2 DEF BlockEnd, Min2
  <1>9. /\ Searched(t)' = Searched(t) \cup (block[t]..(BlockEnd(t) - 1))
        /\ Searched(t) \cap (block[t]..(BlockEnd(t) - 1)) = {}
        /\ block[t] \in block[t]..(BlockEnd(t) - 1)
    BY <1>2, <1>6, <1>7, <1>8
  <1> QED BY <1>2, <1>4, <1>5, <1>8, <1>9

LEMMA ScanKeeps ==
  ASSUME MarkersInv, ~Over, NEW t \in Threads, ScanBlock(t)
  PROVE  MarkersInv'
  <1>1. UNCHANGED <<content, size, requested, main, at, error, progress, stop, output>>
    BY DEF ScanBlock, display
  <1> DEFINE New == SetToSeq(InBlock(t))
  <1>2. /\ New \in Seq(InBlock(t)) /\ IsInjective(New)
        /\ ToSet(New) = {x \in Occurrences : x[1] \in block[t]..(BlockEnd(t) - 1)}
    BY BlockComplete, SetToSeqLists DEF MarkersInv
  <1>3. InBlock(t) \subseteq (0..FileSize) \X Names
    BY BlockComplete DEF MarkersInv, Occurrences
  <1>4. New \in Seq((0..FileSize) \X Names)
    BY <1>2, <1>3
  <1>5. /\ matches \in [Threads -> Seq((0..FileSize) \X Names)]
        /\ matches' = [matches EXCEPT ![t] = @ \o New]
    BY DEF MarkersInv, MarkersTypeOK, ScanBlock
  <1> HIDE DEF New
  <1>6. /\ ToSet(matches[t]) = {x \in Occurrences : x[1] \in Searched(t)}
        /\ IsInjective(matches[t]) /\ matches[t] \in Seq((0..FileSize) \X Names)
    BY <1>5 DEF MarkersInv, Found
  <1>7. ToSet(matches[t]) \cap ToSet(New) = {}
    BY <1>2, <1>6, ScanExtends
  <1>8. /\ matches[t] \o New \in Seq((0..FileSize) \X Names)
        /\ IsInjective(matches[t] \o New)
        /\ ToSet(matches[t] \o New) = ToSet(matches[t]) \cup ToSet(New)
    BY <1>2, <1>4, <1>6, <1>7, ConcatLists
  <1>9. Found'
    <2> SUFFICES ASSUME NEW u \in Threads
                 PROVE  /\ ToSet(matches'[u]) = {x \in Occurrences : x[1] \in Searched(u)'}
                        /\ IsInjective(matches'[u])
      BY <1>1, CutFixed DEF Found
    <2>1. CASE u # t
      <3>1. matches'[u] = matches[u]
        BY <2>1, <1>5
      <3> QED BY <2>1, <3>1, ScanExtends DEF MarkersInv, Found
    <2>2. CASE u = t
      <3>1. matches'[u] = matches[t] \o New
        BY <2>2, <1>5
      <3> QED BY <2>2, <3>1, <1>2, <1>6, <1>8, ScanExtends
    <2> QED BY <2>1, <2>2
  <1>10. /\ worker \in [Threads -> {"none", "read", "failing", "done"}] /\ worker[t] = "read"
         /\ worker' = [worker EXCEPT ![t] = IF block'[t] < ChunkEnd(t) THEN "read" ELSE "done"]
         /\ block' = [block EXCEPT ![t] = @ + BlockSize] /\ block \in [Threads -> Nat]
    BY DEF MarkersInv, MarkersTypeOK, ScanBlock
  <1>11. MarkersTypeOK'
    <2>1. worker' \in [Threads -> {"none", "read", "failing", "done"}]
      BY <1>10
    <2>2. block' \in [Threads -> Nat]
      BY <1>10, MarkersAssumption
    <2>3. matches' \in [Threads -> Seq((0..FileSize) \X Names)]
      BY <1>5, <1>8
    <2>4. scanned' \in Nat
      <3>1. scanned' = scanned + BlockEnd(t) - block[t] /\ scanned \in Nat /\ block[t] \in Nat
        BY <1>10 DEF MarkersInv, MarkersTypeOK, ScanBlock
      <3>2. BlockEnd(t) \in Nat /\ block[t] < BlockEnd(t)
        BY ScanExtends
      <3> QED BY <3>1, <3>2
    <2> QED BY <1>1, <2>1, <2>2, <2>3, <2>4, CutFixed DEF MarkersInv, MarkersTypeOK
  <1>12. Lifecycle'
    BY <1>1, <1>10, CutFixed DEF MarkersInv, Lifecycle, Over
  <1>13. Working'
    <2> SUFFICES ASSUME NEW u \in Threads
                 PROVE  /\ ChunkStart(u) <= block'[u]
                        /\ worker'[u] = "none" => block'[u] = ChunkStart(u)
                        /\ worker'[u] \in {"read", "failing"} => block'[u] < ChunkEnd(u)
                        /\ worker'[u] = "done" => error # 0 \/ ChunkEnd(u) <= block'[u]
      BY <1>1, CutFixed DEF Working
    <2>1. CASE u # t
      BY <2>1, <1>10 DEF MarkersInv, Working
    <2>2. CASE u = t
      <3>1. ChunkStart(t) \in Nat /\ ChunkEnd(t) \in Nat /\ BlockSize \in Nat
        BY ChunkBounds, MarkersAssumption DEF MarkersInv, MarkersTypeOK
      <3>2. ChunkStart(t) <= block[t] /\ block[t] \in Nat
        BY <1>10 DEF MarkersInv, Working
      <3>3. worker'[t] = IF block'[t] < ChunkEnd(t) THEN "read" ELSE "done"
        BY <1>10
      <3>4. block'[t] = block[t] + BlockSize
        BY <1>10
      <3> QED BY <2>2, <3>1, <3>2, <3>3, <3>4
    <2> QED BY <2>1, <2>2
  <1> QED BY <1>9, <1>11, <1>12, <1>13 DEF MarkersInv

LEMMA MarkersStep ==
  ASSUME MarkersInv, [MarkersNext]_markersVars
  PROVE  MarkersInv'
  <1>1. CASE UNCHANGED markersVars
    <2>1. UNCHANGED <<content, size, requested, main, at, worker, block, matches, scanned, error,
                      progress, stop, output>>
      BY <1>1 DEF markersVars
    <2>2. MarkersTypeOK' /\ Lifecycle' /\ Working'
      BY <2>1, CutFixed DEF MarkersInv, MarkersTypeOK, Lifecycle, Working
    <2> QED BY <2>1, <2>2, FoundFixed DEF MarkersInv
  <1>2. CASE ~Over /\ (MainStep \/ SpawnFails)
    BY <1>2, SpawnKeeps, MainKeeps DEF MainStep
  <1>3. CASE ~Over /\ (ProgressStep \/ Truncate)
    BY <1>3, OthersKeepMarkers DEF ProgressStep
  <1>4. CASE ~Over /\ \E t \in Threads : WorkerStep(t)
    BY <1>4, ScanKeeps, FailureKeeps DEF WorkerStep
  <1> QED BY <1>1, <1>2, <1>3, <1>4 DEF MarkersNext

\* The invariant, for any file, any markers and any number of threads.
THEOREM MarkersInvariant == MarkersSpec => []MarkersInv
  <1> QED BY MarkersStart, MarkersStep, PTL DEF MarkersSpec

\* The state keeps its types, however the threads interleave.
THEOREM MarkersTypeCorrect == MarkersSpec => []MarkersTypeOK
  <1>1. MarkersInv => MarkersTypeOK
    BY DEF MarkersInv
  <1> QED BY <1>1, MarkersInvariant, PTL

\* h5markers prints, or gives up, only when no worker and no progress display runs.
THEOREM NobodyOutlivesMainCorrect == MarkersSpec => []NobodyOutlivesMain
  <1>1. MarkersInv => NobodyOutlivesMain
    BY DEF MarkersInv, Lifecycle, NobodyOutlivesMain
  <1> QED BY <1>1, MarkersInvariant, PTL

-----------------------------------------------------------------------------
\* The sorted list.  Entries are in a strict order, so that an entry has fewer
\* before it than any later one: no two share a place, and each place is taken.

LEMMA EntryFacts ==
  ASSUME MarkersInv
  PROVE  /\ IsFiniteSet(Entries)
         /\ \A e \in Entries : /\ e \in Threads \X Nat /\ e[2] \in DOMAIN matches[e[1]]
                               /\ Entry(e) \in (0..FileSize) \X Names
                               /\ Entry(e) \in ToSet(matches[e[1]])
         /\ \A t \in Threads : \A x \in ToSet(matches[t]) :
              \E e \in Entries : e[1] = t /\ Entry(e) = x
  <1>1. \A t \in Threads : /\ matches[t] \in Seq((0..FileSize) \X Names)
                           /\ DOMAIN matches[t] = 1..Len(matches[t]) /\ Len(matches[t]) \in Nat
    BY DEF MarkersInv, MarkersTypeOK
  <1>2. ASSUME NEW e \in Entries
        PROVE  /\ e \in Threads \X Nat /\ e[2] \in DOMAIN matches[e[1]]
               /\ Entry(e) \in (0..FileSize) \X Names
               /\ Entry(e) \in ToSet(matches[e[1]])
    <2>1. PICK t \in Threads : e \in {t} \X DOMAIN matches[t]
      BY DEF Entries
    <2>2. e[1] = t /\ e[2] \in 1..Len(matches[t]) /\ e = <<t, e[2]>>
      BY <2>1, <1>1
    <2>3. matches[t][e[2]] \in (0..FileSize) \X Names
      BY <2>2, <1>1
    <2> QED BY <2>2, <2>3, <1>1 DEF Entry, ToSet
  <1>3. ASSUME NEW t \in Threads, NEW x \in ToSet(matches[t])
        PROVE  \E e \in Entries : e[1] = t /\ Entry(e) = x
    <2>1. PICK i \in DOMAIN matches[t] : x = matches[t][i]
      BY DEF ToSet
    <2>2. <<t, i>> \in Entries /\ Entry(<<t, i>>) = x
      BY <2>1 DEF Entries, Entry
    <2> QED BY <2>2
  <1>4. IsFiniteSet(Entries)
    <2> DEFINE Parts == {{t} \X DOMAIN matches[t] : t \in Threads}
               part == [t \in Threads |-> {t} \X DOMAIN matches[t]]
    <2>1. IsFiniteSet(Threads)
      <3>1. ThreadCount \in Int /\ 1 \in Int
        BY ChunksCover DEF MarkersInv, MarkersTypeOK
      <3> QED BY <3>1, FS_Interval DEF Threads
    <2>2. part \in Surjection(Threads, Parts)
      BY DEF Surjection
    <2>3. IsFiniteSet(Parts)
      BY <2>1, <2>2, FS_Surjection
    <2>4. ASSUME NEW t \in Threads PROVE IsFiniteSet({t} \X DOMAIN matches[t])
      <3>1. IsFiniteSet({t})
        BY FS_Singleton
      <3>2. IsFiniteSet(DOMAIN matches[t])
        <4>1. Len(matches[t]) \in Int /\ 1 \in Int
          BY <1>1
        <4> QED BY <1>1, <4>1, FS_Interval
      <3> QED BY <3>1, <3>2, FS_Product
    <2>5. \A P \in Parts : IsFiniteSet(P)
      BY <2>4
    <2>6. IsFiniteSet(UNION Parts)
      <3> HIDE DEF Parts
      <3> QED BY <2>3, <2>5, FS_UNION
    <2> QED BY <2>6 DEF Entries
  <1> QED BY <1>2, <1>3, <1>4

LEMMA EarlierIsAnOrder ==
  ASSUME MarkersInv
  PROVE  /\ \A e \in Entries : ~Earlier(e, e)
         /\ \A c, d, e \in Entries : Earlier(c, d) /\ Earlier(d, e) => Earlier(c, e)
         /\ \A d, e \in Entries : d # e => Earlier(d, e) \/ Earlier(e, d)
         /\ \A d, e \in Entries : Earlier(d, e) => Entry(d)[1] <= Entry(e)[1]
  <1>1. \A e \in Entries : /\ Entry(e) \in Nat \X Nat /\ e \in Nat \X Nat
    <2> SUFFICES ASSUME NEW e \in Entries PROVE Entry(e) \in Nat \X Nat /\ e \in Nat \X Nat
      OBVIOUS
    <2>1. Names \subseteq Nat /\ Threads \subseteq Nat /\ 0..FileSize \subseteq Nat
      <3>1. ThreadCount \in Nat /\ FileSize \in Nat
        BY ChunksCover DEF MarkersInv, MarkersTypeOK
      <3> QED BY <3>1, MarkersAssumption DEF Names, Threads
    <2>2. e \in Threads \X Nat /\ Entry(e) \in (0..FileSize) \X Names
      BY EntryFacts
    <2> QED BY <2>1, <2>2
  <1>2. \A a, b \in Nat \X Nat : /\ ~Before(a, a)
                                 /\ a # b => Before(a, b) \/ Before(b, a)
                                 /\ Before(a, b) => a[1] <= b[1] /\ a # b /\ ~Before(b, a)
    BY DEF Before
  <1>3. \A a, b, c \in Nat \X Nat : Before(a, b) /\ Before(b, c) => Before(a, c)
    BY DEF Before
  <1>4. \A e \in Entries : ~Earlier(e, e)
    BY <1>1, <1>2 DEF Earlier
  <1>5. \A d, e \in Entries : d # e => Earlier(d, e) \/ Earlier(e, d)
    BY <1>1, <1>2 DEF Earlier
  <1>6. \A d, e \in Entries : Earlier(d, e) => Entry(d)[1] <= Entry(e)[1]
    BY <1>1, <1>2 DEF Earlier
  <1>7. ASSUME NEW c \in Entries, NEW d \in Entries, NEW e \in Entries,
               Earlier(c, d), Earlier(d, e)
        PROVE  Earlier(c, e)
    BY <1>1, <1>3, <1>7 DEF Earlier
  <1> QED BY <1>4, <1>5, <1>6, <1>7

LEMMA PlacesTaken ==
  ASSUME MarkersInv
  PROVE  /\ \A e \in Entries : Place(e) \in 1..Cardinality(Entries)
         /\ \A d, e \in Entries : Earlier(d, e) => Place(d) < Place(e)
         /\ \A d, e \in Entries : Place(d) = Place(e) => d = e
         /\ \A k \in 1..Cardinality(Entries) : \E e \in Entries : Place(e) = k
         /\ Cardinality(Entries) \in Nat
  <1> DEFINE n == Cardinality(Entries)
             Ahead(e) == {d \in Entries : Earlier(d, e)}
             place == [e \in Entries |-> Place(e)]
  <1>1. IsFiniteSet(Entries) /\ n \in Nat
    BY EntryFacts, FS_CardinalityType
  <1>2. ASSUME NEW e \in Entries
        PROVE  /\ IsFiniteSet(Ahead(e)) /\ Cardinality(Ahead(e)) \in Nat
               /\ Cardinality(Ahead(e)) < n /\ Place(e) = Cardinality(Ahead(e)) + 1
    <2>1. Ahead(e) \in SUBSET Entries /\ e \notin Ahead(e)
      BY EarlierIsAnOrder
    <2>2. IsFiniteSet(Ahead(e)) /\ Cardinality(Ahead(e)) <= n /\ Cardinality(Ahead(e)) # n
      <3> HIDE DEF Ahead
      <3> QED BY <2>1, <1>1, FS_Subset
    <2>3. Cardinality(Ahead(e)) \in Nat
      BY <2>2, FS_CardinalityType
    <2> QED BY <1>1, <2>2, <2>3 DEF Place
  <1>3. ASSUME NEW d \in Entries, NEW e \in Entries, Earlier(d, e)
        PROVE  Place(d) < Place(e)
    <2>1. Ahead(d) \in SUBSET Ahead(e) /\ d \in Ahead(e) /\ d \notin Ahead(d)
      BY <1>3, EarlierIsAnOrder
    <2>2. Cardinality(Ahead(d)) <= Cardinality(Ahead(e)) /\ Cardinality(Ahead(d)) # Cardinality(Ahead(e))
      <3>1. IsFiniteSet(Ahead(e))
        BY <1>2
      <3> HIDE DEF Ahead
      <3> QED BY <2>1, <3>1, FS_Subset
    <2> QED BY <1>2, <2>2
  <1>4. \A e \in Entries : Place(e) \in 1..n
    <2> SUFFICES ASSUME NEW e \in Entries PROVE Place(e) \in 1..n
      OBVIOUS
    <2> DEFINE c == Cardinality(Ahead(e))
    <2>1. c \in Nat /\ c < n /\ Place(e) = c + 1 /\ n \in Nat
      BY <1>1, <1>2
    <2> HIDE DEF c, n
    <2> QED BY <2>1
  <1>5. ASSUME NEW d \in Entries, NEW e \in Entries, Place(d) = Place(e)
        PROVE  d = e
    <2> SUFFICES ASSUME d # e PROVE FALSE
      OBVIOUS
    <2>1. Place(d) < Place(e) \/ Place(e) < Place(d)
      BY <1>3, EarlierIsAnOrder
    <2>2. Place(d) \in Int
      BY <1>4
    <2> QED BY <1>5, <2>1, <2>2
  <1>6. place \in Injection(Entries, 1..n)
    BY <1>4, <1>5 DEF Injection, IsInjective
  <1>7. IsFiniteSet(1..n) /\ Cardinality(1..n) = n
    BY <1>1, FS_Interval
  <1>8. place \in Surjection(Entries, 1..n)
    <2> HIDE DEF place
    <2> QED BY <1>6, <1>7, FS_Injection
  <1>9. \A k \in 1..n : \E e \in Entries : Place(e) = k
    BY <1>8 DEF Surjection
  <1> QED BY <1>1, <1>3, <1>4, <1>5, <1>9

\* No thread finds an occurrence twice, and no two find the same.
FoundBy == UNION {ToSet(matches[t]) : t \in Threads}

LEMMA EntriesAreTheFound ==
  ASSUME MarkersInv
  PROVE  /\ {Entry(e) : e \in Entries} = FoundBy
         /\ \A d, e \in Entries : Entry(d) = Entry(e) => d = e
  <1>1. {Entry(e) : e \in Entries} = FoundBy
    <2>1. \A e \in Entries : Entry(e) \in FoundBy
      <3> SUFFICES ASSUME NEW e \in Entries PROVE Entry(e) \in FoundBy
        OBVIOUS
      <3>1. e[1] \in Threads /\ Entry(e) \in ToSet(matches[e[1]])
        BY EntryFacts
      <3> QED BY <3>1 DEF FoundBy
    <2>2. \A x \in FoundBy : \E e \in Entries : Entry(e) = x
      <3> SUFFICES ASSUME NEW x \in FoundBy PROVE \E e \in Entries : Entry(e) = x
        OBVIOUS
      <3>1. PICK t \in Threads : x \in ToSet(matches[t])
        BY DEF FoundBy
      <3> QED BY <3>1, EntryFacts
    <2> QED BY <2>1, <2>2
  <1>2. ASSUME NEW d \in Entries, NEW e \in Entries, Entry(d) = Entry(e)
        PROVE  d = e
    <2>1. /\ d \in Threads \X Nat /\ d[2] \in DOMAIN matches[d[1]]
          /\ e \in Threads \X Nat /\ e[2] \in DOMAIN matches[e[1]]
          /\ Entry(d) \in ToSet(matches[d[1]]) /\ Entry(e) \in ToSet(matches[e[1]])
      BY EntryFacts
    <2>2. /\ Entry(d)[1] \in Searched(d[1]) /\ Entry(e)[1] \in Searched(e[1])
      BY <2>1 DEF MarkersInv, Found
    <2>3. d[1] = e[1]
      <3>1. ASSUME NEW t \in Threads, NEW u \in Threads, t < u, NEW o,
                   o \in Searched(t), o \in Searched(u)
            PROVE  FALSE
        <4>1. /\ ChunkStart(t) \in Nat /\ ChunkEnd(t) \in Nat /\ block[t] \in Nat
              /\ ChunkStart(u) \in Nat /\ ChunkEnd(u) \in Nat /\ block[u] \in Nat
              /\ ChunkEnd(t) <= ChunkStart(u)
          BY <3>1, ChunkBounds DEF MarkersInv, MarkersTypeOK
        <4> QED BY <3>1, <4>1 DEF Searched, Min2
      <3>2. d[1] \in Threads /\ e[1] \in Threads /\ \A t \in Threads : t \in Int
        BY <2>1, ChunksCover DEF MarkersInv, MarkersTypeOK, Threads
      <3>3. ~(d[1] < e[1]) /\ ~(e[1] < d[1])
        BY <1>2, <2>2, <3>1, <3>2
      <3> QED BY <3>2, <3>3
    <2>4. d[2] = e[2]
      BY <1>2, <2>1, <2>3 DEF Entry, MarkersInv, Found, IsInjective
    <2> QED BY <2>1, <2>3, <2>4
  <1> QED BY <1>1, <1>2

\* What is printed: everything that was found, once, in order.
LEMMA CollectedIsComplete ==
  ASSUME MarkersInv
  PROVE  /\ DOMAIN Collected = 1..Cardinality(Entries)
         /\ {Collected[i] : i \in DOMAIN Collected} = FoundBy
         /\ \A i, j \in DOMAIN Collected :
              i < j => Collected[i][1] <= Collected[j][1] /\ Collected[i] # Collected[j]
  <1> DEFINE n == Cardinality(Entries)
             Nth(k) == CHOOSE e \in Entries : Place(e) = k
  <1>1. n \in Nat
    BY PlacesTaken
  <1>2. \A k \in 1..n : Nth(k) \in Entries /\ Place(Nth(k)) = k
    BY PlacesTaken
  <1>3. /\ DOMAIN Collected = 1..n
        /\ \A k \in 1..n : Collected[k] = Entry(Nth(k))
    BY DEF Collected
  <1>5. \A e \in Entries : Place(e) \in 1..n /\ Nth(Place(e)) = e
    BY PlacesTaken, <1>2
  <1> HIDE DEF Nth, n
  <1>6. {Collected[i] : i \in DOMAIN Collected} = FoundBy
    <2>1. \A k \in 1..n : Collected[k] \in {Entry(e) : e \in Entries}
      BY <1>2, <1>3
    <2>2. \A e \in Entries : Entry(e) \in {Collected[i] : i \in DOMAIN Collected}
      BY <1>3, <1>5
    <2> QED BY <1>3, <2>1, <2>2, EntriesAreTheFound
  <1>7. ASSUME NEW i \in 1..n, NEW j \in 1..n, i < j
        PROVE  Collected[i][1] <= Collected[j][1] /\ Collected[i] # Collected[j]
    <2>1. Nth(i) # Nth(j) /\ ~Earlier(Nth(j), Nth(i))
      <3>1. ~(j < i) /\ i # j
        BY <1>1, <1>7
      <3> QED BY <3>1, <1>2, PlacesTaken
    <2>2. Earlier(Nth(i), Nth(j))
      BY <2>1, <1>2, EarlierIsAnOrder
    <2>3. Entry(Nth(i))[1] <= Entry(Nth(j))[1]
      BY <2>2, <1>2, EarlierIsAnOrder
    <2>4. Entry(Nth(i)) # Entry(Nth(j))
      BY <2>1, <1>2, EntriesAreTheFound
    <2> QED BY <2>3, <2>4, <1>3
  <1>8. \A i, j \in DOMAIN Collected :
          i < j => Collected[i][1] <= Collected[j][1] /\ Collected[i] # Collected[j]
    BY <1>3, <1>7
  <1> QED BY <1>3, <1>6, <1>8 DEF n

\* Where every worker has reached the end of its chunk, the whole file was searched.
LEMMA AllSearched ==
  ASSUME MarkersInv, \A t \in Threads : worker[t] = "done", error = 0
  PROVE  Examined = 0..(FileSize - 1)
  <1>1. \A t \in Threads : Searched(t) = ChunkStart(t)..(ChunkEnd(t) - 1)
    <2> SUFFICES ASSUME NEW t \in Threads
                 PROVE  Searched(t) = ChunkStart(t)..(ChunkEnd(t) - 1)
      OBVIOUS
    <2>1. ChunkEnd(t) <= block[t] /\ block[t] \in Nat /\ ChunkEnd(t) \in Nat
      BY ChunkBounds DEF MarkersInv, MarkersTypeOK, Working
    <2> QED BY <2>1 DEF Searched, Min2
  <1>2. Examined = UNION {Searched(t) : t \in Threads}
    BY DEF Examined, Searched
  <1>3. ASSUME NEW o \in 0..(FileSize - 1) PROVE o \in Examined
    <2>1. PICK t \in Threads : ChunkStart(t) <= o /\ o < ChunkEnd(t)
      BY EveryOffsetInAChunk DEF MarkersInv, MarkersTypeOK
    <2>2. o \in Searched(t)
      <3>1. o \in Int /\ ChunkStart(t) \in Nat /\ ChunkEnd(t) \in Nat
        BY ChunkBounds DEF MarkersInv, MarkersTypeOK
      <3> QED BY <1>1, <2>1, <3>1
    <2> QED BY <1>2, <2>2
  <1>4. ASSUME NEW o \in Examined PROVE o \in 0..(FileSize - 1)
    <2>1. PICK t \in Threads : o \in Searched(t)
      BY <1>2
    <2>2. /\ ChunkStart(t) \in Nat /\ ChunkEnd(t) \in Nat /\ ChunkEnd(t) <= FileSize
          /\ FileSize \in Nat
      BY ChunkBounds, ChunksCover DEF MarkersInv, MarkersTypeOK
    <2> QED BY <1>1, <2>1, <2>2
  <1> QED BY <1>3, <1>4

-----------------------------------------------------------------------------
\* The refinement.

LEMMA FoundIsWhatOccurs ==
  ASSUME MarkersInv
  PROVE  FoundBy = {x \in Occurrences : x[1] \in Examined}
  <1>1. Examined = UNION {Searched(t) : t \in Threads}
    BY DEF Examined, Searched
  <1> QED BY <1>1 DEF MarkersInv, Found, FoundBy

\* Steps that search nothing change nothing of the search.
LEMMA NothingSearched ==
  ASSUME UNCHANGED <<content, requested, block, matches>>
  PROVE  Examined' = Examined /\ FoundBy' = FoundBy
         /\ FileSize' = FileSize /\ Occurrences' = Occurrences
  <1>1. Threads' = Threads /\ \A t : ChunkStart(t)' = ChunkStart(t) /\ ChunkEnd(t)' = ChunkEnd(t)
    BY CutFixed
  <1> QED BY <1>1, CutFixed DEF Examined, FoundBy

Outcome ==
  CASE main = "printed" -> "answered"
    [] main \in {"failed", "aborted"} -> "failed"
    [] OTHER -> "pending"

\* One block searched is a step of the search.
LEMMA ScanExamines ==
  ASSUME MarkersInv, MarkersInv', ~Over, NEW t \in Threads, ScanBlock(t)
  PROVE  /\ Examined' # Examined /\ Examined \subseteq Examined'
         /\ Examined' \subseteq 0..(FileSize - 1)
         /\ FoundBy' = FoundBy \cup {x \in Occurrences : x[1] \in Examined' \ Examined}
  <1>1. UNCHANGED <<content, requested>>
    BY DEF ScanBlock
  <1>2. /\ Threads' = Threads /\ FileSize' = FileSize /\ Occurrences' = Occurrences
    BY <1>1, CutFixed
  <1>3. /\ Examined = UNION {Searched(u) : u \in Threads}
        /\ Examined' = UNION {Searched(u)' : u \in Threads}
    BY <1>2 DEF Examined, Searched
  <1> DEFINE New == block[t]..(BlockEnd(t) - 1)
  <1>4. Examined' = Examined \cup New
    <2>1. \A u \in Threads : u # t => Searched(u)' = Searched(u)
      BY ScanExtends
    <2>2. Searched(t)' = Searched(t) \cup New
      BY ScanExtends
    <2> HIDE DEF New
    <2> QED BY <1>3, <2>1, <2>2
  <1>5. block[t] \in New
    BY ScanExtends
  <1>6. block[t] \notin Examined
    <2> SUFFICES ASSUME NEW u \in Threads, block[t] \in Searched(u) PROVE FALSE
      BY <1>3
    <2>1. /\ ChunkStart(t) \in Nat /\ ChunkEnd(t) \in Nat /\ block[t] \in Nat
          /\ ChunkStart(u) \in Nat /\ ChunkEnd(u) \in Nat /\ block[u] \in Nat
          /\ t < u => ChunkEnd(t) <= ChunkStart(u)
          /\ u < t => ChunkEnd(u) <= ChunkStart(t)
          /\ ChunkStart(t) <= block[t] /\ block[t] < ChunkEnd(t)
      BY ChunkBounds DEF MarkersInv, MarkersTypeOK, Working, ScanBlock
    <2>2. t \in Int /\ u \in Int
      BY ChunksCover DEF MarkersInv, MarkersTypeOK, Threads
    <2>3. u = t
      BY <2>1, <2>2 DEF Searched, Min2
    <2> QED BY <2>1, <2>3 DEF Searched, Min2
  <1>7. Examined' \subseteq 0..(FileSize - 1)
    <2> SUFFICES ASSUME NEW u \in Threads, NEW o \in Searched(u)' PROVE o \in 0..(FileSize - 1)
      BY <1>3
    <2>1. /\ ChunkStart(u) \in Nat /\ ChunkEnd(u) \in Nat /\ ChunkEnd(u) <= FileSize
          /\ FileSize \in Nat /\ block'[u] \in Nat
      BY ChunkBounds, ChunksCover, <1>2 DEF MarkersInv, MarkersTypeOK
    <2>2. o \in ChunkStart(u)..(Min2(block'[u], ChunkEnd(u)) - 1)
      BY <1>1, CutFixed DEF Searched
    <2> QED BY <2>1, <2>2 DEF Min2
  <1>8. FoundBy' = {x \in Occurrences : x[1] \in Examined'}
    <2>1. (FoundBy = {x \in Occurrences : x[1] \in Examined})'
      <3>1. /\ Examined' = UNION {Searched(u)' : u \in Threads}
            /\ FoundBy' = UNION {ToSet(matches'[u]) : u \in Threads}
            /\ \A u \in Threads : ToSet(matches'[u]) = {x \in Occurrences : x[1] \in Searched(u)'}
        BY <1>2, <1>3 DEF FoundBy, MarkersInv, Found
      <3> QED BY <1>2, <3>1
    <2> QED BY <1>2, <2>1
  <1>9. FoundBy = {x \in Occurrences : x[1] \in Examined}
    BY FoundIsWhatOccurs
  <1> QED BY <1>4, <1>5, <1>6, <1>7, <1>8, <1>9

LEMMA SearchStart == MarkersInit => Searching!Init
  <1> SUFFICES ASSUME MarkersInit PROVE Searching!Init
    OBVIOUS
  <1>1. content \in Seq(Nat) /\ requested \in 1..MaxThreads
    BY MarkersAssumption DEF MarkersInit
  <1>2. \A t \in Threads : Searched(t) = {}
    <2> SUFFICES ASSUME NEW t \in Threads PROVE Searched(t) = {}
      OBVIOUS
    <2>1. ChunkStart(t) \in Nat /\ ChunkEnd(t) \in Nat /\ block[t] = ChunkStart(t)
      BY <1>1, ChunkBounds DEF MarkersInit
    <2> QED BY <2>1 DEF Searched, Min2
  <1>3. Examined = {}
    BY <1>2 DEF Examined, Searched
  <1>4. \A t \in Threads : ToSet(matches[t]) = {}
    BY DEF MarkersInit, ToSet
  <1>5. UNION {ToSet(matches[t]) : t \in Threads} = {}
    BY <1>4
  <1> QED BY <1>3, <1>5 DEF Searching!Init, MarkersInit

LEMMA StepSearches ==
  ASSUME MarkersInv, MarkersInv', [MarkersNext]_markersVars
  PROVE  [Searching!Examine \/ Searching!Answer \/ Searching!GiveUp]_(Searching!vars)
  <1> DEFINE Quiet == UNCHANGED <<content, requested, block, matches>>
  <1>1. ASSUME Quiet, UNCHANGED <<main, output>> PROVE UNCHANGED Searching!vars
    BY <1>1, NothingSearched DEF Searching!vars, FoundBy
  <1>2. CASE UNCHANGED markersVars
    <2>1. Quiet /\ UNCHANGED <<main, output>>
      BY <1>2 DEF markersVars
    <2> QED BY <1>1, <2>1
  <1>3. ASSUME NEW t \in Threads, ~Over, ScanBlock(t) PROVE Searching!Examine
    <2>1. UNCHANGED <<content, requested, main, output>>
      BY <1>3 DEF ScanBlock
    <2>2. FileSize' = FileSize /\ Occurrences' = Occurrences
      BY <2>1, CutFixed
    <2>3. main \notin {"printed", "failed", "aborted"}
      BY <1>3 DEF Over
    <2> QED BY <1>3, <2>1, <2>2, <2>3, ScanExamines DEF Searching!Examine, FoundBy
  <1>4. ASSUME ~Over, SpawnFails PROVE Searching!GiveUp
    <2>1. Quiet /\ main' = "aborted" /\ output' = output
      BY <1>4 DEF SpawnFails, workers
    <2>2. main \notin {"printed", "failed", "aborted"}
      BY <1>4 DEF Over
    <2> QED BY <2>1, <2>2, NothingSearched DEF Searching!GiveUp, FoundBy
  <1>5. ASSUME ~Over, Report, error # 0 PROVE Searching!GiveUp
    <2>1. Quiet /\ main' = "failed" /\ output' = output
      BY <1>5 DEF Report, workers
    <2>2. main \notin {"printed", "failed", "aborted"}
      BY <1>5 DEF Over
    <2> QED BY <2>1, <2>2, NothingSearched DEF Searching!GiveUp, FoundBy
  <1>6. ASSUME ~Over, Report, error = 0 PROVE Searching!Answer
    <2>1. Quiet /\ main = "joinProgress" /\ main' = "printed" /\ output' = Collected
      BY <1>6 DEF Report, workers
    <2>2. Examined = 0..(FileSize - 1)
      BY <1>6, <2>1, AllSearched DEF MarkersInv, Lifecycle
    <2>3. /\ {output'[i] : i \in DOMAIN output'} = FoundBy
          /\ \A i, j \in DOMAIN output' :
               i < j => output'[i][1] <= output'[j][1] /\ output'[i] # output'[j]
      BY <2>1, CollectedIsComplete
    <2>4. /\ Examined' = Examined /\ FoundBy' = FoundBy
          /\ FileSize' = FileSize /\ Occurrences' = Occurrences
      BY <2>1, NothingSearched
    <2> HIDE DEF Quiet
    <2> QED BY <2>1, <2>2, <2>3, <2>4, Zenon DEF Searching!Answer, FoundBy
  <1>7. ASSUME ~Over, Spawn \/ SpawnProgress \/ Join \/ StopProgress
        PROVE  UNCHANGED Searching!vars
    <2>1. Quiet /\ output' = output
      BY <1>7 DEF Spawn, SpawnProgress, Join, StopProgress, workers
    <2>2. /\ main \notin {"printed", "failed", "aborted"}
          /\ main' \notin {"printed", "failed", "aborted"}
      BY <1>7 DEF Spawn, SpawnProgress, Join, StopProgress
    <2> QED BY <2>1, <2>2, NothingSearched DEF Searching!vars, FoundBy
  <1>8. ASSUME Wake \/ Show \/ Truncate \/ \E t \in Threads : ReadFails(t) \/ RecordError(t)
        PROVE  UNCHANGED Searching!vars
    <2>1. Quiet /\ UNCHANGED <<main, output>>
      BY <1>8 DEF Wake, Show, Truncate, ReadFails, RecordError, workers
    <2> QED BY <1>1, <2>1
  <1>9. CASE MarkersNext
    BY <1>2, <1>3, <1>4, <1>5, <1>6, <1>7, <1>8, <1>9
    DEF MarkersNext, MainStep, WorkerStep, ProgressStep
  <1> QED BY <1>2, <1>9

\* h5markers is one search: for every file, marker table, block and chunk size and
\* number of threads, each block read is a step that examines new offsets and finds
\* what occurs at them, and what is printed is everything, once, in order.
THEOREM ImplementsSearchCorrect == MarkersSpec => ImplementsSearch
  <1>1. MarkersInv /\ MarkersInv' /\ [MarkersNext]_markersVars
          => [Searching!Examine \/ Searching!Answer \/ Searching!GiveUp]_(Searching!vars)
    BY StepSearches
  <1> QED BY <1>1, SearchStart, MarkersInvariant, PTL
      DEF MarkersSpec, ImplementsSearch, Searching!Spec

-----------------------------------------------------------------------------
(***************************************************************************)
(* The sweep of a global heap collection and a reader of it, for every     *)
(* alphabet of cells, every two widths of which one divides the other, and *)
(* every size.  Two facts carry the proof: an advance at the narrow width  *)
(* is what is left of the wide one, so that a reader either advances by    *)
(* the check's length or has a shorter one where the check met the end;    *)
(* and the two are never more than one object apart while the check runs.  *)
(***************************************************************************)

\* Division, as the provers know it.
LEMMA DivMod ==
  ASSUME NEW n \in Nat, NEW d \in Nat \ {0}
  PROVE  /\ n \div d \in Nat /\ n % d \in 0..(d - 1) /\ n = d * (n \div d) + (n % d)
  OBVIOUS

\* Products with one more, and with something larger.
LEMMA TimesOne ==
  ASSUME NEW d \in Int, NEW a \in Int
  PROVE  d * (a + 1) = d * a + d
  OBVIOUS

LEMMA TimesGrows ==
  ASSUME NEW d \in Nat, NEW a \in Int, NEW b \in Int, a <= b
  PROVE  d * a <= d * b
<1>1. PICK k \in Nat : b = a + k
  <2>1. b - a \in Nat /\ b = a + (b - a)
    OBVIOUS
  <2> QED BY <2>1
<1>2. d * k \in Nat
  OBVIOUS
<1>3. d * b = d * a + d * k
  BY <1>1
<1> QED BY <1>2, <1>3

\* A remainder is the only one.
LEMMA OneRemainder ==
  ASSUME NEW d \in Nat \ {0}, NEW a \in Int, NEW b \in Int,
         NEW s \in 0..(d - 1), NEW t \in 0..(d - 1), d * a + s = d * b + t
  PROVE  s = t
<1>1. ASSUME NEW x \in Int, NEW y \in Int, x < y,
             NEW u \in 0..(d - 1), NEW v \in 0..(d - 1)
      PROVE  d * x + u < d * y + v
  <2>1. d * (x + 1) <= d * y
    <3>1. x + 1 <= y BY <1>1
    <3> QED BY <3>1, TimesGrows
  <2>2. d * x + d <= d * y
    BY <2>1, TimesOne
  <2> QED BY <2>2
<1>2. ~ a < b
  BY <1>1
<1>3. ~ b < a
  BY <1>1
<1>4. a = b
  BY <1>2, <1>3
<1> QED BY <1>4

\* Adding a multiple leaves the remainder.
LEMMA ModPlus ==
  ASSUME NEW d \in Nat \ {0}, NEW k \in Nat, NEW n \in Nat
  PROVE  (d * k + n) % d = n % d
<1> DEFINE m == d * k + n
<1>1. m \in Nat
  OBVIOUS
<1>2. m = d * (m \div d) + (m % d) /\ m % d \in 0..(d - 1) /\ m \div d \in Nat
  BY <1>1, DivMod
<1>3. n = d * (n \div d) + (n % d) /\ n % d \in 0..(d - 1) /\ n \div d \in Nat
  BY DivMod
<1>4. m = d * (k + (n \div d)) + (n % d)
  BY <1>3
<1> HIDE DEF m
<1>5. m % d = n % d
  <2>1. k + (n \div d) \in Int /\ m \div d \in Int
    BY <1>2, <1>3
  <2>2. d * (m \div d) + (m % d) = d * (k + (n \div d)) + (n % d)
    BY <1>2, <1>4
  <2> QED BY ONLY <2>1, <2>2, <1>2, <1>3, OneRemainder, d \in Nat \ {0}
<1> QED BY <1>5 DEF m

\* A remainder of a remainder, when one divisor divides the other.
LEMMA ModMod ==
  ASSUME NEW n \in Nat, NEW d \in Nat \ {0}, NEW c \in Nat \ {0}, d % c = 0
  PROVE  (n % d) % c = n % c
<1>1. d = c * (d \div c) /\ d \div c \in Nat
  BY DivMod
<1>2. n = d * (n \div d) + (n % d) /\ n \div d \in Nat /\ n % d \in Nat
  BY DivMod
<1> DEFINE k == (d \div c) * (n \div d)
<1>3. k \in Nat /\ n = c * k + (n % d)
  <2>1. k \in Nat BY <1>1, <1>2
  <2>2. d * (n \div d) = c * k
    BY <1>1, <1>2
  <2> QED BY <2>1, <2>2, <1>2
<1> HIDE DEF k
<1> QED BY <1>2, <1>3, ModPlus

\* The remainder of a sum needs only the remainder of a part.
LEMMA ModSum ==
  ASSUME NEW n \in Nat, NEW j \in Nat, NEW d \in Nat \ {0}
  PROVE  ((n % d) + j) % d = (n + j) % d
<1>1. n = d * (n \div d) + (n % d) /\ n \div d \in Nat /\ n % d \in Nat
  BY DivMod
<1> DEFINE s == (n % d) + j
<1>2. s \in Nat /\ n + j = d * (n \div d) + s
  BY <1>1
<1>3. (d * (n \div d) + s) % d = s % d
  BY <1>1, <1>2, ModPlus
<1> QED BY <1>2, <1>3

\* Rounding down is taking the remainder away.
LEMMA FloorIs ==
  ASSUME NEW n \in Nat, NEW d \in Nat \ {0}
  PROVE  (n \div d) * d = n - (n % d)
  BY DivMod

\* Rounding down to a divisor of the modulus goes with taking the remainder.
LEMMA FloorMod ==
  ASSUME NEW n \in Nat, NEW d \in Nat \ {0}, NEW c \in Nat \ {0}, d % c = 0
  PROVE  ((n % d) \div c) * c = (n - (n % c)) % d
<1>1. n % d \in 0..(d - 1) /\ n = d * (n \div d) + (n % d) /\ n \div d \in Nat
  BY DivMod
<1>2. (n % d) % c = n % c
  BY ModMod
<1>3. ((n % d) \div c) * c = (n % d) - (n % c)
  BY <1>1, <1>2, FloorIs
<1>4. (n % d) - (n % c) \in 0..(d - 1)
  <2>1. (n % d) \div c \in Nat /\ n % c \in Nat
    <3>1. n % d \in Nat BY <1>1
    <3> QED BY <3>1, DivMod
  <2>2. ((n % d) \div c) * c \in Nat
    BY <2>1
  <2> QED BY <2>2, <1>3, <1>1, <2>1
<1> DEFINE rest == (n % d) - (n % c)
<1>5. n % c \in Nat
  BY DivMod
<1>6. n - (n % c) = d * (n \div d) + rest
  <2>1. d * (n \div d) \in Nat /\ n % d \in Nat
    BY <1>1
  <2>2. \A x, y, z \in Int : n = x + y => n - z = x + (y - z)
    OBVIOUS
  <2> QED BY <1>1, <1>5, <2>1, <2>2
<1>7. (d * (n \div d) + rest) % d = rest % d
  <2>1. rest \in Nat
    BY <1>4
  <2> HIDE DEF rest
  <2> QED BY <2>1, <1>1, ModPlus
<1>8. rest % d = rest
  BY <1>4
<1> QED BY <1>3, <1>6, <1>7, <1>8

\* To divide is transitive.
LEMMA Divides ==
  ASSUME NEW n \in Nat \ {0}, NEW d \in Nat \ {0}, NEW c \in Nat \ {0}, n % d = 0, d % c = 0
  PROVE  n % c = 0
<1>1. (n % d) % c = n % c
  BY ModMod
<1> QED BY <1>1

-----------------------------------------------------------------------------
Wide == Masks["wide"]
Narrow == Masks["narrow"]

\* What is assumed of the constants, as the lemmas use it.
LEMMA SweepConstants ==
  /\ Wide \in Nat \ {0} /\ Narrow \in Nat \ {0} /\ Align \in Nat \ {0} /\ Objhdr \in Nat
  /\ Wide % Narrow = 0 /\ Narrow % Align = 0 /\ Wide % Align = 0
<1>1. /\ Wide \in Nat \ {0} /\ Narrow \in Nat \ {0} /\ Align \in Nat \ {0} /\ Objhdr \in Nat
      /\ Wide % Narrow = 0 /\ Narrow % Align = 0
  BY SweepAssumption DEF Wide, Narrow, Widths
<1> QED BY <1>1, Divides

\* The advance of a width, without its inner remainders.
LEMMA AdvanceIs ==
  ASSUME NEW idx, idx # 0, NEW osize \in Nat, NEW mask \in Nat \ {0}, mask % Align = 0,
         NEW a, a = (osize % mask) + (Align - 1)
  PROVE  /\ a \in Nat /\ a - (a % Align) \in Nat
         /\ Advance(idx, osize, mask) = (Objhdr + (a - (a % Align))) % mask
<1>1. Align \in Nat \ {0} /\ Objhdr \in Nat
  BY SweepConstants
<1>2. a \in Nat
  BY <1>1, DivMod
<1>3. a - (a % Align) \in Nat
  <2>1. a \div Align \in Nat /\ (a \div Align) * Align = a - (a % Align)
    BY <1>1, <1>2, DivMod, FloorIs
  <2> QED BY <2>1, <1>1
<1> DEFINE low == a - (a % Align)
<1>4. AlignAt(osize, mask) = low % mask
  BY <1>1, <1>2, FloorMod DEF AlignAt
<1>5. low \in Nat
  BY <1>3
<1> HIDE DEF low
<1>6. (Objhdr + (low % mask)) % mask = (Objhdr + low) % mask
  <2>1. ((low % mask) + Objhdr) % mask = (low + Objhdr) % mask
    BY <1>1, <1>5, ModSum
  <2>2. low % mask \in Nat
    BY <1>5, DivMod
  <2>3. (low % mask) + Objhdr = Objhdr + (low % mask) /\ low + Objhdr = Objhdr + low
    BY <1>1, <1>5, <2>2
  <2> QED BY <2>1, <2>3
<1>7. Advance(idx, osize, mask) = (Objhdr + low) % mask
  BY <1>4, <1>6 DEF Advance
<1> QED BY <1>2, <1>3, <1>7 DEF low

\* An advance at the narrow width is what is left of the wide one.
LEMMA AdvanceNarrow ==
  ASSUME NEW idx, NEW osize \in Nat
  PROVE  Advance(idx, osize, Narrow) = Advance(idx, osize, Wide) % Narrow
<1> USE SweepConstants
<1>1. CASE idx = 0
  BY <1>1, ModMod DEF Advance
<1>2. CASE idx # 0
  <2> DEFINE s == osize % Wide
             t == osize % Narrow
             a == s + (Align - 1)
             b == t + (Align - 1)
             q == s \div Narrow
             j == Narrow \div Align
             low == b - (b % Align)
  <2>1. /\ a \in Nat /\ a - (a % Align) \in Nat
        /\ Advance(idx, osize, Wide) = (Objhdr + (a - (a % Align))) % Wide
    BY <1>2, AdvanceIs
  <2>2. /\ b \in Nat /\ low \in Nat
        /\ Advance(idx, osize, Narrow) = (Objhdr + low) % Narrow
    <3>1. /\ b \in Nat /\ b - (b % Align) \in Nat
          /\ Advance(idx, osize, Narrow) = (Objhdr + (b - (b % Align))) % Narrow
      <4>1. idx # 0 /\ osize \in Nat /\ Narrow \in Nat \ {0} /\ Narrow % Align = 0
        BY <1>2
      <4>2. b = (osize % Narrow) + (Align - 1)
        OBVIOUS
      <4> HIDE DEF b
      <4> QED BY ONLY <4>1, <4>2, AdvanceIs
    <3> QED BY <3>1
  <2>3. s \in Nat /\ t \in Nat /\ q \in Nat /\ s = Narrow * q + t
    <3>1. s \in Nat /\ t \in Nat
      BY DivMod
    <3>2. s % Narrow = t
      BY ModMod
    <3> HIDE DEF s, t
    <3> QED BY <3>1, <3>2, DivMod
  <2>4. j \in Nat /\ Narrow = Align * j
    <3>1. j \in Nat /\ Narrow = Align * j + (Narrow % Align)
      BY DivMod
    <3> QED BY <3>1
  <2>5. a = Narrow * q + b
    BY <2>3
  <2> HIDE DEF s, t, a, b, q, j
  <2>6. a = Align * (j * q) + b /\ j * q \in Nat
    BY <2>2, <2>3, <2>4, <2>5
  <2>7. a % Align = b % Align
    BY <2>2, <2>6, ModPlus
  <2>8. Objhdr + (a - (a % Align)) = Narrow * q + (Objhdr + low)
    <3>1. Narrow * q \in Nat
      BY <2>3
    <3>2. b % Align \in Nat
      BY <2>2, DivMod
    <3>3. \A x, y, z, h, m \in Int : x = m + y => h + (x - z) = m + (h + (y - z))
      OBVIOUS
    <3>4. Objhdr + (a - (b % Align)) = Narrow * q + (Objhdr + (b - (b % Align)))
      <4> DEFINE z == b % Align
                 m == Narrow * q
      <4>1. z \in Int /\ m \in Int /\ a = m + b
        BY <3>1, <3>2, <2>5
      <4> HIDE DEF z, m
      <4>2. Objhdr + (a - z) = m + (Objhdr + (b - z))
        BY <4>1, <3>3, <2>1, <2>2
      <4> QED BY <4>2 DEF z, m
    <3> QED BY <3>4, <2>7
  <2>9. (Objhdr + (a - (a % Align))) % Narrow = (Objhdr + low) % Narrow
    <3> HIDE DEF low
    <3>1. Objhdr + low \in Nat
      BY <2>2
    <3>2. (Narrow * q + (Objhdr + low)) % Narrow = (Objhdr + low) % Narrow
      BY <2>3, <3>1, ModPlus
    <3> QED BY <2>8, <3>2
  <2> DEFINE up == Objhdr + (a - (a % Align))
  <2>10. up \in Nat
    BY <2>1
  <2> HIDE DEF up
  <2>11. (up % Wide) % Narrow = up % Narrow
    BY <2>10, ModMod
  <2> QED BY <2>1, <2>2, <2>9, <2>11 DEF up
<1> QED BY <1>1, <1>2

\* An advance is a size_t.
LEMMA AdvanceType ==
  ASSUME NEW idx, NEW osize \in Nat, NEW mask \in Nat \ {0}
  PROVE  Advance(idx, osize, mask) \in 0..(mask - 1)
<1>1. CASE idx = 0
  BY <1>1, DivMod DEF Advance
<1>2. CASE idx # 0
  <2>1. AlignAt(osize, mask) \in Nat
    <3>1. (osize % mask) + (Align - 1) \in Nat
      BY SweepConstants, DivMod
    <3> DEFINE up == ((osize % mask) + (Align - 1)) % mask
    <3>2. up \in Nat
      BY <3>1, DivMod
    <3> HIDE DEF up
    <3>3. up \div Align \in Nat
      BY <3>2, SweepConstants, DivMod
    <3> QED BY <3>3, SweepConstants DEF AlignAt, up
  <2>2. Objhdr + AlignAt(osize, mask) \in Nat
    BY <2>1, SweepConstants
  <2> QED BY <1>2, <2>2, DivMod DEF Advance
<1> QED BY <1>1, <1>2

\* The reader computes what the check computes for its width.
LEMMA ReadersAdvance ==
  ASSUME NEW idx, NEW osize \in Nat, NEW mask \in Nat \ {0}
  PROVE  ReaderAdvance(idx, osize, mask) = Advance(idx, osize, mask)
<1> DEFINE taken == osize % mask
           up == (taken + (Align - 1)) % mask
<1>1. taken \in Nat
  BY DivMod
<1>2. (taken + Align) - 1 = taken + (Align - 1) /\ taken + (Align - 1) \in Nat
  <2> HIDE DEF taken
  <2> QED BY <1>1, SweepConstants
<1>3. up \in Nat
  <2> HIDE DEF taken
  <2> QED BY <1>2, DivMod
<1>4. up - (up % Align) = (up \div Align) * Align
  <2> HIDE DEF up
  <2> QED BY <1>3, SweepConstants, FloorIs
<1> QED BY <1>2, <1>4 DEF ReaderAdvance, Advance, AlignAt

-----------------------------------------------------------------------------
Verdicts == {"stuck wide", "stuck narrow", "overrun"}

\* What is known of the object at q, and how far it takes a parser of either width.
Known(q) == Header(q) \subseteq DOMAIN cells /\ csize - q >= Objhdr
Step(q, mask) == Advance(Index(cells, q), Length(cells, q), mask)

\* While the check parses, so does the reader, and it is not ahead.
Behind ==
  check = "parsing" => reading = "parsing" /\ ~parted /\ r <= p /\ guard <= Objects + Slack

\* Only where the check left off can the reader take another step.
PartedLate == parted => check \in {"overrun", "gave up"}

\* The object between the two.
OneBehind ==
  reading = "parsing" /\ ~parted /\ check # "gave up" =>
    /\ r <= p
    /\ r < p => /\ Known(r) /\ Step(r, Wide) = p - r
                /\ check \notin Verdicts

\* The object that the check ended with, when the reader is to read it.
JudgedThere ==
  reading = "parsing" /\ ~parted /\ check \in Verdicts =>
    Known(p) /\ check = JudgeObject(Step(p, Wide), Step(p, Narrow), csize - p)

DoneThere == check = "done" => csize - p < Objhdr

StuckThere ==
  reading # "parsing" =>
    /\ check = StuckAt[reader] => reading = "stuck" /\ r = p
    /\ reading = "stuck" /\ check # "gave up" /\ ~parted => Reported /\ r = p

SweepInv ==
  /\ SweepTypeOK /\ (csize < Masks[reader])
  /\ Behind /\ PartedLate /\ OneBehind /\ JudgedThere /\ DoneThere /\ StuckThere

LEMMA SizeNumbers ==
  /\ Objhdr \in Nat /\ Objhdr >= 4 /\ Slack \in Nat
  /\ csize \in Sizes => csize \in Nat /\ csize >= Objhdr /\ Objects \in Nat
<1>1. Objhdr \in Nat /\ Objhdr >= 4 /\ Slack \in Nat
  BY SweepAssumption
<1>2. ASSUME csize \in Sizes
      PROVE  csize \in Nat /\ csize >= Objhdr
  <2>1. csize \in Objhdr..(Masks["wide"] - 1)
    BY <1>2, SweepAssumption
  <2>2. Masks["wide"] \in Nat
    BY SweepConstants DEF Wide
  <2> QED BY <1>1, <2>1, <2>2
<1>3. ASSUME csize \in Nat
      PROVE  Objects \in Nat
  <2>1. Objhdr \in Nat \ {0}
    BY <1>1
  <2> QED BY <1>3, <2>1, DivMod DEF Objects
<1> QED BY <1>1, <1>2, <1>3

LEMMA SweepBegins == SweepInit => SweepInv
<1> SUFFICES ASSUME SweepInit PROVE SweepInv
  OBVIOUS
<1> USE SweepAssumption DEF SweepInit
<1>1. /\ csize \in Nat /\ csize >= Objhdr /\ Objects \in Nat
      /\ Objhdr \in Nat /\ Objhdr >= 4 /\ Slack \in Nat
  BY SizeNumbers
<1>2. SweepTypeOK
  <2>1. p \in Objhdr..csize /\ r \in Objhdr..csize /\ guard \in 0..(Objects + Slack + 1)
    BY <1>1
  <2>2. DOMAIN cells \subseteq 0..csize /\ \A i \in DOMAIN cells : cells[i] \in Cells
    OBVIOUS
  <2> QED BY <2>1, <2>2 DEF SweepTypeOK
<1>3. csize < Masks[reader]
  BY DEF Fits
<1>4. Behind /\ PartedLate /\ DoneThere
  BY <1>1 DEF Behind, PartedLate, DoneThere
<1>5. OneBehind
  BY <1>1 DEF OneBehind
<1>6. JudgedThere
  BY DEF JudgedThere, Verdicts
<1>7. StuckThere
  BY DEF StuckThere
<1> QED BY <1>2, <1>3, <1>4, <1>5, <1>6, <1>7 DEF SweepInv

\* The numbers of a state.
LEMMA SweepNumbers ==
  ASSUME SweepTypeOK
  PROVE  /\ csize \in Nat /\ p \in Nat /\ r \in Nat /\ guard \in Nat /\ Objects \in Nat
         /\ Objhdr \in Nat /\ Objhdr >= 4 /\ Slack \in Nat
         /\ p <= csize /\ r <= csize /\ p >= Objhdr /\ r >= Objhdr
         /\ Masks[reader] \in Nat \ {0} /\ Wide \in Nat \ {0} /\ Narrow \in Nat \ {0}
<1>1. csize \in Nat /\ Objhdr \in Nat /\ Objhdr >= 4 /\ Slack \in Nat /\ Objects \in Nat
  BY SizeNumbers DEF SweepTypeOK
<1>2. p \in Objhdr..csize /\ r \in Objhdr..csize /\ guard \in 0..(Objects + Slack + 1)
  BY DEF SweepTypeOK
<1>3. Masks[reader] \in Nat \ {0}
  BY SweepAssumption DEF SweepTypeOK
<1> QED BY <1>1, <1>2, <1>3, SweepConstants

\* Reading a header adds its cells and changes none.
LEMMA ReadFacts ==
  ASSUME SweepTypeOK, NEW q \in Nat, csize - q >= Objhdr, NEW f \in Read(cells, q)
  PROVE  /\ DOMAIN f = DOMAIN cells \cup Header(q)
         /\ \A i \in DOMAIN cells : f[i] = cells[i]
         /\ \A i \in DOMAIN f : i \in 0..csize /\ f[i] \in Cells
         /\ Length(f, q) \in Nat
<1>1. PICK new \in [Header(q) \ DOMAIN cells -> Cells] :
        f = [i \in DOMAIN cells \cup Header(q) |->
               IF i \in DOMAIN cells THEN cells[i] ELSE new[i]]
  BY DEF Read
<1>2. DOMAIN f = DOMAIN cells \cup Header(q)
  BY <1>1
<1>3. \A i \in DOMAIN cells : f[i] = cells[i]
  BY <1>1
<1>4. \A i \in Header(q) : i \in 0..csize
  BY SweepNumbers DEF Header
<1>5. \A i \in DOMAIN f : i \in 0..csize
  BY <1>2, <1>4 DEF SweepTypeOK
<1>6. \A i \in DOMAIN f : f[i] \in Cells
  BY <1>1 DEF SweepTypeOK
<1>7. f[q + 2] \in Nat /\ f[q + 3] \in Nat
  <2>1. q + 2 \in DOMAIN f /\ q + 3 \in DOMAIN f
    BY <1>2 DEF Header
  <2>2. Cells \subseteq Nat
    BY SweepAssumption
  <2> QED BY <2>1, <2>2, <1>6
<1>8. Length(f, q) \in Nat
  <2>1. Base \in Nat BY SweepAssumption
  <2> QED BY <2>1, <1>7 DEF Length
<1> QED BY <1>2, <1>3, <1>5, <1>6, <1>8

\* Forgetting what is behind a cursor leaves the header at the cursor.
LEMMA KeepFacts ==
  ASSUME NEW f, NEW k \in Nat, DOMAIN f \subseteq Nat
  PROVE  /\ DOMAIN Keep(f, k) = {j \in DOMAIN f : j >= k}
         /\ \A i \in DOMAIN Keep(f, k) : Keep(f, k)[i] = f[i]
         /\ Header(k) \subseteq DOMAIN f =>
              /\ Header(k) \subseteq DOMAIN Keep(f, k)
              /\ Index(Keep(f, k), k) = Index(f, k)
              /\ Length(Keep(f, k), k) = Length(f, k)
<1>1. /\ DOMAIN Keep(f, k) = {j \in DOMAIN f : j >= k}
      /\ \A i \in DOMAIN Keep(f, k) : Keep(f, k)[i] = f[i]
  BY DEF Keep
<1>2. ASSUME Header(k) \subseteq DOMAIN f
      PROVE  Header(k) \subseteq DOMAIN Keep(f, k)
  BY <1>1, <1>2 DEF Header
<1>3. ASSUME Header(k) \subseteq DOMAIN f
      PROVE  /\ Index(Keep(f, k), k) = Index(f, k)
             /\ Length(Keep(f, k), k) = Length(f, k)
  BY <1>1, <1>2, <1>3 DEF Header, Index, Length
<1> QED BY <1>1, <1>2, <1>3

\* What is kept of the cells is still of the collection.
LEMMA KeptCells ==
  ASSUME SweepTypeOK, NEW f, NEW k \in Nat, csize' = csize, cells' = Keep(f, k),
         \A i \in DOMAIN f : i \in 0..csize /\ f[i] \in Cells
  PROVE  DOMAIN cells' \subseteq 0..csize' /\ \A i \in DOMAIN cells' : cells'[i] \in Cells
<1>1. DOMAIN f \subseteq Nat
  BY SweepNumbers
<1>2. /\ DOMAIN cells' = {j \in DOMAIN f : j >= k}
      /\ \A i \in DOMAIN cells' : cells'[i] = f[i]
  BY <1>1, KeepFacts
<1> QED BY <1>2

LEMMA StuckAtIs ==
  ASSUME NEW w \in Widths
  PROVE  /\ StuckAt[w] \in {"stuck wide", "stuck narrow"}
         /\ w = "wide" => StuckAt[w] = "stuck wide"
         /\ w = "narrow" => StuckAt[w] = "stuck narrow"
<1>1. StuckAt["wide"] = "stuck wide" /\ StuckAt["narrow"] = "stuck narrow"
  BY DEF StuckAt
<1> QED BY <1>1 DEF Widths

LEMMA EndKeeps ==
  ASSUME SweepInv, EndCheck
  PROVE  SweepInv'
<1>0. /\ UNCHANGED <<csize, reader, cells, p, r, reading, parted>>
      /\ check = "parsing" /\ check' \in {"done", "gave up"}
      /\ guard' \in {guard, guard + 1}
  BY DEF EndCheck
<1>1. reading = "parsing" /\ ~parted /\ r <= p /\ guard <= Objects + Slack
  BY <1>0 DEF SweepInv, Behind
<1>2. SweepTypeOK /\ csize < Masks[reader] /\ OneBehind
  BY DEF SweepInv
<1>n. /\ csize \in Nat /\ p \in Nat /\ r \in Nat /\ guard \in Nat /\ Objects \in Nat
      /\ Objhdr \in Nat /\ Objhdr >= 4 /\ Slack \in Nat /\ p <= csize /\ r <= csize
      /\ Masks[reader] \in Nat \ {0} /\ Wide \in Nat \ {0} /\ Narrow \in Nat \ {0}
      /\ p >= Objhdr /\ r >= Objhdr
  BY <1>2, SweepNumbers
<1>3. SweepTypeOK'
  <2>1. Objects' = Objects
    BY <1>0 DEF Objects
  <2>2. guard' \in 0..(Objects' + Slack + 1)
    <3>1. guard <= Objects + Slack /\ guard' \in {guard, guard + 1}
      BY <1>0, <1>1
    <3> QED BY <3>1, <2>1, <1>n
  <2> QED BY <1>0, <1>2, <2>2 DEF SweepTypeOK
<1>4. /\ Behind' /\ PartedLate' /\ JudgedThere' /\ StuckThere'
  <2>1. check' # "parsing" /\ check' \notin Verdicts /\ reading' = "parsing"
    BY <1>0, <1>1 DEF Verdicts
  <2>2. ~parted'
    BY <1>0, <1>1
  <2> QED BY <2>1, <2>2 DEF Behind, PartedLate, JudgedThere, StuckThere
<1>5. (csize < Masks[reader])'
  BY <1>0, <1>2
<1>6. DoneThere'
  BY <1>0, <1>2, <1>n DEF DoneThere, EndCheck
<1>7. OneBehind'
  BY <1>0, <1>1, <1>2 DEF OneBehind, Known, Step, Verdicts
<1> QED BY <1>3, <1>4, <1>5, <1>6, <1>7 DEF SweepInv

LEMMA CheckKeeps ==
  ASSUME SweepInv, CheckObject
  PROVE  SweepInv'
<1>1. /\ check = "parsing" /\ p < csize /\ reading = "parsing" /\ ~parted /\ r = p
      /\ guard' = guard + 1 /\ guard' <= Objects + Slack /\ csize - p >= Objhdr
      /\ UNCHANGED <<csize, reader, r, reading, parted>>
  BY DEF SweepInv, Behind, CheckObject
<1>2. PICK f \in Read(cells, p) :
        LET need == Advance(Index(f, p), Length(f, p), Wide)
            narrow == Advance(Index(f, p), Length(f, p), Narrow)
        IN /\ cells' = Keep(f, IF reading = "parsing" THEN r ELSE p)
           /\ check' = JudgeObject(need, narrow, csize - p)
           /\ p' = IF check' = "parsing" THEN p + need ELSE p
  BY DEF CheckObject, Wide, Narrow
<1> DEFINE need == Advance(Index(f, p), Length(f, p), Wide)
           narrow == Advance(Index(f, p), Length(f, p), Narrow)
<1>3. SweepTypeOK /\ csize < Masks[reader]
  BY DEF SweepInv
<1>4. /\ cells' = Keep(f, p) /\ check' = JudgeObject(need, narrow, csize - p)
      /\ p' = IF check' = "parsing" THEN p + need ELSE p
  BY <1>1, <1>2
<1>5. /\ DOMAIN f = DOMAIN cells \cup Header(p)
      /\ \A i \in DOMAIN f : i \in 0..csize /\ f[i] \in Cells
      /\ Length(f, p) \in Nat
  BY <1>1, <1>3, SweepNumbers, ReadFacts
<1>6. need \in Nat
  BY <1>5, SweepConstants, AdvanceType
<1>7. /\ Header(p) \subseteq DOMAIN cells'
      /\ Index(cells', p) = Index(f, p) /\ Length(cells', p) = Length(f, p)
  <2>1. DOMAIN f \subseteq Nat /\ Header(p) \subseteq DOMAIN f
    BY <1>3, <1>5, SweepNumbers
  <2> QED BY <2>1, <1>3, <1>4, KeepFacts, SweepNumbers
<1> HIDE DEF need, narrow
<1>8. /\ check' \in Verdicts \cup {"parsing"}
      /\ check' = "parsing" => need # 0 /\ need <= csize - p
  <2>1. ~(need > csize - p) => need <= csize - p
    BY <1>3, <1>6, SweepNumbers
  <2> QED BY <1>4, <2>1 DEF JudgeObject, Verdicts
<1>9. SweepTypeOK'
  <2>1. DOMAIN cells' \subseteq 0..csize' /\ \A i \in DOMAIN cells' : cells'[i] \in Cells
    BY <1>1, <1>3, <1>4, <1>5, KeptCells, SweepNumbers
  <2>2. p' \in Objhdr..csize'
    BY <1>1, <1>3, <1>4, <1>6, <1>8, SweepNumbers DEF SweepTypeOK
  <2>3. guard' \in 0..(Objects' + Slack + 1)
    BY <1>1, <1>3, SweepNumbers DEF Objects
  <2>4. check' \in {"parsing", "done", "gave up", "overrun", "stuck wide", "stuck narrow"}
    BY <1>8 DEF Verdicts
  <2> QED BY <2>1, <2>2, <2>3, <2>4, <1>1, <1>3 DEF SweepTypeOK
<1>10. Behind'
  BY <1>1, <1>3, <1>4, <1>6, SweepNumbers DEF Behind, Objects
<1>11. PartedLate' /\ DoneThere' /\ StuckThere' /\ (csize < Masks[reader])'
  BY <1>1, <1>3, <1>8 DEF PartedLate, DoneThere, StuckThere, Verdicts
<1>12. OneBehind'
  <2>1. r' <= p'
    BY <1>1, <1>3, <1>4, <1>6, SweepNumbers
  <2>2. ASSUME r' < p'
        PROVE  Known(r)' /\ Step(r, Wide)' = p' - r' /\ check' \notin Verdicts
    <3>1. check' = "parsing"
      BY <2>2, <1>1, <1>3, <1>4, SweepNumbers
    <3>2. Known(r)'
      BY <1>1, <1>7 DEF Known
    <3>3. Step(r, Wide)' = need
      BY <1>1, <1>7 DEF Step, need, Wide
    <3> QED BY <3>1, <3>2, <3>3, <1>1, <1>3, <1>4, <1>6, SweepNumbers DEF Verdicts
  <2> QED BY <2>1, <2>2 DEF OneBehind
<1>13. JudgedThere'
  <2> SUFFICES ASSUME check' \in Verdicts
               PROVE  /\ Known(p)'
                      /\ check' = JudgeObject(Step(p, Wide), Step(p, Narrow), csize - p)'
    BY DEF JudgedThere
  <2>1. p' = p
    BY <1>4 DEF Verdicts
  <2>2. Known(p)'
    BY <2>1, <1>1, <1>7 DEF Known
  <2>3. Step(p, Wide)' = need /\ Step(p, Narrow)' = narrow
    BY <2>1, <1>7 DEF Step, need, narrow, Wide, Narrow
  <2> QED BY <2>1, <2>2, <2>3, <1>1, <1>4 DEF JudgeObject, Fits
<1> QED BY <1>9, <1>10, <1>11, <1>12, <1>13, <1>3 DEF SweepInv

LEMMA ReadKeeps ==
  ASSUME SweepInv, ReadObject
  PROVE  SweepInv'
<1>1. /\ reading = "parsing" /\ (check # "parsing" \/ r < p)
      /\ UNCHANGED <<csize, reader, p, guard, check>>
  BY DEF ReadObject
<1>2. SweepTypeOK /\ csize < Masks[reader]
  BY DEF SweepInv
<1>n. /\ csize \in Nat /\ p \in Nat /\ r \in Nat /\ guard \in Nat /\ Objects \in Nat
      /\ Objhdr \in Nat /\ Objhdr >= 4 /\ Slack \in Nat /\ p <= csize /\ r <= csize
      /\ Masks[reader] \in Nat \ {0} /\ Wide \in Nat \ {0} /\ Narrow \in Nat \ {0}
      /\ p >= Objhdr /\ r >= Objhdr
  BY <1>2, SweepNumbers
<1>3. (csize < Masks[reader])' /\ DoneThere' /\ Objects' = Objects
  BY <1>1, <1>2 DEF SweepInv, DoneThere, Objects
<1>4. CASE csize - r < Objhdr /\ reading' = "done" /\ UNCHANGED <<cells, r, parted>>
  <2>1. SweepTypeOK'
    BY <1>1, <1>2, <1>3, <1>4 DEF SweepTypeOK
  <2>2. check # "parsing"
    <3>1. SUFFICES ASSUME check = "parsing" PROVE FALSE
      OBVIOUS
    <3>2. ~parted /\ r < p /\ reading = "parsing"
      BY <1>1, <3>1 DEF SweepInv, Behind
    <3>3. csize - r >= Objhdr
      BY <3>1, <3>2 DEF SweepInv, OneBehind, Known
    <3> QED BY <1>4, <1>n, <3>3
  <2>3. check # StuckAt[reader]
    <3>1. SUFFICES ASSUME check = StuckAt[reader] PROVE FALSE
      OBVIOUS
    <3>2. check \in Verdicts /\ check \notin {"overrun", "gave up"}
      BY <1>2, <3>1, StuckAtIs DEF SweepTypeOK, Verdicts
    <3>3. ~parted
      BY <3>2 DEF SweepInv, PartedLate
    <3>4. Known(p) /\ r <= p /\ ~ r < p
      BY <1>1, <3>2, <3>3 DEF SweepInv, JudgedThere, OneBehind
    <3>5. r = p
      BY <3>4, <1>n
    <3> QED BY <1>4, <3>4, <3>5, <1>n DEF Known
  <2>4. Behind' /\ OneBehind' /\ JudgedThere' /\ StuckThere'
    BY <1>1, <1>4, <2>2, <2>3 DEF Behind, OneBehind, JudgedThere, StuckThere
  <2>5. PartedLate'
    BY <1>1, <1>4 DEF SweepInv, PartedLate
  <2> QED BY <1>3, <2>1, <2>4, <2>5 DEF SweepInv
<1>5. CASE csize - r >= Objhdr
  <2>1. PICK f \in Read(cells, r) :
          LET need == ReaderAdvance(Index(f, r), Length(f, r), Masks[reader])
          IN /\ reading' = IF need = 0 THEN "stuck"
                           ELSE IF need > csize - r THEN "refused" ELSE "parsing"
             /\ r' = IF reading' = "parsing" THEN r + need ELSE r
             /\ parted' = \/ parted
                          \/ need \notin {0, Advance(Index(f, r), Length(f, r), Masks["wide"])}
             /\ cells' = Keep(f, r')
    BY <1>5, <1>n, ~(csize - r < Objhdr) DEF ReadObject
  <2> DEFINE need == Advance(Index(f, r), Length(f, r), Masks[reader])
             wide == Advance(Index(f, r), Length(f, r), Wide)
             narrow == Advance(Index(f, r), Length(f, r), Narrow)
  <2>2. /\ DOMAIN f = DOMAIN cells \cup Header(r)
        /\ \A i \in DOMAIN cells : f[i] = cells[i]
        /\ \A i \in DOMAIN f : i \in 0..csize /\ f[i] \in Cells
        /\ Length(f, r) \in Nat
    BY <1>2, <1>5, <1>n, ReadFacts
  <2>3. need = ReaderAdvance(Index(f, r), Length(f, r), Masks[reader])
    BY <2>2, <1>n, ReadersAdvance
  <2>4. /\ need \in 0..(Masks[reader] - 1) /\ wide \in Nat /\ narrow \in Nat
        /\ narrow = wide % Narrow
        /\ need = IF reader = "wide" THEN wide ELSE narrow
    <3>1. need \in 0..(Masks[reader] - 1)
      BY <2>2, <1>n, AdvanceType
    <3>2. wide \in Nat /\ narrow \in Nat
      BY <2>2, SweepConstants, AdvanceType
    <3>3. narrow = wide % Narrow
      BY <2>2, AdvanceNarrow
    <3>4. need = IF reader = "wide" THEN wide ELSE narrow
      BY <1>2 DEF SweepTypeOK, Widths, Wide, Narrow
    <3> QED BY <3>1, <3>2, <3>3, <3>4
  <2>5. /\ reading' = IF need = 0 THEN "stuck"
                      ELSE IF need > csize - r THEN "refused" ELSE "parsing"
        /\ r' = IF reading' = "parsing" THEN r + need ELSE r
        /\ parted' = (parted \/ need \notin {0, wide})
        /\ cells' = Keep(f, r')
    BY <2>1, <2>3 DEF Wide
  <2>6. Header(r) \subseteq DOMAIN cells =>
          /\ Step(r, Wide) = wide /\ Step(r, Narrow) = narrow
    BY <2>2 DEF Header, Step, Index, Length
  <2>7. SweepTypeOK'
    <3>1. reading' \in {"parsing", "done", "refused", "stuck"}
      BY <2>5
    <3>2. r' \in Objhdr..csize
      <4>1. CASE reading' = "parsing"
        <5>1. ~(need > csize - r) /\ r' = r + need
          BY <2>5, <4>1
        <5>2. need \in Nat /\ csize' = csize
          BY <2>4, <1>n, <1>1
        <5> HIDE DEF need
        <5> QED BY <5>1, <5>2, <1>n
      <4>2. CASE reading' # "parsing"
        BY <2>5, <4>2, <1>2 DEF SweepTypeOK
      <4> QED BY <4>1, <4>2
    <3>3. parted' \in BOOLEAN
      BY <2>5
    <3>4. DOMAIN cells' \subseteq 0..csize' /\ \A i \in DOMAIN cells' : cells'[i] \in Cells
      <4>1. r' \in Nat
        BY <3>2, SizeNumbers
      <4> QED BY <4>1, <1>1, <1>2, <2>2, <2>5, KeptCells
    <3> QED BY <3>1, <3>2, <3>3, <3>4, <1>1, <1>2, <1>3 DEF SweepTypeOK
  <2> HIDE DEF need, wide, narrow
  \* What the check knew of this object.
  <2>8. CASE r < p /\ ~parted /\ check # "gave up"
    <3>1. Known(r) /\ wide = p - r /\ check \notin Verdicts
      BY <1>1, <2>6, <2>8 DEF SweepInv, OneBehind, Known
    <3>2. narrow = wide \/ reader = "wide"
      <4>1. CASE reader = "narrow"
        <5>1. wide \in 0..(Narrow - 1)
          <6>1. csize < Narrow /\ wide = p - r /\ wide \in Nat
            BY <3>1, <2>4, <4>1, <1>2 DEF Narrow
          <6> QED BY <6>1, <1>n
        <5> QED BY <5>1, <2>4, SweepConstants
      <4> QED BY <4>1, <1>2 DEF SweepTypeOK, Widths
    <3>3. need = wide /\ need # 0 /\ ~(need > csize - r) /\ r + need = p
      <4>1. need = wide
        BY <3>2, <2>4
      <4>2. r < p /\ need = p - r
        BY <4>1, <3>1, <2>8
      <4> QED BY <4>1, <4>2, <1>n
    <3>4. reading' = "parsing" /\ r' = p /\ ~parted'
      BY <2>5, <2>8, <3>3
    <3>5. Behind'
      <4>1. r' <= p' /\ Objects' = Objects
        <5>1. r' = p /\ p' = p
          BY <1>1, <3>4
        <5> QED BY <5>1, <1>n, <1>3
      <4>2. check = "parsing" => guard <= Objects + Slack
        BY DEF SweepInv, Behind
      <4> QED BY <1>1, <3>4, <4>1, <4>2 DEF Behind
    <3>6. OneBehind'
      <4>1. r' <= p' /\ ~(r' < p')
        <5>1. r' = p /\ p' = p
          BY <1>1, <3>4
        <5> QED BY <5>1, <1>n
      <4> QED BY <4>1 DEF OneBehind
    <3>7. PartedLate' /\ StuckThere' /\ JudgedThere'
      BY <1>1, <3>4, <3>1 DEF PartedLate, StuckThere, JudgedThere
    <3> QED BY <1>3, <2>7, <3>5, <3>6, <3>7 DEF SweepInv
  <2>9. CASE r = p /\ ~parted /\ check # "gave up"
    <3>1. check \in Verdicts
      <4>1. check # "done"
        <5>1. check = "done" => csize - r < Objhdr
          BY <2>9 DEF SweepInv, DoneThere
        <5> QED BY <5>1, <1>5, <1>n
      <4>2. check # "parsing"
        <5>1. ~(r < p)
          <6>1. r = p
            BY <2>9
          <6> QED BY <6>1, <1>n
        <5> QED BY <5>1, <1>1
      <4> QED BY <4>1, <4>2, <2>9, <1>2 DEF SweepTypeOK, Verdicts
    <3>2. check = JudgeObject(wide, narrow, csize - p)
      BY <1>1, <2>6, <2>9, <3>1 DEF SweepInv, JudgedThere, Known
    <3>3. Behind'
      BY <1>1, <3>1 DEF Behind, Verdicts
    <3>4. CASE check = "stuck wide"
      <4>1. wide = 0
        BY <3>2, <3>4 DEF JudgeObject
      <4>2. narrow = 0
        BY <4>1, <2>4, SweepConstants
      <4>3. reading' = "stuck" /\ r' = p /\ ~parted'
        BY <4>1, <4>2, <2>4, <2>5, <2>9
      <4>4. PartedLate' /\ OneBehind' /\ JudgedThere' /\ StuckThere'
        BY <1>1, <3>4, <4>3 DEF PartedLate, OneBehind, JudgedThere, StuckThere, Reported
      <4> QED BY <1>3, <2>7, <3>3, <4>4 DEF SweepInv
    <3>5. CASE check = "stuck narrow"
      <4>1. wide # 0 /\ narrow = 0 /\ csize < Narrow
        BY <3>2, <3>5 DEF JudgeObject, Fits, Narrow
      <4>2. CASE reader = "narrow"
        <5>1. reading' = "stuck" /\ r' = p /\ ~parted'
          BY <4>1, <4>2, <2>4, <2>5, <2>9
        <5>2. PartedLate' /\ OneBehind' /\ JudgedThere' /\ StuckThere'
          BY <1>1, <3>5, <5>1 DEF PartedLate, OneBehind, JudgedThere, StuckThere, Reported
        <5> QED BY <1>3, <2>7, <3>3, <5>2 DEF SweepInv
      <4>3. CASE reader = "wide"
        \* A multiple of what the collection is shorter than.
        <5>1. wide >= Narrow
          <6>1. wide \notin 0..(Narrow - 1)
            BY <4>1, <2>4, SweepConstants
          <6> QED BY <6>1, <2>4, SweepConstants
        <5>2. need # 0 /\ need > csize - r
          BY <5>1, <4>1, <4>3, <2>4, <1>n, SweepConstants
        <5>3. reading' = "refused" /\ ~parted'
          BY <5>2, <4>3, <2>4, <2>5, <2>9
        <5>4. PartedLate' /\ OneBehind' /\ JudgedThere' /\ StuckThere'
          BY <1>1, <3>5, <4>3, <5>3 DEF PartedLate, OneBehind, JudgedThere, StuckThere, StuckAt
        <5> QED BY <1>3, <2>7, <3>3, <5>4 DEF SweepInv
      <4> QED BY <4>2, <4>3, <1>2 DEF SweepTypeOK, Widths
    <3>6. CASE check = "overrun"
      <4>1. wide # 0 /\ wide > csize - p /\ (csize < Narrow => narrow # 0)
        BY <3>2, <3>6 DEF JudgeObject, Fits, Narrow
      <4>2. need # 0
        BY <4>1, <2>4, <1>2 DEF SweepTypeOK, Widths, Narrow
      <4>3. reading' # "stuck" /\ (parted' \/ reading' = "refused")
        BY <4>1, <4>2, <2>5, <2>9
      <4>4. check # StuckAt[reader]
        BY <3>6, <1>2, StuckAtIs DEF SweepTypeOK
      <4>5. PartedLate' /\ OneBehind' /\ JudgedThere' /\ StuckThere'
        BY <1>1, <3>6, <4>3, <4>4 DEF PartedLate, OneBehind, JudgedThere, StuckThere
      <4> QED BY <1>3, <2>7, <3>3, <4>5 DEF SweepInv
    <3> QED BY <3>1, <3>4, <3>5, <3>6 DEF Verdicts
  <2>10. CASE parted \/ check = "gave up"
    <3>1. check' \in {"overrun", "gave up"}
      BY <1>1, <2>10 DEF SweepInv, PartedLate
    <3>2. check' = "gave up" \/ parted'
      BY <1>1, <2>5, <2>10
    <3>3. check' # StuckAt[reader']
      BY <3>1, <1>1, <1>2, StuckAtIs DEF SweepTypeOK
    <3>4. Behind' /\ PartedLate' /\ OneBehind' /\ JudgedThere' /\ StuckThere'
      BY <3>1, <3>2, <3>3
      DEF Behind, PartedLate, OneBehind, JudgedThere, StuckThere, Verdicts
    <3> QED BY <1>3, <2>7, <3>4 DEF SweepInv
  <2>11. r <= p \/ parted \/ check = "gave up"
    BY <1>1 DEF SweepInv, OneBehind
  <2>12. r <= p => r < p \/ r = p
    BY <1>n
  <2> QED BY <2>8, <2>9, <2>10, <2>11, <2>12
<1> QED BY <1>4, <1>5 DEF ReadObject

LEMMA SweepStutters ==
  ASSUME SweepInv, UNCHANGED sweepVars
  PROVE  SweepInv'
<1>1. UNCHANGED <<csize, reader, cells, p, guard, check, r, reading, parted>>
  BY DEF sweepVars
<1>2. SweepTypeOK' /\ (csize < Masks[reader])'
  BY <1>1 DEF SweepInv, SweepTypeOK, Objects
<1>3. Behind' /\ PartedLate' /\ DoneThere'
  BY <1>1 DEF SweepInv, Behind, PartedLate, DoneThere, Objects
<1>4. OneBehind'
  BY <1>1 DEF SweepInv, OneBehind, Known, Step
<1>5. JudgedThere'
  BY <1>1 DEF SweepInv, JudgedThere, Known, Step, JudgeObject, Fits
<1>6. StuckThere'
  BY <1>1 DEF SweepInv, StuckThere, Reported
<1> QED BY <1>2, <1>3, <1>4, <1>5, <1>6 DEF SweepInv

\* The check and the reader stay within one object of each other, and agree on it.
THEOREM SweepInvariant == SweepSpec => []SweepInv
<1>1. SweepInit => SweepInv
  BY SweepBegins
<1>2. SweepInv /\ [SweepNext]_sweepVars => SweepInv'
  BY EndKeeps, CheckKeeps, ReadKeeps, SweepStutters DEF SweepNext, SweepOver
<1> QED BY <1>1, <1>2, PTL DEF SweepSpec

\* Neither cursor leaves the collection, and no cell outside it is read.
THEOREM SweepTypeCorrect == SweepSpec => []SweepTypeOK
<1>1. SweepInv => SweepTypeOK
  BY DEF SweepInv
<1> QED BY <1>1, SweepInvariant, PTL

\* A reader for which an advance of zero was reported stands still at that object,
\* and one that stands still was reported there: for every alphabet of cells, both
\* widths, every alignment and size.
THEOREM ReportsExactCorrect == SweepSpec => []ReportsExact
<1>1. SweepInv => ReportsExact
  BY DEF SweepInv, StuckThere, ReportsExact, ReportedIsStuck, StuckIsReported, BothDone
<1> QED BY <1>1, SweepInvariant, PTL
=============================================================================
