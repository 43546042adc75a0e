---------------------------- MODULE BTreesProofs ----------------------------
(***************************************************************************)
(* Theorems about the B-trees of BTrees, for any nodes, kinds of trees and *)
(* ceilings.  A node is read only by Enter, which asks that it was not     *)
(* visited and marks it; chunks are claimed only by CountChunks, and the   *)
(* entries of a leaf are looked at only while the ceiling holds.  For the  *)
(* counts and the completeness of a walk every step is first reduced to    *)
(* its effect (Effect): the node due is dropped or taken, a node is named, *)
(* a pointer is passed by.  The types follow from where levels come from.  *)
(***************************************************************************)
EXTENDS BTrees, FiniteSetTheorems, SequenceTheorems, TLAPS

ReadInv ==
  /\ reads \in [Nodes -> Nat]
  /\ \A v \in due : v.node \in Nodes
  /\ \A n \in Nodes : reads[n] <= 1 /\ (n \notin visited => reads[n] = 0)

\* The counts, and that a leaf passes on to the file what it did not look at.
CeilingInv ==
  /\ chunks \in Nat /\ counted \in Nat /\ held \in Nat /\ inspected \in Nat
  /\ chunksOver \in BOOLEAN
  /\ chunksOver <=> counted > MaxChunks
  /\ chunksOver => chunks = MaxChunks
  /\ ~chunksOver => chunks = counted
  /\ chunksOver <=> "chunks" \in findings
  /\ inspected <= chunks
  /\ ~chunksOver => inspected = held

-----------------------------------------------------------------------------
(* Each node is read once.                                                 *)

LEMMA ReadInit == Init => ReadInv
  BY DEF Init, ReadInv

LEMMA EnterReadsOnce ==
  ASSUME ReadInv, NEW v \in due, Enter(v)
  PROVE  ReadInv'
  <1>1. /\ v.node \in Nodes /\ v.node \notin visited
        /\ visited' = visited \cup {v.node} /\ due' = {}
        /\ reads' = [reads EXCEPT ![v.node] = @ + 1]
    BY DEF ReadInv, Enter, Mark
  <1>2. reads[v.node] = 0 /\ reads \in [Nodes -> Nat]
    BY <1>1 DEF ReadInv
  <1> QED BY <1>1, <1>2 DEF ReadInv

\* A step that reads nothing.
LEMMA UnreadKeeps ==
  ASSUME ReadInv, UNCHANGED reads, visited \subseteq visited',
         \A w \in due' : w.node \in Nodes
  PROVE  ReadInv'
  BY DEF ReadInv

LEMMA BeginReads ==
  ASSUME ReadInv, BeginTree
  PROVE  ReadInv'
  <1>1. ASSUME NEW kind \in Kinds, NEW n \in Nodes, BeginV1(kind, n)
        PROVE  ReadInv'
    BY <1>1, UnreadKeeps DEF BeginV1, Begin, Visit
  <1>2. ASSUME NEW kind \in Kinds, NEW depth \in Levels, NEW nroot \in 0..MaxRecords,
               NEW header \in 0..MaxTotal, NEW root \in Nodes \cup {Undefined, Outside},
               NEW over \in BOOLEAN,
               BeginEngine(kind, root, depth, nroot, header, over)
        PROVE  ReadInv'
    <2>1. CASE over \/ root \notin Nodes \/ NotBegun
      <3>1. NotBegun \/ root \in Nodes
        BY <1>2 DEF BeginEngine
      <3>2. CASE NotBegun
        BY <3>2, UnreadKeeps DEF NotBegun, ReadInv
      <3>3. CASE ~NotBegun
        BY <1>2, <2>1, <3>1, <3>3 DEF BeginEngine
      <3> QED BY <3>2, <3>3
    <2>2. CASE root \in Nodes /\ ~NotBegun
      <3>1. Begin([kind |-> kind, depth |-> depth, header |-> header], root, depth, nroot)
        BY <1>2, <2>2 DEF BeginEngine
      <3> QED BY <2>2, <3>1, UnreadKeeps DEF Begin, Visit
    <2> QED BY <2>1, <2>2
  <1>3. ASSUME NEW kind \in Kinds, NEW depth \in Levels, NEW nroot \in 0..MaxRecords,
               NEW header \in 0..MaxTotal, NEW root \in Nodes \cup {Outside},
               BeginNames(kind, root, depth, nroot, header)
        PROVE  ReadInv'
    <2>1. CASE root = Outside
      BY <1>3, <2>1, UnreadKeeps DEF BeginNames, ReadInv
    <2>2. CASE root # Outside
      <3>1. Begin([kind |-> kind, depth |-> depth, header |-> header], root, depth, nroot)
        BY <1>3, <2>2 DEF BeginNames
      <3> QED BY <2>2, <3>1, UnreadKeeps DEF Begin, Visit
    <2> QED BY <2>1, <2>2
  <1>4. PICK kind \in Kinds :
          \/ kind \in V1 /\ \E n \in Nodes : BeginV1(kind, n)
          \/ \E depth \in Levels, nroot \in 0..MaxRecords, header \in 0..MaxTotal :
               \/ \E root \in Nodes \cup {Undefined, Outside}, over \in BOOLEAN :
                    BeginEngine(kind, root, depth, nroot, header, over)
               \/ \E root \in Nodes \cup {Outside} :
                    BeginNames(kind, root, depth, nroot, header)
    BY Zenon DEF BeginTree
  <1>5. CASE \E n \in Nodes : BeginV1(kind, n)
    BY <1>1, <1>5, Zenon
  <1>6. ASSUME NEW depth \in Levels, NEW nroot \in 0..MaxRecords, NEW header \in 0..MaxTotal,
               \/ \E root \in Nodes \cup {Undefined, Outside}, over \in BOOLEAN :
                    BeginEngine(kind, root, depth, nroot, header, over)
               \/ \E root \in Nodes \cup {Outside} :
                    BeginNames(kind, root, depth, nroot, header)
        PROVE  ReadInv'
    BY <1>2, <1>3, <1>6, Zenon
  <1> QED BY <1>4, <1>5, <1>6, Zenon

LEMMA DecodeReads ==
  ASSUME ReadInv, Decode
  PROVE  ReadInv'
  <1>1. ASSUME NEW v \in due, NEW over, NEW blemish,
               DecodeSnod(v, over, blemish) \/ DecodeName(v, blemish)
        PROVE  Enter(v)
    BY <1>1 DEF DecodeSnod, DecodeName
  <1>2. ASSUME NEW v \in due, NEW over, NEW blemish, NEW sound,
               DecodeEngine(v, over, sound, blemish)
        PROVE  Enter(v)
    BY <1>2 DEF DecodeEngine
  <1>3. ASSUME NEW v \in due, NEW over, NEW blemish, NEW entries,
               DecodeChunkLeaf(v, entries, over, blemish)
        PROVE  Enter(v)
    BY <1>3 DEF DecodeChunkLeaf
  <1>4. ASSUME NEW v \in due, NEW over, NEW blemish, NEW entries, NEW level,
               \/ DecodeGroup(v, level, entries, over, blemish)
               \/ DecodeChunkNode(v, level, entries, over, blemish)
        PROVE  Enter(v)
    BY <1>4 DEF DecodeGroup, DecodeChunkNode
  <1>5. \E v \in due : Enter(v)
    BY <1>1, <1>2, <1>3, <1>4, Zenon DEF Decode
  <1> QED BY <1>5, EnterReadsOnce

LEMMA RefuseReads ==
  ASSUME ReadInv, Refuse
  PROVE  ReadInv'
  <1> PICK v \in due :
        \/ PassOver(v) \/ RefuseDepth(v) \/ SkipRepeated(v) \/ FindBad(v)
        \/ \E level \in Levels, over \in BOOLEAN : RefuseEntries(v, level, over)
    BY DEF Refuse
  <1>1. CASE PassOver(v)
    BY <1>1, UnreadKeeps DEF PassOver, history
  <1>2. CASE RefuseDepth(v)
    <2>1. visited \subseteq visited' /\ due' = {} /\ UNCHANGED reads
      BY <1>2 DEF RefuseDepth, Mark, history
    <2> QED BY <2>1, UnreadKeeps
  <1>3. CASE SkipRepeated(v)
    BY <1>3, UnreadKeeps DEF SkipRepeated, history
  <1>4. CASE FindBad(v)
    BY <1>4, EnterReadsOnce DEF FindBad
  <1>5. ASSUME NEW level \in Levels, NEW over \in BOOLEAN, RefuseEntries(v, level, over)
        PROVE  ReadInv'
    BY <1>5, EnterReadsOnce DEF RefuseEntries
  <1> QED BY <1>1, <1>2, <1>3, <1>4, <1>5

LEMMA ReadStep == ReadInv /\ [Next]_vars => ReadInv'
  <1> SUFFICES ASSUME ReadInv, [Next]_vars PROVE ReadInv'
    OBVIOUS
  <1>1. CASE BeginAnalysis
    BY <1>1 DEF BeginAnalysis, ReadInv
  <1>2. CASE BeginTree
    BY <1>2, BeginReads
  <1>3. ASSUME NEW n \in 1..MaxTotal, ClaimChunks(n)
        PROVE  ReadInv'
    BY <1>3, UnreadKeeps DEF ClaimChunks, ReadInv
  <1>4. CASE Decode
    BY <1>4, DecodeReads
  <1>5. CASE Refuse
    BY <1>5, RefuseReads
  <1>6. ASSUME NEW n \in Nodes, NEW nrec \in 0..MaxRecords, ReadChild(n, nrec)
        PROVE  ReadInv'
    BY <1>6, UnreadKeeps DEF ReadChild
  <1>7. CASE ReadUndefined \/ ReadOutside
    BY <1>7, UnreadKeeps DEF ReadUndefined, ReadOutside, ReadInv
  <1>8. CASE Leave \/ EndTree
    BY <1>8, UnreadKeeps DEF Leave, EndTree, ReadInv
  <1>9. CASE UNCHANGED vars
    BY <1>9, UnreadKeeps DEF vars, history, ReadInv
  <1> QED
    BY <1>1, <1>2, <1>3, <1>4, <1>5, <1>6, <1>7, <1>8, <1>9 DEF Next, ReadPointer, Stop

\* No node of a file is read twice in an analysis, whatever its pointers say:
\* the walks of all trees together take no more reads than there are nodes.
THEOREM EachNodeOnceCorrect == Spec => []EachNodeOnce
  <1>1. ReadInv => EachNodeOnce
    BY DEF ReadInv, EachNodeOnce
  <1> QED BY ReadInit, ReadStep, <1>1, PTL DEF Spec

-----------------------------------------------------------------------------
(* The ceiling of chunks.                                                  *)

LEMMA CeilingInit == Init => CeilingInv
  <1> SUFFICES ASSUME Init PROVE CeilingInv
    OBVIOUS
  <1>1. /\ chunks = 0 /\ counted = 0 /\ held = 0 /\ inspected = 0 /\ findings = {}
        /\ chunksOver = FALSE /\ MaxChunks \in Nat
    BY BTreesAssumption DEF Init
  <1>2. /\ chunks \in Nat /\ counted \in Nat /\ held \in Nat /\ inspected \in Nat
        /\ ~(counted > MaxChunks) /\ inspected <= chunks /\ chunks = counted
        /\ inspected = held /\ "chunks" \notin findings
    BY <1>1
  <1>3. chunksOver \in BOOLEAN /\ ~chunksOver
    BY <1>1
  <1> QED BY <1>2, <1>3, Zenon DEF CeilingInv

\* A step that claims nothing and does not find the ceiling exceeded.
LEMMA UnclaimedKeeps ==
  ASSUME CeilingInv, UNCHANGED <<chunks, chunksOver, leaves>>,
         NEW what, findings' = findings \cup what, "chunks" \notin what
  PROVE  CeilingInv'
  <1>1. "chunks" \in findings' <=> "chunks" \in findings
    OBVIOUS
  <1> QED BY <1>1 DEF CeilingInv, leaves

LEMMA CountKeeps ==
  ASSUME CeilingInv, NEW n \in Nat, CountChunks(n),
         "chunks" \in findings' <=> "chunks" \in findings \/ Exceeds(n)
  PROVE  /\ chunks' \in Nat /\ counted' \in Nat /\ chunksOver' \in BOOLEAN
         /\ chunksOver' <=> counted' > MaxChunks
         /\ chunksOver' => chunks' = MaxChunks
         /\ ~chunksOver' => chunks' = counted'
         /\ chunksOver' <=> "chunks" \in findings'
         /\ chunks' >= chunks
  <1>1. /\ chunks \in Nat /\ counted \in Nat /\ MaxChunks \in Nat
        /\ chunksOver \in BOOLEAN /\ Exceeds(n) \in BOOLEAN
    BY BTreesAssumption DEF CeilingInv, Exceeds
  <1>2. chunksOver' <=> chunksOver \/ Exceeds(n)
    BY <1>1 DEF CountChunks
  <1>3. CASE Exceeds(n)
    BY <1>1, <1>2, <1>3 DEF CountChunks, CeilingInv, Exceeds
  <1>4. CASE ~Exceeds(n)
    BY <1>1, <1>2, <1>4 DEF CountChunks, CeilingInv, Exceeds
  <1> QED BY <1>3, <1>4

LEMMA ClaimKeeps ==
  ASSUME CeilingInv, NEW n \in Nat, CountChunks(n), UNCHANGED <<held, inspected>>,
         NEW other, "chunks" \notin other, findings' = findings \cup other \cup OverChunks(n)
  PROVE  CeilingInv'
  <1>1. "chunks" \in findings' <=> "chunks" \in findings \/ Exceeds(n)
    BY DEF OverChunks
  <1>2. /\ chunks' \in Nat /\ counted' \in Nat /\ chunksOver' \in BOOLEAN
        /\ chunksOver' <=> counted' > MaxChunks
        /\ chunksOver' => chunks' = MaxChunks
        /\ ~chunksOver' => chunks' = counted'
        /\ chunksOver' <=> "chunks" \in findings'
        /\ chunks' >= chunks
    BY <1>1, CountKeeps
  <1>3. ~chunksOver' => ~chunksOver
    BY DEF CountChunks
  <1> QED BY <1>2, <1>3 DEF CeilingInv

\* A leaf is only decoded while the ceiling holds.
LEMMA LeafKeeps ==
  ASSUME CeilingInv, ~chunksOver, NEW n \in Nat, ClaimLeaf(n),
         NEW other, "chunks" \notin other, findings' = findings \cup other \cup OverChunks(n)
  PROVE  CeilingInv'
  <1>1. "chunks" \in findings' <=> "chunks" \in findings \/ Exceeds(n)
    BY DEF OverChunks
  <1>2. /\ chunks' \in Nat /\ counted' \in Nat /\ chunksOver' \in BOOLEAN
        /\ chunksOver' <=> counted' > MaxChunks
        /\ chunksOver' => chunks' = MaxChunks
        /\ ~chunksOver' => chunks' = counted'
        /\ chunksOver' <=> "chunks" \in findings'
        /\ chunks' >= chunks
    BY <1>1, CountKeeps DEF ClaimLeaf
  <1>3. /\ MaxChunks \in Nat /\ chunks \in Nat /\ held \in Nat /\ inspected \in Nat
        /\ inspected <= chunks /\ inspected = held /\ chunks <= MaxChunks
    BY BTreesAssumption DEF CeilingInv
  <1>4. held' = held + n /\ inspected' = inspected + Allowance(n)
    BY DEF ClaimLeaf
  <1>5. CASE Exceeds(n)
    <2>1. chunksOver'
      BY <1>5, Zenon DEF ClaimLeaf, CountChunks
    <2>2. Allowance(n) = MaxChunks - chunks
      BY <1>3, <1>5 DEF Exceeds, Allowance
    <2>3. /\ chunks' = MaxChunks /\ inspected' = inspected + (MaxChunks - chunks)
          /\ held' \in Nat /\ inspected' \in Nat /\ inspected' <= chunks'
      BY <1>2, <1>3, <1>4, <2>1, <2>2
    <2> QED BY <1>2, <2>1, <2>3, Zenon DEF CeilingInv
  <1>6. CASE ~Exceeds(n)
    <2>1. Allowance(n) = n /\ chunks' = chunks + n
      BY <1>3, <1>6 DEF ClaimLeaf, CountChunks, Exceeds, Allowance
    <2>2. /\ held' \in Nat /\ inspected' \in Nat /\ inspected' <= chunks'
          /\ inspected' = held'
      BY <1>2, <1>3, <1>4, <2>1
    <2> QED BY <1>2, <2>2, Zenon DEF CeilingInv
  <1> QED BY <1>5, <1>6

LEMMA BeginCeiling ==
  ASSUME CeilingInv, BeginTree
  PROVE  CeilingInv'
  <1>1. ASSUME NEW kind, NEW n, BeginV1(kind, n)
        PROVE  CeilingInv'
    <2>1. UNCHANGED <<chunks, chunksOver, leaves>> /\ findings' = findings \cup {}
      BY <1>1 DEF BeginV1, Begin, ceilings, leaves
    <2> QED BY <2>1, UnclaimedKeeps
  <1>2. ASSUME NEW kind, NEW depth, NEW nroot, NEW header \in 0..MaxTotal, NEW root, NEW over,
               BeginEngine(kind, root, depth, nroot, header, over)
        PROVE  CeilingInv'
    <2> DEFINE wrong == \/ root = Undefined /\ (nroot # 0 \/ header # 0)
                        \/ root = Outside
                        \/ root \in Nodes /\ depth = 0 /\ header # nroot
               w == IF ~over /\ wrong THEN {"corrupt"} ELSE {}
    <2>1. findings' = findings \cup
            (OverMetadata(over)
             \cup (IF kind = "chunk2" THEN OverChunks(IF kind = "chunk2" THEN header ELSE 0)
                                     ELSE {})
             \cup w)
      BY <1>2, Zenon DEF BeginEngine, Found
    <2>2. UNCHANGED <<held, inspected>>
      BY <1>2 DEF BeginEngine, NotBegun, Begin
    <2>3. "chunks" \notin OverMetadata(over) \cup w
      BY DEF OverMetadata
    <2> HIDE DEF w, wrong
    <2>4. CASE kind = "chunk2"
      <3>1. CountChunks(header) /\ header \in Nat
        BY <1>2, <2>4, BTreesAssumption DEF BeginEngine
      <3>2. findings' = findings \cup (OverMetadata(over) \cup w) \cup OverChunks(header)
        BY <2>1, <2>4
      <3> QED BY <2>2, <2>3, <3>1, <3>2, ClaimKeeps
    <2>5. CASE kind # "chunk2"
      <3>1. UNCHANGED <<chunks, chunksOver, leaves>>
        BY <1>2, <2>2, <2>5 DEF BeginEngine, leaves
      <3>2. findings' = findings \cup (OverMetadata(over) \cup w)
        BY <2>1, <2>5
      <3> QED BY <2>3, <3>1, <3>2, UnclaimedKeeps
    <2> QED BY <2>4, <2>5
  <1>3. ASSUME NEW kind, NEW depth, NEW nroot, NEW header, NEW root,
               BeginNames(kind, root, depth, nroot, header)
        PROVE  CeilingInv'
    <2>1. PICK w \in {{}, {"corrupt"}} : findings' = findings \cup w
      BY <1>3 DEF BeginNames, Found
    <2>2. UNCHANGED <<chunks, chunksOver, leaves>>
      BY <1>3 DEF BeginNames, Begin, ceilings, leaves
    <2> QED BY <2>1, <2>2, UnclaimedKeeps
  <1>4. PICK kind \in Kinds :
          \/ \E n \in Nodes : BeginV1(kind, n)
          \/ \E depth \in Levels, nroot \in 0..MaxRecords, header \in 0..MaxTotal :
               \/ \E root \in Nodes \cup {Undefined, Outside}, over \in BOOLEAN :
                    BeginEngine(kind, root, depth, nroot, header, over)
               \/ \E root \in Nodes \cup {Outside} :
                    BeginNames(kind, root, depth, nroot, header)
    BY Zenon DEF BeginTree
  <1>5. CASE \E n \in Nodes : BeginV1(kind, n)
    BY <1>1, <1>5, Zenon
  <1>6. ASSUME NEW depth \in Levels, NEW nroot \in 0..MaxRecords, NEW header \in 0..MaxTotal,
               \/ \E root \in Nodes \cup {Undefined, Outside}, over \in BOOLEAN :
                    BeginEngine(kind, root, depth, nroot, header, over)
               \/ \E root \in Nodes \cup {Outside} :
                    BeginNames(kind, root, depth, nroot, header)
        PROVE  CeilingInv'
    BY <1>2, <1>3, <1>6, Zenon
  <1> QED BY <1>4, <1>5, <1>6, Zenon

\* What the walkers find beside the ceiling of chunks.
LEMMA BlemishesOnly ==
  ASSUME NEW over \in BOOLEAN, NEW blemish \in Blemishes
  PROVE  "chunks" \notin blemish \cup OverMetadata(over)
  BY DEF Blemishes, OverMetadata

LEMMA DecodeCeiling ==
  ASSUME CeilingInv, Decode
  PROVE  CeilingInv'
  <1>1. ASSUME NEW v \in due, NEW over \in BOOLEAN, NEW blemish \in Blemishes,
               DecodeSnod(v, over, blemish)
        PROVE  CeilingInv'
    <2>1. /\ UNCHANGED <<chunks, chunksOver, leaves>>
          /\ findings' = findings \cup (blemish \cup OverMetadata(over))
      BY <1>1 DEF DecodeSnod, Found
    <2> QED BY <2>1, BlemishesOnly, UnclaimedKeeps
  <1>2. ASSUME NEW v \in due, NEW blemish \in Blemishes, DecodeName(v, blemish)
        PROVE  CeilingInv'
    <2>1. UNCHANGED <<chunks, chunksOver, leaves>> /\ findings' = findings \cup blemish
      BY <1>2 DEF DecodeName, Found, ceilings
    <2> QED BY <2>1, UnclaimedKeeps DEF Blemishes
  <1>3. ASSUME NEW v \in due, NEW over \in BOOLEAN, NEW blemish \in Blemishes,
               NEW sound \in BOOLEAN, DecodeEngine(v, over, sound, blemish)
        PROVE  CeilingInv'
    <2> DEFINE what == OverMetadata(over)
                       \cup (IF ~over /\ ~sound THEN {"corrupt"} ELSE {})
                       \cup (IF ~over /\ sound THEN blemish ELSE {})
    <2>1. UNCHANGED <<chunks, chunksOver, leaves>> /\ findings' = findings \cup what
      BY <1>3 DEF DecodeEngine, Found
    <2>2. "chunks" \notin what
      BY BlemishesOnly
    <2> QED BY <2>1, <2>2, UnclaimedKeeps
  <1>4. ASSUME NEW v \in due, NEW over \in BOOLEAN, NEW blemish \in Blemishes,
               NEW entries \in 0..Fanout, DecodeChunkLeaf(v, entries, over, blemish)
        PROVE  CeilingInv'
    <2>1. ~chunksOver
      BY <1>4 DEF DecodeChunkLeaf, Enter, Passes
    <2>2. /\ entries \in Nat /\ ClaimLeaf(entries)
          /\ findings' = findings \cup (blemish \cup OverMetadata(over)) \cup OverChunks(entries)
      BY <1>4, BTreesAssumption DEF DecodeChunkLeaf, Found
    <2> QED BY <2>1, <2>2, BlemishesOnly, LeafKeeps
  <1>5. ASSUME NEW v \in due, NEW over \in BOOLEAN, NEW blemish \in Blemishes,
               NEW entries, NEW level,
               \/ DecodeGroup(v, level, entries, over, blemish)
               \/ DecodeChunkNode(v, level, entries, over, blemish)
        PROVE  CeilingInv'
    <2>1. /\ UNCHANGED <<chunks, chunksOver, leaves>>
          /\ findings' = findings \cup (blemish \cup OverMetadata(over))
      BY <1>5 DEF DecodeGroup, DecodeChunkNode, Found
    <2> QED BY <2>1, BlemishesOnly, UnclaimedKeeps
  <1> QED BY <1>1, <1>2, <1>3, <1>4, <1>5, Zenon DEF Decode

LEMMA RefuseCeiling ==
  ASSUME CeilingInv, Refuse
  PROVE  CeilingInv'
  <1> PICK v \in due :
        \/ PassOver(v) \/ RefuseDepth(v) \/ SkipRepeated(v) \/ FindBad(v)
        \/ \E level \in Levels, over \in BOOLEAN : RefuseEntries(v, level, over)
    BY DEF Refuse
  <1>1. CASE PassOver(v)
    <2>1. UNCHANGED <<chunks, chunksOver, leaves>> /\ findings' = findings \cup {}
      BY <1>1 DEF PassOver, history, ceilings
    <2> QED BY <2>1, UnclaimedKeeps
  <1>2. CASE RefuseDepth(v)
    <2>1. UNCHANGED <<chunks, chunksOver, leaves>> /\ findings' = findings \cup {"resource"}
      BY <1>2 DEF RefuseDepth, history, ceilings, Found
    <2> QED BY <2>1, UnclaimedKeeps
  <1>3. CASE SkipRepeated(v)
    <2>1. PICK w \in {{}, {"corrupt"}} : findings' = findings \cup w
      BY <1>3 DEF SkipRepeated, Found
    <2>2. UNCHANGED <<chunks, chunksOver, leaves>>
      BY <1>3 DEF SkipRepeated, history, ceilings
    <2> QED BY <2>1, <2>2, UnclaimedKeeps
  <1>4. CASE FindBad(v)
    <2>1. UNCHANGED <<chunks, chunksOver, leaves>> /\ findings' = findings \cup {"corrupt"}
      BY <1>4 DEF FindBad, ceilings, Found
    <2> QED BY <2>1, UnclaimedKeeps
  <1>5. ASSUME NEW level \in Levels, NEW over \in BOOLEAN, RefuseEntries(v, level, over)
        PROVE  CeilingInv'
    <2>1. /\ UNCHANGED <<chunks, chunksOver, leaves>>
          /\ findings' = findings \cup ({"corrupt"} \cup OverMetadata(over))
      BY <1>5 DEF RefuseEntries, Found
    <2>2. {"corrupt"} \in Blemishes
      BY DEF Blemishes
    <2> QED BY <2>1, <2>2, BlemishesOnly, UnclaimedKeeps
  <1> QED BY <1>1, <1>2, <1>3, <1>4, <1>5

LEMMA CeilingStep == CeilingInv /\ [Next]_vars => CeilingInv'
  <1> SUFFICES ASSUME CeilingInv, [Next]_vars PROVE CeilingInv'
    OBVIOUS
  <1>1. CASE BeginAnalysis
    <2>1. /\ chunks' = 0 /\ counted' = 0 /\ held' = 0 /\ inspected' = 0
          /\ findings' = {} /\ chunksOver' = FALSE /\ MaxChunks \in Nat
      BY <1>1, BTreesAssumption DEF BeginAnalysis
    <2>2. /\ chunks' \in Nat /\ counted' \in Nat /\ held' \in Nat /\ inspected' \in Nat
          /\ ~(counted' > MaxChunks) /\ inspected' <= chunks' /\ chunks' = counted'
          /\ inspected' = held' /\ "chunks" \notin findings'
      BY <2>1
    <2>3. chunksOver' \in BOOLEAN /\ ~chunksOver'
      BY <2>1
    <2> QED BY <2>2, <2>3, Zenon DEF CeilingInv
  <1>2. CASE BeginTree
    BY <1>2, BeginCeiling
  <1>3. ASSUME NEW n \in 1..MaxTotal, ClaimChunks(n)
        PROVE  CeilingInv'
    <2>1. n \in Nat /\ CountChunks(n) /\ UNCHANGED <<held, inspected>>
      BY <1>3, BTreesAssumption DEF ClaimChunks
    <2>2. findings' = findings \cup {} \cup OverChunks(n)
      BY <1>3 DEF ClaimChunks, Found
    <2> QED BY <2>1, <2>2, ClaimKeeps
  <1>4. CASE Decode
    BY <1>4, DecodeCeiling
  <1>5. CASE Refuse
    BY <1>5, RefuseCeiling
  <1>6. ASSUME NEW n \in Nodes, NEW nrec \in 0..MaxRecords, ReadChild(n, nrec)
        PROVE  CeilingInv'
    <2>1. UNCHANGED <<chunks, chunksOver, leaves>> /\ findings' = findings \cup {}
      BY <1>6 DEF ReadChild, ceilings
    <2> QED BY <2>1, UnclaimedKeeps
  <1>7. CASE ReadUndefined \/ ReadOutside
    <2>1. PICK w \in {{}, {"corrupt"}} : findings' = findings \cup w
      BY <1>7 DEF ReadUndefined, ReadOutside, Found
    <2>2. UNCHANGED <<chunks, chunksOver, leaves>>
      BY <1>7 DEF ReadUndefined, ReadOutside, ceilings
    <2> QED BY <2>1, <2>2, UnclaimedKeeps
  <1>8. CASE Leave \/ EndTree
    <2>1. PICK w \in {{}, {"corrupt"}} : findings' = findings \cup w
      BY <1>8 DEF Leave, EndTree, Found
    <2>2. UNCHANGED <<chunks, chunksOver, leaves>>
      BY <1>8 DEF Leave, EndTree, ceilings
    <2> QED BY <2>1, <2>2, UnclaimedKeeps
  <1>9. CASE UNCHANGED vars
    <2>1. UNCHANGED <<chunks, chunksOver, leaves>> /\ findings' = findings \cup {}
      BY <1>9 DEF vars, history, ceilings
    <2> QED BY <2>1, UnclaimedKeeps
  <1> QED
    BY <1>1, <1>2, <1>3, <1>4, <1>5, <1>6, <1>7, <1>8, <1>9 DEF Next, ReadPointer, Stop

\* The chunk count is exact up to the ceiling, over all indexes of a file and in
\* whatever order they are walked; passing it is reported and reaching it is not;
\* the entries looked at fit under it, and none is left out while it holds.
THEOREM CeilingExactCorrect == Spec => []CeilingExact
  <1>1. CeilingInv => CeilingExact
    <2> SUFFICES ASSUME CeilingInv PROVE CeilingExact
      OBVIOUS
    <2>1. /\ chunksOver \in BOOLEAN /\ (counted > MaxChunks) \in BOOLEAN
          /\ ("chunks" \in findings) \in BOOLEAN
      BY DEF CeilingInv
    <2>2. chunksOver = (counted > MaxChunks) /\ chunksOver = ("chunks" \in findings)
      BY <2>1 DEF CeilingInv
    <2>3. chunks = IF chunksOver THEN MaxChunks ELSE counted
      BY <2>1 DEF CeilingInv
    <2>4. inspected <= MaxChunks
      <3>1. inspected \in Nat /\ chunks \in Nat /\ counted \in Nat /\ MaxChunks \in Nat
            /\ inspected <= chunks
        BY BTreesAssumption DEF CeilingInv
      <3>2. chunks <= MaxChunks
        BY <3>1 DEF CeilingInv
      <3> QED BY <3>1, <3>2
    <2> QED BY <2>2, <2>3, <2>4 DEF CeilingInv, CeilingExact
  <1> QED BY CeilingInit, CeilingStep, <1>1, PTL DEF Spec

-----------------------------------------------------------------------------
(* What a step does to the walk, apart from how it comes about: the node    *)
(* due is dropped or taken, a node is named by a header or by a pointer, a  *)
(* pointer is passed by.                                                    *)

Judged(kind) == kind \in Engine \cup Names

IsVisit(v) == v = [node |-> v.node, kind |-> v.kind, level |-> v.level,
                   nrec |-> v.nrec, snod |-> v.snod]

\* A node is due only in a tree, and one at a time.
DueInv ==
  /\ Idle => stack = <<>> /\ due = {}
  /\ \A v, w \in due : v = w
  /\ \A v \in due : IsVisit(v) /\ v.kind = tree.kind /\ v.nrec \in Nat

\* No ceiling is exceeded in silence.
OverFound == (metaOver \/ chunksOver) => findings # {}

Known(p) ==
  \/ DecodedAs(p)
  \/ p.kind \notin Engine /\ \E q \in named : q # p /\ q.node = p.node /\ DecodedAs(q)

Growing == findings \subseteq findings'

\* The walker looks at the node and returns, without having read it as it was named.
Dropped(v) ==
  /\ due' = {} /\ Growing /\ total' \in Nat
  /\ UNCHANGED <<tree, stack, named, decoded, tally, verdict, unread>>
  /\ Judged(v.kind) => ~valid'
  /\ findings' # {} \/ (UNCHANGED visited /\ Known(As(v)))

\* The node is read.
Taken(v) ==
  /\ due' = {} /\ Growing
  /\ UNCHANGED <<tree, named, verdict, unread>>
  /\ UNCHANGED stack \/ v.level # 0 \/ v.kind \notin Engine
  /\ IF Judged(v.kind)
       THEN total' = total + v.nrec /\ Followed /\ (valid' <=> valid)
       ELSE UNCHANGED <<total, tally>>
  /\ \/ findings' # {}
     \/ decoded \subseteq decoded' /\ DecodedAs(As(v))' /\ Mark(v)

\* A tree is begun with its root.
Begun(v) ==
  /\ Idle /\ due' = {v} /\ Growing /\ total' \in Nat
  /\ IsVisit(v) /\ v.kind = tree'.kind /\ v.nrec \in Nat /\ tree'.kind # "none"
  /\ UNCHANGED <<stack, visited, decoded, unread>>
  /\ named' = named \cup {As(v)}
  /\ tally' = [NoTally EXCEPT !.claimed = v.nrec, !.named = 1]
  /\ verdict' = NoVerdict
  /\ Judged(v.kind) => total' = 0 /\ valid'
  /\ v.kind \in Engine /\ tree'.depth = 0 => v.level = 0 /\ v.nrec = tree'.header

\* A pointer of a node names another.
Pointed(v) ==
  /\ stack # <<>> /\ due = {} /\ due' = {v} /\ Growing
  /\ IsVisit(v) /\ v.kind = tree.kind /\ v.nrec \in Nat
  /\ UNCHANGED <<tree, visited, decoded, unread, verdict, total>> /\ (valid' <=> valid)
  /\ named' = named \cup {As(v)}
  /\ tally' = [tally EXCEPT !.claimed = @ + v.nrec, !.named = @ + 1]

\* A pointer names no node, or the walker returns from the innermost node.
PassedBy ==
  /\ stack # <<>> /\ due = {} /\ due' = {} /\ Growing
  /\ UNCHANGED <<tree, visited, named, decoded, verdict, total>>
  /\ \E s \in BOOLEAN : tally' = [tally EXCEPT !.short = s]
  /\ \/ UNCHANGED tally /\ (valid' <=> valid)
     \/ Judged(tree.kind) => ~valid' /\ (findings' # {} \/ tally'.short)
  /\ findings' # {} \/ (unread' <=> unread)

\* No tree is begun.
Rested ==
  /\ Idle /\ Growing /\ total' \in Nat
  /\ UNCHANGED <<tree, stack, due, visited, named, decoded, unread, tally>>
  /\ UNCHANGED verdict \/ verdict' = NoVerdict

Effect ==
  \/ \E v \in due : Dropped(v) \/ Taken(v)
  \/ \E v : Begun(v)
  \/ \E v : Pointed(v)
  \/ PassedBy \/ Rested \/ EndTree \/ BeginAnalysis

-----------------------------------------------------------------------------
(* The invariants of a walk.                                               *)

\* The totals of a walk that is still held for whole are those of the pointers that
\* were followed, and a walk is given up only for something found or left out.
Accounted(followed, recs) ==
  /\ valid => ~tally.short /\ followed = tally.named /\ recs = tally.claimed
  /\ followed <= tally.named
  /\ valid \/ findings # {} \/ tally.short \/ followed < tally.named

\* A leaf root is compared with its header before it is walked.
LeafRoot ==
  tree.kind \in Engine /\ tree.depth = 0 =>
    stack = <<>> /\ tally.claimed = tree.header /\ \A v \in due : v.level = 0

TallyInv ==
  /\ total \in Nat
  /\ tally \in [claimed : Nat, named : Nat, followed : Nat, short : BOOLEAN]
  /\ Judged(tree.kind) =>
       /\ due = {} => Accounted(tally.followed, total)
       /\ \A v \in due : Accounted(tally.followed + 1, total + v.nrec)
  /\ LeafRoot

\* While nothing was found: what is named was read or is due, and what is marked
\* was read as something that is named.
CleanInv ==
  findings = {} =>
    /\ ~unread
    /\ \A p \in named : Known(p) \/ \E v \in due : p = As(v)
    /\ \A n \in visited : \E q \in named : q.node = n /\ DecodedAs(q)
    /\ \A v \in due : As(v) \in named

-----------------------------------------------------------------------------
(* No ceiling is exceeded in silence.                                      *)

LEMMA OverInit == Init => OverFound
  BY Zenon DEF Init, OverFound

LEMMA OverKeeps ==
  ASSUME OverFound, CeilingInv', Growing, UNCHANGED metaOver
  PROVE  OverFound'
  <1>1. chunksOver' => findings' # {}
    BY DEF CeilingInv
  <1>2. findings # {} => findings' # {}
    BY DEF Growing
  <1> QED BY <1>1, <1>2, Zenon DEF OverFound

LEMMA AccountKeeps ==
  ASSUME OverFound, CeilingInv', NEW over, AccountMetadata(over),
         OverMetadata(over) \subseteq findings'
  PROVE  OverFound'
  <1>1. chunksOver' => findings' # {}
    BY DEF CeilingInv
  <1>2. over => OverMetadata(over) = {"resource"}
    BY DEF OverMetadata
  <1>3. metaOver' => findings' # {}
    BY <1>2, Zenon DEF AccountMetadata
  <1> QED BY <1>1, <1>3, Zenon DEF OverFound

LEMMA DecodeOver ==
  ASSUME OverFound, CeilingInv', Decode
  PROVE  OverFound'
  <1>1. ASSUME NEW v, NEW over, NEW blemish, NEW entries, NEW level,
               \/ DecodeSnod(v, over, blemish)
               \/ DecodeChunkLeaf(v, entries, over, blemish)
               \/ DecodeGroup(v, level, entries, over, blemish)
               \/ DecodeChunkNode(v, level, entries, over, blemish)
        PROVE  OverFound'
    <2>1. AccountMetadata(over) /\ OverMetadata(over) \subseteq findings'
      BY <1>1 DEF DecodeSnod, DecodeChunkLeaf, DecodeGroup, DecodeChunkNode, Found
    <2> QED BY <2>1, AccountKeeps
  <1>2. ASSUME NEW v, NEW over, NEW blemish, NEW sound, DecodeEngine(v, over, sound, blemish)
        PROVE  OverFound'
    <2>1. AccountMetadata(over) /\ OverMetadata(over) \subseteq findings'
      BY <1>2 DEF DecodeEngine, Found
    <2> QED BY <2>1, AccountKeeps
  <1>3. ASSUME NEW v, NEW blemish, DecodeName(v, blemish)
        PROVE  OverFound'
    BY <1>3, OverKeeps DEF DecodeName, Found, Growing, ceilings
  <1> QED BY <1>1, <1>2, <1>3, Zenon DEF Decode

LEMMA RefuseOver ==
  ASSUME OverFound, CeilingInv', Refuse
  PROVE  OverFound'
  <1> PICK v \in due :
        \/ PassOver(v) \/ RefuseDepth(v) \/ SkipRepeated(v) \/ FindBad(v)
        \/ \E level \in Levels, over \in BOOLEAN : RefuseEntries(v, level, over)
    BY DEF Refuse
  <1>1. CASE PassOver(v) \/ RefuseDepth(v) \/ SkipRepeated(v) \/ FindBad(v)
    <2>1. UNCHANGED metaOver /\ Growing
      BY <1>1 DEF PassOver, RefuseDepth, SkipRepeated, FindBad, ceilings, Found, Growing
    <2> QED BY <2>1, OverKeeps
  <1>2. ASSUME NEW level, NEW over, RefuseEntries(v, level, over)
        PROVE  OverFound'
    <2>1. AccountMetadata(over) /\ OverMetadata(over) \subseteq findings'
      BY <1>2 DEF RefuseEntries, Found
    <2> QED BY <2>1, AccountKeeps
  <1> QED BY <1>1, <1>2

\* The disjuncts of BeginTree.
LEMMA BeginCases ==
  ASSUME BeginTree
  PROVE  \E kind \in Kinds :
           \/ kind \in V1 /\ \E n \in Nodes : BeginV1(kind, n)
           \/ \E depth \in Levels, nroot \in 0..MaxRecords, header \in 0..MaxTotal,
                 root \in Nodes \cup {Undefined, Outside}, over \in BOOLEAN :
                \/ kind \in Engine /\ BeginEngine(kind, root, depth, nroot, header, over)
                \/ kind \in Names /\ BeginNames(kind, root, depth, nroot, header)
  <1>1. PICK kind \in Kinds :
          \/ kind \in V1 /\ \E n \in Nodes : BeginV1(kind, n)
          \/ \E depth \in Levels, nroot \in 0..MaxRecords, header \in 0..MaxTotal :
               \/ kind \in Engine /\ \E root \in Nodes \cup {Undefined, Outside}, over \in BOOLEAN :
                    BeginEngine(kind, root, depth, nroot, header, over)
               \/ kind \in Names /\ \E root \in Nodes \cup {Outside} :
                    BeginNames(kind, root, depth, nroot, header)
    BY Zenon DEF BeginTree
  <1>2. Nodes \cup {Outside} \subseteq Nodes \cup {Undefined, Outside} /\ TRUE \in BOOLEAN
    OBVIOUS
  <1>3. CASE \E n \in Nodes : BeginV1(kind, n)
    BY <1>1, <1>3, Zenon
  <1>4. ASSUME NEW depth \in Levels, NEW nroot \in 0..MaxRecords, NEW header \in 0..MaxTotal,
               \/ kind \in Engine /\ \E root \in Nodes \cup {Undefined, Outside}, over \in BOOLEAN :
                    BeginEngine(kind, root, depth, nroot, header, over)
               \/ kind \in Names /\ \E root \in Nodes \cup {Outside} :
                    BeginNames(kind, root, depth, nroot, header)
        PROVE  \E root \in Nodes \cup {Undefined, Outside}, over \in BOOLEAN :
                \/ kind \in Engine /\ BeginEngine(kind, root, depth, nroot, header, over)
                \/ kind \in Names /\ BeginNames(kind, root, depth, nroot, header)
    BY <1>2, <1>4
  <1> QED BY <1>1, <1>3, <1>4, Zenon

LEMMA OverStep == OverFound /\ CeilingInv' /\ [Next]_vars => OverFound'
  <1> SUFFICES ASSUME OverFound, CeilingInv', [Next]_vars PROVE OverFound'
    OBVIOUS
  <1>1. CASE BeginAnalysis
    BY <1>1, Zenon DEF BeginAnalysis, OverFound
  <1>2. CASE BeginTree
    <2>1. ASSUME NEW kind, NEW n, BeginV1(kind, n)
          PROVE  OverFound'
      BY <2>1, OverKeeps DEF BeginV1, ceilings, Growing
    <2>2. ASSUME NEW kind, NEW root, NEW depth, NEW nroot, NEW header, NEW over,
                 BeginEngine(kind, root, depth, nroot, header, over)
          PROVE  OverFound'
      <3>1. AccountMetadata(over)
        BY <2>2, Zenon DEF BeginEngine
      <3>2. OverMetadata(over) \subseteq findings'
        BY <2>2 DEF BeginEngine, Found
      <3> QED BY <3>1, <3>2, AccountKeeps
    <2>3. ASSUME NEW kind, NEW root, NEW depth, NEW nroot, NEW header,
                 BeginNames(kind, root, depth, nroot, header)
          PROVE  OverFound'
      <3>1. UNCHANGED metaOver /\ Growing
        BY <2>3 DEF BeginNames, Found, Growing, ceilings
      <3> QED BY <3>1, OverKeeps
    <2> QED BY <1>2, <2>1, <2>2, <2>3, BeginCases, Zenon
  <1>3. ASSUME NEW n \in 1..MaxTotal, ClaimChunks(n)
        PROVE  OverFound'
    BY <1>3, OverKeeps DEF ClaimChunks, Found, Growing
  <1>4. CASE Decode \/ Refuse
    BY <1>4, DecodeOver, RefuseOver
  <1>5. CASE ReadPointer \/ Leave \/ EndTree
    <2>1. UNCHANGED metaOver /\ Growing
      BY <1>5 DEF ReadPointer, ReadChild, ReadUndefined, ReadOutside, Leave, EndTree,
                  Found, Growing, ceilings
    <2> QED BY <2>1, OverKeeps
  <1>6. CASE UNCHANGED vars
    BY <1>6, OverKeeps DEF vars, history, ceilings, Growing
  <1> QED BY <1>1, <1>2, <1>3, <1>4, <1>5, <1>6 DEF Next, Stop

-----------------------------------------------------------------------------
(* Every step has one of the effects.                                      *)

WalkInv == DueInv /\ OverFound /\ TallyInv /\ CleanInv

\* The kinds of a walk.
LEMMA KindFacts ==
  ASSUME NEW kind
  PROVE  /\ kind \in V1 => ~Judged(kind)
         /\ kind \in V1 => kind \notin Engine /\ kind \notin Names
         /\ kind \in Names => kind \notin Engine
         /\ Judged(kind) => kind \in Engine \cup Names
         /\ Judged("none") = FALSE
         /\ kind = "group" \/ kind = "chunk" => kind \in V1
  BY DEF Judged, V1, Engine, Names

LEMMA BeginEffect ==
  ASSUME WalkInv, BeginTree
  PROVE  Effect
  <1>0. Idle => total \in Nat /\ due = {} /\ stack = <<>>
    BY DEF WalkInv, TallyInv, DueInv
  <1>1. ASSUME NEW kind \in Kinds, kind \in V1, NEW n \in Nodes, BeginV1(kind, n)
        PROVE  Effect
    <2> DEFINE v == [node |-> n, kind |-> kind, level |-> LevelUnknown, nrec |-> 0,
                     snod |-> FALSE]
    <2>1. tree' = [NoTree EXCEPT !.kind = kind] /\ tree'.kind = kind
      BY <1>1 DEF BeginV1, Begin, NoTree
    <2>2. Visit(n, LevelUnknown, 0) = v
      BY <2>1 DEF Visit
    <2>3. /\ Idle /\ due' = {v} /\ Growing /\ total' \in Nat /\ verdict' = NoVerdict
          /\ UNCHANGED <<stack, visited, decoded, unread>>
          /\ named' = named \cup {As(v)}
          /\ tally' = [NoTally EXCEPT !.claimed = v.nrec, !.named = 1]
      BY <1>0, <1>1, <2>2 DEF BeginV1, Begin, NextTree, Growing, counts
    <2>4. /\ IsVisit(v) /\ v.kind = tree'.kind /\ v.nrec \in Nat /\ tree'.kind # "none"
          /\ ~Judged(v.kind) /\ v.kind \notin Engine
      BY <1>1, <2>1 DEF IsVisit, V1, Judged, Engine, Names
    <2> HIDE DEF v
    <2>5. Begun(v)
      BY <2>3, <2>4, Zenon DEF Begun
    <2> QED BY <2>5, Zenon DEF Effect
  <1>2. ASSUME NEW kind \in Kinds, NEW depth, NEW nroot \in 0..MaxRecords, NEW header, NEW root,
               kind \in Engine \/ kind \in Names, NextTree, Growing, ResetCount,
               kind \in Engine => (depth = 0 => header = nroot),
               Begin([kind |-> kind, depth |-> depth, header |-> header], root, depth, nroot)
        PROVE  Effect
    <2> DEFINE v == [node |-> root, kind |-> kind, level |-> depth, nrec |-> nroot,
                     snod |-> FALSE]
    <2>1. tree' = [kind |-> kind, depth |-> depth, header |-> header] /\ tree'.kind = kind
      BY <1>2 DEF Begin
    <2>2. Visit(root, depth, nroot) = v
      BY <2>1 DEF Visit
    <2>3. /\ Idle /\ due' = {v} /\ Growing /\ total' \in Nat /\ verdict' = NoVerdict
          /\ UNCHANGED <<stack, visited, decoded, unread>>
          /\ named' = named \cup {As(v)}
          /\ tally' = [NoTally EXCEPT !.claimed = v.nrec, !.named = 1]
      BY <1>2, <2>2 DEF Begin, NextTree, ResetCount
    <2>4. IsVisit(v) /\ v.kind = tree'.kind /\ v.nrec \in Nat /\ tree'.kind # "none"
      BY <1>2, <2>1, BTreesAssumption DEF IsVisit, Engine, Names
    <2>5. v.kind \in Engine /\ tree'.depth = 0 => v.level = 0 /\ v.nrec = tree'.header
      BY <1>2, <2>1
    <2>6. total' = 0 /\ valid'
      BY <1>2, Zenon DEF ResetCount
    <2> HIDE DEF v
    <2>7. Begun(v)
      BY <2>3, <2>4, <2>5, <2>6, Zenon DEF Begun
    <2> QED BY <2>7, Zenon DEF Effect
  <1>3. ASSUME NEW kind \in Kinds, kind \in Engine, NEW depth, NEW nroot \in 0..MaxRecords,
               NEW header, NEW root \in Nodes \cup {Undefined, Outside}, NEW over,
               BeginEngine(kind, root, depth, nroot, header, over)
        PROVE  Effect
    <2> DEFINE differs == depth = 0 /\ header # nroot
               wrong == \/ root = Undefined /\ (nroot # 0 \/ header # 0)
                        \/ root = Outside
                        \/ root \in Nodes /\ differs
    <2>1. NextTree /\ Growing
      BY <1>3 DEF BeginEngine, Found, Growing
    <2>2. CASE over \/ wrong \/ root = Undefined
      <3>1. NotBegun
        BY <1>3, <2>2, Zenon DEF BeginEngine
      <3>2. Rested
        BY <1>0, <2>1, <3>1 DEF NotBegun, Rested, NextTree, counts
      <3> QED BY <3>2, Zenon DEF Effect
    <2>3. CASE ~(over \/ wrong \/ root = Undefined)
      <3>1. /\ ResetCount
            /\ Begin([kind |-> kind, depth |-> depth, header |-> header], root, depth, nroot)
        BY <1>3, <2>3, Zenon DEF BeginEngine
      <3>2. depth = 0 => header = nroot
        BY <2>3
      <3> HIDE DEF wrong
      <3> QED BY <1>2, <1>3, <2>1, <3>1, <3>2
    <2> QED BY <2>2, <2>3
  <1>4. ASSUME NEW kind \in Kinds, kind \in Names, NEW depth, NEW nroot \in 0..MaxRecords,
               NEW header, NEW root,
               BeginNames(kind, root, depth, nroot, header)
        PROVE  Effect
    <2>1. NextTree /\ ResetCount /\ Growing
      BY <1>4 DEF BeginNames, Found, Growing
    <2>2. CASE root = Outside
      <3>1. Rested
        BY <1>4, <2>1, <2>2 DEF BeginNames, Rested, NextTree, ResetCount
      <3> QED BY <3>1, Zenon DEF Effect
    <2>3. CASE root # Outside
      <3>1. Begin([kind |-> kind, depth |-> depth, header |-> header], root, depth, nroot)
        BY <1>4, <2>3 DEF BeginNames
      <3>2. kind \notin Engine
        BY <1>4 DEF Engine, Names
      <3> QED BY <1>2, <1>4, <2>1, <3>1, <3>2
    <2> QED BY <2>2, <2>3
  <1> QED BY <1>1, <1>3, <1>4, BeginCases, Zenon

\* A node is decoded as it was named.
LEMMA DecodedRight ==
  ASSUME NEW v, IsVisit(v), NEW level, v.level \in {LevelUnknown, level},
         Decoded([v EXCEPT !.level = level])
  PROVE  decoded \subseteq decoded' /\ DecodedAs(As(v))'
  <1> DEFINE d == [node |-> v.node, kind |-> v.kind, level |-> level, snod |-> v.snod]
  <1>1. As([v EXCEPT !.level = level]) = d
    BY DEF As, IsVisit
  <1>2. decoded' = decoded \cup {d}
    BY <1>1 DEF Decoded
  <1>3. [d EXCEPT !.level = 0] = [As(v) EXCEPT !.level = 0] /\ As(v).level \in {LevelUnknown, d.level}
    BY DEF As
  <1> HIDE DEF d
  <1> QED BY <1>2, <1>3 DEF DecodedAs

LEMMA DecodedSame ==
  ASSUME NEW v, Decoded(v)
  PROVE  decoded \subseteq decoded' /\ DecodedAs(As(v))'
  <1>1. decoded' = decoded \cup {As(v)}
    BY DEF Decoded
  <1>2. As(v).level \in {LevelUnknown, As(v).level}
    OBVIOUS
  <1> QED BY <1>1, <1>2 DEF DecodedAs

LEMMA DecodeEffect ==
  ASSUME WalkInv, Decode
  PROVE  Effect
  <1>0. \A v \in due : IsVisit(v) /\ v.kind = tree.kind /\ v.nrec \in Nat
    BY DEF WalkInv, DueInv
  <1>1. ASSUME NEW v \in due, v.kind \in V1, Enter(v), Growing, UNCHANGED tally,
               decoded \subseteq decoded', DecodedAs(As(v))'
        PROVE  Taken(v)
    <2>2. /\ due' = {} /\ UNCHANGED <<tree, named, verdict, unread>>
          /\ Mark(v) /\ UNCHANGED total
      BY <1>1 DEF Enter, CountRecords
    <2>3. ~Judged(v.kind) /\ v.kind \notin Engine
      BY <1>1, KindFacts
    <2> QED BY <1>1, <2>2, <2>3 DEF Taken
  <1>2. ASSUME NEW v \in due, NEW over \in BOOLEAN, NEW blemish \in Blemishes,
               DecodeSnod(v, over, blemish)
        PROVE  Taken(v)
    <2>1. v.kind = "group" /\ Enter(v) /\ Growing /\ UNCHANGED tally /\ Decoded(v)
      BY <1>2 DEF DecodeSnod, Found, Growing
    <2>2. decoded \subseteq decoded' /\ DecodedAs(As(v))'
      BY <2>1, DecodedSame
    <2>3. v.kind \in V1
      BY <2>1 DEF V1
    <2> QED BY <1>1, <2>1, <2>2, <2>3
  <1>3. ASSUME NEW v \in due, NEW over \in BOOLEAN, NEW blemish \in Blemishes,
               NEW entries, DecodeChunkLeaf(v, entries, over, blemish)
        PROVE  Taken(v)
    <2>1. /\ v.kind = "chunk" /\ Enter(v) /\ Growing /\ UNCHANGED tally
          /\ Decoded([v EXCEPT !.level = 0]) /\ v.level \in {LevelUnknown, 0}
      BY <1>3 DEF DecodeChunkLeaf, Found, Growing, LevelRight
    <2>2. decoded \subseteq decoded' /\ DecodedAs(As(v))'
      BY <1>0, <2>1, DecodedRight
    <2>3. v.kind \in V1
      BY <2>1 DEF V1
    <2> QED BY <1>1, <2>1, <2>2, <2>3
  <1>4. ASSUME NEW v \in due, NEW over \in BOOLEAN, NEW blemish \in Blemishes,
               NEW entries, NEW level,
               \/ DecodeGroup(v, level, entries, over, blemish)
               \/ DecodeChunkNode(v, level, entries, over, blemish)
        PROVE  Taken(v)
    <2>1. /\ v.kind = "chunk" \/ v.kind = "group"
          /\ Enter(v) /\ Growing /\ UNCHANGED tally
          /\ Decoded([v EXCEPT !.level = level]) /\ v.level \in {LevelUnknown, level}
      BY <1>4 DEF DecodeGroup, DecodeChunkNode, Found, Growing, LevelRight
    <2>2. decoded \subseteq decoded' /\ DecodedAs(As(v))'
      BY <1>0, <2>1, DecodedRight
    <2>3. v.kind \in V1
      BY <2>1 DEF V1
    <2> QED BY <1>1, <2>1, <2>2, <2>3
  <1>5. ASSUME NEW v \in due, NEW blemish \in Blemishes, DecodeName(v, blemish)
        PROVE  Taken(v)
    <2>1. /\ v.kind \in Names /\ Enter(v) /\ Growing /\ Decoded(v) /\ Followed
          /\ UNCHANGED valid
      BY <1>5 DEF DecodeName, Found, Growing
    <2>2. Judged(v.kind) /\ v.kind \notin V1 /\ v.kind \notin Engine
      BY <2>1 DEF Judged, V1, Names, Engine
    <2>3. /\ due' = {} /\ UNCHANGED <<tree, named, verdict, unread>>
          /\ Mark(v) /\ total' = total + v.nrec
      BY <2>1, <2>2 DEF Enter, CountRecords
    <2>4. decoded \subseteq decoded' /\ DecodedAs(As(v))'
      BY <2>1, DecodedSame
    <2> QED BY <2>1, <2>2, <2>3, <2>4 DEF Taken
  <1>6. ASSUME NEW v \in due, NEW over \in BOOLEAN, NEW blemish \in Blemishes,
               NEW sound \in BOOLEAN, DecodeEngine(v, over, sound, blemish)
        PROVE  Dropped(v) \/ Taken(v)
    <2> DEFINE givenUp == over \/ ~sound \/ (v.kind = "chunk2" /\ v.level > 0 /\ chunksOver)
    <2>1. v.kind \in Engine /\ Enter(v) /\ Growing
      BY <1>6 DEF DecodeEngine, Found, Growing
    <2>2. Judged(v.kind) /\ v.kind \notin V1
      BY <2>1 DEF Judged, V1, Engine
    <2>3. /\ due' = {} /\ UNCHANGED <<tree, named, verdict, unread>>
          /\ Mark(v) /\ total' = total + v.nrec
      BY <2>1, <2>2 DEF Enter, CountRecords
    <2>4. CASE givenUp
      <3>1. UNCHANGED <<decoded, tally, stack>> /\ ~valid'
        BY <1>6, <2>4, Zenon DEF DecodeEngine
      <3>2. total' \in Nat
        BY <1>0, <2>3 DEF WalkInv, TallyInv
      <3>3. findings' # {}
        <4>1. CASE over
          BY <1>6, <4>1 DEF DecodeEngine, Found, OverMetadata
        <4>2. CASE ~over /\ ~sound
          BY <1>6, <4>2 DEF DecodeEngine, Found
        <4>3. CASE chunksOver
          <5>1. findings # {}
            BY <4>3, Zenon DEF WalkInv, OverFound
          <5> QED BY <2>1, <5>1 DEF Growing
        <4> QED BY <2>4, <4>1, <4>2, <4>3
      <3> QED BY <2>1, <2>3, <3>1, <3>2, <3>3, Zenon DEF Dropped
    <2>5. CASE ~givenUp
      <3>1. Decoded(v) /\ Followed
        BY <1>6, <2>5, Zenon DEF DecodeEngine
      <3>2. valid' <=> valid
        BY <1>6, <2>5, Zenon DEF DecodeEngine
      <3>3. UNCHANGED stack \/ v.level # 0
        BY <1>6, <2>5, Zenon DEF DecodeEngine
      <3>4. decoded \subseteq decoded' /\ DecodedAs(As(v))'
        BY <3>1, DecodedSame
      <3> QED BY <2>1, <2>2, <2>3, <3>1, <3>2, <3>3, <3>4, Zenon DEF Taken
    <2> QED BY <2>4, <2>5
  <1>7. \E v \in due : Dropped(v) \/ Taken(v)
    BY <1>2, <1>3, <1>4, <1>5, <1>6, Zenon DEF Decode
  <1> QED BY <1>7, Zenon DEF Effect

LEMMA RefuseEffect ==
  ASSUME WalkInv, Refuse
  PROVE  Effect
  <1> PICK v \in due :
        \/ PassOver(v) \/ RefuseDepth(v) \/ SkipRepeated(v) \/ FindBad(v)
        \/ \E level \in Levels, over \in BOOLEAN : RefuseEntries(v, level, over)
    BY DEF Refuse
  <1>0. v.nrec \in Nat /\ total \in Nat
    BY DEF WalkInv, DueInv, TallyInv
  <1>1. CASE PassOver(v)
    <2>1. /\ due' = {} /\ total' \in Nat /\ findings' = findings
          /\ UNCHANGED <<tree, stack, visited, named, decoded, tally, verdict, unread>>
      BY <1>0, <1>1 DEF PassOver, history
    <2>2. chunksOver \/ metaOver
      BY <1>1, Zenon DEF PassOver, Passes
    <2>3. findings' # {}
      BY <2>1, <2>2, Zenon DEF WalkInv, OverFound
    <2>4. Judged(v.kind) => v.kind \in Engine
      <3>1. v.kind \in Engine \/ v.kind = "chunk"
        BY <1>1, Zenon DEF PassOver, Passes
      <3> QED BY <3>1, KindFacts DEF V1
    <2>5. Judged(v.kind) => ~valid'
      BY <1>1, <2>4, Zenon DEF PassOver
    <2> QED BY <2>1, <2>3, <2>5 DEF Dropped, Growing, Effect
  <1>2. CASE RefuseDepth(v)
    <2>1. /\ due' = {} /\ findings' = findings \cup {"resource"}
          /\ UNCHANGED <<tree, stack, named, decoded, tally, verdict, unread>>
      BY <1>2 DEF RefuseDepth, history, Found
    <2>2. total' \in Nat
      BY <1>0, <1>2 DEF RefuseDepth, CountRecords
    <2>3. Judged(v.kind) => ~valid'
      BY <1>2, KindFacts, Zenon DEF RefuseDepth
    <2> QED BY <2>1, <2>2, <2>3 DEF Dropped, Growing, Effect
  <1>3. CASE SkipRepeated(v)
    <2>1. /\ due' = {} /\ findings \subseteq findings' /\ total' \in Nat
          /\ UNCHANGED <<tree, stack, visited, named, decoded, tally, verdict, unread>>
      BY <1>0, <1>3 DEF SkipRepeated, history, Found
    <2>2. Judged(v.kind) => ~valid'
      BY <1>3, KindFacts, Zenon DEF SkipRepeated
    <2>3. findings' # {} \/ Known(As(v))
      <3>1. CASE v.kind \in Engine
        BY <1>3, <3>1 DEF SkipRepeated, Found
      <3>2. CASE findings # {}
        BY <2>1, <3>2
      <3>3. CASE v.kind \notin Engine /\ findings = {}
        <4>1. PICK q \in named : q.node = v.node /\ DecodedAs(q)
          BY <1>3, <3>3 DEF SkipRepeated, WalkInv, CleanInv
        <4>2. As(v).node = v.node /\ As(v).kind = v.kind
          BY DEF As
        <4> QED BY <3>3, <4>1, <4>2 DEF Known
      <3> QED BY <3>1, <3>2, <3>3
    <2> QED BY <2>1, <2>2, <2>3, Zenon DEF Dropped, Growing, Effect
  <1>4. ASSUME Enter(v), "corrupt" \in findings', Growing, ~Judged(v.kind) \/ ~valid',
               UNCHANGED <<stack, decoded, tally>>
        PROVE  Effect
    <2>1. due' = {} /\ UNCHANGED <<tree, named, verdict, unread>>
      BY <1>4 DEF Enter
    <2>2. total' \in Nat
      BY <1>0, <1>4 DEF Enter, CountRecords
    <2>3. findings' # {}
      BY <1>4
    <2> QED BY <1>4, <2>1, <2>2, <2>3 DEF Dropped, Effect
  <1>5. CASE FindBad(v)
    <2>0. Enter(v) /\ "corrupt" \in findings' /\ Growing /\ UNCHANGED <<stack, decoded>>
      BY <1>5 DEF FindBad, Found, Growing
    <2>1. CASE v.kind \in Names /\ v.level = 0
      <3>1. Followed /\ (valid' <=> valid)
        BY <1>5, <2>1, Zenon DEF FindBad
      <3>2. Judged(v.kind) /\ v.kind \notin V1
        BY <2>1 DEF Judged, Names, V1
      <3>3. due' = {} /\ UNCHANGED <<tree, named, verdict, unread>> /\ total' = total + v.nrec
        BY <2>0, <3>2 DEF Enter, CountRecords
      <3>4. findings' # {}
        BY <2>0
      <3> QED BY <2>0, <3>1, <3>2, <3>3, <3>4, Zenon DEF Taken, Effect
    <2>2. CASE ~(v.kind \in Names /\ v.level = 0)
      <3>1. UNCHANGED tally
        BY <1>5, <2>2 DEF FindBad
      <3>2. ~Judged(v.kind) \/ ~valid'
        BY <1>5, <2>2, KindFacts, Zenon DEF FindBad
      <3> QED BY <1>4, <2>0, <3>1, <3>2
    <2> QED BY <2>1, <2>2
  <1>6. ASSUME NEW level, NEW over, RefuseEntries(v, level, over)
        PROVE  Effect
    <2>1. /\ Enter(v) /\ Growing /\ "corrupt" \in findings'
          /\ UNCHANGED <<stack, decoded, tally>> /\ v.kind = "chunk"
      BY <1>6 DEF RefuseEntries, Found, Growing
    <2>2. ~Judged(v.kind)
      BY <2>1 DEF Judged, Engine, Names
    <2> QED BY <1>4, <2>1, <2>2
  <1> QED BY <1>1, <1>2, <1>3, <1>5, <1>6

LEMMA PointerEffect ==
  ASSUME WalkInv, ReadPointer
  PROVE  Effect
  <1>0. tally \in [claimed : Nat, named : Nat, followed : Nat, short : BOOLEAN]
    BY DEF WalkInv, TallyInv
  <1>1. ASSUME NEW n \in Nodes, NEW nrec \in 0..MaxRecords, ReadChild(n, nrec)
        PROVE  Effect
    <2> DEFINE snod == tree.kind = "group" /\ Top.level = 0
               v == [node |-> n, kind |-> tree.kind, snod |-> snod, nrec |-> nrec,
                     level |-> IF snod THEN 0 ELSE Top.level - 1]
    <2>1. /\ stack # <<>> /\ due = {} /\ due' = {v}
          /\ UNCHANGED <<tree, visited, decoded, unread, verdict, total, findings>>
          /\ (valid' <=> valid)
          /\ named' = named \cup {As(v)}
          /\ tally' = [tally EXCEPT !.claimed = @ + nrec, !.named = @ + 1]
      BY <1>1, Zenon DEF ReadChild, NextPointer, counts
    <2>2. /\ IsVisit(v) /\ v.kind = tree.kind /\ v.nrec = nrec /\ nrec \in Nat
      BY BTreesAssumption DEF IsVisit
    <2> HIDE DEF v, snod
    <2>3. Growing
      BY <2>1 DEF Growing
    <2>4. Pointed(v)
      BY <2>1, <2>2, <2>3, Zenon DEF Pointed
    <2> QED BY <2>4, Zenon DEF Effect
  <1>2. CASE ReadUndefined
    <2>1. /\ stack # <<>> /\ due = {} /\ due' = {} /\ Growing
          /\ UNCHANGED <<tree, visited, named, decoded, verdict, total, unread>>
      BY <1>2 DEF ReadUndefined, NextPointer, Found, Growing
    <2>2. CASE tree.kind \in V1 \cup {"attrs"}
      <3>1. (valid' <=> valid)
        BY <1>2, <2>2, Zenon DEF ReadUndefined
      <3>2. tally' = tally
        <4>1. (tally.short \/ FALSE) = tally.short
          BY <1>0
        <4>2. tally' = [tally EXCEPT !.short = tally.short \/ FALSE]
          <5>1. (~(tree.kind \in V1 \cup {"attrs"})) = FALSE
            BY <2>2
          <5> QED BY <1>2, <5>1 DEF ReadUndefined
        <4> QED BY <1>0, <4>1, <4>2
      <3>3. tally' = [tally EXCEPT !.short = tally.short] /\ tally.short \in BOOLEAN
        BY <1>0, <3>2
      <3>4. PassedBy
        BY <2>1, <3>1, <3>2, <3>3, Zenon DEF PassedBy
      <3> QED BY <3>4, Zenon DEF Effect
    <2>3. CASE tree.kind \notin V1 \cup {"attrs"}
      <3>1. ~valid'
        BY <1>2, <2>3, Zenon DEF ReadUndefined
      <3>2. tally' = [tally EXCEPT !.short = TRUE]
        <4>1. (tally.short \/ ~(tree.kind \in V1 \cup {"attrs"})) = TRUE
          BY <2>3
        <4> QED BY <1>2, <4>1 DEF ReadUndefined
      <3>3. tally'.short
        BY <1>0, <3>2
      <3>4. PassedBy
        BY <2>1, <3>1, <3>2, <3>3, Zenon DEF PassedBy
      <3> QED BY <3>4, Zenon DEF Effect
    <2> QED BY <2>2, <2>3
  <1>3. CASE ReadOutside
    <2>1. /\ stack # <<>> /\ due = {} /\ due' = {} /\ Growing
          /\ UNCHANGED <<tree, visited, named, decoded, verdict, total, unread>>
          /\ tally' = [tally EXCEPT !.short = TRUE]
      BY <1>3 DEF ReadOutside, NextPointer, Found, Growing
    <2>2. Judged(tree.kind) => ~valid'
      BY <1>3, KindFacts, Zenon DEF ReadOutside
    <2>3. tally'.short
      BY <1>0, <2>1
    <2>4. PassedBy
      BY <2>1, <2>2, <2>3, Zenon DEF PassedBy
    <2> QED BY <2>4, Zenon DEF Effect
  <1> QED BY <1>1, <1>2, <1>3 DEF ReadPointer

LEMMA LeaveEffect ==
  ASSUME WalkInv, Leave
  PROVE  PassedBy
  <1>0. tally \in [claimed : Nat, named : Nat, followed : Nat, short : BOOLEAN]
    BY DEF WalkInv, TallyInv
  <1>1. /\ stack # <<>> /\ due = {} /\ due' = {} /\ UNCHANGED findings
        /\ UNCHANGED <<tree, visited, named, decoded, verdict, total, tally>>
    BY DEF Leave
  <1>2. tally' = [tally EXCEPT !.short = tally.short] /\ tally.short \in BOOLEAN
    BY <1>0, <1>1
  <1>3. CASE Top.left = 0
    <2>1. valid' <=> valid
      BY <1>3, Zenon DEF Leave
    <2>2. unread' <=> unread
      <3>1. ~(Top.left > 0)
        BY <1>3
      <3> QED BY <3>1, Zenon DEF Leave
    <2>3. Growing
      BY <1>1 DEF Growing
    <2> QED BY <1>1, <1>2, <2>1, <2>2, <2>3, Zenon DEF PassedBy
  <1>4. CASE Top.left # 0
    <2>1. Stopped
      BY <1>4, Zenon DEF Leave
    <2>2. findings' # {}
      BY <1>1, <2>1, Zenon DEF Stopped, WalkInv, OverFound
    <2>3. Judged(tree.kind) => ~valid'
      BY <1>4, KindFacts, Zenon DEF Leave
    <2>4. Growing
      BY <1>1 DEF Growing
    <2> QED BY <1>1, <1>2, <2>2, <2>3, <2>4, Zenon DEF PassedBy
  <1> QED BY <1>3, <1>4

LEMMA StepEffect ==
  ASSUME WalkInv, Next
  PROVE  Effect \/ UNCHANGED vars
  <1>1. ASSUME NEW n \in 1..MaxTotal, ClaimChunks(n)
        PROVE  Effect
    <2>1. total \in Nat
      BY DEF WalkInv, TallyInv
    <2>2. Rested
      BY <1>1, <2>1 DEF ClaimChunks, Found, Growing, Rested, counts
    <2> QED BY <2>2, Zenon DEF Effect
  <1>2. CASE Leave
    BY <1>2, LeaveEffect, Zenon DEF Effect
  <1>3. CASE EndTree \/ BeginAnalysis
    BY <1>3, Zenon DEF Effect
  <1> QED BY <1>1, <1>2, <1>3, BeginEffect, DecodeEffect, RefuseEffect, PointerEffect, Zenon DEF Next, Stop

-----------------------------------------------------------------------------
(* What is due.                                                            *)

LEMMA DueStep ==
  ASSUME WalkInv, Effect
  PROVE  DueInv'
  <1>0. /\ Idle => stack = <<>> /\ due = {}
        /\ \A v, w \in due : v = w
        /\ \A v \in due : IsVisit(v) /\ v.kind = tree.kind /\ v.nrec \in Nat
    BY DEF WalkInv, DueInv
  <1>1. ASSUME NEW v \in due, Dropped(v) \/ Taken(v)
        PROVE  DueInv'
    <2>1. due' = {} /\ UNCHANGED tree
      BY <1>1 DEF Dropped, Taken
    <2>2. ~Idle'
      BY <1>0, <2>1 DEF Idle
    <2> QED BY <2>1, <2>2 DEF DueInv
  <1>2. ASSUME NEW v, Begun(v)
        PROVE  DueInv'
    <2>1. due' = {v} /\ IsVisit(v) /\ v.kind = tree'.kind /\ v.nrec \in Nat /\ ~Idle'
      BY <1>2 DEF Begun, Idle, NoTree
    <2> QED BY <2>1, Zenon DEF DueInv
  <1>3. ASSUME NEW v, Pointed(v)
        PROVE  DueInv'
    <2>1. due' = {v} /\ IsVisit(v) /\ v.kind = tree'.kind /\ v.nrec \in Nat /\ ~Idle'
      BY <1>0, <1>3 DEF Pointed, Idle
    <2> QED BY <2>1, Zenon DEF DueInv
  <1>4. CASE PassedBy
    BY <1>0, <1>4 DEF PassedBy, DueInv, Idle
  <1>5. CASE Rested
    BY <1>0, <1>5 DEF Rested, DueInv, Idle
  <1>6. CASE EndTree \/ BeginAnalysis
    <2>1. stack' = <<>> /\ due' = {}
      BY <1>6 DEF EndTree, BeginAnalysis
    <2> QED BY <2>1 DEF DueInv
  <1> QED BY <1>1, <1>2, <1>3, <1>4, <1>5, <1>6, Zenon DEF Effect

-----------------------------------------------------------------------------
(* The account of a tree.                                                  *)

LEMMA TallyStep ==
  ASSUME WalkInv, Effect
  PROVE  TallyInv'
  <1> DEFINE Tallies == [claimed : Nat, named : Nat, followed : Nat, short : BOOLEAN]
  <1>0. /\ total \in Nat /\ tally \in Tallies /\ LeafRoot
        /\ Judged(tree.kind) /\ due = {} => Accounted(tally.followed, total)
        /\ Judged(tree.kind) => \A v \in due : Accounted(tally.followed + 1, total + v.nrec)
    BY DEF WalkInv, TallyInv
  <1>1. \A v \in due : v.kind = tree.kind /\ v.nrec \in Nat
    BY DEF WalkInv, DueInv
  <1>2. ASSUME NEW v \in due, Dropped(v)
        PROVE  TallyInv'
    <2>1. /\ due' = {} /\ total' \in Nat /\ Growing
          /\ UNCHANGED <<tree, stack, tally>>
      BY <1>2 DEF Dropped
    <2>2. LeafRoot'
      BY <1>0, <2>1 DEF LeafRoot
    <2>3. ASSUME Judged(tree.kind)
          PROVE  Accounted(tally.followed, total)'
      <3>1. ~valid'
        BY <1>1, <1>2, <2>3 DEF Dropped
      <3>2. tally.followed < tally.named
        BY <1>0, <2>3 DEF Accounted
      <3>3. tally'.followed < tally'.named /\ tally'.followed <= tally'.named
        BY <1>0, <2>1, <3>2
      <3> QED BY <3>1, <3>3, Zenon DEF Accounted
    <2> QED BY <1>0, <2>1, <2>2, <2>3 DEF TallyInv
  <1>3. ASSUME NEW v \in due, Taken(v)
        PROVE  TallyInv'
    <2>1. due' = {} /\ Growing /\ UNCHANGED tree
      BY <1>3 DEF Taken
    <2>2. CASE Judged(v.kind)
      <3>1. total' = total + v.nrec /\ Followed /\ (valid' <=> valid)
        BY <1>3, <2>2, Zenon DEF Taken
      <3>2. /\ total' \in Nat /\ tally' \in Tallies /\ tally'.followed = tally.followed + 1
            /\ tally'.short = tally.short /\ tally'.named = tally.named
            /\ tally'.claimed = tally.claimed
        BY <1>0, <1>1, <3>1 DEF Followed
      <3>3. Accounted(tally.followed + 1, total + v.nrec)
        BY <1>0, <1>1, <2>2
      <3>4. Accounted(tally.followed, total)'
        <4>1. findings # {} => findings' # {}
          BY <2>1 DEF Growing
        <4> QED BY <3>1, <3>2, <3>3, <4>1, Zenon DEF Accounted
      <3>5. LeafRoot'
        <4>1. tree.kind \in Engine /\ tree.depth = 0 =>
                stack = <<>> /\ tally.claimed = tree.header /\ v.level = 0
          BY <1>0 DEF LeafRoot
        <4>2. tree.kind \in Engine /\ tree.depth = 0 => stack' = stack
          BY <1>1, <1>3, <4>1 DEF Taken
        <4> QED BY <2>1, <3>2, <4>1, <4>2 DEF LeafRoot
      <3> QED BY <2>1, <3>2, <3>4, <3>5 DEF TallyInv
    <2>3. CASE ~Judged(v.kind)
      <3>1. UNCHANGED <<total, tally>> /\ ~Judged(tree'.kind)
        BY <1>1, <1>3, <2>1, <2>3 DEF Taken
      <3>2. LeafRoot'
        BY <3>1 DEF LeafRoot, Judged
      <3> QED BY <1>0, <3>1, <3>2 DEF TallyInv
    <2> QED BY <2>2, <2>3
  <1>4. ASSUME NEW v, Begun(v)
        PROVE  TallyInv'
    <2>1. /\ due' = {v} /\ total' \in Nat /\ v.kind = tree'.kind /\ v.nrec \in Nat
          /\ tally' = [NoTally EXCEPT !.claimed = v.nrec, !.named = 1]
          /\ Judged(v.kind) => total' = 0
          /\ v.kind \in Engine /\ tree'.depth = 0 => v.level = 0 /\ v.nrec = tree'.header
          /\ Idle /\ UNCHANGED stack
      BY <1>4 DEF Begun
    <2>2. Judged(v.kind) => valid'
      BY <1>4, Zenon DEF Begun
    <2>3. /\ tally' \in Tallies /\ tally'.claimed = v.nrec /\ tally'.named = 1
          /\ tally'.followed = 0 /\ tally'.short = FALSE
      BY <2>1 DEF NoTally
    <2>4. stack' = <<>>
      BY <2>1 DEF WalkInv, DueInv
    <2>5. LeafRoot'
      BY <2>1, <2>3, <2>4 DEF LeafRoot
    <2>6. ASSUME Judged(tree'.kind)
          PROVE  Accounted(tally.followed + 1, total + v.nrec)'
      <3>1. /\ ~tally'.short /\ tally'.followed + 1 = tally'.named
            /\ total' + v.nrec = tally'.claimed /\ tally'.followed + 1 <= tally'.named
        BY <2>1, <2>3, <2>6
      <3> QED BY <2>1, <2>2, <2>6, <3>1, Zenon DEF Accounted
    <2> QED BY <2>1, <2>3, <2>5, <2>6 DEF TallyInv
  <1>5. ASSUME NEW v, Pointed(v)
        PROVE  TallyInv'
    <2>1. /\ stack # <<>> /\ due = {} /\ due' = {v} /\ Growing /\ UNCHANGED <<tree, total>>
          /\ v.nrec \in Nat
          /\ tally' = [tally EXCEPT !.claimed = @ + v.nrec, !.named = @ + 1]
      BY <1>5 DEF Pointed
    <2>2. valid' <=> valid
      BY <1>5, Zenon DEF Pointed
    <2>3. /\ tally' \in Tallies /\ tally'.claimed = tally.claimed + v.nrec
          /\ tally'.named = tally.named + 1 /\ tally'.followed = tally.followed
          /\ tally'.short = tally.short
      <3>1. tally = [claimed |-> tally.claimed, named |-> tally.named,
                     followed |-> tally.followed, short |-> tally.short]
        BY <1>0
      <3>2. tally' = [claimed |-> tally.claimed + v.nrec, named |-> tally.named + 1,
                      followed |-> tally.followed, short |-> tally.short]
        BY <2>1, <3>1
      <3> QED BY <1>0, <2>1, <3>2
    <2>4. LeafRoot'
      BY <1>0, <2>1 DEF LeafRoot
    <2>5. ASSUME Judged(tree.kind)
          PROVE  Accounted(tally.followed + 1, total + v.nrec)'
      <3>1. Accounted(tally.followed, total)
        BY <1>0, <2>1, <2>5
      <3>2. /\ valid => /\ ~tally'.short /\ tally'.followed + 1 = tally'.named
                        /\ total' + v.nrec = tally'.claimed
            /\ tally'.followed + 1 <= tally'.named
            /\ tally.followed < tally.named => tally'.followed + 1 < tally'.named
        BY <1>0, <2>1, <2>3, <3>1 DEF Accounted
      <3>3. valid \/ findings # {} \/ tally'.short \/ tally'.followed + 1 < tally'.named
        BY <2>3, <3>1, <3>2, Zenon DEF Accounted
      <3>4. findings # {} => findings' # {}
        BY <2>1 DEF Growing
      <3> QED BY <2>2, <3>2, <3>3, <3>4, Zenon DEF Accounted
    <2> QED BY <1>0, <2>1, <2>3, <2>4, <2>5 DEF TallyInv
  <1>6. CASE PassedBy
    <2>1. /\ stack # <<>> /\ due = {} /\ due' = {} /\ Growing /\ UNCHANGED <<tree, total>>
      BY <1>6 DEF PassedBy
    <2>2. PICK s \in BOOLEAN : tally' = [tally EXCEPT !.short = s]
      BY <1>6 DEF PassedBy
    <2>3. /\ tally' \in Tallies /\ tally'.claimed = tally.claimed
          /\ tally'.named = tally.named /\ tally'.followed = tally.followed
      BY <1>0, <2>2
    <2>4. LeafRoot'
      BY <1>0, <2>1 DEF LeafRoot
    <2>5. ASSUME Judged(tree.kind)
          PROVE  Accounted(tally.followed, total)'
      <3>1. Accounted(tally.followed, total)
        BY <1>0, <2>1, <2>5
      <3>2. findings # {} => findings' # {}
        BY <2>1 DEF Growing
      <3>3. CASE UNCHANGED tally /\ (valid' <=> valid)
        BY <2>1, <3>1, <3>2, <3>3, Zenon DEF Accounted
      <3>4. CASE ~valid' /\ (findings' # {} \/ tally'.short)
        <4>1. tally'.followed <= tally'.named
          BY <2>3, <3>1 DEF Accounted
        <4> QED BY <3>4, <4>1, Zenon DEF Accounted
      <3> QED BY <1>6, <2>5, <3>3, <3>4, Zenon DEF PassedBy
    <2> QED BY <1>0, <2>1, <2>3, <2>4, <2>5 DEF TallyInv
  <1>7. CASE Rested
    <2>1. total' \in Nat /\ UNCHANGED <<tree, stack, due, tally>> /\ tree = NoTree
      BY <1>7 DEF Rested, Idle
    <2>2. ~Judged(tree'.kind) /\ LeafRoot'
      BY <2>1 DEF NoTree, Judged, Engine, Names, LeafRoot
    <2> QED BY <1>0, <2>1, <2>2 DEF TallyInv
  <1>8. CASE EndTree \/ BeginAnalysis
    <2>1. total' \in Nat /\ tree' = NoTree /\ tally' = NoTally
      BY <1>0, <1>8 DEF EndTree, BeginAnalysis, counts
    <2>2. ~Judged(tree'.kind) /\ LeafRoot' /\ tally' \in Tallies
      BY <2>1 DEF NoTree, Judged, Engine, Names, LeafRoot, NoTally
    <2> QED BY <2>1, <2>2 DEF TallyInv
  <1> QED BY <1>2, <1>3, <1>4, <1>5, <1>6, <1>7, <1>8, Zenon DEF Effect

-----------------------------------------------------------------------------
(* Judging the count of a header.                                          *)

LEMMA JudgeEnd ==
  ASSUME WalkInv, EndTree
  PROVE  CountJudged'
  <1>1. due = {} /\ tree # NoTree /\ stack = <<>>
    BY DEF EndTree, Idle
  <1>2. /\ total \in Nat
        /\ tally \in [claimed : Nat, named : Nat, followed : Nat, short : BOOLEAN]
        /\ Judged(tree.kind) => Accounted(tally.followed, total)
        /\ tree.kind \in Engine /\ tree.depth = 0 => tally.claimed = tree.header
    BY <1>1 DEF WalkInv, TallyInv, LeafRoot
  <1>3. /\ verdict'.tree = tree /\ verdict'.tally = tally
        /\ verdict'.accused = Accuses /\ verdict'.clean = (findings = {})
    BY DEF EndTree
  <1>4. verdict'.accused <=> Accuses
    BY <1>3, Zenon
  <1>5. verdict'.clean <=> findings = {}
    BY <1>3, Zenon
  <1> SUFFICES ASSUME tree.kind \in Engine \cup Names
               PROVE  LET whole == ~tally.short /\ tally.followed = tally.named
                          differs == tally.claimed # tree.header
                      IN /\ verdict'.accused => whole /\ differs
                         /\ whole /\ differs => verdict'.accused \/ ~verdict'.clean
    BY <1>3, Zenon DEF CountJudged
  <1>6. Accounted(tally.followed, total)
    BY <1>2 DEF Judged
  <1>7. Accuses => ~tally.short /\ tally.followed = tally.named /\ tally.claimed # tree.header
    BY <1>6, Zenon DEF Accuses, Accounted
  <1>8. ASSUME ~tally.short, tally.followed = tally.named, tally.claimed # tree.header,
               findings = {}
        PROVE  Accuses
    <2>1. ~(tally.followed < tally.named)
      BY <1>2, <1>8
    <2>2. valid
      BY <1>6, <1>8, <2>1, Zenon DEF Accounted
    <2>3. total # tree.header
      BY <1>6, <1>8, <2>2, Zenon DEF Accounted
    <2>4. tree.kind \in Engine => tree.depth # 0
      BY <1>2, <1>8
    <2> QED BY <2>2, <2>3, <2>4, Zenon DEF Accuses
  <1> QED BY <1>4, <1>5, <1>7, <1>8, Zenon

\* A verdict stands until the next tree is begun.
LEMMA JudgeStep ==
  ASSUME WalkInv, CountJudged, Effect
  PROVE  CountJudged'
  <1>1. ASSUME verdict' = NoVerdict
        PROVE  CountJudged'
    <2>1. verdict'.tree.kind \notin Engine \cup Names
      BY <1>1 DEF NoVerdict, NoTree, Engine, Names
    <2> QED BY <2>1, Zenon DEF CountJudged
  <1>2. ASSUME UNCHANGED verdict
        PROVE  CountJudged'
    BY <1>2, Zenon DEF CountJudged
  <1>3. ASSUME NEW v, Dropped(v) \/ Taken(v) \/ Begun(v) \/ Pointed(v)
        PROVE  CountJudged'
    <2>1. UNCHANGED verdict \/ verdict' = NoVerdict
      BY <1>3 DEF Dropped, Taken, Begun, Pointed
    <2> QED BY <1>1, <1>2, <2>1
  <1>4. CASE PassedBy \/ Rested \/ BeginAnalysis
    <2>1. UNCHANGED verdict \/ verdict' = NoVerdict
      BY <1>4 DEF PassedBy, Rested, BeginAnalysis
    <2> QED BY <1>1, <1>2, <2>1
  <1>5. CASE EndTree
    BY <1>5, JudgeEnd
  <1> QED BY <1>3, <1>4, <1>5, Zenon DEF Effect

-----------------------------------------------------------------------------
(* Nothing is left out of a file in which nothing was found.               *)

\* What was known stays known.
LEMMA KnownGrows ==
  ASSUME decoded \subseteq decoded', named \subseteq named'
  PROVE  \A p : /\ DecodedAs(p) => DecodedAs(p)'
                /\ Known(p) => Known(p)'
  <1>1. ASSUME NEW p, DecodedAs(p)
        PROVE  DecodedAs(p)'
    BY <1>1 DEF DecodedAs
  <1>2. ASSUME NEW p, Known(p)
        PROVE  Known(p)'
    <2>1. CASE DecodedAs(p)
      BY <1>1, <2>1 DEF Known
    <2>2. CASE ~DecodedAs(p)
      <3>1. PICK q \in named : q # p /\ q.node = p.node /\ DecodedAs(q)
        BY <1>2, <2>2, Zenon DEF Known
      <3>2. q \in named' /\ DecodedAs(q)' /\ p.kind \notin Engine
        BY <1>1, <1>2, <2>2, <3>1 DEF Known
      <3> QED BY <3>1, <3>2, Zenon DEF Known
    <2> QED BY <2>1, <2>2
  <1> QED BY <1>1, <1>2

LEMMA CleanStep ==
  ASSUME WalkInv, Effect
  PROVE  CleanInv'
  <1> SUFFICES ASSUME findings' = {}
               PROVE  CleanInv'
    BY Zenon DEF CleanInv
  <1>0. ASSUME Growing
        PROVE  /\ findings = {} /\ ~unread
               /\ \A p \in named : Known(p) \/ \E w \in due : p = As(w)
               /\ \A n \in visited : \E q \in named : q.node = n /\ DecodedAs(q)
               /\ \A w \in due : As(w) \in named
    BY <1>0 DEF WalkInv, CleanInv, Growing
  <1>1. ASSUME NEW v \in due, Dropped(v)
        PROVE  CleanInv'
    <2>1. /\ due' = {} /\ Growing /\ UNCHANGED <<named, decoded, unread, visited>> /\ Known(As(v))
      BY <1>1 DEF Dropped
    <2>2. \A w \in due : w = v
      BY DEF WalkInv, DueInv
    <2>3. \A p \in named : Known(p)
      BY <1>0, <2>1, <2>2
    <2>4. \A p : Known(p)' <=> Known(p)
      BY <2>1 DEF Known, DecodedAs
    <2>5. \A p : DecodedAs(p)' <=> DecodedAs(p)
      BY <2>1 DEF DecodedAs
    <2>6. ~unread'
      BY <1>0, <2>1
    <2> QED BY <1>0, <2>1, <2>3, <2>4, <2>5, <2>6 DEF CleanInv
  <1>2. ASSUME NEW v \in due, Taken(v)
        PROVE  CleanInv'
    <2>1. /\ due' = {} /\ Growing /\ UNCHANGED <<named, unread>>
          /\ decoded \subseteq decoded' /\ DecodedAs(As(v))' /\ visited' = visited \cup {v.node}
      BY <1>2, Zenon DEF Taken, Mark
    <2>2. \A w \in due : w = v
      BY DEF WalkInv, DueInv
    <2>3. \A p : (DecodedAs(p) => DecodedAs(p)') /\ (Known(p) => Known(p)')
      BY <2>1, KnownGrows
    <2>4. Known(As(v))' /\ As(v).node = v.node
      BY <2>1 DEF Known, As
    <2>5. \A p \in named' : Known(p)'
      BY <1>0, <2>1, <2>2, <2>3, <2>4
    <2>6. \A n \in visited' : \E q \in named' : q.node = n /\ DecodedAs(q)'
      BY <1>0, <2>1, <2>3, <2>4
    <2>7. ~unread'
      BY <1>0, <2>1
    <2> QED BY <2>1, <2>5, <2>6, <2>7 DEF CleanInv
  <1>3. ASSUME NEW v, Begun(v) \/ Pointed(v)
        PROVE  CleanInv'
    <2>1. /\ due = {} /\ due' = {v} /\ Growing /\ UNCHANGED <<visited, decoded, unread>>
          /\ named' = named \cup {As(v)}
      BY <1>3 DEF Begun, Pointed, WalkInv, DueInv
    <2>2. \A p : (DecodedAs(p) => DecodedAs(p)') /\ (Known(p) => Known(p)')
      BY <2>1, KnownGrows
    <2>3. \A p \in named' : Known(p)' \/ \E w \in due' : p = As(w)
      BY <1>0, <2>1, <2>2
    <2>4. \A n \in visited' : \E q \in named' : q.node = n /\ DecodedAs(q)'
      BY <1>0, <2>1, <2>2
    <2>5. ~unread'
      BY <1>0, <2>1
    <2> QED BY <2>1, <2>3, <2>4, <2>5 DEF CleanInv
  <1>4. CASE PassedBy \/ Rested
    <2>1. Growing /\ UNCHANGED <<due, visited, named, decoded>>
      BY <1>4 DEF PassedBy, Rested
    <2>2. \A p : (DecodedAs(p) => DecodedAs(p)') /\ (Known(p) => Known(p)')
      BY <2>1, KnownGrows
    <2>3. unread' <=> unread
      <3>1. Rested => (unread' <=> unread)
        BY DEF Rested
      <3>2. PassedBy => (unread' <=> unread)
        BY Zenon DEF PassedBy
      <3> QED BY <1>4, <3>1, <3>2, Zenon
    <2>4. ~unread'
      BY <1>0, <2>1, <2>3, Zenon
    <2> QED BY <1>0, <2>1, <2>2, <2>4 DEF CleanInv
  <1>5. CASE EndTree
    <2>1. Growing /\ UNCHANGED <<due, visited, named, decoded, unread>>
      BY <1>5 DEF EndTree, Growing, Found
    <2>2. \A p : (DecodedAs(p) => DecodedAs(p)') /\ (Known(p) => Known(p)')
      BY <2>1, KnownGrows
    <2>3. ~unread'
      BY <1>0, <2>1
    <2> QED BY <1>0, <2>1, <2>2, <2>3 DEF CleanInv
  <1>6. CASE BeginAnalysis
    <2>1. due' = {} /\ named' = {} /\ visited' = {} /\ ~unread'
      BY <1>6 DEF BeginAnalysis
    <2> QED BY <2>1 DEF CleanInv
  <1>7. CASE \E v \in due : Dropped(v) \/ Taken(v)
    BY <1>1, <1>2, <1>7, Zenon
  <1>8. CASE \E v : Begun(v) \/ Pointed(v)
    BY <1>3, <1>8, Zenon
  <1> QED BY <1>4, <1>5, <1>6, <1>7, <1>8, Zenon DEF Effect

LEMMA WalkInit == Init => WalkInv /\ CountJudged
  <1> SUFFICES ASSUME Init PROVE WalkInv /\ CountJudged
    OBVIOUS
  <1>1. DueInv
    BY DEF Init, DueInv
  <1>2. TallyInv
    <2>1. ~Judged(tree.kind) /\ LeafRoot
      BY DEF Init, NoTree, Judged, Engine, Names, LeafRoot
    <2> QED BY <2>1 DEF Init, TallyInv, NoTally
  <1>3. CleanInv
    BY DEF Init, CleanInv
  <1>4. CountJudged
    <2>1. verdict.tree.kind \notin Engine \cup Names
      BY DEF Init, NoVerdict, NoTree, Engine, Names
    <2> QED BY <2>1, Zenon DEF CountJudged
  <1> QED BY <1>1, <1>2, <1>3, <1>4, OverInit DEF WalkInv

JudgedInv == CeilingInv /\ WalkInv /\ CountJudged

LEMMA WalkStep == JudgedInv /\ [Next]_vars => JudgedInv'
  <1> SUFFICES ASSUME CeilingInv, WalkInv, CountJudged, [Next]_vars
               PROVE  JudgedInv'
    BY DEF JudgedInv
  <1>1. CeilingInv'
    BY CeilingStep
  <1>2. OverFound'
    BY <1>1, OverStep DEF WalkInv
  <1>3. CASE Effect
    BY <1>1, <1>2, <1>3, DueStep, TallyStep, CleanStep, JudgeStep DEF JudgedInv, WalkInv
  <1>4. CASE UNCHANGED vars
    <2>1. UNCHANGED <<tree, stack, due, total, valid, findings, tally, visited, named,
                      decoded, unread, verdict>>
      BY <1>4 DEF vars, counts, history
    <2>2. DueInv'
      BY <2>1 DEF WalkInv, DueInv, Idle
    <2>3. TallyInv'
      <3>1. \A f, r : Accounted(f, r) => Accounted(f, r)'
        BY <2>1, Zenon DEF Accounted
      <3>2. LeafRoot'
        BY <2>1 DEF WalkInv, TallyInv, LeafRoot
      <3>3. Accounted(tally.followed, total) => Accounted(tally.followed, total)'
        BY <2>1, Zenon DEF Accounted
      <3>4. \A v \in due : Accounted(tally.followed + 1, total + v.nrec)
              => Accounted(tally.followed + 1, total + v.nrec)'
        BY <2>1, Zenon DEF Accounted
      <3> QED BY <2>1, <3>2, <3>3, <3>4 DEF WalkInv, TallyInv
    <2>4. CleanInv'
      <3>1. \A p : (DecodedAs(p) <=> DecodedAs(p)') /\ (Known(p) <=> Known(p)')
        BY <2>1 DEF DecodedAs, Known
      <3>2. unread' <=> unread
        BY <2>1
      <3> QED BY <2>1, <3>1, <3>2 DEF WalkInv, CleanInv
    <2>5. CountJudged'
      BY <2>1, Zenon DEF CountJudged
    <2> QED BY <1>1, <1>2, <2>2, <2>3, <2>4, <2>5 DEF JudgedInv, WalkInv
  <1> QED BY <1>3, <1>4, StepEffect

\* The count in a header is held against the whole tree or not at all: a tree that
\* a ceiling, a repeated node or damage cuts short is not accused of a wrong count,
\* and one read to its end with another count than its header's is never clean.
THEOREM CountJudgedCorrect == Spec => []CountJudged
  <1>1. Init => JudgedInv
    BY CeilingInit, WalkInit DEF JudgedInv
  <1>2. JudgedInv => CountJudged
    BY DEF JudgedInv
  <1> QED BY <1>1, <1>2, WalkStep, PTL DEF Spec

\* When nothing was found, every node that the file names was decoded, as the kind
\* and at the level that its parent demands or as something else before.
THEOREM CleanIsReadCorrect == Spec => []CleanIsRead
  <1>1. Init => JudgedInv
    BY CeilingInit, WalkInit DEF JudgedInv
  <1>2. JudgedInv => CleanIsRead
    <2> SUFFICES ASSUME JudgedInv, findings = {}, Idle
                 PROVE  ~unread /\ \A p \in named : Known(p)
      BY DEF CleanIsRead, Known
    <2>1. due = {}
      BY DEF JudgedInv, WalkInv, DueInv
    <2> QED BY <2>1 DEF JudgedInv, WalkInv, CleanInv
  <1> QED BY <1>1, <1>2, WalkStep, PTL DEF Spec

-----------------------------------------------------------------------------
(* Types.                                                                  *)

Frame == [node : Nodes, level : Levels, left : Nat]

\* Only a leaf of a group's tree is descended from at level 0, and only the root of
\* a version 1 tree is due at a level that no node has.
PlaceInv ==
  /\ tree.kind \in Kinds \cup {"none"} /\ visited \subseteq Nodes
  /\ stack \in Seq(Frame)
  /\ \A i \in 1..Len(stack) : stack[i].level = 0 => tree.kind = "group"
  /\ \A v \in due : v.node \in Nodes /\ (v.kind \notin V1 => v.level \in Levels)

FindingKinds == {"corrupt", "resource", "chunks"}

NoteInv ==
  /\ valid \in BOOLEAN /\ metaOver \in BOOLEAN
  /\ findings \subseteq FindingKinds /\ trees \in 0..MaxTrees

\* The node due is not descended from.
LEMMA DropPlace ==
  ASSUME PlaceInv, NEW v \in due, due' = {}, visited' \subseteq visited \cup {v.node},
         UNCHANGED <<tree, stack>>
  PROVE  PlaceInv'
  BY DEF PlaceInv

LEMMA PushPlace ==
  ASSUME PlaceInv, NEW v \in due, due' = {}, visited' \subseteq visited \cup {v.node},
         UNCHANGED tree, NEW level \in Levels, NEW left \in Nat, Push(v, level, left),
         level = 0 => tree.kind = "group"
  PROVE  PlaceInv'
  <1> DEFINE f == [node |-> v.node, level |-> level, left |-> left]
             n == Len(stack)
  <1>1. f \in Frame /\ f.level = level /\ stack \in Seq(Frame) /\ n \in Nat
    BY DEF PlaceInv, Frame
  <1>2. stack' = Append(stack, f)
    BY DEF Push
  <1> HIDE DEF f
  <1>3. stack' \in Seq(Frame) /\ Len(stack') = n + 1 /\ stack'[n + 1] = f
        /\ \A i \in 1..n : stack'[i] = stack[i]
    BY <1>1, <1>2
  <1>4. \A i \in 1..Len(stack') : stack'[i].level = 0 => tree.kind = "group"
    BY <1>1, <1>3 DEF PlaceInv
  <1> QED BY <1>3, <1>4 DEF PlaceInv

LEMMA RootPlace ==
  ASSUME PlaceInv, DueInv, Idle, NEW kind \in Kinds, tree'.kind = kind, UNCHANGED <<stack, visited>>,
         NEW v, due' = {v}, v.node \in Nodes, v.kind \notin V1 => v.level \in Levels
  PROVE  PlaceInv'
  <1>1. stack = <<>>
    BY DEF DueInv
  <1> QED BY <1>1 DEF PlaceInv

LEMMA RestPlace ==
  ASSUME PlaceInv, UNCHANGED <<tree, stack, due, visited>>
  PROVE  PlaceInv'
  BY DEF PlaceInv

LEMMA BeginPlace ==
  ASSUME PlaceInv, DueInv, BeginTree
  PROVE  PlaceInv'
  <1>1. ASSUME NEW kind \in Kinds, kind \in V1, NEW n \in Nodes, BeginV1(kind, n)
        PROVE  PlaceInv'
    <2>1. tree' = [NoTree EXCEPT !.kind = kind] /\ tree'.kind = kind
      BY <1>1 DEF BeginV1, Begin, NoTree
    <2>2. /\ Idle /\ UNCHANGED <<stack, visited>>
          /\ due' = {[node |-> n, kind |-> kind, level |-> LevelUnknown, nrec |-> 0, snod |-> FALSE]}
      BY <1>1, <2>1 DEF BeginV1, Begin, NextTree, Visit
    <2> QED BY <1>1, <2>1, <2>2, RootPlace
  <1>2. ASSUME NEW kind \in Kinds, NEW depth \in Levels, NEW nroot, NEW header, NEW root \in Nodes,
               NextTree, Begin([kind |-> kind, depth |-> depth, header |-> header], root, depth, nroot)
        PROVE  PlaceInv'
    <2>1. tree' = [kind |-> kind, depth |-> depth, header |-> header] /\ tree'.kind = kind
      BY <1>2 DEF Begin
    <2>2. /\ Idle /\ UNCHANGED <<stack, visited>>
          /\ due' = {[node |-> root, kind |-> kind, level |-> depth, nrec |-> nroot, snod |-> FALSE]}
      BY <1>2, <2>1 DEF Begin, NextTree, Visit
    <2> QED BY <2>1, <2>2, RootPlace
  <1>3. ASSUME NEW kind \in Kinds, kind \in Engine, NEW depth \in Levels, NEW nroot,
               NEW header, NEW root \in Nodes \cup {Undefined, Outside}, NEW over,
               BeginEngine(kind, root, depth, nroot, header, over)
        PROVE  PlaceInv'
    <2>1. CASE UNCHANGED <<tree, stack, due, visited>>
      BY <2>1, RestPlace
    <2>2. CASE ~UNCHANGED <<tree, stack, due, visited>>
      <3>1. ~NotBegun
        BY <2>2 DEF NotBegun
      <3>2. /\ NextTree /\ root # Outside /\ root # Undefined
            /\ Begin([kind |-> kind, depth |-> depth, header |-> header], root, depth, nroot)
        BY <1>3, <3>1, Zenon DEF BeginEngine
      <3>3. root \in Nodes
        BY <3>2
      <3> QED BY <1>2, <3>2, <3>3
    <2> QED BY <2>1, <2>2
  <1>4. ASSUME NEW kind \in Kinds, kind \in Names, NEW depth \in Levels, NEW nroot,
               NEW header, NEW root \in Nodes \cup {Undefined, Outside},
               root \in Nodes \cup {Outside}, BeginNames(kind, root, depth, nroot, header)
        PROVE  PlaceInv'
    <2>1. CASE root = Outside
      BY <1>4, <2>1, RestPlace DEF BeginNames
    <2>2. CASE root # Outside
      BY <1>2, <1>4, <2>2 DEF BeginNames
    <2> QED BY <2>1, <2>2
  <1>5. PICK kind \in Kinds :
          \/ kind \in V1 /\ \E n \in Nodes : BeginV1(kind, n)
          \/ \E depth \in Levels, nroot \in 0..MaxRecords, header \in 0..MaxTotal :
               \/ kind \in Engine /\ \E root \in Nodes \cup {Undefined, Outside}, over \in BOOLEAN :
                    BeginEngine(kind, root, depth, nroot, header, over)
               \/ kind \in Names /\ \E root \in Nodes \cup {Outside} :
                    BeginNames(kind, root, depth, nroot, header)
    BY Zenon DEF BeginTree
  <1>6. Nodes \cup {Outside} \subseteq Nodes \cup {Undefined, Outside}
    OBVIOUS
  <1> QED BY <1>1, <1>3, <1>4, <1>5, <1>6

LEMMA DecodePlace ==
  ASSUME PlaceInv, DueInv, Decode
  PROVE  PlaceInv'
  <1>0. \A v \in due : v.kind = tree.kind /\ v.nrec \in Nat
    BY DEF DueInv
  <1>1. ASSUME NEW v, Enter(v)
        PROVE  v \in due /\ due' = {} /\ visited' \subseteq visited \cup {v.node} /\ UNCHANGED tree
    BY <1>1 DEF Enter, Mark
  <1>2. ASSUME NEW v \in due, NEW over \in BOOLEAN, NEW blemish \in Blemishes,
               DecodeSnod(v, over, blemish)
        PROVE  PlaceInv'
    BY <1>1, <1>2, DropPlace DEF DecodeSnod
  <1>3. ASSUME NEW v \in due, NEW over \in BOOLEAN, NEW blemish \in Blemishes,
               NEW entries \in 0..Fanout, DecodeChunkLeaf(v, entries, over, blemish)
        PROVE  PlaceInv'
    BY <1>1, <1>3, DropPlace DEF DecodeChunkLeaf
  <1>4. ASSUME NEW v \in due, NEW over \in BOOLEAN, NEW blemish \in Blemishes,
               NEW entries \in 0..Fanout, NEW level \in Levels,
               \/ DecodeGroup(v, level, entries, over, blemish)
               \/ DecodeChunkNode(v, level, entries, over, blemish)
        PROVE  PlaceInv'
    <2>1. /\ Enter(v) /\ Push(v, level, entries)
          /\ v.kind = "group" \/ level > 0
      BY <1>4 DEF DecodeGroup, DecodeChunkNode
    <2>2. entries \in Nat /\ (level = 0 => tree.kind = "group")
      BY <1>0, <2>1, BTreesAssumption
    <2> QED BY <1>1, <2>1, <2>2, PushPlace
  <1>5. ASSUME NEW v \in due, v.kind \notin V1, Enter(v),
               UNCHANGED stack \/ (v.level # 0 /\ Push(v, v.level, v.nrec + 1))
        PROVE  PlaceInv'
    <2>1. v.level \in Levels /\ v.nrec + 1 \in Nat
      BY <1>0, <1>5 DEF PlaceInv
    <2>2. CASE UNCHANGED stack
      BY <1>1, <1>5, <2>2, DropPlace
    <2>3. CASE v.level # 0 /\ Push(v, v.level, v.nrec + 1)
      BY <1>1, <1>5, <2>1, <2>3, PushPlace
    <2> QED BY <1>5, <2>2, <2>3
  <1>6. ASSUME NEW v \in due, NEW blemish \in Blemishes, DecodeName(v, blemish)
        PROVE  PlaceInv'
    <2>1. v.kind \notin V1
      BY <1>6 DEF DecodeName, Names, V1
    <2> QED BY <1>5, <1>6, <2>1 DEF DecodeName
  <1>7. ASSUME NEW v \in due, NEW over \in BOOLEAN, NEW blemish \in Blemishes,
               NEW sound \in BOOLEAN, DecodeEngine(v, over, sound, blemish)
        PROVE  PlaceInv'
    <2>1. v.kind \notin V1
      BY <1>7 DEF DecodeEngine, Engine, V1
    <2>2. Enter(v) /\ (UNCHANGED stack \/ (v.level # 0 /\ Push(v, v.level, v.nrec + 1)))
      BY <1>7, Zenon DEF DecodeEngine
    <2> QED BY <1>5, <2>1, <2>2
  <1> QED BY <1>2, <1>3, <1>4, <1>6, <1>7, Zenon DEF Decode

LEMMA RefusePlace ==
  ASSUME PlaceInv, Refuse
  PROVE  PlaceInv'
  <1> PICK v \in due :
        \/ PassOver(v) \/ RefuseDepth(v) \/ SkipRepeated(v) \/ FindBad(v)
        \/ \E level \in Levels, over \in BOOLEAN : RefuseEntries(v, level, over)
    BY DEF Refuse
  <1>1. due' = {} /\ UNCHANGED <<tree, stack>> /\ visited' \subseteq visited \cup {v.node}
    BY DEF PassOver, RefuseDepth, SkipRepeated, FindBad, RefuseEntries, Enter, Mark
  <1> QED BY <1>1, DropPlace

\* A pointer of the innermost node is read; the node itself stays.
LEMMA NextKeeps ==
  ASSUME PlaceInv, NextPointer
  PROVE  /\ Top \in Frame /\ (Top.level = 0 => tree.kind = "group")
         /\ stack' \in Seq(Frame) /\ Len(stack') = Len(stack)
         /\ \A i \in 1..Len(stack) : stack'[i].level = stack[i].level
  <1> DEFINE n == Len(stack)
  <1>1. stack \in Seq(Frame) /\ n \in 1..n /\ n \in Nat /\ Top = stack[n] /\ Top.left > 0
    BY DEF PlaceInv, NextPointer, Top
  <1>2. Top \in Frame /\ Top.left \in Nat
    <2>1. Top \in Frame
      BY <1>1
    <2> QED BY <2>1 DEF Frame
  <1>3. stack' = [stack EXCEPT ![n] = [Top EXCEPT !.left = Top.left - 1]]
    BY <1>1 DEF NextPointer
  <1> DEFINE f == [Top EXCEPT !.left = Top.left - 1]
  <1>4. f \in Frame /\ f.level = Top.level
    BY <1>1, <1>2 DEF Frame
  <1> HIDE DEF f
  <1>5. stack' = [stack EXCEPT ![n] = f]
    BY <1>3 DEF f
  <1>6. stack' \in Seq(Frame) /\ Len(stack') = n
        /\ \A i \in 1..n : stack'[i] = IF i = n THEN f ELSE stack[i]
    BY <1>1, <1>4, <1>5
  <1> QED BY <1>1, <1>2, <1>4, <1>6 DEF PlaceInv

LEMMA PointerPlace ==
  ASSUME PlaceInv, ReadPointer
  PROVE  PlaceInv'
  <1>1. NextPointer /\ UNCHANGED <<tree, visited>>
    BY DEF ReadPointer, ReadChild, ReadUndefined, ReadOutside
  <1>2. /\ Top \in Frame /\ (Top.level = 0 => tree.kind = "group")
        /\ stack' \in Seq(Frame) /\ Len(stack') = Len(stack)
        /\ \A i \in 1..Len(stack) : stack'[i].level = stack[i].level
    BY <1>1, NextKeeps
  <1>3. \A v \in due' : v.node \in Nodes /\ (v.kind \notin V1 => v.level \in Levels)
    <2>1. CASE due' = {}
      BY <2>1
    <2>2. ASSUME NEW m \in Nodes, NEW nrec, ReadChild(m, nrec)
          PROVE  \A v \in due' : v.node \in Nodes /\ (v.kind \notin V1 => v.level \in Levels)
      <3> SUFFICES ASSUME NEW v \in due'
                   PROVE  v.node \in Nodes /\ (v.kind \notin V1 => v.level \in Levels)
        OBVIOUS
      <3>1. /\ v.node = m /\ v.kind = tree.kind
            /\ v.level = IF tree.kind = "group" /\ Top.level = 0 THEN 0 ELSE Top.level - 1
        BY <2>2 DEF ReadChild
      <3>2. Top.level \in Levels /\ MaxLevel \in Nat
        BY <1>2, BTreesAssumption DEF Frame
      <3>3. v.level \in Levels
        BY <1>2, <3>1, <3>2 DEF Levels
      <3> QED BY <3>1, <3>3
    <2>3. due = {}
      BY <1>1 DEF NextPointer
    <2> QED BY <2>1, <2>2, <2>3 DEF ReadPointer, ReadUndefined, ReadOutside
  <1> QED BY <1>1, <1>2, <1>3 DEF PlaceInv

LEMMA AllButLast ==
  ASSUME NEW S, NEW s \in Seq(S), NEW n \in Nat \ {0}, n = Len(s)
  PROVE  /\ SubSeq(s, 1, n - 1) \in Seq(S) /\ Len(SubSeq(s, 1, n - 1)) = n - 1
         /\ \A i \in 1..(n - 1) : SubSeq(s, 1, n - 1)[i] = s[i]
  <1>1. \A i \in 1..(n - 1) : s[i] \in S
    OBVIOUS
  <1> DEFINE m == n - 1
  <1>2. m \in Int /\ m \in Nat /\ 1 \in Int
    OBVIOUS
  <1> HIDE DEF m
  <1>3. \A i \in 1..m : s[i] \in S
    BY <1>1 DEF m
  <1>4. /\ SubSeq(s, 1, m) \in Seq(S)
        /\ Len(SubSeq(s, 1, m)) = IF 1 <= m THEN m - 1 + 1 ELSE 0
        /\ \A i \in 1..(m - 1 + 1) : SubSeq(s, 1, m)[i] = s[1 + i - 1]
    BY <1>2, <1>3, SubSeqProperties
  <1>5. m - 1 + 1 = m /\ \A i \in 1..m : 1 + i - 1 = i
    BY <1>2
  <1>6. Len(SubSeq(s, 1, m)) = m /\ \A i \in 1..m : SubSeq(s, 1, m)[i] = s[i]
    BY <1>2, <1>4, <1>5
  <1> QED BY <1>4, <1>6 DEF m

LEMMA PlaceStep == PlaceInv /\ DueInv /\ [Next]_vars => PlaceInv'
  <1> SUFFICES ASSUME PlaceInv, DueInv, [Next]_vars PROVE PlaceInv'
    OBVIOUS
  <1>1. CASE BeginAnalysis
    BY <1>1 DEF BeginAnalysis, PlaceInv, NoTree
  <1>2. ASSUME NEW n \in 1..MaxTotal, ClaimChunks(n) PROVE PlaceInv'
    BY <1>2, RestPlace DEF ClaimChunks
  <1>3. CASE Leave
    <2> DEFINE n == Len(stack)
    <2>1. stack \in Seq(Frame) /\ n \in Nat \ {0} /\ stack' = SubSeq(stack, 1, n - 1)
          /\ UNCHANGED <<tree, due, visited>>
      BY <1>3 DEF Leave, PlaceInv
    <2>2. stack' \in Seq(Frame) /\ Len(stack') = n - 1 /\ \A i \in 1..(n - 1) : stack'[i] = stack[i]
      BY <2>1, AllButLast
    <2> QED BY <2>1, <2>2 DEF PlaceInv
  <1>4. CASE EndTree
    <2>1. tree'.kind = "none" /\ stack = <<>> /\ due = {} /\ UNCHANGED <<stack, due, visited>>
      BY <1>4 DEF EndTree, NoTree
    <2> QED BY <2>1 DEF PlaceInv
  <1>5. CASE Stop \/ UNCHANGED vars
    BY <1>5, RestPlace DEF Stop, vars
  <1> QED BY <1>1, <1>2, <1>3, <1>4, <1>5, BeginPlace, DecodePlace, RefusePlace, PointerPlace, Zenon DEF Next

\* What is found is of three kinds, whatever step finds it.
LEMMA FoundKinds ==
  ASSUME NoteInv, [Next]_vars
  PROVE  findings' \subseteq FindingKinds
  <1> USE DEF FindingKinds
  <1>0. /\ findings \subseteq FindingKinds
        /\ \A o : OverMetadata(o) \subseteq FindingKinds
        /\ \A n : OverChunks(n) \subseteq FindingKinds
    BY DEF NoteInv, OverMetadata, OverChunks
  <1>1. ASSUME NEW what, Found(what), what \subseteq FindingKinds
        PROVE  findings' \subseteq FindingKinds
    BY <1>0, <1>1 DEF Found
  <1>2. CASE BeginTree
    <2>1. ASSUME NEW kind, NEW n, BeginV1(kind, n) PROVE findings' \subseteq FindingKinds
      BY <1>0, <2>1 DEF BeginV1
    <2>2. ASSUME NEW kind, NEW root, NEW depth, NEW nroot, NEW header, NEW over,
                 BeginEngine(kind, root, depth, nroot, header, over)
          PROVE  findings' \subseteq FindingKinds
      <3> DEFINE claim == IF kind = "chunk2" THEN header ELSE 0
                 wrong == \/ root = Undefined /\ (nroot # 0 \/ header # 0)
                          \/ root = Outside
                          \/ root \in Nodes /\ depth = 0 /\ header # nroot
      <3>1. Found(OverMetadata(over)
                  \cup (IF kind = "chunk2" THEN OverChunks(claim) ELSE {})
                  \cup (IF ~over /\ wrong THEN {"corrupt"} ELSE {}))
        BY <2>2, Zenon DEF BeginEngine
      <3> HIDE DEF claim, wrong
      <3> QED BY <1>0, <1>1, <3>1
    <2>3. ASSUME NEW kind, NEW root, NEW depth, NEW nroot, NEW header,
                 BeginNames(kind, root, depth, nroot, header)
          PROVE  findings' \subseteq FindingKinds
      BY <1>0, <1>1, <2>3 DEF BeginNames
    <2> QED BY <1>2, <2>1, <2>2, <2>3, BeginCases, Zenon
  <1>3. ASSUME NEW n \in 1..MaxTotal, ClaimChunks(n) PROVE findings' \subseteq FindingKinds
    BY <1>0, <1>1, <1>3 DEF ClaimChunks
  <1>4. CASE Decode
    <2>1. PICK v \in due, over \in BOOLEAN, blemish \in Blemishes :
            \/ DecodeSnod(v, over, blemish)
            \/ DecodeName(v, blemish)
            \/ \E sound \in BOOLEAN : DecodeEngine(v, over, sound, blemish)
            \/ \E entries \in 0..Fanout :
                 \/ DecodeChunkLeaf(v, entries, over, blemish)
                 \/ \E level \in Levels :
                      \/ DecodeGroup(v, level, entries, over, blemish)
                      \/ DecodeChunkNode(v, level, entries, over, blemish)
      BY <1>4 DEF Decode
    <2>2. blemish \subseteq FindingKinds
      BY DEF Blemishes
    <2>3. ASSUME NEW sound, DecodeEngine(v, over, sound, blemish)
          PROVE  findings' \subseteq FindingKinds
      <3>1. Found(OverMetadata(over) \cup (IF ~over /\ ~sound THEN {"corrupt"} ELSE {})
                  \cup (IF ~over /\ sound THEN blemish ELSE {}))
        BY <2>3, Zenon DEF DecodeEngine
      <3> QED BY <1>0, <1>1, <2>2, <3>1
    <2>4. ASSUME NEW entries, DecodeChunkLeaf(v, entries, over, blemish)
          PROVE  findings' \subseteq FindingKinds
      <3>1. Found(blemish \cup OverMetadata(over) \cup OverChunks(entries))
        BY <2>4 DEF DecodeChunkLeaf
      <3> QED BY <1>0, <1>1, <2>2, <3>1
    <2>5. ASSUME Found(blemish \cup OverMetadata(over)) PROVE findings' \subseteq FindingKinds
      BY <1>0, <1>1, <2>2, <2>5
    <2>6. ASSUME Found(blemish) PROVE findings' \subseteq FindingKinds
      BY <1>1, <2>2, <2>6
    <2> QED BY <2>1, <2>3, <2>4, <2>5, <2>6 DEF DecodeSnod, DecodeName, DecodeGroup, DecodeChunkNode
  <1>5. CASE Refuse
    <2>1. PICK v \in due :
            \/ PassOver(v) \/ RefuseDepth(v) \/ SkipRepeated(v) \/ FindBad(v)
            \/ \E level \in Levels, over \in BOOLEAN : RefuseEntries(v, level, over)
      BY <1>5 DEF Refuse
    <2>2. CASE PassOver(v)
      BY <1>0, <2>2 DEF PassOver
    <2>3. CASE RefuseDepth(v) \/ SkipRepeated(v) \/ FindBad(v)
      BY <1>1, <2>3 DEF RefuseDepth, SkipRepeated, FindBad
    <2>4. ASSUME NEW level, NEW over, RefuseEntries(v, level, over)
          PROVE  findings' \subseteq FindingKinds
      <3>1. Found({"corrupt"} \cup OverMetadata(over))
        BY <2>4 DEF RefuseEntries
      <3> QED BY <1>0, <1>1, <3>1
    <2> QED BY <2>1, <2>2, <2>3, <2>4
  <1>6. CASE ReadPointer \/ Leave \/ EndTree
    <2>1. \/ UNCHANGED findings \/ Found({}) \/ Found({"corrupt"})
      BY <1>6 DEF ReadPointer, ReadChild, ReadUndefined, ReadOutside, Leave, EndTree
    <2> QED BY <1>0, <1>1, <2>1
  <1>7. CASE BeginAnalysis \/ Stop \/ UNCHANGED vars
    BY <1>0, <1>7 DEF BeginAnalysis, Stop, vars
  <1> QED BY <1>2, <1>3, <1>4, <1>5, <1>6, <1>7 DEF Next

\* The two verdicts that a walk carries stay truth values.
LEMMA VerdictsBoolean ==
  ASSUME NoteInv, [Next]_vars
  PROVE  valid' \in BOOLEAN /\ metaOver' \in BOOLEAN
  <1>0. valid \in BOOLEAN /\ metaOver \in BOOLEAN
    BY Zenon DEF NoteInv
  <1>1. CASE BeginTree
    <2>1. ASSUME NEW kind, NEW n, BeginV1(kind, n)
          PROVE  valid' \in BOOLEAN /\ metaOver' \in BOOLEAN
      BY <1>0, <2>1 DEF BeginV1, counts, ceilings
    <2>2. ASSUME NEW kind, NEW root, NEW depth, NEW nroot, NEW header, NEW over \in BOOLEAN,
                 BeginEngine(kind, root, depth, nroot, header, over)
          PROVE  valid' \in BOOLEAN /\ metaOver' \in BOOLEAN
      <3>1. metaOver' = over
        BY <2>2, Zenon DEF BeginEngine, AccountMetadata
      <3>2. UNCHANGED valid \/ valid' = TRUE
        BY <2>2 DEF BeginEngine, NotBegun, ResetCount, counts
      <3> QED BY <1>0, <3>1, <3>2
    <2>3. ASSUME NEW kind, NEW root, NEW depth, NEW nroot, NEW header,
                 BeginNames(kind, root, depth, nroot, header)
          PROVE  valid' \in BOOLEAN /\ metaOver' \in BOOLEAN
      BY <1>0, <2>3 DEF BeginNames, ResetCount, ceilings
    <2> QED BY <1>1, <2>1, <2>2, <2>3, BeginCases, Zenon
  <1>2. ASSUME NEW n \in 1..MaxTotal, ClaimChunks(n)
        PROVE  valid' \in BOOLEAN /\ metaOver' \in BOOLEAN
    BY <1>0, <1>2 DEF ClaimChunks, counts
  <1>3. CASE Decode
    <2>1. PICK v \in due, over \in BOOLEAN, blemish \in Blemishes :
            \/ DecodeSnod(v, over, blemish)
            \/ DecodeName(v, blemish)
            \/ \E sound \in BOOLEAN : DecodeEngine(v, over, sound, blemish)
            \/ \E entries \in 0..Fanout :
                 \/ DecodeChunkLeaf(v, entries, over, blemish)
                 \/ \E level \in Levels :
                      \/ DecodeGroup(v, level, entries, over, blemish)
                      \/ DecodeChunkNode(v, level, entries, over, blemish)
      BY <1>3 DEF Decode
    <2>2. UNCHANGED metaOver \/ AccountMetadata(over)
      BY <2>1 DEF DecodeSnod, DecodeName, DecodeEngine, DecodeChunkLeaf, DecodeGroup,
                  DecodeChunkNode, ceilings
    <2>3. metaOver' \in BOOLEAN
      <3>1. AccountMetadata(over) => metaOver' = over
        BY Zenon DEF AccountMetadata
      <3> QED BY <1>0, <2>2, <3>1
    <2>4. ASSUME NEW sound, DecodeEngine(v, over, sound, blemish) PROVE valid' \in BOOLEAN
      BY <2>4 DEF DecodeEngine
    <2>5. valid' \in BOOLEAN
      BY <1>0, <2>1, <2>4 DEF DecodeSnod, DecodeName, DecodeChunkLeaf, DecodeGroup, DecodeChunkNode
    <2> QED BY <2>3, <2>5
  <1>4. CASE Refuse
    <2>1. PICK v \in due :
            \/ PassOver(v) \/ RefuseDepth(v) \/ SkipRepeated(v) \/ FindBad(v)
            \/ \E level \in Levels, over \in BOOLEAN : RefuseEntries(v, level, over)
      BY <1>4 DEF Refuse
    <2>2. CASE PassOver(v) \/ RefuseDepth(v) \/ SkipRepeated(v) \/ FindBad(v)
      BY <1>0, <2>2 DEF PassOver, RefuseDepth, SkipRepeated, FindBad, ceilings
    <2>3. ASSUME NEW level, NEW over \in BOOLEAN, RefuseEntries(v, level, over)
          PROVE  valid' \in BOOLEAN /\ metaOver' \in BOOLEAN
      <3>1. metaOver' = over
        BY <2>3, Zenon DEF RefuseEntries, AccountMetadata
      <3>2. UNCHANGED valid
        BY <2>3 DEF RefuseEntries
      <3> QED BY <1>0, <3>1, <3>2
    <2> QED BY <2>1, <2>2, <2>3
  <1>5. CASE ReadPointer \/ Leave \/ EndTree
    <2>1. UNCHANGED metaOver
      BY <1>5 DEF ReadPointer, ReadChild, ReadUndefined, ReadOutside, Leave, EndTree, ceilings
    <2>2. valid' \in BOOLEAN
      BY <1>0, <1>5 DEF ReadPointer, ReadChild, ReadUndefined, ReadOutside, Leave, EndTree, counts
    <2> QED BY <1>0, <2>1, <2>2
  <1>6. CASE BeginAnalysis \/ Stop \/ UNCHANGED vars
    BY <1>0, <1>6 DEF BeginAnalysis, Stop, vars, counts, ceilings
  <1> QED BY <1>1, <1>2, <1>3, <1>4, <1>5, <1>6 DEF Next

LEMMA NoteStep == NoteInv /\ [Next]_vars => NoteInv'
  <1> SUFFICES ASSUME NoteInv, [Next]_vars PROVE NoteInv'
    OBVIOUS
  <1>1. trees' \in 0..MaxTrees
    <2>0. trees \in 0..MaxTrees /\ MaxTrees \in Nat
      BY BTreesAssumption DEF NoteInv
    <2>1. ASSUME UNCHANGED trees \/ (trees < MaxTrees /\ trees' = trees + 1)
          PROVE  trees' \in 0..MaxTrees
      BY <2>0, <2>1
    <2>2. CASE BeginTree
      <3>1. NextTree
        <4>1. ASSUME NEW kind, NEW n, BeginV1(kind, n) PROVE NextTree
          BY <4>1, Zenon DEF BeginV1
        <4>2. ASSUME NEW kind, NEW root, NEW depth, NEW nroot, NEW header, NEW over,
                     BeginEngine(kind, root, depth, nroot, header, over)
              PROVE  NextTree
          BY <4>2, Zenon DEF BeginEngine
        <4>3. ASSUME NEW kind, NEW root, NEW depth, NEW nroot, NEW header,
                     BeginNames(kind, root, depth, nroot, header)
              PROVE  NextTree
          BY <4>3, Zenon DEF BeginNames
        <4> QED BY <2>2, <4>1, <4>2, <4>3, BeginCases, Zenon
      <3> QED BY <2>1, <3>1 DEF NextTree
    <2>3. CASE \E n \in 1..MaxTotal : ClaimChunks(n)
      BY <2>1, <2>3 DEF ClaimChunks
    <2>4. CASE Decode \/ Refuse
      <3>1. \A v : Enter(v) => UNCHANGED trees
        BY DEF Enter
      <3>2. Decode => UNCHANGED trees
        <4>1. \A v, over, blemish :
                DecodeSnod(v, over, blemish) \/ DecodeName(v, blemish) => Enter(v)
          BY Zenon DEF DecodeSnod, DecodeName
        <4>2. \A v, over, sound, blemish : DecodeEngine(v, over, sound, blemish) => Enter(v)
          BY Zenon DEF DecodeEngine
        <4>3. ASSUME NEW v, NEW level, NEW entries, NEW over, NEW blemish,
                     \/ DecodeChunkLeaf(v, entries, over, blemish)
                     \/ DecodeGroup(v, level, entries, over, blemish)
                     \/ DecodeChunkNode(v, level, entries, over, blemish)
              PROVE  Enter(v)
          BY <4>3 DEF DecodeChunkLeaf, DecodeGroup, DecodeChunkNode
        <4> QED BY <3>1, <4>1, <4>2, <4>3, Zenon DEF Decode
      <3>3. Refuse => UNCHANGED trees
        BY <3>1 DEF Refuse, PassOver, RefuseDepth, SkipRepeated, FindBad, RefuseEntries
      <3> QED BY <2>1, <2>4, <3>2, <3>3
    <2>5. CASE ReadPointer \/ Leave \/ EndTree \/ BeginAnalysis \/ Stop \/ UNCHANGED vars
      <3>1. UNCHANGED trees
        BY <2>5 DEF ReadPointer, ReadChild, ReadUndefined, ReadOutside, Leave, EndTree,
                    BeginAnalysis, Stop, vars
      <3> QED BY <2>1, <3>1
    <2> QED BY <2>2, <2>3, <2>4, <2>5 DEF Next
  <1> QED BY <1>1, FoundKinds, VerdictsBoolean DEF NoteInv

\* Every variable of BTrees has its type: in particular the walker is called for one
\* node at a time, never for an address that is not in the file, and the count of
\* chunks stays at its ceiling.
THEOREM TypeCorrect == Spec => []TypeOK
  <1> DEFINE TypeInv == JudgedInv /\ PlaceInv /\ NoteInv
  <1>1. Init => TypeInv
    <2> SUFFICES ASSUME Init PROVE PlaceInv /\ NoteInv
      BY CeilingInit, WalkInit DEF JudgedInv
    <2>1. PlaceInv
      BY DEF Init, PlaceInv, NoTree
    <2>2. NoteInv
      <3>1. valid = TRUE /\ metaOver = FALSE /\ findings = {} /\ trees = 0
        BY DEF Init
      <3>2. valid \in BOOLEAN /\ metaOver \in BOOLEAN
        BY <3>1
      <3>3. findings \subseteq FindingKinds /\ trees \in 0..MaxTrees
        BY <3>1, BTreesAssumption
      <3> QED BY <3>2, <3>3, Zenon DEF NoteInv
    <2> QED BY <2>1, <2>2
  <1>2. TypeInv /\ [Next]_vars => TypeInv'
    BY WalkStep, PlaceStep, NoteStep DEF JudgedInv, WalkInv
  <1>3. TypeInv => TypeOK
    <2> SUFFICES ASSUME TypeInv PROVE TypeOK
      OBVIOUS
    <2>1. \A i \in 1..Len(stack) : stack[i].node \in Nodes /\ stack[i].level \in Levels
      <3>1. \A i \in 1..Len(stack) : stack[i] \in Frame
        BY DEF PlaceInv
      <3> QED BY <3>1 DEF Frame
    <2>2. Cardinality(due) <= 1
      <3>1. \A v, w \in due : v = w
        BY DEF JudgedInv, WalkInv, DueInv
      <3>2. CASE due = {}
        BY <3>2, FS_EmptySet
      <3>3. ASSUME NEW v \in due PROVE Cardinality(due) <= 1
        <4>1. due = {v}
          BY <3>1
        <4>2. Cardinality({v}) = 1
          BY FS_Singleton
        <4> QED BY <4>1, <4>2
      <3> QED BY <3>2, <3>3
    <2>3. chunks \in 0..MaxChunks
      BY BTreesAssumption DEF JudgedInv, CeilingInv
    <2>4. total \in Nat
      BY DEF JudgedInv, WalkInv, TallyInv
    <2>5. {chunksOver, metaOver} \subseteq BOOLEAN /\ valid \in BOOLEAN
      BY Zenon DEF JudgedInv, CeilingInv, NoteInv
    <2> QED
      BY <2>1, <2>2, <2>3, <2>4, <2>5, Zenon DEF TypeOK, PlaceInv, NoteInv, FindingKinds
  <1> QED BY <1>1, <1>2, <1>3, PTL DEF Spec
=============================================================================
