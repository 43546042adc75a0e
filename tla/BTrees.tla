------------------------------- MODULE BTrees -------------------------------
(***************************************************************************)
(* The B-trees of one file and the walkers that descend them: version 1    *)
(* trees of groups (h5_group.pk) and of chunks (h5_chunkindex.pk), version *)
(* 2 trees of chunks and of shared messages, which share one engine        *)
(* (h5_btree2.pk), and the name indexes of dense links and attributes      *)
(* (h5_dense_links.pk, h5_dense_attrs.pk).  All share one set of visited   *)
(* nodes and the ceilings of the file; each has its own rules for what it  *)
(* leaves out, and for when it may compare a count.                        *)
(*                                                                         *)
(* A walker is recursive: stack holds the nodes being decoded, due the one *)
(* that it is called for next.  What a node says is chosen as it is read,  *)
(* which covers every file since no node is read twice (EachNodeOnce).     *)
(* Trees are begun by the messages of headers, in any order (module Walk). *)
(***************************************************************************)
EXTENDS Naturals, Sequences, FiniteSets

CONSTANTS
  Nodes,       \* addresses of nodes
  Undefined,   \* the undefined address
  Outside,     \* an address past the end of file
  Kinds,       \* the trees of the file, of V1, Engine and Names
  MaxDepth,    \* profile.resources.max_btree_depth
  MaxChunks,   \* profile.resources.max_chunk_count
  MaxLevel,    \* bound: level of a node
  Fanout,      \* bound: entries of a version 1 node
  MaxRecords,  \* bound: records of a version 2 node
  MaxTotal,    \* bound: chunks claimed at once, and totals of headers
  MaxTrees     \* bound: trees walked in a session

V1 == {"group", "chunk"}
Engine == {"chunk2", "sohm"}
Names == {"links", "attrs"}

ASSUME BTreesAssumption ==
  /\ Kinds \subseteq V1 \cup Engine \cup Names
  /\ MaxDepth \in Nat /\ MaxChunks \in Nat /\ MaxLevel \in Nat /\ Fanout \in Nat
  /\ MaxRecords \in Nat /\ MaxTotal \in Nat /\ MaxTrees \in Nat

VARIABLES
  tree,        \* the tree being walked, with the counts of its header
  stack,       \* its nodes being decoded, innermost last
  due,         \* the node that the walker is called for, if any
  visited,     \* h5policy_visited_btrees
  total,       \* h5policy_bt2_walk_total or h5policy_dense_name_walk_total
  valid,       \* h5policy_bt2_walk_valid or h5policy_dense_name_walk_valid
  chunks,      \* ctx.accounted_chunk_count
  chunksOver,  \* ctx.chunk_count_exceeded
  metaOver,    \* ctx.metadata_count_exceeded
  findings,    \* what was found, by kind
  trees,       \* trees begun in the session
  named,       \* history: the nodes that pointers and headers name, and as what
  decoded,     \* history: the nodes decoded, and as what
  reads,       \* history: how often each node was decoded or found bad
  unread,      \* history: something of a decoded node was left out
  counted,     \* history: chunks claimed, without a ceiling
  held,        \* history: entries of the version 1 leaves decoded
  inspected,   \* history: those of them that were looked at
  tally,       \* history: of this tree, what its pointers claim and name
  verdict      \* history: how the last tree was judged

counts == <<total, valid>>
ceilings == <<chunks, chunksOver, metaOver>>
leaves == <<counted, held, inspected>>
history == <<named, decoded, reads, unread, leaves, tally, verdict>>
vars == <<tree, stack, due, visited, counts, ceilings, findings, trees, history>>

NoTree == [kind |-> "none", depth |-> 0, header |-> 0]
LevelUnknown == MaxLevel + 1   \* H5POLICY_BTREE_LEVEL_UNKNOWN
NoTally == [claimed |-> 0, named |-> 0, followed |-> 0, short |-> FALSE]
NoVerdict == [tree |-> NoTree, tally |-> NoTally, accused |-> FALSE, clean |-> TRUE]

Init ==
  /\ tree = NoTree /\ stack = <<>> /\ due = {} /\ visited = {}
  /\ total = 0 /\ valid = TRUE
  /\ chunks = 0 /\ chunksOver = FALSE /\ metaOver = FALSE
  /\ findings = {} /\ trees = 0
  /\ named = {} /\ decoded = {} /\ reads = [n \in Nodes |-> 0] /\ unread = FALSE
  /\ counted = 0 /\ held = 0 /\ inspected = 0
  /\ tally = NoTally /\ verdict = NoVerdict

\* An analysis ends with its walk, or anywhere in it by an exception, and another
\* begins: h5policy_reset_traversal_state and a new context.  The two counts of
\* a tree are not reset.
BeginAnalysis ==
  /\ trees > 0
  /\ tree' = NoTree /\ stack' = <<>> /\ due' = {} /\ visited' = {}
  /\ chunks' = 0 /\ chunksOver' = FALSE /\ metaOver' = FALSE /\ findings' = {}
  /\ named' = {} /\ decoded' = {} /\ reads' = [n \in Nodes |-> 0] /\ unread' = FALSE
  /\ counted' = 0 /\ held' = 0 /\ inspected' = 0
  /\ tally' = NoTally /\ verdict' = NoVerdict
  /\ UNCHANGED <<counts, trees>>

Idle == tree = NoTree
Top == stack[Len(stack)]
Found(what) == findings' = findings \cup what

----------------------------------------------------------------------------
(* The ceilings of the file.                                               *)

Exceeds(n) == n > MaxChunks \/ chunks > MaxChunks - n

\* h5policy_count_chunks
CountChunks(n) ==
  /\ chunks' = IF Exceeds(n) THEN MaxChunks ELSE chunks + n
  /\ chunksOver' = (chunksOver \/ Exceeds(n))
  /\ counted' = counted + n
OverChunks(n) == IF Exceeds(n) THEN {"chunks"} ELSE {}

\* h5policy_account_metadata: a budget once exceeded stays so.
AccountMetadata(over) == (metaOver => over) /\ metaOver' = over
OverMetadata(over) == IF over THEN {"resource"} ELSE {}

\* The indexes without nodes: implicit, single chunk, fixed and extensible arrays.
ClaimChunks(n) ==
  /\ Idle /\ trees < MaxTrees
  /\ trees' = trees + 1
  /\ CountChunks(n) /\ Found(OverChunks(n))
  /\ UNCHANGED <<tree, stack, due, visited, counts, metaOver, named, decoded, reads,
                 unread, held, inspected, tally, verdict>>

----------------------------------------------------------------------------
(* The roots.  A tree whose header is refused is not begun.                *)

Visit(n, level, nrec) ==
  [node |-> n, kind |-> tree'.kind, level |-> level, nrec |-> nrec, snod |-> FALSE]
As(v) == [node |-> v.node, kind |-> v.kind, level |-> v.level, snod |-> v.snod]

Begin(t, n, level, nrec) ==
  /\ tree' = t
  /\ due' = {Visit(n, level, nrec)}
  /\ named' = named \cup {As(Visit(n, level, nrec))}
  /\ tally' = [NoTally EXCEPT !.claimed = nrec, !.named = 1]
  /\ UNCHANGED <<stack, visited, decoded, reads, unread, held, inspected>>

NotBegun == UNCHANGED <<tree, stack, due, visited, counts, named, decoded, reads, unread,
                        held, inspected, tally>>

\* h5policy_reset_bt2_walk_total, h5policy_reset_dense_name_index
ResetCount == total' = 0 /\ valid' = TRUE

NextTree == Idle /\ trees < MaxTrees /\ trees' = trees + 1 /\ verdict' = NoVerdict

\* A group's symbol table, a chunked layout of the old index.
BeginV1(kind, n) ==
  /\ NextTree
  /\ Begin([NoTree EXCEPT !.kind = kind], n, LevelUnknown, 0)
  /\ UNCHANGED <<counts, ceilings, findings, counted>>

\* h5policy_walk_v2_btree_chunks and its counterpart for shared messages.  The
\* total of the header is claimed before anything else is looked at.
BeginEngine(kind, root, depth, nroot, header, over) ==
  LET claim == IF kind = "chunk2" THEN header ELSE 0
      leafRootDiffers == depth = 0 /\ header # nroot
      wrong == \/ root = Undefined /\ (nroot # 0 \/ header # 0)
               \/ root = Outside
               \/ root \in Nodes /\ leafRootDiffers
  IN /\ NextTree
     /\ IF kind = "chunk2" THEN CountChunks(claim) ELSE UNCHANGED <<chunks, chunksOver, counted>>
     /\ AccountMetadata(over)
     /\ Found(OverMetadata(over)
              \cup (IF kind = "chunk2" THEN OverChunks(claim) ELSE {})
              \cup (IF ~over /\ wrong THEN {"corrupt"} ELSE {}))
     /\ IF over \/ wrong \/ root = Undefined
          THEN NotBegun
          ELSE /\ ResetCount
               /\ Begin([kind |-> kind, depth |-> depth, header |-> header], root, depth, nroot)

\* The name index of dense links or attributes; an undefined root is left before.
BeginNames(kind, root, depth, nroot, header) ==
  /\ NextTree
  /\ ResetCount
  /\ UNCHANGED <<ceilings, counted>>
  /\ IF root = Outside
       THEN /\ Found({"corrupt"})
            /\ UNCHANGED <<tree, stack, due, visited, named, decoded, reads, unread,
                           held, inspected, tally>>
       ELSE /\ UNCHANGED findings
            /\ Begin([kind |-> kind, depth |-> depth, header |-> header], root, depth, nroot)

----------------------------------------------------------------------------
(* Calling the walker for one node.                                        *)

Passes(v) == \/ v.kind = "chunk" /\ chunksOver
             \/ v.kind \in Engine /\ metaOver
TooDeep(v) == \/ v.kind \in V1 /\ ~v.snod /\ Len(stack) > MaxDepth
              \/ v.kind \notin V1 /\ v.level > MaxDepth

\* A ceiling exceeded: the walkers of version 1 and 2 look at one each.
PassOver(v) ==
  /\ v \in due /\ Passes(v)
  /\ due' = {}
  /\ valid' = (valid /\ v.kind \notin Engine)
  /\ UNCHANGED <<tree, stack, visited, total, ceilings, findings, trees, history>>

\* Fault: a node met again is decoded again in a name index.
MarkNameless(v) ==
  visited' = IF v.kind \in Names THEN visited ELSE visited \cup {v.node}

\* h5policy_mark_visited_btree, the branch that marks
Mark(v) == visited' = visited \cup {v.node}

CountRecords(v) == total' = IF v.kind \in V1 THEN total ELSE total + v.nrec

\* Fault: a tree refused for its depth is taken for one read to its end.
RefuseDepthTrusting(v) ==
  /\ v \in due /\ ~Passes(v) /\ TooDeep(v)
  /\ v.kind \in Names => v.node \notin visited
  /\ IF v.kind \in Names THEN Mark(v) /\ CountRecords(v) ELSE UNCHANGED <<visited, total>>
  /\ due' = {} /\ Found({"resource"})
  /\ UNCHANGED <<tree, stack, valid, ceilings, trees, history>>

\* The name indexes look at the depth after they have marked and counted.
RefuseDepth(v) ==
  /\ v \in due /\ ~Passes(v) /\ TooDeep(v)
  /\ v.kind \in Names => v.node \notin visited
  /\ IF v.kind \in Names THEN Mark(v) /\ CountRecords(v) ELSE UNCHANGED <<visited, total>>
  /\ due' = {} /\ Found({"resource"})
  /\ valid' = (valid /\ v.kind \in V1)
  /\ UNCHANGED <<tree, stack, ceilings, trees, history>>

\* Only the engine reports a node that was visited before, by whatever tree.
SkipRepeated(v) ==
  /\ v \in due /\ ~Passes(v) /\ v.node \in visited
  /\ v.kind \in Names \/ ~TooDeep(v)
  /\ due' = {}
  /\ Found(IF v.kind \in Engine THEN {"corrupt"} ELSE {})
  /\ valid' = (valid /\ v.kind \in V1)
  /\ UNCHANGED <<tree, stack, visited, total, ceilings, trees, history>>

Enter(v) ==
  /\ v \in due /\ ~Passes(v) /\ ~TooDeep(v) /\ v.node \notin visited
  /\ Mark(v) /\ CountRecords(v)
  /\ due' = {}
  /\ reads' = [reads EXCEPT ![v.node] = @ + 1]
  /\ UNCHANGED <<tree, trees, named, unread, verdict>>

Decoded(v) == decoded' = decoded \cup {As(v)}
Push(v, level, left) == stack' = Append(stack, [node |-> v.node, level |-> level, left |-> left])
Followed == tally' = [tally EXCEPT !.followed = @ + 1]

\* Outside the file, of another kind or type, or with contents that do not fit.
\* A leaf of a name index has been counted by the pointer that names it.
FindBad(v) ==
  LET leaf == v.kind \in Names /\ v.level = 0
  IN /\ Enter(v)
     /\ Found({"corrupt"})
     /\ valid' = (valid /\ (v.kind \in V1 \/ leaf))
     /\ IF leaf THEN Followed ELSE UNCHANGED tally
     /\ UNCHANGED <<stack, ceilings, decoded, leaves>>

----------------------------------------------------------------------------
(* The walkers.  "blemish" is a finding after which they go on.            *)

\* Fault: the level that a node must have is not compared.
LevelRightAlways(v, level) == TRUE

\* A node of another level than its parent demands is bad.
LevelRight(v, level) == v.level \in {LevelUnknown, level}

\* h5policy_walk_snod
DecodeSnod(v, over, blemish) ==
  /\ v.kind = "group" /\ v.snod
  /\ Enter(v) /\ Decoded(v)
  /\ AccountMetadata(over)
  /\ Found(blemish \cup OverMetadata(over))
  /\ UNCHANGED <<stack, valid, chunks, chunksOver, leaves, tally>>

\* h5policy_walk_group_btree; too many entries are a blemish.
DecodeGroup(v, level, entries, over, blemish) ==
  /\ v.kind = "group" /\ ~v.snod /\ LevelRight(v, level)
  /\ Enter(v) /\ Decoded([v EXCEPT !.level = level])
  /\ AccountMetadata(over)
  /\ Found(blemish \cup OverMetadata(over))
  /\ Push(v, level, entries)
  /\ UNCHANGED <<valid, chunks, chunksOver, leaves, tally>>

\* h5policy_walk_chunk_btree: too many entries are none.
RefuseEntries(v, level, over) ==
  /\ v.kind = "chunk" /\ LevelRight(v, level)
  /\ Enter(v)
  /\ AccountMetadata(over)
  /\ Found({"corrupt"} \cup OverMetadata(over))
  /\ UNCHANGED <<stack, valid, chunks, chunksOver, decoded, leaves, tally>>

DecodeChunkNode(v, level, entries, over, blemish) ==
  /\ v.kind = "chunk" /\ level > 0 /\ LevelRight(v, level)
  /\ Enter(v) /\ Decoded([v EXCEPT !.level = level])
  /\ AccountMetadata(over)
  /\ Found(blemish \cup OverMetadata(over))
  /\ Push(v, level, entries)
  /\ UNCHANGED <<valid, chunks, chunksOver, leaves, tally>>

Allowance(entries) == IF entries > MaxChunks - chunks THEN MaxChunks - chunks ELSE entries

\* Fault: nothing of a leaf is claimed once the ceiling is reached.
ClaimLeafEarly(entries) ==
  /\ IF chunks >= MaxChunks
       THEN UNCHANGED <<chunks, chunksOver>> /\ counted' = counted + entries
       ELSE CountChunks(entries)
  /\ inspected' = inspected + Allowance(entries)
  /\ held' = held + entries

\* All entries of a leaf are claimed at once, those that fit are looked at.
ClaimLeaf(entries) ==
  /\ CountChunks(entries)
  /\ inspected' = inspected + Allowance(entries)
  /\ held' = held + entries

DecodeChunkLeaf(v, entries, over, blemish) ==
  /\ v.kind = "chunk" /\ LevelRight(v, 0)
  /\ Enter(v) /\ Decoded([v EXCEPT !.level = 0])
  /\ AccountMetadata(over)
  /\ ClaimLeaf(entries)
  /\ Found(blemish \cup OverMetadata(over) \cup OverChunks(entries))
  /\ UNCHANGED <<stack, valid, tally>>

\* h5policy_walk_v2_btree_node: what is given up here has been counted already.
DecodeEngine(v, over, sound, blemish) ==
  LET givenUp == over \/ ~sound \/ (v.kind = "chunk2" /\ v.level > 0 /\ chunksOver)
  IN /\ v.kind \in Engine
     /\ Enter(v)
     /\ AccountMetadata(over)
     /\ Found(OverMetadata(over) \cup (IF ~over /\ ~sound THEN {"corrupt"} ELSE {})
              \cup (IF ~over /\ sound THEN blemish ELSE {}))
     /\ valid' = (valid /\ ~givenUp)
     /\ IF givenUp THEN UNCHANGED <<decoded, tally>> ELSE Decoded(v) /\ Followed
     /\ IF givenUp \/ v.level = 0 THEN UNCHANGED stack ELSE Push(v, v.level, v.nrec + 1)
     /\ UNCHANGED <<chunks, chunksOver, leaves>>

\* h5policy_dense_links_node, h5policy_dense_attrs_node; a checksum is a blemish.
DecodeName(v, blemish) ==
  /\ v.kind \in Names
  /\ Enter(v) /\ Decoded(v) /\ Followed
  /\ Found(blemish)
  /\ IF v.level = 0 THEN UNCHANGED stack ELSE Push(v, v.level, v.nrec + 1)
  /\ UNCHANGED <<valid, ceilings, leaves>>

----------------------------------------------------------------------------
(* Reading the pointers of the innermost node.                             *)

Stopped == \/ tree.kind = "chunk" /\ chunksOver
           \/ tree.kind \in Engine /\ metaOver

NextPointer ==
  /\ stack # <<>> /\ due = {} /\ Top.left > 0 /\ ~Stopped
  /\ stack' = [stack EXCEPT ![Len(stack)].left = @ - 1]

\* Only a leaf of a group's tree names symbol table nodes.
ReadChild(n, nrec) ==
  LET snod == tree.kind = "group" /\ Top.level = 0
      v == [node |-> n, kind |-> tree.kind, snod |-> snod, nrec |-> nrec,
            level |-> IF snod THEN 0 ELSE Top.level - 1]
  IN /\ NextPointer
     /\ tree.kind \in V1 => nrec = 0
     /\ due' = {v} /\ named' = named \cup {As(v)}
     /\ tally' = [tally EXCEPT !.claimed = @ + nrec, !.named = @ + 1]
     /\ UNCHANGED <<tree, visited, counts, ceilings, findings, trees, decoded, reads,
                    unread, leaves, verdict>>

\* Version 1 trees and indexes of attributes take an undefined child for none.
ReadUndefined ==
  LET allowed == tree.kind \in V1 \cup {"attrs"}
  IN /\ NextPointer
     /\ Found(IF tree.kind \in Engine THEN {"corrupt"} ELSE {})
     /\ valid' = (valid /\ allowed)
     /\ tally' = [tally EXCEPT !.short = @ \/ ~allowed]
     /\ UNCHANGED <<tree, due, visited, total, ceilings, trees, named, decoded, reads,
                    unread, leaves, verdict>>

ReadOutside ==
  /\ NextPointer
  /\ Found({"corrupt"})
  /\ valid' = (valid /\ tree.kind \in V1)
  /\ tally' = [tally EXCEPT !.short = TRUE]
  /\ UNCHANGED <<tree, due, visited, total, ceilings, trees, named, decoded, reads,
                 unread, leaves, verdict>>

\* The walker returns, at the end of the node or because a ceiling was exceeded.
Leave ==
  /\ stack # <<>> /\ due = {} /\ (Top.left = 0 \/ Stopped)
  /\ stack' = SubSeq(stack, 1, Len(stack) - 1)
  /\ valid' = (valid /\ (Top.left = 0 \/ tree.kind \in V1))
  /\ unread' = (unread \/ Top.left > 0)
  /\ UNCHANGED <<tree, due, visited, total, ceilings, findings, trees, named, decoded,
                 reads, leaves, tally, verdict>>

\* The engine's callers compare a leaf root before the walk, the others after it.
Accuses ==
  /\ \/ tree.kind \in Engine /\ tree.depth # 0
     \/ tree.kind \in Names
  /\ valid /\ total # tree.header

EndTree ==
  /\ ~Idle /\ stack = <<>> /\ due = {}
  /\ Found(IF Accuses THEN {"corrupt"} ELSE {})
  /\ verdict' = [tree |-> tree, tally |-> tally, accused |-> Accuses, clean |-> findings = {}]
  /\ tree' = NoTree /\ tally' = NoTally
  /\ UNCHANGED <<stack, due, visited, counts, ceilings, trees, named, decoded, reads,
                 unread, leaves>>

----------------------------------------------------------------------------
Blemishes == {{}, {"corrupt"}}
Levels == 0..MaxLevel

BeginTree ==
  \E kind \in Kinds :
    \/ kind \in V1 /\ \E n \in Nodes : BeginV1(kind, n)
    \/ \E depth \in Levels, nroot \in 0..MaxRecords, header \in 0..MaxTotal :
         \/ /\ kind \in Engine
            /\ \E root \in Nodes \cup {Undefined, Outside}, over \in BOOLEAN :
                 BeginEngine(kind, root, depth, nroot, header, over)
         \/ /\ kind \in Names
            /\ \E root \in Nodes \cup {Outside} :
                 BeginNames(kind, root, depth, nroot, header)

Decode ==
  \E v \in due, over \in BOOLEAN, blemish \in Blemishes :
    \/ DecodeSnod(v, over, blemish)
    \/ DecodeName(v, blemish)
    \/ \E sound \in BOOLEAN : DecodeEngine(v, over, sound, blemish)
    \/ \E entries \in 0..Fanout :
         \/ DecodeChunkLeaf(v, entries, over, blemish)
         \/ \E level \in Levels :
              \/ DecodeGroup(v, level, entries, over, blemish)
              \/ DecodeChunkNode(v, level, entries, over, blemish)

Refuse ==
  \E v \in due :
    \/ PassOver(v) \/ RefuseDepth(v) \/ SkipRepeated(v) \/ FindBad(v)
    \/ \E level \in Levels, over \in BOOLEAN : RefuseEntries(v, level, over)

ReadPointer ==
  \/ \E n \in Nodes, nrec \in 0..MaxRecords : ReadChild(n, nrec)
  \/ ReadUndefined
  \/ ReadOutside

Stop == Idle /\ trees = MaxTrees /\ UNCHANGED vars

Next ==
  \/ BeginAnalysis \/ BeginTree
  \/ \E n \in 1..MaxTotal : ClaimChunks(n)
  \/ Decode \/ Refuse \/ ReadPointer \/ Leave \/ EndTree
  \/ Stop

Spec == Init /\ [][Next]_vars

----------------------------------------------------------------------------
\* Type invariant.
TypeOK ==
  /\ tree.kind \in Kinds \cup {"none"}
  /\ \A i \in 1..Len(stack) : stack[i].node \in Nodes /\ stack[i].level \in Levels
  /\ Cardinality(due) <= 1 /\ visited \subseteq Nodes
  /\ total \in Nat /\ valid \in BOOLEAN
  /\ chunks \in 0..MaxChunks /\ {chunksOver, metaOver} \subseteq BOOLEAN
  /\ findings \subseteq {"corrupt", "resource", "chunks"}
  /\ trees \in 0..MaxTrees

\* No node is read twice in one analysis, by whatever trees, levels and parents it
\* is named: child pointers that share nodes cost no more than a tree does.
EachNodeOnce == \A n \in Nodes : reads[n] <= 1

\* A node that is named as p was decoded as that; the root of a version 1 tree may
\* have any level.
DecodedAs(p) ==
  \E d \in decoded : /\ [d EXCEPT !.level = 0] = [p EXCEPT !.level = 0]
                     /\ p.level \in {LevelUnknown, d.level}

\* When nothing was found, nothing was left out: every node that the file names
\* was decoded, at the level and as the kind that its parent demands, except for a
\* node that was decoded as something else before (version 1 trees and name indexes
\* take it for known).
CleanIsRead ==
  findings = {} /\ Idle =>
    /\ ~unread
    /\ \A p \in named : \/ DecodedAs(p)
                        \/ /\ p.kind \notin Engine
                           /\ \E q \in named : q # p /\ q.node = p.node /\ DecodedAs(q)

\* The same without the exception, as the comments of the version 1 walkers have it
\* of levels ("A child's level must be exactly one below its parent's"): not kept
\* for a node that is named twice.
CleanIsReadAsNamed == findings = {} /\ Idle => \A p \in named : DecodedAs(p)

\* The count in a header is held against the whole tree or not at all: a tree cut
\* short, by a ceiling, a repeated node or damage, is not accused of a wrong count,
\* and one read to its end with another count than its header's is never clean.
CountJudged ==
  LET whole == ~verdict.tally.short /\ verdict.tally.followed = verdict.tally.named
      differs == verdict.tally.claimed # verdict.tree.header
  IN verdict.tree.kind \in Engine \cup Names =>
       /\ verdict.accused => whole /\ differs
       /\ whole /\ differs => verdict.accused \/ ~verdict.clean

\* The chunk count is exact up to the ceiling over all indexes of the file, passing
\* it is reported, reaching it is not, and no more records are looked at than the
\* ceiling allows, nor fewer while it holds.
CeilingExact ==
  /\ chunksOver = (counted > MaxChunks)
  /\ chunks = IF chunksOver THEN MaxChunks ELSE counted
  /\ chunksOver = ("chunks" \in findings)
  /\ inspected <= MaxChunks
  /\ ~chunksOver => inspected = held
=============================================================================
