------------------------------- MODULE Owners -------------------------------
(***************************************************************************)
(* Two records that one walk keeps over all object headers of a file       *)
(* (h5_walk.pk, h5_group.pk, h5_validate.pk): which local heap claimed     *)
(* which data segment, judged as the heaps are decoded, and which class    *)
(* each header has, against which the region references found in           *)
(* attributes are judged when the walk is over.                            *)
(*                                                                         *)
(* A header is decoded message by message.  Which headers there are, what  *)
(* their messages say and where a header is given up is chosen freely;     *)
(* module Walk has the order in which they are reached.                    *)
(***************************************************************************)
EXTENDS Naturals, Sequences, FiniteSets

CONSTANTS
  Prefixes,      \* addresses of local heap prefixes
  Segments,      \* addresses of data segments
  Headers,       \* addresses of object headers
  MaxOwners,     \* H5POLICY_MAX_LHEAP_OWNERS
  MaxClasses,    \* H5POLICY_MAX_REACHED
  MaxRefs,       \* H5POLICY_MAX_REGION_REFS
  MaxMessages,   \* bound: messages of a header that the model decodes
  MaxAnalyses    \* bound: analyses of one process

ASSUME OwnersAssumption ==
  /\ MaxOwners \in Nat \ {0} /\ MaxClasses \in Nat \ {0} /\ MaxRefs \in Nat \ {0}
  /\ MaxMessages \in Nat /\ MaxAnalyses \in Nat

Shapes == {"group", "datatype", "dataspace"}
Classes == {"group", "dataset", "named datatype", "unknown"}

VARIABLES
  segment,     \* the file: the segment that each prefix names
  phase,       \* "idle", "analysing", "walking", "judged" or "stopped"
  analyses,    \* analyses begun
  owners,      \* h5policy_lheap_prfx_addrs and _seg_addrs
  classes,     \* h5policy_ohdr_class_addrs and h5policy_ohdr_classes
  refs,        \* h5policy_region_ref_targets
  header,      \* the headers being decoded: none or one
  shapes,      \* ctx.has_symbol_table or link_info, .has_datatype, .has_dataspace
  messages,    \* messages of the header decoded so far
  visited,     \* h5policy_visited_ohdrs
  aliases,     \* findings: local heaps that claim a segment of another
  warnings,    \* findings: the references, by their places, that do not name a dataset
  decoded,     \* history: heaps decoded in this walk
  seen,        \* history: the shapes read, and in which header
  ended,       \* history: headers decoded to their end
  noted        \* history: all references of the walk

records == <<owners, classes, refs>>
decoding == <<header, shapes, messages, visited>>
history == <<decoded, seen, ended, noted>>
vars == <<segment, phase, analyses, records, decoding, aliases, warnings, history>>

\* Fault: the owners of the last walk are kept.
ResetTraversalKeepsOwners ==
  /\ UNCHANGED owners
  /\ classes' = <<>> /\ refs' = <<>> /\ visited' = {}
  /\ decoded' = {} /\ seen' = {} /\ ended' = {} /\ noted' = <<>>

\* h5policy_reset_traversal_state
ResetTraversal ==
  /\ owners' = <<>> /\ classes' = <<>> /\ refs' = <<>> /\ visited' = {}
  /\ decoded' = {} /\ seen' = {} /\ ended' = {} /\ noted' = <<>>

Init ==
  /\ segment \in [Prefixes -> Segments]
  /\ phase = "idle" /\ analyses = 0
  /\ owners = <<>> /\ classes = <<>> /\ refs = <<>>
  /\ header = {} /\ shapes = {} /\ messages = 0 /\ visited = {}
  /\ aliases = {} /\ warnings = {}
  /\ decoded = {} /\ seen = {} /\ ended = {} /\ noted = <<>>

\* h5policy_analyze, of this file or another, or with a cache image over it.
BeginAnalysis ==
  /\ phase \in {"idle", "judged", "stopped"} /\ analyses < MaxAnalyses
  /\ analyses' = analyses + 1
  /\ segment' \in [Prefixes -> Segments]
  /\ aliases' = {} /\ warnings' = {}
  /\ ResetTraversal
  /\ phase' = "analysing" /\ header' = {} /\ shapes' = {} /\ messages' = 0

\* h5policy_walk_reachable_metadata resets once more.
EnterWalk ==
  /\ phase = "analysing"
  /\ ResetTraversal
  /\ phase' = "walking"
  /\ UNCHANGED <<segment, analyses, header, shapes, messages, aliases, warnings>>

\* Fault: the messages of the header before still count.
BeginHeaderKeepsShapes(h) ==
  /\ phase = "walking" /\ header = {} /\ h \notin visited
  /\ visited' = visited \cup {h}
  /\ header' = {h} /\ messages' = 0
  /\ UNCHANGED <<segment, phase, analyses, records, shapes, aliases, warnings, history>>

\* h5policy_validate_ohdr_raw up to the messages; what was decoded of the last
\* header is forgotten.
BeginHeader(h) ==
  /\ phase = "walking" /\ header = {} /\ h \notin visited
  /\ visited' = visited \cup {h}
  /\ header' = {h} /\ shapes' = {} /\ messages' = 0
  /\ UNCHANGED <<segment, phase, analyses, records, aliases, warnings, history>>

Message ==
  /\ phase = "walking" /\ header # {} /\ messages < MaxMessages
  /\ messages' = messages + 1

\* A symbol table or link info, a datatype, a dataspace.
ReadShape(s) ==
  /\ Message
  /\ shapes' = shapes \cup {s}
  /\ seen' = seen \cup (header \X {s})
  /\ UNCHANGED <<segment, phase, analyses, records, header, visited, aliases, warnings, decoded,
                 ended, noted>>

Claimants(s) == {owners[i].prefix : i \in {j \in DOMAIN owners : owners[j].segment = s}}

Claim(p) == owners' = Append(owners, [prefix |-> p, segment |-> segment[p]])

\* Fault: a full record ends the check.
CheckOwnerFullFirst(p) ==
  IF Len(owners) = MaxOwners THEN UNCHANGED <<owners, aliases>>
  ELSE /\ aliases' = aliases \cup ({p} \X (Claimants(segment[p]) \ {p}))
       /\ IF Claimants(segment[p]) = {} THEN Claim(p) ELSE UNCHANGED owners

\* h5policy_check_lheap_segment_owner: another prefix that claimed the segment is
\* reported, a first claim is recorded while there is room.
CheckOwner(p) ==
  /\ aliases' = aliases \cup ({p} \X (Claimants(segment[p]) \ {p}))
  /\ IF Claimants(segment[p]) = {} /\ Len(owners) < MaxOwners
     THEN Claim(p) ELSE UNCHANGED owners

\* h5policy_local_heap_data_addr, for a symbol table, which makes the header a
\* group, or for an external file list, which does not.  Heaps that fail an
\* earlier check do not get here.
DecodeHeap(p) ==
  /\ Message
  /\ CheckOwner(p)
  /\ decoded' = decoded \cup {p}
  /\ \E s \in SUBSET {"group"} : /\ shapes' = shapes \cup s
                                /\ seen' = seen \cup (header \X s)
  /\ UNCHANGED <<segment, phase, analyses, classes, refs, header, visited, warnings, ended, noted>>

\* h5policy_note_region_ref_target; nothing says that the target is a header.
NoteRef(t) ==
  /\ Message
  /\ refs' = IF Len(refs) < MaxRefs THEN Append(refs, t) ELSE refs
  /\ noted' = Append(noted, t)
  /\ UNCHANGED <<segment, phase, analyses, owners, classes, header, shapes, visited, aliases,
                 warnings, decoded, seen, ended>>

\* h5policy_record_ohdr_class
ClassOf(found) ==
  IF "group" \in found THEN "group"
  ELSE IF {"datatype", "dataspace"} \subseteq found THEN "dataset"
  ELSE IF "datatype" \in found THEN "named datatype"
  ELSE "unknown"

\* The end of h5policy_validate_ohdr_raw.
EndHeader ==
  /\ phase = "walking" /\ header # {}
  /\ \E h \in header :
       classes' = IF Len(classes) < MaxClasses
                  THEN Append(classes, [header |-> h, class |-> ClassOf(shapes)])
                  ELSE classes
  /\ ended' = ended \cup header
  /\ header' = {}
  /\ UNCHANGED <<segment, phase, analyses, owners, refs, shapes, messages, visited, aliases,
                 warnings, decoded, seen, noted>>

\* One of its early returns.
GiveUpHeader ==
  /\ phase = "walking" /\ header # {}
  /\ header' = {}
  /\ UNCHANGED <<segment, phase, analyses, records, shapes, messages, visited, aliases, warnings,
                 history>>

\* The walk stops at a rejection, or anything in it throws: no reference is judged.
StopWalk ==
  /\ phase = "walking"
  /\ phase' = "stopped" /\ header' = {}
  /\ UNCHANGED <<segment, analyses, records, shapes, messages, visited, aliases, warnings,
                 history>>

ClassesAt(t) == {i \in DOMAIN classes : classes[i].header = t}

\* The first class recorded for t is the one that is looked at.
Hazardous(t) ==
  \E i \in ClassesAt(t) : /\ \A j \in ClassesAt(t) : i <= j
                         /\ classes[i].class \in {"group", "named datatype"}

\* h5policy_judge_region_ref_targets
Judge ==
  /\ phase = "walking" /\ header = {}
  /\ warnings' = {r \in DOMAIN refs : Hazardous(refs[r])}
  /\ phase' = "judged"
  /\ UNCHANGED <<segment, analyses, records, decoding, aliases, history>>

Stop == phase \in {"judged", "stopped"} /\ analyses = MaxAnalyses /\ UNCHANGED vars

Next ==
  \/ BeginAnalysis \/ EnterWalk
  \/ \E h \in Headers : BeginHeader(h)
  \/ \E s \in Shapes : ReadShape(s)
  \/ \E p \in Prefixes : DecodeHeap(p)
  \/ \E t \in Headers : NoteRef(t)
  \/ EndHeader \/ GiveUpHeader \/ StopWalk \/ Judge \/ Stop

Spec == Init /\ [][Next]_vars

-----------------------------------------------------------------------------
TypeOK ==
  /\ segment \in [Prefixes -> Segments]
  /\ phase \in {"idle", "analysing", "walking", "judged", "stopped"}
  /\ analyses \in 0..MaxAnalyses
  /\ owners \in Seq([prefix : Prefixes, segment : Segments]) /\ Len(owners) <= MaxOwners
  /\ classes \in Seq([header : Headers, class : Classes]) /\ Len(classes) <= MaxClasses
  /\ refs \in Seq(Headers) /\ Len(refs) <= MaxRefs
  /\ header \subseteq Headers /\ shapes \subseteq Shapes /\ messages \in 0..MaxMessages
  /\ visited \subseteq Headers
  /\ aliases \subseteq Prefixes \X Prefixes /\ warnings \subseteq Nat
  /\ decoded \subseteq Prefixes
  /\ seen \subseteq Headers \X Shapes /\ ended \subseteq Headers /\ noted \in Seq(Headers)

Accused == {a[1] : a \in aliases}

\* Of the heaps of this file that share a segment at most one goes unaccused,
\* in whatever order and however often they were decoded, unless the record of
\* owners was full when the first of them came.
AliasReported ==
  \A p, q \in decoded :
    p # q /\ segment[p] = segment[q] /\ {p, q} \cap Accused = {}
      => Len(owners) = MaxOwners /\ Claimants(segment[p]) = {}

\* No heap is accused because it is decoded again or because of another file:
\* both heaps of a finding are in this file and name one segment.
NoFalseAlias ==
  \A a \in aliases : a \in decoded \X decoded /\ a[1] # a[2] /\ segment[a[1]] = segment[a[2]]

\* What the library takes for a group or a committed datatype, of all messages
\* of a header that was decoded to its end.
NoDataset(t) ==
  LET found == {s \in Shapes : <<t, s>> \in seen}
  IN t \in ended /\ ("group" \in found \/ found = {"datatype"})

\* While the caps are not reached the warnings at the end of the walk are those
\* references, each as often as it was found, whose target was seen not to be a
\* dataset, whether the walk came to it before the reference or after.
RefsJudged ==
  phase = "judged" /\ Len(noted) <= MaxRefs /\ Cardinality(ended) <= MaxClasses
    => warnings = {r \in DOMAIN noted : NoDataset(noted[r])}
=============================================================================
