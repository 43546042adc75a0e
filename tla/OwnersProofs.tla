---------------------------- MODULE OwnersProofs ----------------------------
(***************************************************************************)
(* Theorems about the records of Owners, for any caps and any number of    *)
(* heaps and headers.  What makes the record of owners work is that no     *)
(* segment is recorded twice, and that a heap that was decoded is an       *)
(* owner, is accused, or came when the record was full, which it then      *)
(* stays.  The record of classes works because no header is decoded twice  *)
(* and nothing of one header is left when the next is begun.               *)
(***************************************************************************)
EXTENDS Owners, FiniteSetTheorems, WellFoundedInduction, TLAPS

Owner == [prefix : Prefixes, segment : Segments]

HeapTypes ==
  /\ segment \in [Prefixes -> Segments]
  /\ owners \in Seq(Owner) /\ Len(owners) <= MaxOwners
  /\ decoded \subseteq Prefixes

\* What is recorded is true of the file and was decoded in this walk.
OwnersRight ==
  \A i \in DOMAIN owners :
    owners[i].prefix \in decoded /\ owners[i].segment = segment[owners[i].prefix]

OneClaim ==
  \A i, j \in DOMAIN owners : owners[i].segment = owners[j].segment => i = j

Shutout(p) == Len(owners) = MaxOwners /\ Claimants(segment[p]) = {}

Settled ==
  \A p \in decoded :
    \/ p \in Accused
    \/ \E i \in DOMAIN owners : owners[i].prefix = p
    \/ Shutout(p)

\* The second reset of the walk finds nothing to accuse.
QuietBefore == phase = "analysing" => aliases = {}

HeapInv ==
  HeapTypes /\ OwnersRight /\ OneClaim /\ Settled /\ QuietBefore /\ NoFalseAlias

-----------------------------------------------------------------------------
LEMMA HeapInit == Init => HeapInv
  BY OwnersAssumption
  DEF Init, HeapInv, HeapTypes, Owner, OwnersRight, OneClaim, Settled, QuietBefore, NoFalseAlias

\* A reset leaves nothing to be wrong about.
LEMMA ResetKeeps ==
  ASSUME ResetTraversal, segment' \in [Prefixes -> Segments], aliases' = {}
  PROVE  HeapInv'
  <1>1. owners' = <<>> /\ decoded' = {}
    BY DEF ResetTraversal
  <1> QED
    BY <1>1, OwnersAssumption
    DEF HeapInv, HeapTypes, Owner, OwnersRight, OneClaim, Settled, QuietBefore, NoFalseAlias

\* The invariant speaks of the heaps and of one phase.
LEMMA OthersKeep ==
  ASSUME HeapInv, UNCHANGED <<segment, owners, aliases, decoded>>,
         phase' = phase \/ phase' # "analysing"
  PROVE  HeapInv'
  <1>1. HeapTypes' /\ OwnersRight' /\ OneClaim'
    BY DEF HeapInv, HeapTypes, OwnersRight, OneClaim
  <1>2. Settled'
    BY DEF HeapInv, Settled, Shutout, Claimants, Accused
  <1>3. QuietBefore'
    BY DEF HeapInv, QuietBefore
  <1>4. NoFalseAlias'
    BY DEF HeapInv, NoFalseAlias
  <1> QED BY <1>1, <1>2, <1>3, <1>4 DEF HeapInv

\* A claim of an unclaimed segment.
LEMMA ClaimKeeps ==
  ASSUME HeapInv, NEW p \in Prefixes, Claimants(segment[p]) = {}, Len(owners) < MaxOwners,
         Claim(p), decoded' = decoded \cup {p}, UNCHANGED <<segment, aliases, phase>>
  PROVE  HeapInv'
  <1> DEFINE n == Len(owners)
             o == [prefix |-> p, segment |-> segment[p]]
  <1>1. o \in Owner /\ owners \in Seq(Owner) /\ n \in Nat /\ MaxOwners \in Nat
    BY OwnersAssumption DEF HeapInv, HeapTypes, Owner
  <1>2. /\ owners' \in Seq(Owner) /\ Len(owners') = n + 1
        /\ \A i \in 1..n : owners'[i] = owners[i]
        /\ owners'[n + 1] = o
    BY <1>1 DEF Claim
  <1>3. DOMAIN owners = 1..n /\ DOMAIN owners' = 1..(n + 1)
    BY <1>1, <1>2
  <1>4. \A i \in 1..n : owners[i].segment # segment[p]
    BY <1>3 DEF Claimants
  <1>5. HeapTypes'
    BY <1>1, <1>2 DEF HeapInv, HeapTypes
  <1>6. OwnersRight'
    BY <1>1, <1>2, <1>3 DEF HeapInv, OwnersRight
  <1>7. OneClaim'
    BY <1>1, <1>2, <1>3, <1>4 DEF HeapInv, OneClaim
  <1>8. Settled'
    <2> SUFFICES ASSUME NEW q \in decoded', q \notin Accused'
                 PROVE  \E i \in DOMAIN owners' : owners'[i].prefix = q
      BY DEF Settled
    <2>1. CASE q = p
      BY <1>1, <1>2, <1>3, <2>1
    <2>2. CASE q # p
      <3>1. q \in decoded /\ q \notin Accused
        BY <2>2 DEF Accused
      <3>2. PICK i \in DOMAIN owners : owners[i].prefix = q
        BY <1>1, <3>1 DEF HeapInv, Settled, Shutout
      <3> QED BY <1>1, <1>2, <1>3, <3>2
    <2> QED BY <2>1, <2>2
  <1>9. QuietBefore' /\ NoFalseAlias'
    BY DEF HeapInv, QuietBefore, NoFalseAlias
  <1> QED BY <1>5, <1>6, <1>7, <1>8, <1>9 DEF HeapInv

\* A heap whose segment is claimed, by itself or by another, or for which there
\* is no room.
LEMMA NoClaimKeeps ==
  ASSUME HeapInv, NEW p \in Prefixes, phase = "walking",
         Claimants(segment[p]) # {} \/ ~(Len(owners) < MaxOwners),
         aliases' = aliases \cup ({p} \X (Claimants(segment[p]) \ {p})),
         decoded' = decoded \cup {p}, UNCHANGED <<segment, owners, phase>>
  PROVE  HeapInv'
  <1>1. owners \in Seq(Owner) /\ Len(owners) \in Nat /\ MaxOwners \in Nat
        /\ Len(owners) <= MaxOwners
    BY OwnersAssumption DEF HeapInv, HeapTypes
  <1>2. HeapTypes' /\ OwnersRight' /\ OneClaim' /\ QuietBefore'
    BY DEF HeapInv, HeapTypes, OwnersRight, OneClaim, QuietBefore
  <1>3. \A c \in Claimants(segment[p]) : c \in decoded /\ segment[c] = segment[p]
    BY DEF HeapInv, OwnersRight, Claimants
  <1>4. NoFalseAlias'
    <2> SUFFICES ASSUME NEW a \in aliases'
                 PROVE  (a \in decoded \X decoded /\ a[1] # a[2]
                         /\ segment[a[1]] = segment[a[2]])'
      BY DEF NoFalseAlias
    <2>1. CASE a \in aliases
      BY <2>1 DEF HeapInv, NoFalseAlias
    <2>2. CASE a \in {p} \X (Claimants(segment[p]) \ {p})
      BY <1>3, <2>2
    <2> QED BY <2>1, <2>2
  <1>5. Settled'
    <2> SUFFICES ASSUME NEW q \in decoded'
                 PROVE  \/ q \in Accused'
                        \/ \E i \in DOMAIN owners : owners[i].prefix = q
                        \/ Shutout(q)
      BY DEF Settled, Shutout, Claimants
    <2>1. CASE q \in decoded
      BY <2>1 DEF HeapInv, Settled, Accused
    <2>2. CASE q = p
      <3>1. CASE Claimants(segment[p]) = {}
        BY <1>1, <2>2, <3>1 DEF Shutout
      <3>2. CASE p \in Claimants(segment[p])
        BY <2>2, <3>2 DEF Claimants
      <3>3. CASE \E c \in Claimants(segment[p]) : c # p
        <4>1. PICK c \in Claimants(segment[p]) : c # p
          BY <3>3
        <4>2. <<p, c>> \in aliases'
          BY <4>1
        <4> QED BY <2>2, <4>2 DEF Accused
      <3> QED BY <3>1, <3>2, <3>3
    <2> QED BY <2>1, <2>2
  <1> QED BY <1>2, <1>4, <1>5 DEF HeapInv

LEMMA DecodeKeeps ==
  ASSUME HeapInv, NEW p \in Prefixes, DecodeHeap(p)
  PROVE  HeapInv'
  <1>1. CheckOwner(p) /\ decoded' = decoded \cup {p} /\ phase = "walking"
        /\ UNCHANGED <<segment, phase>>
    BY DEF DecodeHeap, Message
  <1>2. CASE Claimants(segment[p]) = {} /\ Len(owners) < MaxOwners
    <2>1. Claim(p) /\ aliases' = aliases
      BY <1>1, <1>2 DEF CheckOwner
    <2> QED BY <1>1, <1>2, <2>1, ClaimKeeps
  <1>3. CASE ~(Claimants(segment[p]) = {} /\ Len(owners) < MaxOwners)
    BY <1>1, <1>3, NoClaimKeeps DEF CheckOwner
  <1> QED BY <1>2, <1>3

LEMMA HeapStep == HeapInv /\ [Next]_vars => HeapInv'
  <1> SUFFICES ASSUME HeapInv, [Next]_vars PROVE HeapInv'
    OBVIOUS
  <1>1. CASE BeginAnalysis
    BY <1>1, ResetKeeps DEF BeginAnalysis
  <1>2. CASE EnterWalk
    <2>1. aliases' = {} /\ segment' \in [Prefixes -> Segments]
      BY <1>2 DEF EnterWalk, HeapInv, QuietBefore, HeapTypes
    <2> QED BY <1>2, <2>1, ResetKeeps DEF EnterWalk
  <1>3. ASSUME NEW p \in Prefixes, DecodeHeap(p) PROVE HeapInv'
    BY <1>3, DecodeKeeps
  <1>4. CASE \E h \in Headers : BeginHeader(h)
    BY <1>4, OthersKeep DEF BeginHeader, records, history
  <1>5. CASE \E s \in Shapes : ReadShape(s)
    BY <1>5, OthersKeep DEF ReadShape, records
  <1>6. CASE \E t \in Headers : NoteRef(t)
    BY <1>6, OthersKeep DEF NoteRef
  <1>7. CASE EndHeader
    BY <1>7, OthersKeep DEF EndHeader
  <1>8. CASE GiveUpHeader
    BY <1>8, OthersKeep DEF GiveUpHeader, records, history
  <1>9. CASE StopWalk
    BY <1>9, OthersKeep DEF StopWalk, records, history
  <1>10. CASE Judge
    BY <1>10, OthersKeep DEF Judge, records, history
  <1>11. CASE Stop \/ UNCHANGED vars
    BY <1>11, OthersKeep DEF Stop, vars, records, history
  <1> QED
    BY <1>1, <1>2, <1>3, <1>4, <1>5, <1>6, <1>7, <1>8, <1>9, <1>10, <1>11 DEF Next

LEMMA HeapCorrect == Spec => []HeapInv
  <1> QED BY HeapInit, HeapStep, PTL DEF Spec

-----------------------------------------------------------------------------
\* Of any number of heaps that share a segment at most one goes unaccused while
\* there is room in the record.
THEOREM AliasReportedCorrect == Spec => []AliasReported
  <1>1. HeapInv => AliasReported
    <2> SUFFICES ASSUME HeapInv, NEW p \in decoded, NEW q \in decoded, p # q,
                        segment[p] = segment[q], {p, q} \cap Accused = {}
                 PROVE  Shutout(p)
      BY DEF AliasReported, Shutout
    <2>1. /\ Shutout(p) \/ \E i \in DOMAIN owners : owners[i].prefix = p
          /\ Shutout(q) \/ \E i \in DOMAIN owners : owners[i].prefix = q
      BY DEF HeapInv, Settled
    <2>2. Shutout(q) => Shutout(p)
      BY DEF Shutout
    <2>3. ASSUME NEW i \in DOMAIN owners, NEW j \in DOMAIN owners,
                 owners[i].prefix = p, owners[j].prefix = q
          PROVE  FALSE
      BY <2>3 DEF HeapInv, OwnersRight, OneClaim
    <2> QED BY <2>1, <2>2, <2>3
  <1> QED BY <1>1, HeapCorrect, PTL

\* No heap is accused wrongly, across analyses and resets.
THEOREM NoFalseAliasCorrect == Spec => []NoFalseAlias
  <1>1. HeapInv => NoFalseAlias
    BY DEF HeapInv
  <1> QED BY <1>1, HeapCorrect, PTL

-----------------------------------------------------------------------------
(* The classes of headers and the references to them.                      *)

ShapesOf(h) == {s \in Shapes : <<h, s>> \in seen}

Class == [header : Headers, class : Classes]

\* Each header is decoded once, and what was read of the one being decoded is what
\* its class will be made of.
DecodingInv ==
  /\ header \subseteq Headers /\ \A g, h \in header : g = h
  /\ header \subseteq visited /\ ended \subseteq visited /\ header \cap ended = {}
  /\ seen \subseteq visited \X Shapes
  /\ \A h \in header : shapes = ShapesOf(h)
  /\ phase # "walking" => header = {}

\* What is recorded of a header is what was read of it, and until the record is
\* full each header that was decoded to its end is in it.
ClassesRight ==
  \A i \in DOMAIN classes :
    classes[i].header \in ended /\ classes[i].class = ClassOf(ShapesOf(classes[i].header))

ClassInv ==
  /\ classes \in Seq(Class) /\ ClassesRight
  /\ IsFiniteSet(ended)
  /\ Cardinality(ended) <= MaxClasses =>
       /\ Len(classes) = Cardinality(ended)
       /\ \A h \in ended : \E i \in DOMAIN classes : classes[i].header = h

RefInv ==
  /\ refs \in Seq(Headers) /\ noted \in Seq(Headers) /\ Len(refs) <= Len(noted)
  /\ Len(noted) <= MaxRefs => refs = noted

JudgeInv == DecodingInv /\ ClassInv /\ RefInv /\ RefsJudged

LEMMA JudgeInit == Init => JudgeInv
  <1> SUFFICES ASSUME Init PROVE JudgeInv
    OBVIOUS
  <1>1. DecodingInv
    BY DEF Init, DecodingInv
  <1>2. ClassInv
    BY FS_EmptySet, OwnersAssumption DEF Init, ClassInv, ClassesRight
  <1>3. RefInv
    BY DEF Init, RefInv
  <1>4. RefsJudged
    BY DEF Init, RefsJudged
  <1> QED BY <1>1, <1>2, <1>3, <1>4 DEF JudgeInv

LEMMA ResetJudge ==
  ASSUME ResetTraversal, header' = {}, phase' # "judged"
  PROVE  JudgeInv'
  <1>1. /\ classes' = <<>> /\ refs' = <<>> /\ visited' = {} /\ seen' = {}
        /\ ended' = {} /\ noted' = <<>>
    BY DEF ResetTraversal
  <1>2. DecodingInv'
    BY <1>1 DEF DecodingInv
  <1>3. ClassInv'
    BY <1>1, FS_EmptySet, OwnersAssumption DEF ClassInv, ClassesRight
  <1>4. RefInv' /\ RefsJudged'
    BY <1>1 DEF RefInv, RefsJudged
  <1> QED BY <1>2, <1>3, <1>4 DEF JudgeInv

\* A header that is being decoded is in no record yet: reading more of it changes
\* nothing of what is recorded.
LEMMA ClassKeeps ==
  ASSUME JudgeInv, UNCHANGED <<classes, ended>>,
         \A h \in ended : ShapesOf(h)' = ShapesOf(h)
  PROVE  ClassInv'
  BY DEF JudgeInv, ClassInv, ClassesRight

\* Shapes are read of the header being decoded.
LEMMA ReadKeeps ==
  ASSUME JudgeInv, NEW s \in SUBSET Shapes, shapes' = shapes \cup s,
         seen' = seen \cup (header \X s), phase = "walking",
         UNCHANGED <<phase, header, visited, ended, classes, refs, noted>>
  PROVE  JudgeInv'
  <1>1. \A h \in ended : ShapesOf(h)' = ShapesOf(h)
    BY DEF JudgeInv, DecodingInv, ShapesOf
  <1>2. \A h \in header : ShapesOf(h)' = ShapesOf(h) \cup s
    BY DEF ShapesOf
  <1>3. DecodingInv'
    BY <1>2 DEF JudgeInv, DecodingInv
  <1>4. RefInv' /\ RefsJudged'
    BY DEF JudgeInv, RefInv, RefsJudged
  <1> QED BY <1>1, <1>3, <1>4, ClassKeeps DEF JudgeInv

LEMMA BeginKeeps ==
  ASSUME JudgeInv, NEW h \in Headers, BeginHeader(h)
  PROVE  JudgeInv'
  <1>1. /\ phase = "walking" /\ h \notin visited /\ visited' = visited \cup {h}
        /\ header' = {h} /\ shapes' = {}
        /\ UNCHANGED <<phase, classes, refs, seen, ended, noted>>
    BY DEF BeginHeader, records, history
  <1>2. ShapesOf(h)' = {}
    BY <1>1 DEF JudgeInv, DecodingInv, ShapesOf
  <1>3. DecodingInv'
    BY <1>1, <1>2 DEF JudgeInv, DecodingInv
  <1>4. ClassInv'
    BY <1>1, ClassKeeps DEF ShapesOf
  <1>5. RefInv' /\ RefsJudged'
    BY <1>1 DEF JudgeInv, RefInv, RefsJudged
  <1> QED BY <1>3, <1>4, <1>5 DEF JudgeInv

LEMMA NoteKeeps ==
  ASSUME JudgeInv, NEW t \in Headers, NoteRef(t)
  PROVE  JudgeInv'
  <1>1. /\ phase = "walking" /\ noted' = Append(noted, t)
        /\ refs' = IF Len(refs) < MaxRefs THEN Append(refs, t) ELSE refs
        /\ UNCHANGED <<phase, classes, header, shapes, visited, seen, ended>>
    BY DEF NoteRef, Message
  <1>2. RefInv'
    <2>1. /\ refs \in Seq(Headers) /\ noted \in Seq(Headers) /\ MaxRefs \in Nat
          /\ Len(refs) <= Len(noted)
          /\ Len(noted) <= MaxRefs => refs = noted
      BY OwnersAssumption DEF JudgeInv, RefInv
    <2>2. noted' \in Seq(Headers) /\ Len(noted') = Len(noted) + 1 /\ Len(noted) \in Nat
      BY <1>1, <2>1
    <2>3. CASE Len(refs) < MaxRefs
      <3>1. refs' = Append(refs, t)
        BY <1>1, <2>3
      <3>2. refs' \in Seq(Headers) /\ Len(refs') = Len(refs) + 1 /\ Len(refs) \in Nat
        BY <2>1, <3>1
      <3>3. Len(noted') <= MaxRefs => refs' = noted'
        BY <1>1, <2>1, <2>2, <3>1
      <3> QED BY <2>1, <2>2, <3>2, <3>3 DEF RefInv
    <2>4. CASE ~(Len(refs) < MaxRefs)
      <3>1. refs' = refs /\ Len(refs) \in Nat
        BY <1>1, <2>1, <2>4
      <3>2. ~(Len(noted') <= MaxRefs)
        BY <2>1, <2>2, <2>4, <3>1
      <3> QED BY <2>1, <2>2, <3>1, <3>2 DEF RefInv
    <2> QED BY <2>3, <2>4
  <1>3. DecodingInv' /\ ClassInv'
    BY <1>1, ClassKeeps DEF JudgeInv, DecodingInv, ShapesOf
  <1>4. RefsJudged'
    BY <1>1 DEF RefsJudged
  <1> QED BY <1>2, <1>3, <1>4 DEF JudgeInv

LEMMA EndKeeps ==
  ASSUME JudgeInv, EndHeader
  PROVE  JudgeInv'
  <1>1. PICK h \in header :
          classes' = IF Len(classes) < MaxClasses
                     THEN Append(classes, [header |-> h, class |-> ClassOf(shapes)])
                     ELSE classes
    BY DEF EndHeader
  <1>2. header = {h} /\ h \in Headers /\ h \notin ended /\ shapes = ShapesOf(h)
    BY DEF JudgeInv, DecodingInv
  <1>3. /\ phase = "walking" /\ header' = {} /\ ended' = ended \cup {h}
        /\ UNCHANGED <<phase, refs, visited, seen, noted>>
    BY <1>2 DEF EndHeader
  <1>4. DecodingInv'
    BY <1>2, <1>3 DEF JudgeInv, DecodingInv
  <1>5. \A t : ShapesOf(t)' = ShapesOf(t)
    BY <1>3 DEF ShapesOf
  <1>6. ClassInv'
    <2> DEFINE c == [header |-> h, class |-> ClassOf(ShapesOf(h))]
    <2>1. classes \in Seq(Class) /\ IsFiniteSet(ended) /\ MaxClasses \in Nat
      BY OwnersAssumption DEF JudgeInv, ClassInv
    <2>2. IsFiniteSet(ended') /\ Cardinality(ended') = Cardinality(ended) + 1
          /\ Cardinality(ended) \in Nat
      BY <1>2, <1>3, <2>1, FS_AddElement, FS_CardinalityType
    <2>3. c \in Class /\ c.header = h /\ c.class = ClassOf(ShapesOf(h))
      BY <1>2 DEF Class, ClassOf, Classes
    <2>4. classes' = IF Len(classes) < MaxClasses THEN Append(classes, c) ELSE classes
      BY <1>1, <1>2
    <2> HIDE DEF c
    <2>5. CASE Len(classes) < MaxClasses
      <3>1. /\ classes' \in Seq(Class) /\ Len(classes') = Len(classes) + 1
            /\ \A i \in DOMAIN classes : classes'[i] = classes[i]
            /\ classes'[Len(classes) + 1] = c
            /\ DOMAIN classes' = DOMAIN classes \cup {Len(classes) + 1}
        BY <2>1, <2>3, <2>4, <2>5
      <3>2. ClassesRight'
        <4> SUFFICES ASSUME NEW i \in DOMAIN classes'
                     PROVE  (classes[i].header \in ended
                             /\ classes[i].class = ClassOf(ShapesOf(classes[i].header)))'
          BY DEF ClassesRight
        <4>1. CASE i \in DOMAIN classes
          <5>1. classes'[i] = classes[i]
            BY <3>1, <4>1
          <5>2. /\ classes[i].header \in ended
                /\ classes[i].class = ClassOf(ShapesOf(classes[i].header))
            BY <4>1 DEF JudgeInv, ClassInv, ClassesRight
          <5>3. ClassOf(ShapesOf(classes[i].header))' = ClassOf(ShapesOf(classes[i].header))
            BY <1>3, <5>1 DEF ShapesOf
          <5> QED BY <1>3, <5>1, <5>2, <5>3
        <4>2. CASE i = Len(classes) + 1
          <5>1. classes'[i] = c
            BY <3>1, <4>2
          <5>2. ClassOf(ShapesOf(classes[i].header))' = ClassOf(ShapesOf(h))
            BY <1>3, <2>3, <5>1 DEF ShapesOf
          <5> QED BY <1>3, <2>3, <5>1, <5>2
        <4> QED BY <3>1, <4>1, <4>2
      <3>3. Cardinality(ended') <= MaxClasses =>
              /\ Len(classes') = Cardinality(ended')
              /\ \A g \in ended' : \E i \in DOMAIN classes' : classes'[i].header = g
        <4> SUFFICES ASSUME Cardinality(ended') <= MaxClasses
                     PROVE  /\ Len(classes') = Cardinality(ended')
                            /\ \A g \in ended' : \E i \in DOMAIN classes' : classes'[i].header = g
          OBVIOUS
        <4>1. Cardinality(ended) <= MaxClasses
          BY <2>1, <2>2
        <4>2. /\ Len(classes) = Cardinality(ended)
              /\ \A g \in ended : \E i \in DOMAIN classes : classes[i].header = g
          BY <4>1 DEF JudgeInv, ClassInv
        <4> QED BY <1>3, <2>2, <2>3, <3>1, <4>2
      <3> QED BY <2>2, <3>1, <3>2, <3>3 DEF ClassInv
    <2>6. CASE ~(Len(classes) < MaxClasses)
      <3>1. ~(Cardinality(ended') <= MaxClasses)
        <4> SUFFICES ASSUME Cardinality(ended') <= MaxClasses PROVE FALSE
          OBVIOUS
        <4>1. Cardinality(ended) <= MaxClasses
          BY <2>1, <2>2
        <4>2. Len(classes) = Cardinality(ended)
          BY <4>1 DEF JudgeInv, ClassInv
        <4> QED BY <2>1, <2>2, <2>6, <4>2
      <3>2. UNCHANGED classes
        BY <2>4, <2>6
      <3>3. ClassesRight'
        BY <1>3, <3>2 DEF JudgeInv, ClassInv, ClassesRight, ShapesOf
      <3> QED BY <2>1, <2>2, <3>1, <3>2, <3>3 DEF ClassInv
    <2> QED BY <2>5, <2>6
  <1>7. RefInv' /\ RefsJudged'
    BY <1>3 DEF JudgeInv, RefInv, RefsJudged
  <1> QED BY <1>4, <1>6, <1>7 DEF JudgeInv

\* A class is of those of a group or a committed datatype just if the shapes are.
LEMMA ClassOfShapes ==
  ASSUME NEW found \in SUBSET Shapes
  PROVE  ClassOf(found) \in {"group", "named datatype"}
           <=> "group" \in found \/ found = {"datatype"}
  <1>1. CASE "group" \in found
    BY <1>1 DEF ClassOf
  <1>2. CASE "group" \notin found /\ {"datatype", "dataspace"} \subseteq found
    <2>1. ClassOf(found) = "dataset"
      BY <1>2 DEF ClassOf
    <2>2. found # {"datatype"}
      BY <1>2
    <2> QED BY <1>2, <2>1, <2>2
  <1>3. CASE "group" \notin found /\ "datatype" \in found /\ "dataspace" \notin found
    <2>1. ClassOf(found) = "named datatype"
      BY <1>3 DEF ClassOf
    <2>2. found = {"datatype"}
      BY <1>3 DEF Shapes
    <2> QED BY <2>1, <2>2
  <1>4. CASE "group" \notin found /\ "datatype" \notin found
    <2>1. ClassOf(found) = "unknown"
      BY <1>4 DEF ClassOf
    <2> QED BY <1>4, <2>1
  <1> QED BY <1>1, <1>2, <1>3, <1>4

LEMMA LeastOf ==
  ASSUME NEW T \in SUBSET Nat, T # {}
  PROVE  \E x \in T : \A y \in T : x <= y
  <1>1. PICK x \in T : \A y \in T : ~(<<y, x>> \in OpToRel(<, Nat))
    BY NatLessThanWellFounded, WFMin
  <1>2. \A y \in T : ~(y < x)
    BY <1>1 DEF OpToRel
  <1> QED BY <1>2

\* The references are judged by the classes that the headers have at the end.
LEMMA JudgeKeeps ==
  ASSUME JudgeInv, Judge
  PROVE  JudgeInv'
  <1>1. /\ header = {} /\ phase' = "judged"
        /\ warnings' = {r \in DOMAIN refs : Hazardous(refs[r])}
        /\ UNCHANGED <<classes, refs, header, shapes, visited, seen, ended, noted>>
    BY DEF Judge, records, decoding, history
  <1>2. DecodingInv' /\ ClassInv' /\ RefInv'
    BY <1>1, ClassKeeps DEF JudgeInv, DecodingInv, RefInv, ShapesOf
  <1>3. ASSUME Cardinality(ended) <= MaxClasses, NEW t
        PROVE  Hazardous(t) <=> NoDataset(t)
    <2>1. /\ \A i \in DOMAIN classes : /\ classes[i].header \in ended
                                       /\ classes[i].class = ClassOf(ShapesOf(classes[i].header))
          /\ \A h \in ended : \E i \in DOMAIN classes : classes[i].header = h
          /\ classes \in Seq(Class)
      BY <1>3 DEF JudgeInv, ClassInv, ClassesRight
    <2>2. ShapesOf(t) \in SUBSET Shapes
      BY DEF ShapesOf
    <2>3. NoDataset(t) <=> t \in ended /\ ClassOf(ShapesOf(t)) \in {"group", "named datatype"}
      BY <2>2, ClassOfShapes DEF NoDataset, ShapesOf
    <2>4. ASSUME Hazardous(t)
          PROVE  t \in ended /\ ClassOf(ShapesOf(t)) \in {"group", "named datatype"}
      BY <2>1, <2>4 DEF Hazardous, ClassesAt
    <2>5. ASSUME t \in ended, ClassOf(ShapesOf(t)) \in {"group", "named datatype"}
          PROVE  Hazardous(t)
      <3>1. PICK i \in ClassesAt(t) : TRUE
        BY <2>1, <2>5 DEF ClassesAt
      <3>2. ClassesAt(t) \subseteq Nat
        BY <2>1 DEF ClassesAt
      <3>3. PICK k \in ClassesAt(t) : \A j \in ClassesAt(t) : k <= j
        BY <3>1, <3>2, LeastOf
      <3>4. classes[k].class \in {"group", "named datatype"}
        BY <2>1, <2>5 DEF ClassesAt
      <3> QED BY <3>3, <3>4 DEF Hazardous
    <2> QED BY <2>3, <2>4, <2>5
  <1>4. RefsJudged'
    <2> SUFFICES ASSUME Len(noted) <= MaxRefs, Cardinality(ended) <= MaxClasses
                 PROVE  warnings' = {r \in DOMAIN noted : NoDataset(noted[r])}
      BY <1>1 DEF RefsJudged, NoDataset
    <2>1. refs = noted
      BY DEF JudgeInv, RefInv
    <2> QED BY <1>1, <1>3, <2>1
  <1> QED BY <1>2, <1>4 DEF JudgeInv

LEMMA JudgeStep == JudgeInv /\ [Next]_vars => JudgeInv'
  <1> SUFFICES ASSUME JudgeInv, [Next]_vars PROVE JudgeInv'
    OBVIOUS
  <1>1. CASE BeginAnalysis
    BY <1>1, ResetJudge DEF BeginAnalysis
  <1>2. CASE EnterWalk
    <2>1. header' = {}
      BY <1>2 DEF EnterWalk, JudgeInv, DecodingInv
    <2> QED BY <1>2, <2>1, ResetJudge DEF EnterWalk
  <1>3. CASE \E h \in Headers : BeginHeader(h)
    BY <1>3, BeginKeeps
  <1>4. ASSUME NEW s \in Shapes, ReadShape(s) PROVE JudgeInv'
    <2>1. shapes' = shapes \cup {s} /\ seen' = seen \cup (header \X {s})
      BY <1>4 DEF ReadShape
    <2>2. phase = "walking" /\ UNCHANGED <<phase, header, visited, ended, classes, refs, noted>>
      BY <1>4 DEF ReadShape, Message, records
    <2> QED BY <2>1, <2>2, ReadKeeps
  <1>5. ASSUME NEW p \in Prefixes, DecodeHeap(p) PROVE JudgeInv'
    <2>1. PICK s \in SUBSET {"group"} : shapes' = shapes \cup s /\ seen' = seen \cup (header \X s)
      BY <1>5 DEF DecodeHeap
    <2>2. s \in SUBSET Shapes
      BY DEF Shapes
    <2>3. phase = "walking" /\ UNCHANGED <<phase, header, visited, ended, classes, refs, noted>>
      BY <1>5 DEF DecodeHeap, Message
    <2> QED BY <2>1, <2>2, <2>3, ReadKeeps
  <1>6. CASE \E t \in Headers : NoteRef(t)
    BY <1>6, NoteKeeps
  <1>7. CASE EndHeader
    BY <1>7, EndKeeps
  <1>8. CASE GiveUpHeader \/ StopWalk
    <2>1. /\ header' = {} /\ phase = "walking" /\ phase' \in {phase, "stopped"}
          /\ UNCHANGED <<classes, refs, visited, seen, ended, noted>>
      BY <1>8 DEF GiveUpHeader, StopWalk, records, history
    <2>2. DecodingInv' /\ ClassInv' /\ RefInv'
      BY <2>1, ClassKeeps DEF JudgeInv, DecodingInv, RefInv, ShapesOf
    <2>3. RefsJudged'
      BY <2>1 DEF RefsJudged
    <2> QED BY <2>2, <2>3 DEF JudgeInv
  <1>9. CASE Judge
    BY <1>9, JudgeKeeps
  <1>10. CASE Stop \/ UNCHANGED vars
    <2>1. UNCHANGED <<phase, classes, refs, header, shapes, visited, seen, ended, noted, warnings>>
      BY <1>10 DEF Stop, vars, records, decoding, history
    <2>2. DecodingInv' /\ ClassInv' /\ RefInv'
      BY <2>1, ClassKeeps DEF JudgeInv, DecodingInv, RefInv, ShapesOf
    <2>3. RefsJudged'
      BY <2>1 DEF JudgeInv, RefsJudged, NoDataset
    <2> QED BY <2>2, <2>3 DEF JudgeInv
  <1> QED BY <1>1, <1>2, <1>3, <1>4, <1>5, <1>6, <1>7, <1>8, <1>9, <1>10 DEF Next

\* Below the caps the region references that are warned about are those whose target
\* was read and seen to be no dataset, in whatever order the walk came to the two.
THEOREM RefsJudgedCorrect == Spec => []RefsJudged
  <1>1. JudgeInv => RefsJudged
    BY DEF JudgeInv
  <1> QED BY <1>1, JudgeInit, JudgeStep, PTL DEF Spec

-----------------------------------------------------------------------------
(* Types.                                                                  *)

LEMMA ClaimantsType ==
  ASSUME TypeOK, NEW s
  PROVE  Claimants(s) \subseteq Prefixes
  <1>1. owners \in Seq(Owner)
    BY DEF TypeOK, Owner
  <1>2. SUFFICES ASSUME NEW i \in DOMAIN owners PROVE owners[i].prefix \in Prefixes
    BY DEF Claimants
  <1>3. owners[i] \in Owner
    BY <1>1
  <1> QED BY <1>3 DEF Owner

LEMMA DecodeType ==
  ASSUME TypeOK, NEW p \in Prefixes, DecodeHeap(p)
  PROVE  TypeOK'
  <1>1. /\ UNCHANGED <<segment, phase, analyses, classes, refs, header, visited, warnings, ended, noted>>
        /\ messages' = messages + 1 /\ messages < MaxMessages
        /\ decoded' = decoded \cup {p}
    BY DEF DecodeHeap, Message
  <1>2. aliases' \subseteq Prefixes \X Prefixes
    BY ClaimantsType DEF DecodeHeap, CheckOwner, TypeOK
  <1>3. owners' \in Seq([prefix : Prefixes, segment : Segments]) /\ Len(owners') <= MaxOwners
    <2>1. \/ owners' = owners
          \/ owners' = Append(owners, [prefix |-> p, segment |-> segment[p]]) /\ Len(owners) < MaxOwners
      BY DEF DecodeHeap, CheckOwner, Claim
    <2> DEFINE entry == [prefix |-> p, segment |-> segment[p]]
    <2>2. entry \in Owner
      BY DEF TypeOK, Owner
    <2>3. owners \in Seq(Owner) /\ Len(owners) <= MaxOwners /\ MaxOwners \in Nat
      BY OwnersAssumption DEF TypeOK, Owner
    <2> HIDE DEF entry
    <2>4. owners' \in Seq(Owner) /\ Len(owners') <= MaxOwners
      <3>1. owners' = owners \/ (owners' = Append(owners, entry) /\ Len(owners) < MaxOwners)
        BY <2>1 DEF entry
      <3> QED BY <2>2, <2>3, <3>1
    <2> QED BY <2>4 DEF Owner
  <1>4. shapes' \subseteq Shapes /\ seen' \subseteq Headers \X Shapes
    <2>1. PICK s \in SUBSET {"group"} : shapes' = shapes \cup s /\ seen' = seen \cup (header \X s)
      BY DEF DecodeHeap
    <2>2. s \subseteq Shapes
      BY DEF Shapes
    <2> QED BY <2>1, <2>2 DEF TypeOK
  <1> QED BY <1>1, <1>2, <1>3, <1>4, OwnersAssumption DEF TypeOK

LEMMA EndType ==
  ASSUME TypeOK, EndHeader
  PROVE  TypeOK'
  <1>1. PICK h \in header :
          classes' = IF Len(classes) < MaxClasses
                     THEN Append(classes, [header |-> h, class |-> ClassOf(shapes)])
                     ELSE classes
    BY DEF EndHeader
  <1>2. ClassOf(shapes) \in Classes
    BY DEF ClassOf, Classes
  <1>3. [header |-> h, class |-> ClassOf(shapes)] \in [header : Headers, class : Classes]
    BY <1>2 DEF TypeOK
  <1>4. classes' \in Seq([header : Headers, class : Classes]) /\ Len(classes') <= MaxClasses
    <2> DEFINE entry == [header |-> h, class |-> ClassOf(shapes)]
               Entry == [header : Headers, class : Classes]
    <2>1. classes \in Seq(Entry) /\ Len(classes) <= MaxClasses /\ MaxClasses \in Nat
      BY OwnersAssumption DEF TypeOK
    <2>2. entry \in Entry
      BY <1>3
    <2>3. classes' = IF Len(classes) < MaxClasses THEN Append(classes, entry) ELSE classes
      BY <1>1
    <2> HIDE DEF entry, Entry
    <2>4. classes' \in Seq(Entry) /\ Len(classes') <= MaxClasses
      BY <2>1, <2>2, <2>3
    <2> QED BY <2>4 DEF Entry
  <1> QED BY <1>4 DEF EndHeader, TypeOK

LEMMA TypeStep == TypeOK /\ [Next]_vars => TypeOK'
  <1> SUFFICES ASSUME TypeOK, [Next]_vars PROVE TypeOK'
    OBVIOUS
  <1> USE OwnersAssumption DEF records, decoding, history
  <1>1. CASE BeginAnalysis
    BY <1>1 DEF TypeOK, BeginAnalysis, ResetTraversal
  <1>2. CASE EnterWalk
    BY <1>2 DEF TypeOK, EnterWalk, ResetTraversal
  <1>3. ASSUME NEW h \in Headers, BeginHeader(h) PROVE TypeOK'
    BY <1>3 DEF TypeOK, BeginHeader
  <1>4. ASSUME NEW s \in Shapes, ReadShape(s) PROVE TypeOK'
    BY <1>4 DEF TypeOK, ReadShape, Message
  <1>5. ASSUME NEW p \in Prefixes, DecodeHeap(p) PROVE TypeOK'
    BY <1>5, DecodeType
  <1>6. ASSUME NEW t \in Headers, NoteRef(t) PROVE TypeOK'
    BY <1>6 DEF TypeOK, NoteRef, Message
  <1>7. CASE EndHeader
    BY <1>7, EndType
  <1>8. CASE GiveUpHeader
    BY <1>8 DEF TypeOK, GiveUpHeader
  <1>9. CASE StopWalk
    BY <1>9 DEF TypeOK, StopWalk
  <1>10. CASE Judge
    <2>1. DOMAIN refs \subseteq Nat
      BY DEF TypeOK
    <2>2. warnings' \subseteq Nat
      BY <1>10, <2>1 DEF Judge
    <2> QED BY <1>10, <2>2 DEF TypeOK, Judge
  <1>11. CASE Stop \/ UNCHANGED vars
    BY <1>11 DEF TypeOK, Stop, vars
  <1> QED
    BY <1>1, <1>2, <1>3, <1>4, <1>5, <1>6, <1>7, <1>8, <1>9, <1>10, <1>11 DEF Next

\* Every variable of Owners has its type, and no record grows past its cap: the
\* arrays of the walk are never written past their ends.
THEOREM TypeCorrect == Spec => []TypeOK
  <1>1. Init => TypeOK
    BY OwnersAssumption DEF Init, TypeOK
  <1> QED BY <1>1, TypeStep, PTL DEF Spec
=============================================================================
