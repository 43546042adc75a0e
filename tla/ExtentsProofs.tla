--------------------------- MODULE ExtentsProofs ---------------------------
(***************************************************************************)
(* Theorems about the disjointness check of module Extents, for every      *)
(* address width, file size, pair of caps and set of records.              *)
(*                                                                         *)
(* None of the four properties is inductive by itself: a report is only    *)
(* justified if what is recorded was really read, and a missed collision   *)
(* is only excluded if everything read starts inside the file.  IInv adds  *)
(* those two facts (Provenance, MetadataInFile).                           *)
(***************************************************************************)
EXTENDS Extents, TLAPS

\* Everything recorded was read, and is held with its end clamped.
Provenance ==
  /\ \A m \in Members(meta) : \E r \in metaRead : m = Clamped(r)
  /\ \A d \in Members(data) : \E e \in declared : d = Clamped(e)

\* Metadata was range-checked before it was accounted for.
MetadataInFile == \A m \in metaRead : m.lo < FileEnd

Safe ==
  /\ Provenance
  /\ MetadataInFile
  /\ RecordedDisjoint
  /\ NothingSkipped
  /\ NoFalseOverlap

IInv == TypeOK /\ Safe

-----------------------------------------------------------------------------
\* Lemmas about the operators.

\* Appending to an array adds one member.
LEMMA MembersAppend ==
  ASSUME NEW S, NEW s \in Seq(S), NEW x \in S
  PROVE  Members(Append(s, x)) = Members(s) \cup {x}
<1>1. Len(Append(s, x)) = Len(s) + 1 /\ Len(s) \in Nat
  OBVIOUS
<1>2. \A i \in 1..Len(s) : Append(s, x)[i] = s[i]
  OBVIOUS
<1>3. Append(s, x)[Len(s) + 1] = x
  OBVIOUS
<1>4. 1..(Len(s) + 1) = (1..Len(s)) \cup {Len(s) + 1}
  BY <1>1
<1> QED BY <1>1, <1>2, <1>3, <1>4 DEF Members

\* The members of an array over S are in S.
LEMMA MembersType ==
  ASSUME NEW S, NEW s \in Seq(S)
  PROVE  Members(s) \subseteq S
BY DEF Members

LEMMA EmptyRegistries ==
  <<>> \in Seq(Extent) /\ <<>> \in Seq(DataExtent) /\ 0 \in 0..MaxChecks
BY SizeAssumption

LEMMA MembersEmpty == Members(<<>>) = {}
BY DEF Members

\* Clamping keeps the start and never moves the end up.
LEMMA ClampedFields ==
  /\ \A e \in Extent :
       /\ Clamped(e) \in Extent
       /\ Clamped(e).lo = e.lo
       /\ Clamped(e).hi = ExtentHi(e.lo, e.hi - e.lo)
  /\ \A e \in DataExtent :
       /\ Clamped(e) \in DataExtent
       /\ Clamped(e).lo = e.lo
       /\ Clamped(e).loc = e.loc
       /\ Clamped(e).hi = ExtentHi(e.lo, e.hi - e.lo)
BY SizeAssumption DEF Clamped, ExtentHi, Extent, DataExtent

\* The end of a clamped extent is the end of the extent or the top address.
LEMMA ExtentHiBounds ==
  ASSUME NEW lo \in 0..Top, NEW hi \in 0..(Top + MaxSize)
  PROVE  ExtentHi(lo, hi - lo) = IF hi > Top THEN Top ELSE hi
BY SizeAssumption DEF ExtentHi

\* Two extents that start below the top overlap exactly when their clamped
\* forms do, and clamped forms never overlap unless the extents do.
LEMMA ClampedOverlap ==
  ASSUME NEW a \in Extent \cup DataExtent, NEW b \in Extent \cup DataExtent
  PROVE  /\ IntervalsOverlap(Clamped(a), Clamped(b)) => IntervalsOverlap(a, b)
         /\ a.lo < Top /\ b.lo < Top /\ IntervalsOverlap(a, b)
              => IntervalsOverlap(Clamped(a), Clamped(b))
<1>1. a.lo \in 0..Top /\ a.hi \in 0..(Top + MaxSize)
  BY DEF Extent, DataExtent
<1>2. b.lo \in 0..Top /\ b.hi \in 0..(Top + MaxSize)
  BY DEF Extent, DataExtent
<1>3. Clamped(a).lo = a.lo /\ Clamped(a).hi = IF a.hi > Top THEN Top ELSE a.hi
  BY <1>1, ClampedFields, ExtentHiBounds
<1>4. Clamped(b).lo = b.lo /\ Clamped(b).hi = IF b.hi > Top THEN Top ELSE b.hi
  BY <1>2, ClampedFields, ExtentHiBounds
<1> QED BY <1>1, <1>2, <1>3, <1>4, SizeAssumption DEF IntervalsOverlap

LEMMA OverlapSymmetric ==
  ASSUME NEW a, NEW b
  PROVE  IntervalsOverlap(a, b) <=> IntervalsOverlap(b, a)
BY DEF IntervalsOverlap

\* What the inputs of the actions are.
LEMMA BytesType ==
  ASSUME NEW lo \in 0..Top, NEW n \in Sizes
  PROVE  Bytes(lo, n) \in Extent
BY SizeAssumption DEF Bytes, Sizes, Extent

LEMMA ClaimType ==
  ASSUME NEW r \in Records, NEW lo \in 0..Top, NEW n \in Sizes
  PROVE  Claim(r, lo, n) \in DataExtent
BY SizeAssumption DEF Claim, Sizes, DataExtent

-----------------------------------------------------------------------------
\* Types.

LEMMA AccountMetadataType ==
  ASSUME TypeOK, NEW lo \in 0..Top, NEW n \in Sizes, AccountMetadata(lo, n)
  PROVE  /\ meta' \in Seq(Extent) /\ data' = data /\ checks' = checks
         /\ truncated' \in BOOLEAN /\ overlap' \in BOOLEAN
         /\ metaRead' \subseteq Extent
<1>1. Bytes(lo, n) \in Extent
  BY BytesType
<1>2. Clamped(Bytes(lo, n)) \in Extent
  BY <1>1, ClampedFields
<1>3. meta' = meta \/ meta' = Append(meta, Clamped(Bytes(lo, n)))
  BY DEF AccountMetadata
<1>4. meta' \in Seq(Extent)
  BY <1>2, <1>3 DEF TypeOK
<1>5. truncated' \in BOOLEAN /\ overlap' \in BOOLEAN
  BY DEF AccountMetadata, TypeOK
<1>6. metaRead' \subseteq Extent /\ data' = data /\ checks' = checks
  BY <1>1 DEF AccountMetadata, TypeOK
<1> QED BY <1>4, <1>5, <1>6

LEMMA DeclareDataType ==
  ASSUME TypeOK, NEW d \in DataExtent, DeclareData(d)
  PROVE  /\ data' \in Seq(DataExtent) /\ meta' = meta /\ checks' \in 0..MaxChecks
         /\ truncated' \in BOOLEAN /\ overlap' \in BOOLEAN
         /\ declared' \subseteq DataExtent
<1>1. Clamped(d) \in DataExtent
  BY ClampedFields
<1>2. CASE UNCHANGED <<registries, declared>>
  BY <1>2 DEF TypeOK, registries
<1>3. CASE d.lo < d.hi
  <2>0. declared' = declared \cup {d} /\ meta' = meta
    BY <1>3, SizeAssumption DEF DeclareData, registries, DataExtent
  <2>1. CASE CheckData(Clamped(d))
    <3>1. data' = data \/ data' = Append(data, Clamped(d))
      BY <2>1 DEF CheckData
    <3>2. data' \in Seq(DataExtent)
      BY <1>1, <3>1 DEF TypeOK
    <3>3. checks' \in 0..MaxChecks
      BY <2>1, SizeAssumption DEF CheckData, TypeOK
    <3>4. truncated' \in BOOLEAN /\ overlap' \in BOOLEAN
      BY <2>1 DEF CheckData, TypeOK
    <3> QED BY <2>0, <3>2, <3>3, <3>4 DEF TypeOK
  <2>2. CASE truncated' = TRUE /\ UNCHANGED <<data, checks, overlap>>
    BY <2>0, <2>2 DEF TypeOK
  <2>3. d.lo # d.hi
    BY <1>3, SizeAssumption DEF DataExtent
  <2> QED BY <2>1, <2>2, <2>3 DEF DeclareData
<1> QED BY <1>2, <1>3 DEF DeclareData

LEMMA TypeStep ==
  ASSUME TypeOK, [Next]_vars
  PROVE  TypeOK'
<1>1. CASE BeginAnalysis
  BY <1>1, EmptyRegistries DEF BeginAnalysis, TypeOK
<1>2. CASE EnterWalk
  BY <1>2 DEF EnterWalk, TypeOK, registries
<1>3. CASE EndAnalysis
  BY <1>3 DEF EndAnalysis, TypeOK, registries
<1>4. ASSUME NEW lo \in 0..Top, NEW n \in Sizes, ReadMetadata(lo, n)
      PROVE  TypeOK'
  <2>1. AccountMetadata(lo, n)
    BY <1>4 DEF ReadMetadata
  <2> QED BY <1>4, <2>1, AccountMetadataType DEF ReadMetadata, TypeOK
<1>5. ASSUME NEW lo \in 0..Top, NEW n \in Sizes, ReadLegacyContiguous(lo, n)
      PROVE  TypeOK'
  <2>1. Bytes(lo, n) \in Extent
    BY BytesType
  <2> QED BY <1>5, <2>1 DEF ReadLegacyContiguous, TypeOK, registries
<1>6. ASSUME NEW lo \in 0..Top, NEW n \in Sizes, NEW r \in Records, ReadIndexRecord(r, lo, n)
      PROVE  TypeOK'
  <2>1. Claim(r, lo, n) \in DataExtent
    BY ClaimType
  <2>2. CASE DeclareData(Claim(r, lo, n)) /\ UNCHANGED outside
    BY <1>6, <2>1, <2>2, DeclareDataType DEF ReadIndexRecord, TypeOK
  <2>3. CASE outside' = TRUE /\ UNCHANGED <<registries, declared>>
    BY <1>6, <2>3 DEF ReadIndexRecord, TypeOK, registries
  <2> QED BY <1>6, <2>2, <2>3 DEF ReadIndexRecord
<1>7. ASSUME NEW lo \in 0..Top, NEW n \in Sizes, NEW r \in Records, ReadArrayElement(r, lo, n)
      PROVE  TypeOK'
  <2>1. Claim(r, lo, n) \in DataExtent
    BY ClaimType
  <2>2. DeclareData(Claim(r, lo, n)) /\ outside' \in BOOLEAN
    BY <1>7 DEF ReadArrayElement, TypeOK
  <2> QED BY <1>7, <2>1, <2>2, DeclareDataType DEF ReadArrayElement, TypeOK
<1>8. ASSUME NEW lo \in 0..Top, NEW n \in Sizes, NEW r \in Records, NEW m \in Sizes,
             ReadContiguous(r, lo, n, m)
      PROVE  TypeOK'
  <2>1. Claim(r, lo, n) \in DataExtent /\ Bytes(lo, m) \in Extent
    BY ClaimType, BytesType
  <2>2. outside' \in BOOLEAN /\ contiguous' \subseteq Extent /\ UNCHANGED <<phase, metaRead>>
    BY <1>8, <2>1 DEF ReadContiguous, TypeOK
  <2>3. CASE DeclareData(Claim(r, lo, n))
    BY <2>1, <2>2, <2>3, DeclareDataType DEF TypeOK
  <2>4. CASE UNCHANGED <<registries, declared>>
    BY <2>2, <2>4 DEF TypeOK, registries
  <2> QED BY <1>8, <2>3, <2>4 DEF ReadContiguous
<1>9. CASE UNCHANGED vars
  BY <1>9 DEF vars, registries, TypeOK
<1> QED BY <1>1, <1>2, <1>3, <1>4, <1>5, <1>6, <1>7, <1>8, <1>9 DEF Next

\* Types: the registries hold extents of the address space and the comparison
\* count stays within its cap, whatever is read in whatever order.
THEOREM TypeCorrect == Spec => []TypeOK
<1>1. Init => TypeOK
  BY EmptyRegistries DEF Init, TypeOK
<1>2. TypeOK /\ [Next]_vars => TypeOK'
  BY TypeStep
<1> QED BY <1>1, <1>2, PTL DEF Spec

-----------------------------------------------------------------------------
\* The inductive invariant.

LEMMA SafeInit == Init => Safe
BY MembersEmpty DEF Init, Safe, Provenance, MetadataInFile, RecordedDisjoint,
   NothingSkipped, NoFalseOverlap

\* A step that touches neither registry nor what was read.
LEMMA SafeUnchanged ==
  ASSUME Safe, UNCHANGED <<registries, metaRead, declared>>
  PROVE  Safe'
BY DEF Safe, Provenance, MetadataInFile, RecordedDisjoint, NothingSkipped,
   NoFalseOverlap, Collides, registries

\* Metadata read last: whatever data was recorded is a read data extent, so a
\* report is justified, and what is recorded instead misses all of it.
LEMMA SafeMetadata ==
  ASSUME TypeOK, TypeOK', Safe, NEW lo \in 0..Top, NEW n \in Sizes, InFile(lo, n),
         AccountMetadata(lo, n), UNCHANGED declared
  PROVE  Safe'
<1> DEFINE r == Bytes(lo, n)
<1> DEFINE new == Clamped(r)
<1> DEFINE hit == \E d \in Members(data) : IntervalsOverlap(new, d)
<1>1. r \in Extent /\ new \in Extent /\ r.lo = lo
  BY BytesType, ClampedFields DEF Bytes
<1>2. lo < FileEnd
  BY SizeAssumption DEF AccountMetadata, InFile, Sizes
<1>3. metaRead' = metaRead \cup {r} /\ data' = data /\ declared' = declared
  BY DEF AccountMetadata
<1>4. Members(Append(meta, new)) = Members(meta) \cup {new}
  BY <1>1, MembersAppend DEF TypeOK
<1>5. overlap => overlap'
  BY DEF AccountMetadata
<1>6. \/ hit /\ overlap' = TRUE /\ UNCHANGED <<meta, truncated>>
      \/ ~hit /\ truncated' = TRUE /\ UNCHANGED <<overlap, meta>>
      \/ ~hit /\ Members(meta') = Members(meta) \cup {new} /\ UNCHANGED <<overlap, truncated>>
  <2>1. \/ hit /\ overlap' = TRUE /\ UNCHANGED <<meta, truncated>>
        \/ ~hit /\ truncated' = TRUE /\ UNCHANGED <<overlap, meta>>
        \/ ~hit /\ meta' = Append(meta, new) /\ UNCHANGED <<overlap, truncated>>
    BY DEF AccountMetadata
  <2> QED BY <1>4, <2>1
<1> HIDE DEF r, new, hit
<1>7. Provenance'
  <2>1. \A m \in Members(meta') : \E q \in metaRead' : m = Clamped(q)
    BY <1>3, <1>6 DEF Safe, Provenance, new
  <2>2. \A d \in Members(data') : \E e \in declared' : d = Clamped(e)
    BY <1>3 DEF Safe, Provenance
  <2> QED BY <2>1, <2>2 DEF Provenance
<1>8. MetadataInFile'
  BY <1>1, <1>2, <1>3 DEF Safe, MetadataInFile
<1>9. RecordedDisjoint'
  BY <1>3, <1>6 DEF Safe, RecordedDisjoint, hit, IntervalsOverlap
<1>10. NothingSkipped'
  <2> SUFFICES ASSUME ~truncated' PROVE NothingSkipped!2'
    BY DEF NothingSkipped
  <2>1. ~truncated
    BY <1>6
  <2>2. ASSUME NEW m \in metaRead'
        PROVE  \/ Clamped(m) \in Members(meta')
               \/ overlap' /\ \E d \in Members(data') : IntervalsOverlap(Clamped(m), d)
    BY <1>3, <1>5, <1>6, <2>1, <2>2 DEF Safe, NothingSkipped, hit, new
  <2>3. ASSUME NEW d \in declared'
        PROVE  Clamped(d) \in Members(data') \/ (overlap' /\ Collides(Clamped(d))')
    BY <1>3, <1>5, <1>6, <2>1, <2>3 DEF Safe, NothingSkipped, Collides
  <2> QED BY <2>2, <2>3
<1>11. NoFalseOverlap'
  <2>1. CASE overlap
    BY <2>1, <1>3 DEF Safe, NoFalseOverlap
  <2>2. CASE ~overlap
    <3> SUFFICES ASSUME overlap' PROVE NoFalseOverlap!2'
      BY DEF NoFalseOverlap
    <3>1. hit
      BY <1>6, <2>2
    <3>2. PICK d \in Members(data) : IntervalsOverlap(new, d)
      BY <3>1 DEF hit
    <3>3. PICK e \in declared : d = Clamped(e)
      BY DEF Safe, Provenance
    <3>4. e \in DataExtent
      BY DEF TypeOK
    <3>5. IntervalsOverlap(r, e)
      BY <1>1, <3>2, <3>3, <3>4, ClampedOverlap DEF new
    <3> QED BY <1>3, <3>5
  <2> QED BY <2>1, <2>2
<1> QED BY <1>7, <1>8, <1>9, <1>10, <1>11 DEF Safe

\* Data read last: the mirror image, and data against data besides.
LEMMA SafeData ==
  ASSUME TypeOK, TypeOK', Safe, NEW d \in DataExtent, DeclareData(d), UNCHANGED metaRead
  PROVE  Safe'
<1> DEFINE new == Clamped(d)
<1>0. CASE UNCHANGED <<registries, declared>>
  BY <1>0, SafeUnchanged
<1>1. CASE d.lo # d.hi
  <2>1. /\ new \in DataExtent /\ new.loc = d.loc
        /\ declared' = declared \cup {d} /\ meta' = meta /\ metaRead' = metaRead
    BY <1>1, ClampedFields DEF DeclareData
  <2>2. \/ Collides(new) /\ overlap' = TRUE /\ UNCHANGED <<data, truncated>>
        \/ truncated' = TRUE /\ UNCHANGED <<data, overlap>>
        \/ /\ ~Collides(new) /\ Members(data') = Members(data) \cup {new}
           /\ UNCHANGED <<overlap, truncated>>
    <3>1. Members(Append(data, new)) = Members(data) \cup {new}
      BY <2>1, MembersAppend DEF TypeOK
    <3>2. \/ CheckData(new)
          \/ truncated' = TRUE /\ UNCHANGED <<data, checks, overlap>>
      BY <1>1 DEF DeclareData
    <3> HIDE DEF new
    <3>3. CASE CheckData(new)
      BY <3>1, <3>3 DEF CheckData
    <3> QED BY <3>2, <3>3
  <2>3. Members(data) \subseteq Members(data') /\ (overlap => overlap')
    BY <2>2
  <2> HIDE DEF new
  <2>4. Provenance'
    <3>1. \A e \in Members(data') : \E q \in declared' : e = Clamped(q)
      BY <2>1, <2>2 DEF Safe, Provenance, new
    <3> QED BY <2>1, <3>1 DEF Safe, Provenance
  <2>5. MetadataInFile'
    BY <2>1 DEF Safe, MetadataInFile
  <2>6. RecordedDisjoint'
    BY <2>1, <2>2 DEF Safe, RecordedDisjoint, Collides, IntervalsOverlap
  <2>7. NothingSkipped'
    <3> SUFFICES ASSUME ~truncated' PROVE NothingSkipped!2'
      BY DEF NothingSkipped
    <3>1. ~truncated
      BY <2>2
    <3>2. ASSUME NEW m \in metaRead'
          PROVE  \/ Clamped(m) \in Members(meta')
                 \/ overlap' /\ \E e \in Members(data') : IntervalsOverlap(Clamped(m), e)
      BY <2>1, <2>3, <3>1, <3>2 DEF Safe, NothingSkipped
    <3>3. ASSUME NEW e \in declared'
          PROVE  Clamped(e) \in Members(data') \/ (overlap' /\ Collides(Clamped(e))')
      BY <2>1, <2>2, <2>3, <3>1, <3>3 DEF Safe, NothingSkipped, Collides, new
    <3> QED BY <3>2, <3>3
  <2>8. NoFalseOverlap'
    <3>1. CASE overlap
      BY <3>1, <2>1 DEF Safe, NoFalseOverlap
    <3>2. CASE ~overlap
      <4> SUFFICES ASSUME overlap' PROVE NoFalseOverlap!2'
        BY DEF NoFalseOverlap
      <4>1. Collides(new)
        BY <2>2, <3>2
      <4>2. CASE \E m \in Members(meta) : IntervalsOverlap(new, m)
        <5>1. PICK m \in Members(meta) : IntervalsOverlap(new, m)
          BY <4>2
        <5>2. PICK q \in metaRead : m = Clamped(q)
          BY DEF Safe, Provenance
        <5>3. q \in Extent
          BY DEF TypeOK
        <5>4. IntervalsOverlap(d, q)
          BY <5>1, <5>2, <5>3, ClampedOverlap DEF new
        <5> QED BY <2>1, <5>4, OverlapSymmetric
      <4>3. CASE \E e \in Members(data) : IntervalsOverlap(new, e) /\ e.loc # new.loc
        <5>1. PICK e \in Members(data) : IntervalsOverlap(new, e) /\ e.loc # new.loc
          BY <4>3
        <5>2. PICK q \in declared : e = Clamped(q)
          BY DEF Safe, Provenance
        <5>3. q \in DataExtent
          BY DEF TypeOK
        <5>4. IntervalsOverlap(d, q) /\ q.loc # d.loc
          BY <2>1, <5>1, <5>2, <5>3, ClampedOverlap, ClampedFields DEF new
        <5> QED BY <2>1, <5>4
      <4> QED BY <4>1, <4>2, <4>3 DEF Collides
    <3> QED BY <3>1, <3>2
  <2> QED BY <2>4, <2>5, <2>6, <2>7, <2>8 DEF Safe
<1>2. d.lo = d.hi => UNCHANGED <<registries, declared>>
  BY SizeAssumption DEF DeclareData, DataExtent
<1> QED BY <1>0, <1>1, <1>2

LEMMA IInvStep ==
  ASSUME IInv, [Next]_vars
  PROVE  IInv'
<1> USE DEF IInv
<1>0. TypeOK'
  BY TypeStep
<1>1. CASE BeginAnalysis
  <2>1. Safe'
    BY <1>1, MembersEmpty DEF BeginAnalysis, Safe, Provenance, MetadataInFile,
       RecordedDisjoint, NothingSkipped, NoFalseOverlap
  <2> QED BY <1>0, <2>1
<1>2. CASE EnterWalk
  BY <1>0, <1>2, SafeUnchanged DEF EnterWalk
<1>3. CASE EndAnalysis
  BY <1>0, <1>3, SafeUnchanged DEF EndAnalysis
<1>4. ASSUME NEW lo \in 0..Top, NEW n \in Sizes, ReadMetadata(lo, n)
      PROVE  Safe'
  BY <1>0, <1>4, SafeMetadata DEF ReadMetadata
<1>5. ASSUME NEW lo \in 0..Top, NEW n \in Sizes, ReadLegacyContiguous(lo, n)
      PROVE  Safe'
  BY <1>5, SafeUnchanged DEF ReadLegacyContiguous
<1>6. ASSUME NEW lo \in 0..Top, NEW n \in Sizes, NEW r \in Records, ReadIndexRecord(r, lo, n)
      PROVE  Safe'
  BY <1>0, <1>6, ClaimType, SafeData, SafeUnchanged DEF ReadIndexRecord
<1>7. ASSUME NEW lo \in 0..Top, NEW n \in Sizes, NEW r \in Records, ReadArrayElement(r, lo, n)
      PROVE  Safe'
  BY <1>0, <1>7, ClaimType, SafeData DEF ReadArrayElement
<1>8. ASSUME NEW lo \in 0..Top, NEW n \in Sizes, NEW r \in Records, NEW m \in Sizes,
             ReadContiguous(r, lo, n, m)
      PROVE  Safe'
  BY <1>0, <1>8, ClaimType, SafeData, SafeUnchanged DEF ReadContiguous
<1>9. CASE UNCHANGED vars
  BY <1>0, <1>9, SafeUnchanged DEF vars
<1> QED BY <1>0, <1>1, <1>2, <1>3, <1>4, <1>5, <1>6, <1>7, <1>8, <1>9 DEF Next

LEMMA Invariance == Spec => []IInv
<1>1. Init => IInv
  BY SafeInit, EmptyRegistries DEF Init, IInv, TypeOK
<1>2. IInv /\ [Next]_vars => IInv'
  BY IInvStep
<1> QED BY <1>1, <1>2, PTL DEF Spec

\* The registries never hold two extents that share a byte and should not, so
\* a rejected extent is never a witness against a later one.
THEOREM RecordedDisjointCorrect == Spec => []RecordedDisjoint
<1>1. IInv => RecordedDisjoint
  BY DEF IInv, Safe
<1> QED BY <1>1, Invariance, PTL

\* Until a cap cuts the check short, every extent read is recorded, or met a
\* recorded extent and was reported: nothing is silently left out.
THEOREM NothingSkippedCorrect == Spec => []NothingSkipped
<1>1. IInv => NothingSkipped
  BY DEF IInv, Safe
<1> QED BY <1>1, Invariance, PTL

\* An overlap is reported only if two extents the file declares really share a
\* byte: the check does not reject a file whose extents are disjoint.
THEOREM NoFalseOverlapCorrect == Spec => []NoFalseOverlap
<1>1. IInv => NoFalseOverlap
  BY DEF IInv, Safe
<1> QED BY <1>1, Invariance, PTL

\* Conversely a shared byte is always reported, in whichever order its two
\* owners were read, unless the report says that the check was cut short.
THEOREM CollisionsReportedCorrect == Spec => []CollisionsReported
<1>1. IInv => CollisionsReported
  <2> SUFFICES ASSUME IInv, ~truncated, Collision, ~overlap PROVE FALSE
    BY DEF CollisionsReported
  <2> USE DEF IInv
  <2>1. /\ \A m \in metaRead : Clamped(m) \in Members(meta)
        /\ \A d \in declared : Clamped(d) \in Members(data)
    BY DEF Safe, NothingSkipped
  <2>2. PICK d \in declared :
          /\ d.lo < FileEnd
          /\ \/ \E m \in metaRead : IntervalsOverlap(m, d)
             \/ \E e \in declared : e.lo < FileEnd /\ e.loc # d.loc /\ IntervalsOverlap(d, e)
    BY DEF Collision
  <2>3. d \in DataExtent /\ d.lo < Top
    BY <2>2, SizeAssumption DEF TypeOK, DataExtent
  <2>4. CASE \E m \in metaRead : IntervalsOverlap(m, d)
    <3>1. PICK m \in metaRead : IntervalsOverlap(m, d)
      BY <2>4
    <3>2. m \in Extent /\ m.lo < Top
      BY SizeAssumption DEF TypeOK, Safe, MetadataInFile, Extent
    <3>3. IntervalsOverlap(Clamped(m), Clamped(d))
      BY <2>3, <3>1, <3>2, ClampedOverlap
    <3> QED BY <2>1, <3>3 DEF Safe, RecordedDisjoint
  <2>5. CASE \E e \in declared : e.lo < FileEnd /\ e.loc # d.loc /\ IntervalsOverlap(d, e)
    <3>1. PICK e \in declared : e.lo < FileEnd /\ e.loc # d.loc /\ IntervalsOverlap(d, e)
      BY <2>5
    <3>2. e \in DataExtent /\ e.lo < Top
      BY <3>1, SizeAssumption DEF TypeOK, DataExtent
    <3>3. IntervalsOverlap(Clamped(d), Clamped(e)) /\ Clamped(d).loc # Clamped(e).loc
      BY <2>3, <3>1, <3>2, ClampedOverlap, ClampedFields
    <3> QED BY <2>1, <3>3 DEF Safe, RecordedDisjoint
  <2> QED BY <2>2, <2>4, <2>5
<1> QED BY <1>1, Invariance, PTL
=============================================================================
