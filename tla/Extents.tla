------------------------------ MODULE Extents ------------------------------
(***************************************************************************)
(* The raw-data disjointness check of h5policy: the two registries of      *)
(* extents in h5_walk.pk, and the records that declare raw data to them    *)
(* (h5_chunkindex.pk, h5_layout.pk).                                       *)
(*                                                                         *)
(* Metadata structures and data records are read in any order, as the      *)
(* breadth-first walk comes to them; each side is compared with what the   *)
(* other recorded so far.  Both registries are capped.  What the bytes of  *)
(* a structure say besides its extent is abstracted away.                  *)
(*                                                                         *)
(* A definition whose comment begins "Fault" is not part of Next: it is    *)
(* the operator below it with one plausible mistake, kept to show that a   *)
(* property notices it.                                                    *)
(***************************************************************************)
EXTENDS Integers, Sequences, FiniteSets

CONSTANTS
  Top,        \* the largest uint<64>
  FileEnd,    \* h5policy_ceiling: the end of the file as declared
  Records,    \* the file locations of the records that declare raw data
  MaxMeta,    \* H5POLICY_MAX_METADATA_EXTENTS
  MaxChecks,  \* H5POLICY_MAX_CHUNK_EXTENT_CHECKS
  MaxSize,    \* bound: the largest length a record encodes
  MaxMetaRead,   \* bound: metadata structures of one file
  MaxContiguous  \* bound: contiguous datasets of one file

ASSUME SizeAssumption ==
  /\ Top \in Nat /\ FileEnd \in Nat /\ FileEnd <= Top
  /\ MaxMeta \in Nat /\ MaxChecks \in Nat
  /\ MaxSize \in Nat /\ MaxMetaRead \in Nat /\ MaxContiguous \in Nat

VARIABLES
  phase,       \* the superblock, the walk over the headers, or the report
  meta,        \* h5policy_meta_lo and _hi
  data,        \* h5policy_chunk_extent_lo, _hi and _loc
  checks,      \* h5policy_chunk_extent_checks
  truncated,   \* h5policy_extents_truncated
  overlap,     \* an H5_CORRUPT_RAW_DATA_OVERLAPS_* finding was emitted
  outside,     \* an address or range outside the file was reported corrupt
  metaRead,    \* history: the metadata accounted for
  declared,    \* history: the data extents handed to the check
  contiguous   \* history: the extents contiguous datasets really occupy

registries == <<meta, data, checks, truncated, overlap>>
vars == <<phase, registries, outside, metaRead, declared, contiguous>>

\* h5policy_extent_hi: the end of an extent, clamped instead of wrapped.
ExtentHi(lo, bytes) == IF bytes > Top - lo THEN Top ELSE lo + bytes

\* h5policy_intervals_overlap on half-open intervals.
IntervalsOverlap(a, b) == a.lo < b.hi /\ b.lo < a.hi

\* What an extent of the file really covers, and what the registry keeps of it.
Bytes(lo, bytes) == [lo |-> lo, hi |-> lo + bytes]
Clamped(e) == [e EXCEPT !.hi = ExtentHi(e.lo, e.hi - e.lo)]

Members(s) == {s[i] : i \in 1..Len(s)}

InFile(lo, bytes) == lo <= FileEnd /\ bytes <= FileEnd - lo

-----------------------------------------------------------------------------

Init ==
  /\ phase = "superblock"
  /\ meta = <<>> /\ data = <<>>
  /\ checks = 0
  /\ truncated = FALSE /\ overlap = FALSE /\ outside = FALSE
  /\ metaRead = {} /\ declared = {} /\ contiguous = {}

\* h5policy_reset_extents, called once at the head of h5policy_analyze.
BeginAnalysis ==
  /\ phase = "done"
  /\ phase' = "superblock"
  /\ meta' = <<>> /\ data' = <<>>
  /\ checks' = 0
  /\ truncated' = FALSE /\ overlap' = FALSE /\ outside' = FALSE
  /\ metaRead' = {} /\ declared' = {} /\ contiguous' = {}

\* Fault: the walk resets the registries too, and with them the superblock.
EnterWalkResetsExtents ==
  /\ phase = "superblock"
  /\ phase' = "walking"
  /\ meta' = <<>> /\ data' = <<>> /\ checks' = 0 /\ truncated' = FALSE
  /\ UNCHANGED <<overlap, outside, metaRead, declared, contiguous>>

\* h5policy_reset_traversal_state at the head of the walk leaves the extents.
EnterWalk ==
  /\ phase = "superblock"
  /\ phase' = "walking"
  /\ UNCHANGED <<registries, outside, metaRead, declared, contiguous>>

EndAnalysis ==
  /\ phase # "done"
  /\ phase' = "done"
  /\ UNCHANGED <<registries, outside, metaRead, declared, contiguous>>

\* Fault: the metadata is recorded, but not held against the data before it.
AccountMetadataUnchecked(lo, bytes) ==
  /\ bytes > 0 /\ metaRead' = metaRead \cup {Bytes(lo, bytes)}
  /\ IF Len(meta) >= MaxMeta
     THEN truncated' = TRUE /\ UNCHANGED meta
     ELSE /\ meta' = Append(meta, Clamped(Bytes(lo, bytes)))
          /\ UNCHANGED truncated
  /\ UNCHANGED <<data, checks, overlap>>

\* h5policy_record_metadata_extent: held against the data recorded before it,
\* and recorded only if it misses all of it.
AccountMetadata(lo, bytes) ==
  LET new == Clamped(Bytes(lo, bytes))
      hit == \E d \in Members(data) : IntervalsOverlap(new, d)
  IN /\ bytes > 0 /\ metaRead' = metaRead \cup {Bytes(lo, bytes)}
     /\ \/ hit /\ overlap' = TRUE /\ UNCHANGED <<meta, truncated>>
        \/ /\ ~hit /\ Len(meta) >= MaxMeta
           /\ truncated' = TRUE
           /\ UNCHANGED <<overlap, meta>>
        \/ /\ ~hit /\ Len(meta) < MaxMeta
           /\ meta' = Append(meta, new)
           /\ UNCHANGED <<overlap, truncated>>
     /\ UNCHANGED <<data, checks>>

\* A metadata structure: its range was checked before it is accounted for.
ReadMetadata(lo, bytes) ==
  /\ phase # "done" /\ InFile(lo, bytes)
  /\ Cardinality(metaRead) < MaxMetaRead
  /\ AccountMetadata(lo, bytes)
  /\ UNCHANGED <<phase, outside, declared, contiguous>>

\* Fault: a record decoded twice collides with itself.
CollidesWithItself(new) ==
  \E e \in Members(meta) \cup Members(data) : IntervalsOverlap(new, e)

\* Data meets recorded metadata, or the recorded data of another record.
Collides(new) ==
  \/ \E m \in Members(meta) : IntervalsOverlap(new, m)
  \/ \E d \in Members(data) : IntervalsOverlap(new, d) /\ d.loc # new.loc

\* Compare one extent with both registries and record it if it misses them.
CheckData(new) ==
  /\ checks < MaxChecks
  /\ checks' = checks + 1
  /\ \/ Collides(new) /\ overlap' = TRUE /\ UNCHANGED <<data, truncated>>
     \/ /\ ~Collides(new)
        /\ IF Len(data) < MaxChecks
           THEN data' = Append(data, new) /\ UNCHANGED truncated
           ELSE truncated' = TRUE /\ UNCHANGED data
        /\ UNCHANGED overlap

\* h5policy_data_extent_disjoint.  An empty extent declares nothing.
DeclareData(d) ==
  \/ d.lo = d.hi /\ UNCHANGED <<registries, declared>>
  \/ /\ d.lo < d.hi
     /\ declared' = declared \cup {d}
     /\ \/ CheckData(Clamped(d))
        \/ /\ checks >= MaxChecks
           /\ truncated' = TRUE
           /\ UNCHANGED <<data, checks, overlap>>
     /\ UNCHANGED meta

\* The extent a data record declares.  The file does not change while it is
\* read: a record decoded again declares what it declared before.
Claim(loc, lo, bytes) == [loc |-> loc, lo |-> lo, hi |-> lo + bytes]
Stable(d) == \A e \in declared : e.loc = d.loc => e = d

\* A record of a v1 or v2 B-tree, an extensible array or a single-chunk index:
\* its size is not zero, and only a range inside the file reaches the check.
ReadIndexRecord(loc, lo, bytes) ==
  LET d == Claim(loc, lo, bytes)
  IN /\ phase = "walking" /\ bytes > 0 /\ Stable(d)
     /\ IF InFile(lo, bytes)
        THEN DeclareData(d) /\ UNCHANGED outside
        ELSE outside' = TRUE /\ UNCHANGED <<registries, declared>>
     /\ UNCHANGED <<phase, metaRead, contiguous>>

\* A fixed-array element: only its address is held against the end of file,
\* and the check runs all the same.  An unfiltered element declares one byte.
ReadArrayElement(loc, lo, bytes) ==
  LET d == Claim(loc, lo, bytes)
  IN /\ phase = "walking" /\ bytes > 0 /\ Stable(d)
     /\ outside' = (outside \/ lo >= FileEnd)
     /\ DeclareData(d)
     /\ UNCHANGED <<phase, metaRead, contiguous>>

\* A contiguous layout of version 3 or later: the stored size declares the
\* extent, unless it runs past the end of file (a warning); the size computed
\* from dataspace and datatype is what a reader uses and what must be in the
\* file.  One of the two sizes being zero is corrupt.
ReadContiguous(loc, lo, stored, computed) ==
  LET d == Claim(loc, lo, stored)
  IN /\ phase = "walking" /\ Stable(d)
     /\ Cardinality(contiguous) < MaxContiguous
     /\ IF InFile(lo, stored)
        THEN DeclareData(d)
        ELSE UNCHANGED <<registries, declared>>
     /\ outside' = (outside \/ (computed > 0 /\ ~InFile(lo, computed))
                            \/ ((stored = 0) # (computed = 0)))
     /\ contiguous' = contiguous \cup (IF computed > 0 THEN {Bytes(lo, computed)} ELSE {})
     /\ UNCHANGED <<phase, metaRead>>

\* Versions 1 and 2 store no size: only the computed extent is bounded.
ReadLegacyContiguous(lo, computed) ==
  /\ phase = "walking" /\ computed > 0
  /\ Cardinality(contiguous) < MaxContiguous
  /\ outside' = (outside \/ ~InFile(lo, computed))
  /\ contiguous' = contiguous \cup {Bytes(lo, computed)}
  /\ UNCHANGED <<phase, registries, metaRead, declared>>

Sizes == 0..MaxSize

Next ==
  \/ BeginAnalysis
  \/ EnterWalk
  \/ EndAnalysis
  \/ \E lo \in 0..Top, n \in Sizes :
       \/ ReadMetadata(lo, n)
       \/ ReadLegacyContiguous(lo, n)
       \/ \E r \in Records : ReadIndexRecord(r, lo, n) \/ ReadArrayElement(r, lo, n)
       \/ \E r \in Records, m \in Sizes : ReadContiguous(r, lo, n, m)

Spec == Init /\ [][Next]_vars

-----------------------------------------------------------------------------

Extent == [lo : 0..Top, hi : 0..(Top + MaxSize)]
DataExtent == [loc : Records, lo : 0..Top, hi : 0..(Top + MaxSize)]

TypeOK ==
  /\ phase \in {"superblock", "walking", "done"}
  /\ meta \in Seq(Extent)
  /\ data \in Seq(DataExtent)
  /\ checks \in 0..MaxChecks
  /\ truncated \in BOOLEAN /\ overlap \in BOOLEAN /\ outside \in BOOLEAN
  /\ metaRead \subseteq Extent
  /\ declared \subseteq DataExtent
  /\ contiguous \subseteq Extent

\* The registries never hold a collision, whatever was reported before: every
\* recorded extent is a witness a later one can safely be held against.
RecordedDisjoint ==
  /\ \A m \in Members(meta), d \in Members(data) : ~IntervalsOverlap(m, d)
  /\ \A d, e \in Members(data) : d.loc # e.loc => ~IntervalsOverlap(d, e)

\* Clean bytes were compared, not skipped: unless the report says the check was
\* cut short, every extent read is either recorded for later comparison or
\* meets a recorded one, which was reported.
NothingSkipped ==
  ~truncated =>
    /\ \A m \in metaRead :
         \/ Clamped(m) \in Members(meta)
         \/ overlap /\ \E d \in Members(data) : IntervalsOverlap(Clamped(m), d)
    /\ \A d \in declared : Clamped(d) \in Members(data) \/ (overlap /\ Collides(Clamped(d)))

\* A pair of extents that must not share a byte, both starting in the file.
Collision ==
  \E d \in declared :
    /\ d.lo < FileEnd
    /\ \/ \E m \in metaRead : IntervalsOverlap(m, d)
       \/ \E e \in declared : e.lo < FileEnd /\ e.loc # d.loc /\ IntervalsOverlap(d, e)

\* The check is exact and order-independent: if it was not cut short, every
\* shared byte is reported, whichever side of the pair was read first.
CollisionsReported == ~truncated /\ Collision => overlap

\* And it never accuses a file whose extents share no byte.
NoFalseOverlap ==
  overlap => \E d \in declared :
    \/ \E m \in metaRead : IntervalsOverlap(m, d)
    \/ \E e \in declared : e.loc # d.loc /\ IntervalsOverlap(d, e)

\* h5_layout.pk:152 says of contiguous datasets that being in the file is not
\* enough: the extent must also miss file metadata.
ContiguousMissesMetadata ==
  phase = "done" /\ ~truncated /\ ~overlap /\ ~outside =>
    \A c \in contiguous, m \in metaRead : ~IntervalsOverlap(c, m)
=============================================================================
