------------------------------ MODULE Findings ------------------------------
(***************************************************************************)
(* The finding store of h5policy (h5policy/pickles/h5_findings.pk) and the *)
(* two message-absence rules that read it back                             *)
(* (h5policy_finalize_ohdr_dataset in h5_validate.pk).                     *)
(*                                                                         *)
(* One analysis after another runs in one session.  Emitting a finding     *)
(* first raises the decision, then stores the finding unless the list is   *)
(* at its cap or the finding repeats a resource code.  Texts and offsets   *)
(* are abstracted: a finding is its code, its class and the number of      *)
(* evidence byte ranges it carries.                                        *)
(*                                                                         *)
(* A definition whose comment begins "Fault" is not part of Next: it is    *)
(* the operator below it with one plausible mistake, kept to show that a   *)
(* property notices it.                                                    *)
(***************************************************************************)
EXTENDS FindingClasses, Sequences

CONSTANTS
  Codes,         \* finding codes the analysed files can raise
  CodeClass,     \* [Codes -> Classes]: the class each code is emitted with
  AbsenceCode,   \* H5_CORRUPT_GROUP_MISSING_LINK_STORAGE
  MarkerCode,    \* H5_POLICY_FINDINGS_TRUNCATED
  MaxFindings,   \* H5POLICY_MAX_FINDINGS
  MaxEvidence,   \* bound: evidence ranges of one finding
  MaxErrors      \* bound: error findings stored in the session

ASSUME CodesAssumption ==
  /\ CodeClass \in [Codes -> Classes]
  /\ AbsenceCode \in Codes /\ CodeClass[AbsenceCode] = "corrupt"
  /\ MarkerCode \notin Codes

ASSUME BoundsAssumption ==
  MaxFindings \in Nat /\ MaxEvidence \in Nat /\ MaxErrors \in Nat

VARIABLES
  exitCode,       \* h5policy_exit_code
  exitRank,       \* h5policy_exit_rank
  items,          \* the h5policy_finding_* arrays, one record per index
  locations,      \* the flat h5policy_evidence_location_* arrays
  truncated,      \* h5policy_findings_truncated
  resourceCodes,  \* h5policy_emitted_resource_codes
  errorCount,     \* h5policy_error_finding_count
  mark,           \* h5policy_object_finding_mark
  inObject,       \* an object header is being validated
  emitted,        \* history: the codes emitted since the analysis began
  objectErred     \* history: an error was emitted for the current object

store == <<exitCode, exitRank, items, locations, truncated, resourceCodes, errorCount>>
vars  == <<store, mark, inObject, emitted, objectErred>>

\* The emit wrappers: class "warning" is stored as a warning, every other
\* class as an error.
Severity(klass) == IF klass = "warning" THEN "warning" ELSE "error"

Finding == [code : Codes \cup {MarkerCode}, klass : Classes,
            start : Nat, count : 0..MaxEvidence]

-----------------------------------------------------------------------------

Init ==
  /\ exitCode = ExitAccept
  /\ exitRank = 0
  /\ items = <<>>
  /\ locations = <<>>
  /\ truncated = FALSE
  /\ resourceCodes = {}
  /\ errorCount = 0
  /\ mark = 0
  /\ inObject = FALSE
  /\ emitted = {}
  /\ objectErred = FALSE

\* Fault: the last finding decides, whatever came before it.
ConsiderExitLatest(klass) ==
  exitRank' = ClassRank(klass) /\ exitCode' = ClassExitCode(klass)

\* h5policy_consider_exit
ConsiderExit(klass) ==
  IF ClassRank(klass) > exitRank
  THEN exitRank' = ClassRank(klass) /\ exitCode' = ClassExitCode(klass)
  ELSE UNCHANGED <<exitRank, exitCode>>

\* Fault: one resource finding suppresses every other resource code.
SuppressedByClass(code) ==
  \/ truncated
  \/ CodeClass[code] = "resource" /\ resourceCodes # {}

\* The finding is dropped: the list is closed, or the resource code is known.
Suppressed(code) ==
  \/ truncated
  \/ CodeClass[code] = "resource" /\ code \in resourceCodes

\* Append one finding and its evidence ranges to the parallel arrays.
Store(code, klass, count) ==
  /\ items' = Append(items, [code |-> code, klass |-> klass,
                             start |-> Len(locations), count |-> count])
  /\ locations' = locations \o [n \in 1..count |-> code]
  /\ errorCount' = IF Severity(klass) = "error" THEN errorCount + 1 ELSE errorCount

StoreFinding(code, count) ==
  /\ Len(items) < MaxFindings
  /\ Store(code, CodeClass[code], count)
  /\ resourceCodes' = IF CodeClass[code] = "resource"
                      THEN resourceCodes \cup {code} ELSE resourceCodes
  /\ UNCHANGED truncated

\* Fault: the marker does not close the list.
StoreMarkerOpen ==
  /\ Len(items) >= MaxFindings
  /\ Store(MarkerCode, "warning", 0)
  /\ UNCHANGED <<truncated, resourceCodes>>

\* The finding that meets the cap is replaced by the terminal marker.
StoreMarker ==
  /\ Len(items) >= MaxFindings
  /\ Store(MarkerCode, "warning", 0)
  /\ truncated' = TRUE
  /\ UNCHANGED resourceCodes

\* h5policy_emit_with_evidence
Emit(code, count) ==
  /\ ConsiderExit(CodeClass[code])
  /\ \/ /\ Suppressed(code)
        /\ UNCHANGED <<items, locations, truncated, resourceCodes, errorCount>>
     \/ ~Suppressed(code) /\ (StoreFinding(code, count) \/ StoreMarker)
  /\ emitted' = emitted \cup {code}

-----------------------------------------------------------------------------

\* h5policy_reset_findings, at the head of every h5policy_analyze.  The error
\* count and the object mark are session-wide: neither is reset.
BeginAnalysis ==
  /\ ~inObject
  /\ exitCode' = ExitAccept
  /\ exitRank' = 0
  /\ items' = <<>>
  /\ locations' = <<>>
  /\ truncated' = FALSE
  /\ resourceCodes' = {}
  /\ emitted' = {}
  /\ UNCHANGED <<errorCount, mark, inObject, objectErred>>

\* A finding outside any object header: superblock, budgets, end of walk.
EmitFileFinding(code, count) ==
  /\ ~inObject /\ errorCount < MaxErrors
  /\ Emit(code, count)
  /\ UNCHANGED <<mark, inObject, objectErred>>

\* h5policy_validate_ohdr_raw takes the mark before it reads anything.
BeginObject ==
  /\ ~inObject
  /\ inObject' = TRUE
  /\ mark' = errorCount
  /\ objectErred' = FALSE
  /\ UNCHANGED <<store, emitted>>

EmitObjectFinding(code, count) ==
  /\ inObject /\ errorCount < MaxErrors
  /\ Emit(code, count)
  /\ objectErred' = (objectErred \/ Severity(CodeClass[code]) = "error")
  /\ UNCHANGED <<mark, inObject>>

HeaderWalkedClean == errorCount = mark

\* h5policy_finalize_ohdr_dataset, the group rule: a header with neither
\* link-info nor symbol-table message is accused if it was walked clean.
AccuseMissingStorage ==
  /\ inObject /\ errorCount < MaxErrors
  /\ HeaderWalkedClean
  /\ Emit(AbsenceCode, 0)
  /\ inObject' = FALSE
  /\ UNCHANGED <<mark, objectErred>>

\* The rule does not apply, or the header returned before finalization.
EndObject ==
  /\ inObject
  /\ inObject' = FALSE
  /\ UNCHANGED <<store, mark, emitted, objectErred>>

Next ==
  \/ BeginAnalysis
  \/ \E c \in Codes \ {AbsenceCode}, n \in 0..MaxEvidence :
        EmitFileFinding(c, n) \/ EmitObjectFinding(c, n)
  \/ BeginObject
  \/ AccuseMissingStorage
  \/ EndObject

Spec == Init /\ [][Next]_vars

-----------------------------------------------------------------------------

TypeOK ==
  /\ exitCode \in ExitCodes
  /\ exitRank \in {0} \cup {ClassRank(k) : k \in Classes}
  /\ items \in Seq(Finding)
  /\ locations \in Seq(Codes \cup {MarkerCode})
  /\ truncated \in BOOLEAN
  /\ resourceCodes \subseteq Codes
  /\ errorCount \in Nat
  /\ mark \in Nat
  /\ inObject \in BOOLEAN
  /\ emitted \subseteq Codes
  /\ objectErred \in BOOLEAN

\* The report closes exactly once: the list never grows past the cap plus one
\* terminal marker, the marker is last, and it is there exactly when the
\* truncation flag is set.
TerminalMarker ==
  /\ Len(items) <= MaxFindings + 1
  /\ truncated <=> Len(items) = MaxFindings + 1
  /\ \A i \in 1..Len(items) : items[i].code = MarkerCode <=> i = MaxFindings + 1

\* Nothing is lost silently: unless the report says it is truncated, every
\* code emitted since the analysis began is in it, however the repeated
\* resource findings were collapsed.
NothingLostSilently ==
  ~truncated => \A c \in emitted : \E i \in 1..Len(items) : items[i].code = c

\* A resource code is reported once per analysis, and the set that suppresses
\* its repetitions holds exactly the resource codes stored.
ResourceReportedOnce ==
  /\ \A i, j \in 1..Len(items) :
        items[i].klass = "resource" /\ items[i].code = items[j].code => i = j
  /\ \A c \in resourceCodes : \E i \in 1..Len(items) : items[i].code = c

\* The incremental decision is that of Verdict: the gravest class emitted,
\* whatever the order of the findings and whatever the list suppressed.
V == INSTANCE Verdict WITH established <- {CodeClass[c] : c \in emitted}
ImplementsVerdict == V!Spec

\* h5_walk.pk:401 and h5_validate.pk:953 say of the absence rules that a
\* header that already produced an error is left to that error.
LeftToItsOwnError == [][AccuseMissingStorage => ~objectErred]_vars
=============================================================================
