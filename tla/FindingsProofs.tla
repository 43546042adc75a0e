--------------------------- MODULE FindingsProofs ---------------------------
(***************************************************************************)
(* Proofs about the finding store for every set of codes and every cap:    *)
(* type correctness, the shape of a truncated report, that nothing is lost *)
(* silently, that a resource code is reported once, and that the           *)
(* incremental decision implements Verdict.                                *)
(***************************************************************************)
EXTENDS Findings, SequenceTheorems, TLAPS

\* The part of TypeOK that an emission can disturb.
StoreOK ==
  /\ exitCode \in ExitCodes
  /\ exitRank \in {0} \cup {ClassRank(k) : k \in Classes}
  /\ items \in Seq(Finding)
  /\ locations \in Seq(Codes \cup {MarkerCode})
  /\ truncated \in BOOLEAN
  /\ resourceCodes \subseteq Codes
  /\ errorCount \in Nat
  /\ emitted \subseteq Codes

LEMMA ClassOfCode == ASSUME NEW c \in Codes PROVE CodeClass[c] \in Classes
BY CodesAssumption

LEMMA StoreTyped ==
  ASSUME StoreOK, NEW c \in Codes \cup {MarkerCode}, NEW k \in Classes,
         NEW n \in 0..MaxEvidence, Store(c, k, n)
  PROVE  /\ items' \in Seq(Finding)
         /\ locations' \in Seq(Codes \cup {MarkerCode})
         /\ errorCount' \in Nat
<1>1. Len(locations) \in Nat
  BY DEF StoreOK
<1>2. [code |-> c, klass |-> k, start |-> Len(locations), count |-> n] \in Finding
  BY <1>1 DEF Finding
<1>3. items' \in Seq(Finding)
  BY <1>2 DEF Store, StoreOK
<1>4. n \in Nat
  BY BoundsAssumption
<1>5. [m \in 1..n |-> c] \in Seq(Codes \cup {MarkerCode})
  BY <1>4
<1>6. locations' \in Seq(Codes \cup {MarkerCode})
  BY <1>5 DEF Store, StoreOK
<1>7. errorCount' \in Nat
  BY DEF Store, StoreOK
<1> QED
  BY <1>3, <1>6, <1>7

LEMMA EmitTyped ==
  ASSUME StoreOK, NEW c \in Codes, NEW n \in 0..MaxEvidence, Emit(c, n)
  PROVE  StoreOK'
<1>1. CodeClass[c] \in Classes
  BY ClassOfCode
<1>2. /\ exitCode' \in ExitCodes
      /\ exitRank' \in {0} \cup {ClassRank(k) : k \in Classes}
  BY <1>1 DEF Emit, ConsiderExit, ExitCodes, StoreOK
<1>3. emitted' \subseteq Codes
  BY DEF Emit, StoreOK
<1>4. CASE UNCHANGED <<items, locations, truncated, resourceCodes, errorCount>>
  BY <1>2, <1>3, <1>4 DEF StoreOK
<1>5. CASE StoreFinding(c, n)
  <2>1. Store(c, CodeClass[c], n)
    BY <1>5 DEF StoreFinding
  <2>2. /\ items' \in Seq(Finding)
        /\ locations' \in Seq(Codes \cup {MarkerCode})
        /\ errorCount' \in Nat
    BY <1>1, <2>1, StoreTyped
  <2>3. truncated' \in BOOLEAN /\ resourceCodes' \subseteq Codes
    BY <1>5 DEF StoreFinding, StoreOK
  <2> QED
    BY <1>2, <1>3, <2>2, <2>3 DEF StoreOK
<1>6. CASE StoreMarker
  <2>1. Store(MarkerCode, "warning", 0) /\ "warning" \in Classes /\ 0 \in 0..MaxEvidence
    BY <1>6, BoundsAssumption DEF StoreMarker, Classes
  <2>2. /\ items' \in Seq(Finding)
        /\ locations' \in Seq(Codes \cup {MarkerCode})
        /\ errorCount' \in Nat
    BY <2>1, StoreTyped
  <2>3. truncated' \in BOOLEAN /\ resourceCodes' \subseteq Codes
    BY <1>6 DEF StoreMarker, StoreOK
  <2> QED
    BY <1>2, <1>3, <2>2, <2>3 DEF StoreOK
<1> QED
  BY <1>4, <1>5, <1>6 DEF Emit

\* The store h5policy_reset_findings leaves behind, but for the error count.
LEMMA EmptyStoreTyped ==
  /\ ExitAccept \in ExitCodes
  /\ <<>> \in Seq(Finding)
  /\ <<>> \in Seq(Codes \cup {MarkerCode})
BY EmptySeq DEF ExitCodes

LEMMA TypeInit == Init => TypeOK
<1> SUFFICES ASSUME Init PROVE TypeOK
  OBVIOUS
<1>1. /\ exitCode \in ExitCodes
      /\ items \in Seq(Finding)
      /\ locations \in Seq(Codes \cup {MarkerCode})
  BY EmptyStoreTyped DEF Init
<1>2. /\ exitRank \in {0} \cup {ClassRank(k) : k \in Classes}
      /\ truncated \in BOOLEAN
      /\ resourceCodes \subseteq Codes
      /\ errorCount \in Nat
      /\ mark \in Nat
      /\ inObject \in BOOLEAN
      /\ emitted \subseteq Codes
      /\ objectErred \in BOOLEAN
  BY DEF Init
<1> QED
  BY <1>1, <1>2 DEF TypeOK

LEMMA TypeStep == TypeOK /\ [Next]_vars => TypeOK'
<1> SUFFICES ASSUME TypeOK, [Next]_vars PROVE TypeOK'
  OBVIOUS
<1>0. StoreOK
  BY DEF TypeOK, StoreOK
<1>1. CASE BeginAnalysis
  BY <1>1, EmptyStoreTyped DEF TypeOK, BeginAnalysis
<1>2. ASSUME NEW c \in Codes \ {AbsenceCode}, NEW n \in 0..MaxEvidence,
             EmitFileFinding(c, n) \/ EmitObjectFinding(c, n)
      PROVE  TypeOK'
  <2>1. Emit(c, n)
    BY <1>2 DEF EmitFileFinding, EmitObjectFinding
  <2>2. StoreOK'
    BY <1>0, <2>1, EmitTyped
  <2>3. mark' \in Nat /\ inObject' \in BOOLEAN /\ objectErred' \in BOOLEAN
    BY <1>2 DEF EmitFileFinding, EmitObjectFinding, TypeOK
  <2> QED
    BY <2>2, <2>3 DEF TypeOK, StoreOK
<1>3. CASE BeginObject
  BY <1>3 DEF TypeOK, BeginObject, store
<1>4. CASE AccuseMissingStorage
  <2>1. StoreOK'
    BY <1>0, <1>4, EmitTyped, CodesAssumption, BoundsAssumption DEF AccuseMissingStorage
  <2>2. mark' \in Nat /\ inObject' \in BOOLEAN /\ objectErred' \in BOOLEAN
    BY <1>4 DEF AccuseMissingStorage, TypeOK
  <2> QED
    BY <2>1, <2>2 DEF TypeOK, StoreOK
<1>5. CASE EndObject
  BY <1>5 DEF TypeOK, EndObject, store
<1>6. CASE UNCHANGED vars
  BY <1>6 DEF TypeOK, vars, store
<1> QED
  BY <1>1, <1>2, <1>3, <1>4, <1>5, <1>6 DEF Next

\* Every reachable state is well typed.
THEOREM TypeCorrect == Spec => []TypeOK
BY TypeInit, TypeStep, PTL DEF Spec

-----------------------------------------------------------------------------

\* Every step emits one finding, empties the store, or leaves it alone.
Emptied ==
  /\ exitCode' = ExitAccept /\ exitRank' = 0
  /\ items' = <<>> /\ locations' = <<>> /\ truncated' = FALSE
  /\ resourceCodes' = {} /\ emitted' = {}

Undisturbed ==
  UNCHANGED <<exitCode, exitRank, items, locations, truncated, resourceCodes, emitted>>

LEMMA StepCases ==
  ASSUME [Next]_vars
  PROVE  \/ \E c \in Codes, n \in 0..MaxEvidence : Emit(c, n)
         \/ Emptied
         \/ Undisturbed
<1>1. CASE BeginAnalysis
  BY <1>1 DEF BeginAnalysis, Emptied
<1>2. ASSUME NEW c \in Codes \ {AbsenceCode}, NEW n \in 0..MaxEvidence,
             EmitFileFinding(c, n) \/ EmitObjectFinding(c, n)
      PROVE  Emit(c, n)
  BY <1>2 DEF EmitFileFinding, EmitObjectFinding
<1>3. CASE AccuseMissingStorage
  <2>1. Emit(AbsenceCode, 0)
    BY <1>3 DEF AccuseMissingStorage
  <2>2. AbsenceCode \in Codes /\ 0 \in 0..MaxEvidence
    BY CodesAssumption, BoundsAssumption
  <2> QED
    BY <2>1, <2>2
<1>4. CASE BeginObject \/ EndObject \/ UNCHANGED vars
  BY <1>4 DEF BeginObject, EndObject, vars, store, Undisturbed
<1> QED
  BY <1>1, <1>2, <1>3, <1>4 DEF Next

\* What one emission does to the list: nothing, one finding, or the marker.
LEMMA EmitCases ==
  ASSUME TypeOK, NEW c \in Codes, NEW n \in 0..MaxEvidence, Emit(c, n)
  PROVE  /\ emitted' = emitted \cup {c}
         /\ \/ /\ Suppressed(c)
               /\ UNCHANGED <<items, truncated, resourceCodes>>
            \/ /\ ~Suppressed(c)
               /\ Len(items) < MaxFindings
               /\ items' \in Seq(Finding)
               /\ Len(items') = Len(items) + 1
               /\ \A i \in 1..Len(items) : items'[i] = items[i]
               /\ items'[Len(items) + 1].code = c
               /\ items'[Len(items) + 1].klass = CodeClass[c]
               /\ resourceCodes' = IF CodeClass[c] = "resource"
                                   THEN resourceCodes \cup {c} ELSE resourceCodes
               /\ truncated' = truncated
            \/ /\ ~truncated
               /\ Len(items) >= MaxFindings
               /\ items' \in Seq(Finding)
               /\ Len(items') = Len(items) + 1
               /\ \A i \in 1..Len(items) : items'[i] = items[i]
               /\ items'[Len(items) + 1].code = MarkerCode
               /\ items'[Len(items) + 1].klass = "warning"
               /\ truncated' = TRUE
               /\ resourceCodes' = resourceCodes
<1>0. items \in Seq(Finding) /\ StoreOK
  BY DEF TypeOK, StoreOK
<1>1. emitted' = emitted \cup {c}
  BY DEF Emit
<1>2. CASE Suppressed(c)
  BY <1>1, <1>2 DEF Emit
<1>3. CASE ~Suppressed(c) /\ StoreFinding(c, n)
  <2>1. items' \in Seq(Finding)
    BY <1>0, <1>3, ClassOfCode, StoreTyped DEF StoreFinding
  <2> DEFINE f == [code |-> c, klass |-> CodeClass[c],
                   start |-> Len(locations), count |-> n]
  <2>2. items' = Append(items, f)
    BY <1>3 DEF StoreFinding, Store
  <2>3. f.code = c /\ f.klass = CodeClass[c]
    OBVIOUS
  <2> HIDE DEF f
  <2>4. /\ Len(items') = Len(items) + 1
        /\ \A i \in 1..Len(items) : items'[i] = items[i]
        /\ items'[Len(items) + 1] = f
    BY <1>0, <2>2
  <2> QED
    BY <1>1, <1>3, <2>1, <2>3, <2>4 DEF StoreFinding
<1>4. CASE ~Suppressed(c) /\ StoreMarker
  <2>1. "warning" \in Classes /\ 0 \in 0..MaxEvidence
    BY BoundsAssumption DEF Classes
  <2>2. items' \in Seq(Finding)
    BY <1>0, <1>4, <2>1, StoreTyped DEF StoreMarker
  <2> DEFINE f == [code |-> MarkerCode, klass |-> "warning",
                   start |-> Len(locations), count |-> 0]
  <2>3. items' = Append(items, f)
    BY <1>4 DEF StoreMarker, Store
  <2>4. f.code = MarkerCode /\ f.klass = "warning"
    OBVIOUS
  <2> HIDE DEF f
  <2>5. /\ Len(items') = Len(items) + 1
        /\ \A i \in 1..Len(items) : items'[i] = items[i]
        /\ items'[Len(items) + 1] = f
    BY <1>0, <2>3
  <2>6. ~truncated
    BY <1>4 DEF Suppressed
  <2> QED
    BY <1>1, <1>4, <2>2, <2>4, <2>5, <2>6 DEF StoreMarker
<1> QED
  BY <1>2, <1>3, <1>4 DEF Emit

-----------------------------------------------------------------------------

LEMMA MarkerStep == TypeOK /\ TerminalMarker /\ [Next]_vars => TerminalMarker'
<1> SUFFICES ASSUME TypeOK, TerminalMarker, [Next]_vars PROVE TerminalMarker'
  OBVIOUS
<1>0. Len(items) \in Nat /\ MaxFindings \in Nat
  BY BoundsAssumption DEF TypeOK
<1>1. ASSUME NEW c \in Codes, NEW n \in 0..MaxEvidence, Emit(c, n)
      PROVE  TerminalMarker'
  <2>1. c # MarkerCode
    BY CodesAssumption
  <2>2. CASE UNCHANGED <<items, truncated>>
    BY <2>2 DEF TerminalMarker
  <2>3. ASSUME ~Suppressed(c), Len(items) < MaxFindings,
               Len(items') = Len(items) + 1,
               \A i \in 1..Len(items) : items'[i] = items[i],
               items'[Len(items) + 1].code = c, truncated' = truncated
        PROVE  TerminalMarker'
    BY <1>0, <2>1, <2>3 DEF TerminalMarker
  <2>4. ASSUME ~truncated, Len(items) >= MaxFindings,
               Len(items') = Len(items) + 1,
               \A i \in 1..Len(items) : items'[i] = items[i],
               items'[Len(items) + 1].code = MarkerCode, truncated' = TRUE
        PROVE  TerminalMarker'
    BY <1>0, <2>4 DEF TerminalMarker
  <2> QED
    BY <1>1, <2>2, <2>3, <2>4, EmitCases
<1>2. CASE Emptied
  BY <1>0, <1>2 DEF Emptied, TerminalMarker
<1>3. CASE Undisturbed
  BY <1>3 DEF Undisturbed, TerminalMarker
<1> QED
  BY <1>1, <1>2, <1>3, StepCases

\* A report that meets the cap of H5POLICY_MAX_FINDINGS is closed by exactly
\* one marker, in its last place, whatever the cap (emit_with_evidence).
THEOREM TerminalMarkerCorrect == Spec => []TerminalMarker
<1>1. Init => TerminalMarker
  BY BoundsAssumption DEF Init, TerminalMarker
<1> QED
  BY <1>1, MarkerStep, TypeCorrect, PTL DEF Spec

-----------------------------------------------------------------------------

\* The strengthening of ResourceReportedOnce: every stored resource finding is
\* in the set that suppresses its repetitions, and a finding has the class of
\* its code.
ResourcesKnown ==
  \A i \in 1..Len(items) :
    /\ items[i].klass = "resource" => items[i].code \in resourceCodes
    /\ items[i].code \in Codes => items[i].klass = CodeClass[items[i].code]

ResourceInv == ResourceReportedOnce /\ ResourcesKnown

LEMMA ResourceStep == TypeOK /\ ResourceInv /\ [Next]_vars => ResourceInv'
<1> SUFFICES ASSUME TypeOK, ResourceInv, [Next]_vars PROVE ResourceInv'
  OBVIOUS
<1>0. Len(items) \in Nat
  BY DEF TypeOK
<1>1. ASSUME NEW c \in Codes, NEW n \in 0..MaxEvidence, Emit(c, n)
      PROVE  ResourceInv'
  <2>1. CASE UNCHANGED <<items, resourceCodes>>
    BY <2>1 DEF ResourceInv, ResourceReportedOnce, ResourcesKnown
  <2>2. ASSUME ~Suppressed(c),
               Len(items') = Len(items) + 1,
               \A i \in 1..Len(items) : items'[i] = items[i],
               items'[Len(items) + 1].code = c,
               items'[Len(items) + 1].klass = CodeClass[c],
               resourceCodes' = IF CodeClass[c] = "resource"
                                THEN resourceCodes \cup {c} ELSE resourceCodes
        PROVE  ResourceInv'
    <3>1. \A i \in 1..Len(items) : items[i].klass = "resource" => items[i].code # c
      BY <2>2 DEF ResourceInv, ResourcesKnown, Suppressed
    <3>2. \A i \in 1..Len(items') : i \in 1..Len(items) \/ i = Len(items) + 1
      BY <1>0, <2>2
    <3>3. ResourcesKnown'
      BY <1>0, <2>2 DEF ResourceInv, ResourcesKnown
    <3>4. \A d \in resourceCodes' : \E i \in 1..Len(items') : items'[i].code = d
      BY <1>0, <2>2 DEF ResourceInv, ResourceReportedOnce
    <3>5. \A i, j \in 1..Len(items') :
            items'[i].klass = "resource" /\ items'[i].code = items'[j].code => i = j
      <4> SUFFICES ASSUME NEW i \in 1..Len(items'), NEW j \in 1..Len(items'),
                          items'[i].klass = "resource", items'[i].code = items'[j].code
                   PROVE  i = j
        OBVIOUS
      <4>1. CASE i \in 1..Len(items) /\ j \in 1..Len(items)
        BY <2>2, <4>1 DEF ResourceInv, ResourceReportedOnce
      <4>2. CASE i \in 1..Len(items) /\ j = Len(items) + 1
        BY <2>2, <3>1, <4>2
      <4>3. CASE i = Len(items) + 1 /\ j \in 1..Len(items)
        <5>1. CodeClass[c] = "resource" /\ items[j].code = c
          BY <2>2, <4>3
        <5>2. items[j].klass = "resource"
          BY <4>3, <5>1 DEF ResourceInv, ResourcesKnown
        <5> QED
          BY <3>1, <4>3, <5>1, <5>2
      <4>4. CASE i = Len(items) + 1 /\ j = Len(items) + 1
        BY <4>4
      <4> QED
        BY <3>2, <4>1, <4>2, <4>3, <4>4
    <3> QED
      BY <3>3, <3>4, <3>5 DEF ResourceInv, ResourceReportedOnce
  <2>3. ASSUME Len(items') = Len(items) + 1,
               \A i \in 1..Len(items) : items'[i] = items[i],
               items'[Len(items) + 1].code = MarkerCode,
               items'[Len(items) + 1].klass = "warning",
               resourceCodes' = resourceCodes
        PROVE  ResourceInv'
    <3>1. MarkerCode \notin resourceCodes /\ MarkerCode \notin Codes
      BY CodesAssumption DEF TypeOK
    <3>2. \A i \in 1..Len(items') : i \in 1..Len(items) \/ i = Len(items) + 1
      BY <1>0, <2>3
    <3>3. ResourcesKnown'
      BY <2>3, <3>1, <3>2 DEF ResourceInv, ResourcesKnown
    <3>4. \A d \in resourceCodes' : \E i \in 1..Len(items') : items'[i].code = d
      BY <1>0, <2>3 DEF ResourceInv, ResourceReportedOnce
    <3>5. \A i \in 1..Len(items) : items[i].klass = "resource" => items[i].code # MarkerCode
      BY <3>1 DEF ResourceInv, ResourcesKnown
    <3>6. \A i, j \in 1..Len(items') :
            items'[i].klass = "resource" /\ items'[i].code = items'[j].code => i = j
      BY <2>3, <3>2, <3>5 DEF ResourceInv, ResourceReportedOnce
    <3> QED
      BY <3>3, <3>4, <3>6 DEF ResourceInv, ResourceReportedOnce
  <2> QED
    BY <1>1, <2>1, <2>2, <2>3, EmitCases
<1>2. CASE Emptied
  BY <1>2 DEF Emptied, ResourceInv, ResourceReportedOnce, ResourcesKnown
<1>3. CASE Undisturbed
  BY <1>3 DEF Undisturbed, ResourceInv, ResourceReportedOnce, ResourcesKnown
<1> QED
  BY <1>1, <1>2, <1>3, StepCases

\* Within one analysis no resource code is listed twice, and a suppressed
\* repetition always has its first report in the list (the resource-code loop
\* of emit_with_evidence).
THEOREM ResourceReportedOnceCorrect == Spec => []ResourceReportedOnce
<1>1. Init => ResourceInv
  BY DEF Init, ResourceInv, ResourceReportedOnce, ResourcesKnown
<1>2. ResourceInv => ResourceReportedOnce
  BY DEF ResourceInv
<1> QED
  BY <1>1, <1>2, ResourceStep, TypeCorrect, PTL DEF Spec

-----------------------------------------------------------------------------

LEMMA NothingLostStep ==
  TypeOK /\ ResourceInv /\ NothingLostSilently /\ [Next]_vars => NothingLostSilently'
<1> SUFFICES ASSUME TypeOK, ResourceInv, NothingLostSilently, [Next]_vars, ~truncated'
             PROVE  \A d \in emitted' : \E i \in 1..Len(items') : items'[i].code = d
  BY DEF NothingLostSilently
<1>0. Len(items) \in Nat
  BY DEF TypeOK
<1>1. ASSUME NEW c \in Codes, NEW n \in 0..MaxEvidence, Emit(c, n)
      PROVE  \A d \in emitted' : \E i \in 1..Len(items') : items'[i].code = d
  <2>1. emitted' = emitted \cup {c}
    BY <1>1, EmitCases
  <2>2. CASE Suppressed(c) /\ UNCHANGED <<items, truncated, resourceCodes>>
    <3>1. c \in resourceCodes
      BY <2>2 DEF Suppressed
    <3>2. \E i \in 1..Len(items) : items[i].code = c
      BY <3>1 DEF ResourceInv, ResourceReportedOnce
    <3> QED
      BY <2>1, <2>2, <3>2 DEF NothingLostSilently
  <2>3. ASSUME Len(items') = Len(items) + 1,
               \A i \in 1..Len(items) : items'[i] = items[i],
               items'[Len(items) + 1].code = c, truncated' = truncated
        PROVE  \A d \in emitted' : \E i \in 1..Len(items') : items'[i].code = d
    <3>1. Len(items) + 1 \in 1..Len(items')
      BY <1>0, <2>3
    <3>2. \A d \in emitted : \E i \in 1..Len(items) : items[i].code = d
      BY <2>3 DEF NothingLostSilently
    <3>3. 1..Len(items) \subseteq 1..Len(items')
      BY <1>0, <2>3
    <3> QED
      BY <2>1, <2>3, <3>1, <3>2, <3>3
  <2> QED
    BY <1>1, <2>2, <2>3, EmitCases
<1>2. CASE Emptied
  BY <1>2 DEF Emptied
<1>3. CASE Undisturbed
  BY <1>3 DEF Undisturbed, NothingLostSilently
<1> QED
  BY <1>1, <1>2, <1>3, StepCases

\* A report that does not say it was truncated lists every code emitted since
\* the analysis began.
THEOREM NothingLostSilentlyCorrect == Spec => []NothingLostSilently
<1>1. Init => ResourceInv /\ NothingLostSilently
  BY DEF Init, ResourceInv, ResourceReportedOnce, ResourcesKnown, NothingLostSilently
<1> QED
  BY <1>1, NothingLostStep, ResourceStep, TypeCorrect, PTL DEF Spec

-----------------------------------------------------------------------------

\* What ties the two decision variables to the classes emitted.
DecisionInv ==
  IF emitted = {}
  THEN exitCode = ExitAccept /\ exitRank = 0
  ELSE \E c \in emitted :
         /\ exitRank = ClassRank(CodeClass[c])
         /\ exitCode = ClassExitCode(CodeClass[c])
         /\ \A d \in emitted : ClassRank(CodeClass[d]) <= exitRank

\* Two classes never share a rank, so the gravest class is unique.
LEMMA RanksDistinct ==
  ASSUME NEW j \in Classes, NEW k \in Classes
  PROVE  /\ ClassRank(j) \in Nat /\ ClassRank(j) > 0
         /\ ClassRank(j) = ClassRank(k) => j = k
BY DEF Classes, ClassRank

LEMMA DecisionStep == TypeOK /\ DecisionInv /\ [Next]_vars => DecisionInv'
<1> SUFFICES ASSUME TypeOK, DecisionInv, [Next]_vars PROVE DecisionInv'
  OBVIOUS
<1>1. ASSUME NEW c \in Codes, NEW n \in 0..MaxEvidence, Emit(c, n)
      PROVE  DecisionInv'
  <2>1. emitted' = emitted \cup {c} /\ ConsiderExit(CodeClass[c])
    BY <1>1 DEF Emit
  <2>2. \A d \in emitted' : ClassRank(CodeClass[d]) \in Nat /\ ClassRank(CodeClass[d]) > 0
    BY <2>1, ClassOfCode, RanksDistinct DEF TypeOK
  <2>3. CASE ClassRank(CodeClass[c]) > exitRank
    <3>1. exitRank' = ClassRank(CodeClass[c]) /\ exitCode' = ClassExitCode(CodeClass[c])
      BY <2>1, <2>3 DEF ConsiderExit
    <3>2. \A d \in emitted' : ClassRank(CodeClass[d]) <= exitRank'
      BY <2>1, <2>2, <2>3, <3>1 DEF DecisionInv
    <3> QED
      BY <2>1, <3>1, <3>2 DEF DecisionInv
  <2>4. CASE ~(ClassRank(CodeClass[c]) > exitRank)
    <3>1. exitRank' = exitRank /\ exitCode' = exitCode
      BY <2>1, <2>4 DEF ConsiderExit
    <3>2. emitted # {}
      BY <2>1, <2>2, <2>4 DEF DecisionInv
    <3>3. PICK d \in emitted : /\ exitRank = ClassRank(CodeClass[d])
                               /\ exitCode = ClassExitCode(CodeClass[d])
                               /\ \A e \in emitted : ClassRank(CodeClass[e]) <= exitRank
      BY <3>2 DEF DecisionInv
    <3>4. \A e \in emitted' : ClassRank(CodeClass[e]) <= exitRank'
      BY <2>1, <2>2, <2>4, <3>1, <3>3
    <3> QED
      BY <2>1, <3>1, <3>3, <3>4 DEF DecisionInv
  <2> QED
    BY <2>3, <2>4
<1>2. CASE Emptied
  BY <1>2 DEF Emptied, DecisionInv
<1>3. CASE Undisturbed
  BY <1>3 DEF Undisturbed, DecisionInv
<1> QED
  BY <1>1, <1>2, <1>3, StepCases

\* The code of an emitted class of the highest rank is the one Verdict defines.
LEMMA GravestIsUnique ==
  ASSUME NEW E \in SUBSET Codes, NEW c \in E,
         \A d \in E : ClassRank(CodeClass[d]) <= ClassRank(CodeClass[c])
  PROVE  V!ExitCodeOf({CodeClass[d] : d \in E}) = ClassExitCode(CodeClass[c])
<1> DEFINE S == {CodeClass[d] : d \in E}
<1>1. S \subseteq Classes /\ CodeClass[c] \in S
  BY ClassOfCode
<1>2. \A j \in S : ClassRank(j) <= ClassRank(CodeClass[c])
  OBVIOUS
<1> HIDE DEF S
<1>3. V!Gravest(S) \in S /\ \A j \in S : ClassRank(j) <= ClassRank(V!Gravest(S))
  BY <1>1, <1>2 DEF V!Gravest, V!ClassRank, ClassRank
<1>4. V!Gravest(S) = CodeClass[c]
  BY <1>1, <1>2, <1>3, RanksDistinct
<1>5. V!ExitCodeOf(S) = ClassExitCode(CodeClass[c])
  BY <1>1, <1>4 DEF V!ExitCodeOf, V!ClassExitCode, ClassExitCode
<1> QED
  BY <1>5 DEF S

LEMMA VerdictStep ==
  TypeOK' /\ DecisionInv' /\ [Next]_vars
    => [V!Next]_<<{CodeClass[c] : c \in emitted}, exitCode>>
<1> SUFFICES ASSUME TypeOK', DecisionInv', [Next]_vars
             PROVE  [V!Next]_<<{CodeClass[c] : c \in emitted}, exitCode>>
  OBVIOUS
<1>1. ASSUME NEW c \in Codes, NEW n \in 0..MaxEvidence, Emit(c, n)
      PROVE  V!Establish(CodeClass[c])
  <2>1. emitted' = emitted \cup {c}
    BY <1>1 DEF Emit
  <2>2. {CodeClass[d] : d \in emitted'} = {CodeClass[d] : d \in emitted} \cup {CodeClass[c]}
    BY <2>1
  <2>3. exitCode' = V!ExitCodeOf({CodeClass[d] : d \in emitted'})
    <3>1. emitted' \in SUBSET Codes /\ emitted' # {}
      BY <2>1 DEF TypeOK
    <3>2. PICK d \in emitted' :
            /\ exitRank' = ClassRank(CodeClass[d])
            /\ exitCode' = ClassExitCode(CodeClass[d])
            /\ \A e \in emitted' : ClassRank(CodeClass[e]) <= exitRank'
      BY <3>1 DEF DecisionInv
    <3> QED
      BY <3>1, <3>2, GravestIsUnique
  <2> QED
    BY <2>2, <2>3 DEF V!Establish
<1>2. CASE Emptied
  BY <1>2 DEF Emptied, V!Next, V!Begin, V!ExitAccept, ExitAccept
<1>3. CASE Undisturbed
  BY <1>3 DEF Undisturbed
<1> QED
  BY <1>1, <1>2, <1>3, StepCases, ClassOfCode DEF V!Next, V!Classes, Classes

\* However findings are ordered, repeated, collapsed or cut off by the cap, the
\* exit code is that of the gravest class emitted (h5policy_consider_exit).
THEOREM FindingsImplementVerdict == Spec => ImplementsVerdict
<1>1. Init => DecisionInv /\ V!Init
  BY DEF Init, DecisionInv, V!Init, V!ExitAccept, ExitAccept
<1> QED
  BY <1>1, DecisionStep, VerdictStep, TypeCorrect, PTL DEF Spec, ImplementsVerdict, V!Spec
=============================================================================
