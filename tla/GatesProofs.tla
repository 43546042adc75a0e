---------------------------- MODULE GatesProofs ----------------------------
(***************************************************************************)
(* Theorems about the two gates of the repository.                         *)
(*                                                                         *)
(* RegistryGate, for any repository to start from, any emit sites, rules   *)
(* and names, and any number of edits.  Each check of the gate compares    *)
(* two or three files; that a pass says something of all of them together  *)
(* is put together here.  What the history of the case files shows needs   *)
(* no pass: it is kept by every commit.                                    *)
(*                                                                         *)
(* SpecDocs, for any repository as well: from a page to its sidecar, to    *)
(* the pickle and to the landing page, over links that docs-check follows  *)
(* one by one.                                                             *)
(***************************************************************************)
EXTENDS RegistryGate, SpecDocs, FiniteSetTheorems, TLAPS

\* What a pass of the gate has seen.
Clean == ~LoadError(catalog, routes) /\ ~Errors /\ ~ControlErrors

\* What a pass means, of the files as they are: nobody edits them after it.
MessagesAccounted ==
  inventory # None =>
    /\ \A site \in pickles : ~Silent(site) => \A p \in Emits(site) : Accounted(p[1], p[2])
    /\ inventory \subseteq UNION {Paired(site) : site \in pickles}
SpecimenThere(x) == x.file # None /\ ~x.mayMiss => x.file \in specimens
RowsBacked ==
  \A row \in controls :
    /\ row.fixture \in Expectations /\ SpecimenThere(expected[row.fixture])
    /\ row.finding \in Emitted
    /\ coverage[row.record].claim = row.verdict

\* The history of a file shows what was in it, and misses only what came with a
\* file that was renamed to it.
HistoryInv ==
  /\ DOMAIN cases \subseteq CaseFiles
  /\ log \in [CaseFiles -> SUBSET FieldNames]
  /\ carried \in [CaseFiles -> SUBSET FieldNames]
  /\ \A f \in CaseFiles : log[f] \subseteq carried[f]
  /\ \A f \in DOMAIN cases : cases[f] \subseteq carried[f]
  /\ \A f \in CaseFiles \ renamed : carried[f] \subseteq log[f]

-----------------------------------------------------------------------------
(* What the operators do.                                                  *)

\* The text shows no code and message but of clients in one file.
LEMMA ShownIsPaired ==
  ASSUME NEW site
  PROVE  Extracted(site) \subseteq Paired(site)
  <1>1. ASSUME NEW c \in site.cases PROVE <<c.code, c.message>> \in Paired(site)
    BY DEF Paired
  <1>2. RoleValues(site) \subseteq Paired(site)
    BY <1>1 DEF RoleValues
  <1>3. CASE site.form = "literal"
    BY <1>1, <1>3 DEF Extracted, Resolved
  <1>4. CASE site.form = "role"
    BY <1>2, <1>4 DEF Extracted, Resolved
  <1>5. CASE site.form = "specMessage"
    BY <1>2, <1>5 DEF Extracted, Resolved, SpecMessages
  <1>6. CASE site.form = "spec"
    <2>1. ASSUME NEW p \in SpecPairs(site) PROVE p \in Paired(site)
      <3>1. PICK client : p \in SpecFields(site, client, "code")
                                \X (SpecFields(site, client, "message") \ {{}})
        BY <2>1 DEF SpecPairs
      <3>2. PICK c \in site.cases : c.client = client /\ p[1] = c.code
        BY <3>1 DEF SpecFields
      <3>3. PICK d \in site.cases : d.client = client /\ p[2] = d.message
        BY <3>1 DEF SpecFields
      <3>4. p = <<c.code, d.message>>
        BY <3>1, <3>2, <3>3
      <3> QED BY <3>2, <3>3, <3>4 DEF Paired
    <2> QED BY <1>6, <2>1 DEF Extracted, Resolved
  <1>7. CASE site.form \notin {"literal", "role", "spec", "specMessage"}
    BY <1>7 DEF Extracted, Resolved
  <1> QED BY <1>3, <1>4, <1>5, <1>6, <1>7

LEMMA EmitsPairs ==
  ASSUME NEW site, NEW p \in Emits(site)
  PROVE  p = <<p[1], p[2]>> /\ p[1] \in Codes(site)
  <1>1. PICK c \in site.cases : p = <<c.code, c.message>>
    BY DEF Emits
  <1> QED BY <1>1 DEF Codes

LEMMA EntryOf ==
  ASSUME NEW shards, NEW code \in Catalogued(shards)
  PROVE  Entry(shards, code) \in Entries(shards) /\ Entry(shards, code).code = code
  BY DEF Catalogued, Entry

\* Where a message leads that a rule matches.
LedBy(rule, entry, family) ==
  /\ family.record = rule.record
  /\ \/ family.invariant = None
     \/ rule.invariant # None /\ family.invariant = rule.invariant
     \/ rule.record = entry.record /\ family.invariant = entry.invariant

\* A code resolves by its entry, by a rule, or to nothing.
LEMMA ResolveCases ==
  ASSUME NEW findings, NEW code \in DOMAIN findings, NEW message,
         NEW entry, entry = findings[code].entry,
         NEW rules, rules = findings[code].contexts,
         NEW family, family = Resolve(findings, code, message)
  PROVE  \/ ~entry.ambiguous /\ family.record = entry.record /\ family.invariant = entry.invariant
         \/ entry.ambiguous /\ family.record = None
         \/ /\ entry.ambiguous
            /\ \E i \in DOMAIN rules : LedBy(rules[i], entry, family)
  <1> DEFINE first == FirstMatch(findings[code].contexts, message)
             place == CHOOSE i \in first : TRUE
             rule == findings[code].contexts[place]
  <1>1. CASE ~entry.ambiguous
    BY <1>1, Zenon DEF Resolve
  <1>2. CASE entry.ambiguous /\ first = {}
    <2>1. family = Nowhere
      BY <1>2, Zenon DEF Resolve
    <2>2. family.record = None
      BY <2>1 DEF Nowhere
    <2> QED BY <1>2, <2>2, Zenon
  <1>3. CASE entry.ambiguous /\ first # {}
    <2>1. family = [record |-> rule.record,
                    invariant |-> IF rule.invariant # None THEN rule.invariant
                                  ELSE IF rule.record = entry.record THEN entry.invariant
                                  ELSE None]
      BY <1>3, Zenon DEF Resolve
    <2>2. place \in DOMAIN findings[code].contexts
      BY <1>3 DEF FirstMatch
    <2>3. LedBy(rule, entry, family)
      BY <2>1 DEF LedBy
    <2>4. \E i \in DOMAIN rules : LedBy(rules[i], entry, family)
      BY <2>2, <2>3
    <2> QED BY <1>3, <2>4, Zenon
  <1> QED BY <1>1, <1>2, <1>3, Zenon

\* The rules of a code are those of a shard for it.
LEMMA ContextsOf ==
  ASSUME NEW shards, NEW code, NEW i \in DOMAIN Contexts(shards, code)
  PROVE  \E shard \in shards :
           shard.finding = code /\ Contexts(shards, code)[i] \in ToSet(shard.rules)
  <1> DEFINE shard == CHOOSE s \in shards : s.finding = code
  <1>1. \E s \in shards : s.finding = code
    BY DEF Contexts
  <1>2. shard \in shards /\ shard.finding = code
    BY <1>1
  <1>3. Contexts(shards, code) = shard.rules
    BY <1>1 DEF Contexts
  <1> QED BY <1>2, <1>3 DEF ToSet

-----------------------------------------------------------------------------
(* What a pass says of all files together.                                 *)

LEMMA CleanParts ==
  ASSUME Clean
  PROVE  /\ ~UntrackedEmit /\ ~StaleTrackedFinding /\ ~IncompleteCatalog /\ ~MappingDrift
         /\ ~ContextUnknown /\ ~EvidenceDrift /\ ~FixtureErrors
         /\ ~MessageUnanalyzable /\ ~RoutingDrift /\ measured # None
         /\ \A row \in controls : ~ControlError(row)
  BY Zenon DEF Clean, Errors, ControlErrors

\* An entry leads to a record of the manifest whose invariant lists its code.
LEMMA EntryBacked ==
  ASSUME Clean, NEW e \in Entries(catalog)
  PROVE  e.record \in DOMAIN coverage /\ Lists(e.record, e.invariant, e.code)
  BY CleanParts, Zenon DEF IncompleteCatalog, MappingDrift

\* A rule names a record of the manifest and, if any, an invariant that lists its code.
LEMMA RuleBacked ==
  ASSUME Clean, NEW shard \in routes, NEW rule \in ToSet(shard.rules)
  PROVE  /\ rule.record \in DOMAIN coverage
         /\ rule.invariant # None => Lists(rule.record, rule.invariant, shard.finding)
  BY CleanParts, Zenon DEF ContextUnknown

LEMMA ClaimMeasured ==
  ASSUME Clean, NEW r \in DOMAIN coverage, r \in DOMAIN measured
  PROVE  coverage[r].claim = measured[r].verdict
  BY CleanParts, Zenon DEF EvidenceDrift

LEMMA CleanAccounts ==
  ASSUME Clean, inventory # None, NEW site \in pickles, ~Silent(site), NEW p \in Emits(site)
  PROVE  Accounted(p[1], p[2])
  <1> DEFINE code == p[1]
             message == p[2]
             entry == Entry(catalog, code)
             family == Resolve(Findings, code, message)
  <1>1. p = <<code, message>> /\ code \in Codes(site)
    BY EmitsPairs
  <1>2. p \in Extract(pickles)
    <2>1. ~Unanalyzable(site)
      BY CleanParts, Zenon DEF MessageUnanalyzable
    <2> QED BY <2>1 DEF Silent, Extract
  <1>3. CASE code \in DOMAIN backlog
    BY <1>3 DEF Accounted
  <1>4. CASE code \in Catalogued(catalog)
    <2>1. entry \in Entries(catalog) /\ entry.code = code
      BY <1>4, EntryOf
    <2>2. code \in DOMAIN Findings /\ Findings[code].entry = entry
          /\ Findings[code].contexts = Contexts(routes, code)
      BY <1>4 DEF Findings, LoadFindings
    <2>3. SUFFICES ASSUME p \notin inventory
                   PROVE  /\ family.record \in DOMAIN coverage
                          /\ family.invariant # None => Lists(family.record, family.invariant, code)
      BY <1>1, ClaimMeasured DEF Accounted
    <2>4. CASE ~entry.ambiguous /\ family.record = entry.record /\ family.invariant = entry.invariant
      BY <2>1, <2>4, EntryBacked
    <2>5. CASE entry.ambiguous /\ family.record = None
      <3>1. p \in Unrouted(pickles, Findings)
        BY <1>2, <2>2, <2>5, Zenon DEF Unrouted
      <3> QED BY <2>3, <3>1, CleanParts, Zenon DEF RoutingDrift
    <2>6. ASSUME NEW i \in DOMAIN Contexts(routes, code),
                 LedBy(Contexts(routes, code)[i], entry, family)
          PROVE  /\ family.record \in DOMAIN coverage
                 /\ family.invariant # None => Lists(family.record, family.invariant, code)
      <3> DEFINE rule == Contexts(routes, code)[i]
      <3>1. PICK shard \in routes : shard.finding = code /\ rule \in ToSet(shard.rules)
        BY <2>6, ContextsOf
      <3>2. /\ rule.record \in DOMAIN coverage
            /\ rule.invariant # None => Lists(rule.record, rule.invariant, code)
        BY <3>1, RuleBacked
      <3>3. Lists(entry.record, entry.invariant, code)
        BY <2>1, EntryBacked
      <3> HIDE DEF family, entry, rule
      <3> QED BY <2>6, <3>2, <3>3 DEF LedBy, rule
    <2>7. \/ ~entry.ambiguous /\ family.record = entry.record /\ family.invariant = entry.invariant
          \/ entry.ambiguous /\ family.record = None
          \/ \E i \in DOMAIN Contexts(routes, code) : LedBy(Contexts(routes, code)[i], entry, family)
      <3>1. family = Resolve(Findings, code, message)
        OBVIOUS
      <3> HIDE DEF family, entry, code, message
      <3>2. code \in DOMAIN Findings /\ entry = Findings[code].entry
            /\ Contexts(routes, code) = Findings[code].contexts
        BY <2>2
      <3> DEFINE rules == Contexts(routes, code)
      <3>3. rules = Findings[code].contexts
        BY <3>2
      <3> HIDE DEF rules
      <3> QED BY <3>1, <3>2, <3>3, ResolveCases DEF rules
    <2> QED BY <2>4, <2>5, <2>6, <2>7
  <1>5. code \in Tracked
    BY <1>1, CleanParts DEF UntrackedEmit, Emitted
  <1> QED BY <1>3, <1>4, <1>5 DEF Tracked

LEMMA CleanInventory ==
  ASSUME Clean, inventory # None
  PROVE  inventory \subseteq UNION {Paired(site) : site \in pickles}
  <1>1. inventory = Unrouted(pickles, Findings)
    BY CleanParts, Zenon DEF RoutingDrift
  <1>2. inventory \subseteq Extract(pickles)
    BY <1>1 DEF Unrouted
  <1> QED BY <1>2, ShownIsPaired DEF Extract

LEMMA CleanControls ==
  ASSUME Clean, NEW row \in controls
  PROVE  /\ row.fixture \in Expectations /\ SpecimenThere(expected[row.fixture])
         /\ row.finding \in Emitted
         /\ coverage[row.record].claim = row.verdict
  <1>1. ~ControlError(row)
    BY CleanParts, Zenon
  <1>2. row.fixture \in Expectations
    BY <1>1, Zenon DEF ControlError
  <1>3. SpecimenThere(expected[row.fixture])
    <2>1. Demanded \subseteq specimens
      BY CleanParts, Zenon DEF FixtureErrors
    <2> QED BY <1>2, <2>1 DEF Demanded, SpecimenThere
  <1>4. row.finding \in Emitted
    BY <1>1, CleanParts DEF ControlError, StaleTrackedFinding, Tracked
  <1>5. /\ row.record \in DOMAIN coverage /\ row.record \in DOMAIN measured
        /\ measured[row.record].verdict = row.verdict
    BY <1>1 DEF ControlError
  <1> QED BY <1>2, <1>3, <1>4, <1>5, ClaimMeasured

LEMMA CleanMeans ==
  ASSUME Clean
  PROVE  MessagesAccounted /\ RowsBacked
  BY CleanAccounts, CleanInventory, CleanControls DEF MessagesAccounted, RowsBacked

-----------------------------------------------------------------------------
(* The gate looks at the files, and they do not change after it.           *)

LEMMA MeaningKept ==
  ASSUME UNCHANGED files
  PROVE  /\ MessagesAccounted => MessagesAccounted'
         /\ RowsBacked => RowsBacked'
  <1>1. /\ pickles' = pickles /\ catalog' = catalog /\ routes' = routes /\ backlog' = backlog
        /\ coverage' = coverage /\ inventory' = inventory /\ measured' = measured
        /\ specimens' = specimens /\ controls' = controls /\ expected' = expected
    BY DEF files
  <1>2. ASSUME NEW code, NEW message, Accounted(code, message)
        PROVE  Accounted(code, message)'
    BY <1>1, <1>2 DEF Accounted, Findings, Lists
  <1>3. MessagesAccounted => MessagesAccounted'
    BY <1>1, <1>2 DEF MessagesAccounted
  <1>4. RowsBacked => RowsBacked'
    BY <1>1 DEF RowsBacked, Emitted, Expectations, SpecimenThere
  <1> QED BY <1>3, <1>4

\* Only the gate gives a verdict, and it leaves the files alone.
LEMMA VerdictSteps ==
  ASSUME [Next]_vars
  PROVE  \/ verdict = "none" /\ UNCHANGED files /\ (verdict' = "passed" => Clean)
         \/ verdict' = verdict /\ (verdict = "none" \/ UNCHANGED files)
  <1>1. CASE Gate
    <2>1. verdict' = "passed" => Clean
      <3>1. CASE LoadError(catalog, routes)
        <4>1. verdict' = "refused"
          BY <1>1, <3>1, Zenon DEF Gate
        <4> QED BY <4>1
      <3>2. CASE ~LoadError(catalog, routes) /\ (Errors \/ ControlErrors)
        <4>1. verdict' = "failed"
          BY <1>1, <3>2, Zenon DEF Gate
        <4> QED BY <4>1
      <3>3. CASE ~LoadError(catalog, routes) /\ ~Errors /\ ~ControlErrors
        BY <3>3, Zenon DEF Clean
      <3> QED BY <3>1, <3>2, <3>3, Zenon
    <2> QED BY <1>1, <2>1 DEF Gate
  <1>2. CASE \/ EditPickles \/ EditCatalog \/ EditRoutes \/ EditBacklog \/ EditCoverage
             \/ Remeasure \/ Reverify \/ EditSummary \/ WriteInventory \/ EditInventory
             \/ RemoveGenerated \/ EditFixtures \/ EditControls \/ EditCases
    <2>1. Edit
      BY <1>2, Zenon
      DEF EditPickles, EditCatalog, EditRoutes, EditBacklog, EditCoverage, Remeasure,
          Reverify, EditSummary, WriteInventory, EditInventory, RemoveGenerated, EditFixtures, EditControls,
          EditCases
    <2> QED BY <2>1 DEF Edit
  <1>3. CASE Stop \/ UNCHANGED vars
    BY <1>3 DEF Stop, vars
  <1> QED BY <1>1, <1>2, <1>3, Zenon DEF Next

LEMMA PassStep ==
  ASSUME EveryFindingAccounted /\ ControlsBacked, [Next]_vars
  PROVE  (EveryFindingAccounted /\ ControlsBacked)'
  <1>1. SUFFICES ASSUME verdict' = "passed"
                 PROVE  MessagesAccounted' /\ RowsBacked'
    BY DEF EveryFindingAccounted, ControlsBacked, MessagesAccounted, RowsBacked, SpecimenThere
  <1>2. UNCHANGED files
    BY <1>1, VerdictSteps
  <1>3. MessagesAccounted /\ RowsBacked
    <2>1. CASE Clean
      BY <2>1, CleanMeans
    <2>2. CASE verdict = "passed"
      BY <2>2, Zenon DEF EveryFindingAccounted, ControlsBacked, MessagesAccounted, RowsBacked, SpecimenThere
    <2> QED BY <1>1, <2>1, <2>2, VerdictSteps
  <1> QED BY <1>2, <1>3, MeaningKept

LEMMA PassAlways == Spec => [](EveryFindingAccounted /\ ControlsBacked)
  <1>1. Init => EveryFindingAccounted /\ ControlsBacked
    BY DEF Init, EveryFindingAccounted, ControlsBacked
  <1> QED BY <1>1, PassStep, PTL DEF Spec

(* After a pass with the list of unrouted messages in place every message of every
   site whose emissions the source shows is accounted for, and the list names only
   codes and messages of one file's clients at one site: check_registry.py compares
   the files it takes to know that two at a time. *)
THEOREM EveryFindingAccountedCorrect == Spec => []EveryFindingAccounted
  BY PassAlways, PTL

(* After a pass every row of the control evidence stands on an expectation that can
   be read, whose specimen is there unless it names none or allows that, and on a
   finding that the pickles emit, and cites the verdict that the manifest claims. *)
THEOREM ControlsBackedCorrect == Spec => []ControlsBacked
  BY PassAlways, PTL

-----------------------------------------------------------------------------
(* The history of the case files.                                          *)

LEMMA HistoryInit == Init => HistoryInv
  <1> SUFFICES ASSUME Init PROVE HistoryInv
    OBVIOUS
  <1>1. PICK names \in SUBSET CaseFiles : Base.cases \in [names -> SUBSET FieldNames]
    BY BaseAssumption
  <1> QED BY <1>1 DEF Init, HistoryInv

LEMMA HistoryCommit ==
  ASSUME HistoryInv, NEW file \in CaseFiles, NEW fields \in SUBSET FieldNames,
         CommitCase(file, fields)
  PROVE  HistoryInv'
  <1>1. DOMAIN cases' = DOMAIN cases \cup {file}
        /\ \A f \in DOMAIN cases' : cases'[f] = IF f = file THEN fields ELSE cases[f]
    BY DEF CommitCase, With
  <1>2. DOMAIN log = CaseFiles /\ DOMAIN carried = CaseFiles
    BY DEF HistoryInv
  <1>3. PICK added \in SUBSET fields :
          /\ log' = [log EXCEPT ![file] = @ \cup added]
          /\ carried' = [carried EXCEPT ![file] = @ \cup fields]
          /\ fields \ added \subseteq IF file \in DOMAIN cases THEN cases[file] ELSE {}
    BY DEF CommitCase
  <1>4. UNCHANGED renamed
    BY DEF CommitCase
  <1> QED BY <1>1, <1>2, <1>3, <1>4 DEF HistoryInv

LEMMA HistoryRename ==
  ASSUME HistoryInv, NEW file \in CaseFiles, NEW new \in CaseFiles, RenameCase(file, new)
  PROVE  HistoryInv'
  <1>1. /\ file \in DOMAIN cases
        /\ DOMAIN cases' = (DOMAIN cases \ {file}) \cup {new}
        /\ \A f \in DOMAIN cases' : cases'[f] = IF f = new THEN cases[file] ELSE cases[f]
    BY DEF RenameCase, With, Without
  <1>2. DOMAIN log = CaseFiles /\ DOMAIN carried = CaseFiles
    BY DEF HistoryInv
  <1>3. /\ carried' = [carried EXCEPT ![new] = @ \cup carried[file]]
        /\ log' = log /\ renamed' = renamed \cup {new}
    BY DEF RenameCase
  <1> QED BY <1>1, <1>2, <1>3 DEF HistoryInv

LEMMA HistoryStep == HistoryInv /\ [Next]_vars => HistoryInv'
  <1> SUFFICES ASSUME HistoryInv, [Next]_vars
               PROVE  HistoryInv'
    OBVIOUS
  <1>1. CASE EditCases
    <2>1. ASSUME NEW f \in CaseFiles, NEW fields \in SUBSET FieldNames, CommitCase(f, fields)
          PROVE  HistoryInv'
      BY <2>1, HistoryCommit
    <2>2. ASSUME NEW f \in CaseFiles, NEW g \in CaseFiles, RenameCase(f, g)
          PROVE  HistoryInv'
      BY <2>2, HistoryRename
    <2>3. ASSUME NEW f \in CaseFiles, RemoveCase(f)
          PROVE  HistoryInv'
      BY <2>3 DEF RemoveCase, Without, HistoryInv
    <2>4. ASSUME NEW f, NEW n, Cite(f, n)
          PROVE  HistoryInv'
      BY <2>4 DEF Cite, HistoryInv
    <2> QED BY <1>1, <2>1, <2>2, <2>3, <2>4 DEF EditCases
  <1>2. CASE UNCHANGED caseVars
    BY <1>2 DEF caseVars, HistoryInv
  <1>3. EditCases \/ UNCHANGED caseVars
    BY Zenon
    DEF Next, Gate, EditPickles, EditCatalog, EditRoutes, EditBacklog, EditCoverage, Remeasure,
        Reverify, EditSummary, RemoveGenerated, WriteInventory, EditInventory, EditFixtures, EditControls, Stop, vars
  <1> QED BY <1>1, <1>2, <1>3

LEMMA DeadNames ==
  ASSUME NEW among, NEW n
  PROVE  n \in DeadFrom(among) <=> /\ \E f \in among : f \in DOMAIN cases /\ n \in carried[f]
                                   /\ n \notin LiveAnywhere /\ n \notin Generic
  <1> DEFINE had == UNION {carried[f] : f \in among \cap DOMAIN cases}
  <1>1. n \in had <=> \E f \in among : f \in DOMAIN cases /\ n \in carried[f]
    OBVIOUS
  <1>2. DeadFrom(among) = had \ (LiveAnywhere \cup Generic)
    BY DEF DeadFrom
  <1> HIDE DEF had
  <1> QED BY <1>1, <1>2

LEMMA HistoryMeans == HistoryInv => RetiredNamesUncited
  <1> SUFFICES ASSUME HistoryInv PROVE RetiredNamesUncited
    OBVIOUS
  <1>1. ASSUME NEW c \in StaleCitations, c[1] \notin renamed
        PROVE  c \in DeadCitations(CaseFiles)
    <2>1. PICK f \in DOMAIN cases : c[2] \in log[f] /\ c[2] \notin LiveAnywhere
      BY DEF StaleCitations, Retired
    <2>2. c \in cites /\ c[2] \notin Generic /\ c[1] \notin Retired(c[2])
      BY DEF StaleCitations
    <2>3. c[2] \in DeadFrom(CaseFiles)
      <3>1. f \in CaseFiles /\ c[2] \in carried[f]
        BY <2>1 DEF HistoryInv
      <3> QED BY <2>1, <2>2, <3>1, DeadNames, Zenon
    <2>4. ~(c[1] \in DOMAIN cases /\ c[2] \in carried[c[1]])
      BY <1>1, <2>1, <2>2 DEF Retired, HistoryInv
    <2> QED BY <2>2, <2>3, <2>4 DEF DeadCitations
  <1>2. ASSUME NEW c \in DeadCitations(CaseFiles \ renamed)
        PROVE  c \in StaleCitations
    <2>1. PICK f \in DOMAIN cases :
            f \in CaseFiles \ renamed /\ c[2] \in carried[f]
            /\ c[2] \notin LiveAnywhere /\ c[2] \notin Generic
      BY DeadNames, Zenon DEF DeadCitations
    <2>2. f \in Retired(c[2])
      BY <2>1 DEF Retired, HistoryInv
    <2>3. c[1] \notin Retired(c[2])
      BY DEF DeadCitations, Retired, HistoryInv
    <2> QED BY <2>1, <2>2, <2>3 DEF StaleCitations, DeadCitations
  <1>3. StaleCitations \subseteq cites
    BY DEF StaleCitations
  <1> QED BY <1>1, <1>2, <1>3 DEF RetiredNamesUncited

(* What the history check of check_registry.py reports are citations of dead
   names by files that never had them, and all of them for the files that none
   was renamed to; whatever was committed, renamed, removed or cited, and in
   whatever order. *)
THEOREM RetiredNamesUncitedCorrect == Spec => []RetiredNamesUncited
  BY HistoryInit, HistoryStep, HistoryMeans, PTL DEF Spec

-----------------------------------------------------------------------------
(***************************************************************************)
(* The format reference, for every repository to start from and any number *)
(* of edits.  A pass of docs-check is of the files as they are; a page is  *)
(* what its sidecar renders to, and a sidecar that passed lists each of    *)
(* its types once, whether it gives an order or not.                       *)
(***************************************************************************)
\* A page as it is written, and as somebody may have emptied it.
PageRead(page) ==
  /\ DOMAIN page = {"shows", "layouts", "sections", "anchors"}
  /\ \A layout \in page.layouts : layout.columns = 4

\* What is there can be read, and after a pass nobody has edited anything.
DocsInv ==
  /\ DOMAIN definitions = Stems /\ DOMAIN sidecars \subseteq Stems /\ specs \subseteq Stems
  /\ DOMAIN pages \subseteq Stems /\ newer \subseteq Stems \cup {"index"}
  /\ changes \in 0..MaxChanges /\ outcome \in {"none", "passed", "failed"}
  /\ \A stem \in DOMAIN sidecars : Read(sidecars[stem])
  /\ \A stem \in DOMAIN pages : PageRead(pages[stem])
  /\ outcome = "passed" => Passes

\* A page that was rendered has no layout but of four columns.
LEMMA RenderedPage ==
  ASSUME NEW sidecar, \A layout \in sidecar.layouts : layout.columns = 4
  PROVE  PageRead(Page(sidecar))
  BY DEF PageRead, Page

\* The repository to start from.
LEMMA DocsStart == DocsInit => DocsInv
<1> SUFFICES ASSUME DocsInit PROVE DocsInv
  OBVIOUS
<1>1. /\ DOMAIN definitions = Stems /\ DOMAIN sidecars \subseteq Stems /\ specs \subseteq Stems
      /\ DOMAIN pages \subseteq Stems /\ newer \subseteq Stems \cup {"index"}
      /\ changes \in 0..MaxChanges /\ outcome = "none"
  BY StartAssumption DEF DocsInit
<1>2. \A stem \in DOMAIN sidecars : Read(sidecars[stem])
  BY StartAssumption DEF DocsInit
<1>3. \A stem \in DOMAIN pages : PageRead(pages[stem])
  BY StartAssumption, RenderedPage DEF DocsInit
<1> QED BY <1>1, <1>2, <1>3 DEF DocsInv

\* An edit of a sidecar leaves one that can be read.
LEMMA SidecarEditsRead ==
  ASSUME NEW sidecar, Read(sidecar), NEW other \in SidecarEdits(sidecar)
  PROVE  Read(other)
<1>1. DOMAIN sidecar = Keys /\ IsFiniteSet(DOMAIN sidecar.types)
  BY DEF Read
<1>2. ASSUME NEW key \in Keys \ {"types"}, NEW value, other = [sidecar EXCEPT ![key] = value]
      PROVE  Read(other)
  <2>1. DOMAIN other = Keys /\ other.types = sidecar.types
    BY <1>1, <1>2 DEF Keys
  <2> QED BY <1>1, <2>1 DEF Read
<1>3. ASSUME NEW types, other = [sidecar EXCEPT !.types = types], IsFiniteSet(DOMAIN types)
      PROVE  Read(other)
  <2>1. DOMAIN other = Keys /\ other.types = types
    BY <1>1, <1>3 DEF Keys
  <2> QED BY <1>3, <2>1 DEF Read
<1>4. ASSUME NEW t \in DOMAIN sidecar.types, NEW n \in Names,
             other = [sidecar EXCEPT !.types[t] = Flip(@, n)]
      PROVE  Read(other)
  <2> DEFINE types == [sidecar.types EXCEPT ![t] = Flip(@, n)]
  <2>1. other = [sidecar EXCEPT !.types = types]
    BY <1>4
  <2>2. DOMAIN types = DOMAIN sidecar.types
    OBVIOUS
  <2> HIDE DEF types
  <2> QED BY <1>1, <1>3, <2>1, <2>2
<1>5. ASSUME NEW t \in Types, other = [sidecar EXCEPT !.types = Put(@, t, {})]
      PROVE  Read(other)
  <2>1. IsFiniteSet(DOMAIN Put(sidecar.types, t, {}))
    BY <1>1, FS_AddElement DEF Put
  <2> QED BY <1>3, <1>5, <2>1
<1>6. ASSUME NEW t \in Types, other = [sidecar EXCEPT !.types = Drop(@, t)]
      PROVE  Read(other)
  <2>1. IsFiniteSet(DOMAIN Drop(sidecar.types, t))
    BY <1>1, FS_RemoveElement DEF Drop
  <2> QED BY <1>3, <1>6, <2>1
<1>7. ASSUME NEW o, other = [sidecar EXCEPT !.order = o]
      PROVE  Read(other)
  BY <1>2, <1>7 DEF Keys
<1>8. ASSUME NEW layout, other = [sidecar EXCEPT !.layouts = Flip(@, layout)]
      PROVE  Read(other)
  BY <1>2, <1>8 DEF Keys
<1>9. ASSUME NEW id, other = [sidecar EXCEPT !.sections = Flip(@, id)]
      PROVE  Read(other)
  BY <1>2, <1>9 DEF Keys
<1>10. ASSUME NEW a, other = [sidecar EXCEPT !.anchors = Flip(@, a)]
      PROVE  Read(other)
  BY <1>2, <1>10 DEF Keys
<1> QED BY <1>4, <1>5, <1>6, <1>7, <1>8, <1>9, <1>10 DEF SidecarEdits

\* What every edit has in common.
LEMMA ChangeFacts ==
  ASSUME DocsInv, Change
  PROVE  changes' \in 0..MaxChanges /\ outcome' = "none"
  BY StartAssumption DEF DocsInv, Change

\* One lemma for each edit: what is there can still be read.
LEMMA EditPickleKeeps ==
  ASSUME DocsInv, NEW stem \in Stems, EditPickle(stem)
  PROVE  DocsInv'
<1>1. changes' \in 0..MaxChanges /\ outcome' = "none"
  BY ChangeFacts DEF EditPickle
<1>2. DOMAIN definitions' = DOMAIN definitions
  BY DEF EditPickle
<1>3. /\ UNCHANGED <<sidecars, specs, pages>> /\ newer' = newer \cup {stem}
  BY DEF EditPickle
<1> QED BY <1>1, <1>2, <1>3 DEF DocsInv

LEMMA EditSidecarKeeps ==
  ASSUME DocsInv, NEW stem \in Stems, EditSidecar(stem)
  PROVE  DocsInv'
<1>1. changes' \in 0..MaxChanges /\ outcome' = "none"
  BY ChangeFacts DEF EditSidecar
<1>2. DOMAIN sidecars' \subseteq Stems /\ \A s \in DOMAIN sidecars' : Read(sidecars'[s])
  <2>1. CASE stem \in DOMAIN sidecars /\ sidecars' = Drop(sidecars, stem)
    BY <2>1 DEF DocsInv, Drop
  <2>2. ASSUME NEW sidecar, Read(sidecar), sidecars' = Put(sidecars, stem, sidecar)
        PROVE  DOMAIN sidecars' \subseteq Stems /\ \A s \in DOMAIN sidecars' : Read(sidecars'[s])
    BY <2>2 DEF DocsInv, Put
  <2>3. CASE \E sidecar \in SidecarEdits(sidecars[stem]) :
                stem \in DOMAIN sidecars /\ sidecars' = Put(sidecars, stem, sidecar)
    BY <2>2, <2>3, SidecarEditsRead DEF DocsInv
  <2>4. CASE sidecars' = Put(sidecars, stem, Start.draft)
    BY <2>2, <2>4, StartAssumption
  <2> QED BY <2>1, <2>3, <2>4 DEF EditSidecar
<1>3. UNCHANGED <<definitions, specs, pages>> /\ newer' = newer \cup {stem}
  BY DEF EditSidecar
<1> QED BY <1>1, <1>2, <1>3 DEF DocsInv

LEMMA EditManifestKeeps ==
  ASSUME DocsInv, EditManifest
  PROVE  DocsInv'
<1>1. changes' \in 0..MaxChanges /\ outcome' = "none"
  BY ChangeFacts DEF EditManifest
<1>2. UNCHANGED <<definitions, sidecars, specs, pages>> /\ newer' = newer \cup {"index"}
  BY DEF EditManifest
<1> QED BY <1>1, <1>2 DEF DocsInv

LEMMA EditSpecsKeeps ==
  ASSUME DocsInv, EditSpecs
  PROVE  DocsInv'
<1>1. changes' \in 0..MaxChanges /\ outcome' = "none"
  BY ChangeFacts DEF EditSpecs
<1>2. UNCHANGED <<definitions, sidecars, pages, newer>>
  BY DEF EditSpecs, generated
<1>3. specs' \subseteq Stems
  BY DEF EditSpecs, Flip, DocsInv
<1> QED BY <1>1, <1>2, <1>3 DEF DocsInv

LEMMA EditGeneratedKeeps ==
  ASSUME DocsInv, EditGenerated
  PROVE  DocsInv'
<1>1. changes' \in 0..MaxChanges /\ outcome' = "none"
  BY ChangeFacts DEF EditGenerated
<1>2. UNCHANGED <<definitions, sidecars, specs>>
  BY DEF EditGenerated, sources
<1>3. newer' \subseteq newer
  BY DEF EditGenerated
<1>4. DOMAIN pages' \subseteq DOMAIN pages /\ \A s \in DOMAIN pages' : PageRead(pages'[s])
  <2>1. ASSUME NEW stem \in DOMAIN pages, pages' = [pages EXCEPT ![stem].shows = <<>>]
        PROVE  DOMAIN pages' \subseteq DOMAIN pages /\ \A s \in DOMAIN pages' : PageRead(pages'[s])
    <3>1. PageRead(pages[stem])
      BY DEF DocsInv
    <3>2. PageRead([pages[stem] EXCEPT !.shows = <<>>])
      BY <3>1 DEF PageRead
    <3>3. DOMAIN pages' = DOMAIN pages
      BY <2>1
    <3>4. ASSUME NEW s \in DOMAIN pages PROVE PageRead(pages'[s])
      <4>1. CASE s = stem
        BY <2>1, <3>2, <4>1
      <4>2. CASE s # stem
        BY <2>1, <4>2 DEF DocsInv
      <4> QED BY <4>1, <4>2
    <3> QED BY <3>3, <3>4
  <2>2. ASSUME NEW stem \in DOMAIN pages, pages' = Drop(pages, stem)
        PROVE  DOMAIN pages' \subseteq DOMAIN pages /\ \A s \in DOMAIN pages' : PageRead(pages'[s])
    BY <2>2 DEF DocsInv, Drop
  <2>3. CASE UNCHANGED pages
    BY <2>3 DEF DocsInv
  <2> QED BY <2>1, <2>2, <2>3 DEF EditGenerated
<1> QED BY <1>1, <1>2, <1>3, <1>4 DEF DocsInv

\* The layouts of a sidecar that renders.
LEMMA RenderedOf ==
  ASSUME NEW stem \in DOMAIN sidecars, Renders(sidecars[stem])
  PROVE  PageRead(Page(sidecars[stem]))
  BY RenderedPage DEF Renders, LayoutRenders

\* What is written was rendered, by hand or by the build.
LEMMA WritePageKeeps ==
  ASSUME DocsInv, NEW stem \in Stems, WritePage(stem)
  PROVE  DocsInv'
<1>1. changes' \in 0..MaxChanges /\ outcome' = "none"
  BY ChangeFacts DEF WritePage
<1>2. /\ UNCHANGED <<definitions, sidecars, specs>> /\ newer' \subseteq newer
      /\ pages' = Put(pages, stem, Page(sidecars[stem]))
      /\ PageRead(Page(sidecars[stem]))
  BY RenderedOf DEF WritePage, sources
<1>3. DOMAIN pages' \subseteq Stems /\ \A s \in DOMAIN pages' : PageRead(pages'[s])
  BY <1>2 DEF DocsInv, Put
<1> QED BY <1>1, <1>2, <1>3 DEF DocsInv

LEMMA BuildKeeps ==
  ASSUME DocsInv, Build
  PROVE  DocsInv'
<1>1. changes' \in 0..MaxChanges /\ outcome' = "none"
  BY ChangeFacts DEF Build
<1> DEFINE good == {stem \in Due : stem \in DOMAIN sidecars /\ Renders(sidecars[stem])}
<1>2. UNCHANGED <<definitions, sidecars, specs>> /\ newer' \subseteq newer
  BY DEF Build, sources
<1>3. PICK done \in SUBSET good :
        pages' = [stem \in DOMAIN pages \cup done |->
                    IF stem \in done THEN Page(sidecars[stem]) ELSE pages[stem]]
  BY DEF Build
<1>4. DOMAIN pages' \subseteq Stems
  BY <1>3 DEF DocsInv
<1>5. ASSUME NEW s \in DOMAIN pages' PROVE PageRead(pages'[s])
  <2>1. CASE s \in done
    BY <1>3, <2>1, RenderedOf
  <2>2. CASE s \notin done
    BY <1>3, <2>2 DEF DocsInv
  <2> QED BY <2>1, <2>2
<1> QED BY <1>1, <1>2, <1>4, <1>5 DEF DocsInv

\* A pass is of the files as they are.
LEMMA DocsCheckKeeps ==
  ASSUME DocsInv, DocsCheck
  PROVE  DocsInv'
<1>1. UNCHANGED <<definitions, sidecars, manifest, specs, pages, landing, newer, changes>>
  BY DEF DocsCheck, sources, generated
<1>2. outcome' \in {"none", "passed", "failed"} /\ (outcome' = "passed" => Passes)
  BY DEF DocsCheck
<1>3. Passes' <=> Passes
  BY <1>1 DEF Passes, Check, CheckGenerated, CheckIndex, Landing, LinksRight, ManifestRight,
     SidecarsListed, Linked, SectionsKnown, SectionDeclared, AnchorRendered
<1> QED BY <1>1, <1>2, <1>3 DEF DocsInv

LEMMA DocsStutters ==
  ASSUME DocsInv, UNCHANGED docsVars
  PROVE  DocsInv'
<1>1. UNCHANGED <<definitions, sidecars, manifest, specs, pages, landing, newer, outcome, changes>>
  BY DEF docsVars, sources, generated
<1>2. Passes' <=> Passes
  BY <1>1 DEF Passes, Check, CheckGenerated, CheckIndex, Landing, LinksRight, ManifestRight,
     SidecarsListed, Linked, SectionsKnown, SectionDeclared, AnchorRendered
<1> QED BY <1>1, <1>2 DEF DocsInv

\* Every sidecar can be read, no page shows a layout that is not four columns wide,
\* and a pass still holds when it is looked at: nobody edits what was passed.
THEOREM DocsInvariant == DocsSpec => []DocsInv
<1>1. DocsInv /\ [DocsNext]_docsVars => DocsInv'
  BY EditPickleKeeps, EditSidecarKeeps, WritePageKeeps, EditManifestKeeps, EditSpecsKeeps,
     EditGeneratedKeeps, BuildKeeps, DocsCheckKeeps, DocsStutters
  DEF DocsNext, DocsOver
<1> QED BY <1>1, DocsStart, PTL DEF DocsSpec

\* The types of the state.
THEOREM DocsTypeCorrect == DocsSpec => []DocsTypeOK
<1>1. DocsInv => DocsTypeOK
  BY DEF DocsInv, DocsTypeOK, PageRead
<1> QED BY <1>1, DocsInvariant, PTL

-----------------------------------------------------------------------------
\* A finite set listed: each member once.
LEMMA ListedOnce ==
  ASSUME NEW S, IsFiniteSet(S)
  PROVE  IsInjective(SetToSeq(S)) /\ ToSet(SetToSeq(S)) = S
<1> DEFINE n == Cardinality(S)
<1>1. n \in Nat /\ Bijection(1..n, S) # {}
  BY FS_CardinalityType DEF ExistsBijection
<1>2. PICK f \in Bijection(1..n, S) : TRUE
  BY <1>1
<1>3. f \in [1..n -> S] /\ IsInjective(f)
  BY DEF Bijection, Injection
<1>4. SetToSeq(S) \in [1..n -> S] /\ IsInjective(SetToSeq(S))
  BY <1>3 DEF SetToSeq
<1>5. IsFiniteSet(1..n) /\ Cardinality(1..n) = n
  BY <1>1, FS_Interval
<1>6. SetToSeq(S) \in Injection(1..n, S)
  BY <1>4 DEF Injection
<1>7. SetToSeq(S) \in Surjection(1..n, S)
  BY <1>5, <1>6, FS_Injection
<1>8. DOMAIN SetToSeq(S) = 1..n
  BY <1>4
<1>9. ToSet(SetToSeq(S)) = S
  BY <1>7, <1>8, <1>4 DEF ToSet, Surjection
<1> QED BY <1>4, <1>9

\* A sidecar that docs-check passes is rendered with each of its types once.
LEMMA OrderListed ==
  ASSUME NEW sidecar, Read(sidecar), OrderRight(sidecar)
  PROVE  IsInjective(Order(sidecar)) /\ ToSet(Order(sidecar)) = DOMAIN sidecar.types
<1>1. CASE sidecar.order = Absent
  BY <1>1, ListedOnce DEF Order, Read
<1>2. CASE sidecar.order # Absent
  BY <1>2 DEF Order, OrderRight
<1> QED BY <1>1, <1>2

\* A page that is an injective list of types shows each of them once.
LEMMA ShownOnce ==
  ASSUME NEW order, IsInjective(order), NEW t \in ToSet(order), NEW shows,
         DOMAIN shows = DOMAIN order, \A i \in DOMAIN order : shows[i][1] = order[i]
  PROVE  Cardinality({i \in DOMAIN shows : shows[i][1] = t}) = 1
<1>1. PICK i \in DOMAIN order : order[i] = t
  BY DEF ToSet
<1>2. {k \in DOMAIN shows : shows[k][1] = t} = {i}
  BY <1>1 DEF IsInjective
<1> QED BY <1>2, FS_Singleton

\* The chain from a page to the pickle and to the landing page, which docs-check
\* follows only one link at a time.
LEMMA PassedPagesTrue ==
  ASSUME DocsInv, Passes, NEW stem \in specs
  PROVE  TrueOf(stem)
<1> DEFINE sidecar == sidecars[stem]
           shows == pages[stem].shows
<1>1. /\ stem \in DOMAIN sidecars /\ Check(stem) /\ stem \in DOMAIN pages
      /\ pages[stem] = Page(sidecar) /\ stem # Absent /\ Read(sidecar)
  BY StartAssumption DEF Passes, CheckGenerated, DocsInv
<1>2. /\ shows = [i \in DOMAIN Order(sidecar) |->
                    <<Order(sidecar)[i], sidecar.types[Order(sidecar)[i]]>>]
      /\ pages[stem].sections = sidecar.sections /\ pages[stem].anchors = sidecar.anchors
  BY <1>1 DEF Page
<1>3. /\ OrderRight(sidecar) /\ TypesRight(sidecar, definitions[stem])
  BY <1>1 DEF Check
<1>4. IsInjective(Order(sidecar)) /\ ToSet(Order(sidecar)) = DOMAIN sidecar.types
  BY <1>1, <1>3, OrderListed
<1>5. /\ DOMAIN shows = DOMAIN Order(sidecar)
      /\ \A i \in DOMAIN Order(sidecar) : /\ shows[i][1] = Order(sidecar)[i]
                                          /\ shows[i][2] = sidecar.types[Order(sidecar)[i]]
  BY <1>2
<1>6. \A t \in DOMAIN sidecar.types : Cardinality({i \in DOMAIN shows : shows[i][1] = t}) = 1
  <2> HIDE DEF shows, sidecar
  <2> QED BY <1>4, <1>5, ShownOnce
<1>7. \A i \in DOMAIN shows : /\ shows[i][1] \in DOMAIN definitions[stem]
                              /\ shows[i][2] \subseteq definitions[stem][shows[i][1]]
  <2> HIDE DEF shows, sidecar
  <2>1. \A i \in DOMAIN Order(sidecar) : Order(sidecar)[i] \in DOMAIN sidecar.types
    BY <1>4 DEF ToSet
  <2> QED BY <1>3, <1>5, <2>1 DEF TypesRight
<1>8. ASSUME NEW i \in DOMAIN landing, landing[i].doc = stem
      PROVE  /\ \E parent \in pages[stem].sections : landing[i].id \in Children[parent]
             /\ landing[i].anchor # Absent => landing[i].anchor \in pages[stem].anchors
  <2>1. landing = Landing /\ CheckIndex
    BY DEF Passes
  <2>2. /\ i \in DOMAIN manifest
        /\ landing[i].id = manifest[i].id /\ landing[i].doc = manifest[i].doc
        /\ landing[i].anchor = manifest[i].anchor
    BY <2>1 DEF Landing
  <2>3. SectionDeclared(manifest[i]) /\ AnchorRendered(manifest[i]) /\ manifest[i].doc = stem
    BY <1>1, <1>8, <2>1, <2>2 DEF CheckIndex
  <2>4. \E parent \in pages[stem].sections : landing[i].id \in Children[parent]
    BY <1>2, <2>2, <2>3 DEF SectionDeclared
  <2>5. landing[i].anchor # Absent => landing[i].anchor \in pages[stem].anchors
    BY <1>2, <2>2, <2>3 DEF AnchorRendered
  <2> QED BY <2>4, <2>5
<1> QED BY <1>6, <1>7, <1>8 DEF TrueOf

\* After docs-check has passed, every page tells the truth about the pickle and about
\* the sections that lead to it: for every repository, order of types, manifest and
\* number of edits.
THEOREM PagesTrueCorrect == DocsSpec => []PagesTrue
<1>1. DocsInv => PagesTrue
  BY PassedPagesTrue DEF PagesTrue, DocsInv
<1> QED BY <1>1, DocsInvariant, PTL
=============================================================================
