---------------------------- MODULE RegistryGate ----------------------------
(***************************************************************************)
(* tools/check_registry.py: the gate that the repository's own commits     *)
(* must pass.  People edit the pickles, the registry, the coverage         *)
(* manifest, the measured files, the fixtures and the case records, one    *)
(* file at a time and in any order; the gate reads them all and passes or  *)
(* fails.  Each check of the script is an operator with the name of the    *)
(* message it prints.                                                      *)
(***************************************************************************)
EXTENDS Routing, CaseHistory

CONSTANTS
  Sites,      \* bound: the emit sites the pickles can have
  Matches,    \* bound: the matches a rule can have
  Families,   \* bound: the names a catalog file can be renamed to
  Targets,    \* bound: the records and invariants a rule or an entry can name
  Base,       \* the repository to start from, which passes the gate
  MaxEdits    \* bound: edits made to it

ASSUME BaseAssumption ==
  \E names \in SUBSET CaseFiles : Base.cases \in [names -> SUBSET FieldNames]

VARIABLES
  pickles,    \* the emit sites there are
  catalog,    \* catalog shards
  routes,     \* route shards
  backlog,    \* finding-backlog.yml: code to its source files
  coverage,   \* validation-coverage.yml: record to its claim and invariants
  inventory,  \* message-routing.yml: pairs of a code and an unrouted message, or None
  measured,   \* libhdf5-evidence.yml: record to its verdict and what was seen on which
              \* fixture, or None
  verified,   \* verification-coverage.yml: records with every requirement, or None
  summary,    \* registry/README.md: how many records it says are enforced
  expected,   \* tests/expected: expectation to the findings it requires, the specimen it
              \* names, if any, whether that may be missing, and whether it can be parsed
  specimens,  \* the .h5 files under h5policy/tests
  controls,   \* ssp-control-evidence.yml: its rows
  verdict,    \* "none", "refused", "failed" or "passed", of this repository
  edits
files == <<pickles, catalog, routes, backlog, coverage, inventory, measured, verified,
           summary, expected, specimens, controls>>
vars == <<files, caseVars, verdict, edits>>

Verdicts == {"enforced", "partial", "unmeasured"}

-----------------------------------------------------------------------------
(* What the gate reads off the files. *)
Codes(site) == {c.code : c \in site.cases}
EmittedBy(code) == {s.file : s \in {t \in pickles : code \in Codes(t)}}
Emitted == UNION {Codes(s) : s \in pickles}
Findings == LoadFindings(catalog, routes)
Tracked == Catalogued(catalog) \cup DOMAIN backlog

Lists(record, invariant, code) ==
  /\ record \in DOMAIN coverage
  /\ invariant \in DOMAIN coverage[record].invariants
  /\ code \in coverage[record].invariants[invariant]

CatalogBacklogOverlap == Catalogued(catalog) \cap DOMAIN backlog # {}
UntrackedEmit == ~(Emitted \subseteq Tracked)
StaleTrackedFinding == ~(Tracked \subseteq Emitted)
EmittedInDrift ==
  \/ \E e \in Entries(catalog) : e.emittedIn = {} \/ ~(e.emittedIn \subseteq EmittedBy(e.code))
  \/ \E code \in DOMAIN backlog : backlog[code] = {} \/ backlog[code] # EmittedBy(code)
IncompleteCatalog ==
  \E e \in Entries(catalog) : ~e.complete \/ e.record \notin DOMAIN coverage \/ e.invariant = None
MissingFinding ==
  \E r \in DOMAIN coverage : \E i \in DOMAIN coverage[r].invariants :
    ~(coverage[r].invariants[i] \subseteq Catalogued(catalog))
MappingDrift ==
  \E e \in Entries(catalog) : e.invariant # None /\ ~Lists(e.record, e.invariant, e.code)

(* Fault: a rule may name any record, and invariants of any. *)
ContextUnknownUnchecked == FALSE

ContextUnknown ==
  \E shard \in routes : \E rule \in ToSet(shard.rules) :
    \/ rule.record \notin DOMAIN coverage
    \/ rule.invariant # None /\ ~Lists(rule.record, rule.invariant, shard.finding)

(* Fault: a claim is compared only where nothing was measured. *)
EvidenceDriftOfUnmeasured ==
  /\ measured # None
  /\ \/ \E r \in DOMAIN coverage : r \notin DOMAIN measured /\ coverage[r].claim # "unmeasured"
     \/ ~(DOMAIN measured \subseteq DOMAIN coverage)

(* A generated file that is not there is noted, and nothing is compared with it. *)
EvidenceDrift ==
  /\ measured # None
  /\ \/ \E r \in DOMAIN coverage :
          coverage[r].claim # IF r \in DOMAIN measured THEN measured[r].verdict ELSE "unmeasured"
     \/ ~(DOMAIN measured \subseteq DOMAIN coverage)
VerificationDrift == verified # None /\ verified # DOMAIN coverage
ReadmeSummaryDrift ==
  /\ measured # None /\ verified # None
  /\ summary # Cardinality({r \in DOMAIN measured : measured[r].verdict = "enforced"})

(* What cannot be parsed is passed over.  A specimen is demanded only of an
   expectation that names one and does not allow that it is missing. *)
Expectations == {x \in DOMAIN expected : expected[x].readable}
Demanded == {expected[x].file : x \in {y \in Expectations : ~expected[y].mayMiss}} \ {None}
FixtureErrors ==
  \/ ~(Demanded \subseteq specimens)
  \/ ~(specimens \subseteq {expected[x].file : x \in Expectations})
  \/ \E x \in Expectations : \E code \in expected[x].required :
       code \notin Catalogued(catalog) \/ Entry(catalog, code).record \notin DOMAIN coverage
MessageUnanalyzable == \E s \in pickles : Unanalyzable(s)

(* ROUTING_GAP and ROUTING_STALE *)
RoutingDrift == inventory # None /\ Unrouted(pickles, Findings) # inventory

(* tools/check_ssp_control_evidence.py, which the gate runs last: each row of the
   control evidence against the manifest, its fixture and the measurement. *)
ControlError(row) ==
  \/ row.record \notin DOMAIN coverage \/ row.finding \notin Catalogued(catalog)
  \/ ~Lists(row.record, row.invariant, row.finding)
  \/ row.canary # Base.canaries[row.record]
  \/ row.fixture \notin Expectations \/ row.finding \notin expected[row.fixture].required
  \/ Base.fixtures[row.fixture] # [family |-> row.record, decision |-> row.decision]
  \/ row.record \notin DOMAIN measured
  \/ measured[row.record].verdict # row.verdict
  \/ ~({<<seen, row.fixture>> : seen \in row.observed} \subseteq measured[row.record].on)
CrossSeam == Base.consumer # None /\ {row.id : row \in controls} # Base.consumer
ControlErrors ==
  \/ controls = {} \/ measured = None
  \/ \E row, other \in controls : row # other /\ row.id = other.id /\ row.fixture = other.fixture
  \/ \E row \in controls : ControlError(row)
  \/ CrossSeam

Errors ==
  \/ CatalogBacklogOverlap \/ UntrackedEmit \/ StaleTrackedFinding \/ EmittedInDrift
  \/ IncompleteCatalog \/ MissingFinding \/ MappingDrift \/ ContextUnknown
  \/ EvidenceDrift \/ VerificationDrift \/ ReadmeSummaryDrift \/ FixtureErrors
  \/ MessageUnanalyzable \/ RoutingDrift
  \/ StaleCitations # {}

-----------------------------------------------------------------------------
Init ==
  /\ pickles = Base.pickles /\ catalog = Base.catalog /\ routes = Base.routes
  /\ backlog = Base.backlog /\ coverage = Base.coverage /\ inventory = Base.inventory
  /\ measured = Base.measured /\ verified = Base.verified /\ summary = Base.summary
  /\ expected = Base.expected /\ specimens = Base.specimens
  /\ controls = Base.controls
  /\ cases = Base.cases
  /\ log = [f \in CaseFiles |-> IF f \in DOMAIN Base.cases THEN Base.cases[f] ELSE {}]
  /\ carried = log /\ renamed = {} /\ cites = {}
  /\ verdict = "none" /\ edits = 0

(* A registry that does not load ends the script at once. *)
Gate ==
  /\ verdict = "none"
  /\ verdict' = CASE LoadError(catalog, routes) -> "refused"
                  [] ~LoadError(catalog, routes) /\ (Errors \/ ControlErrors) -> "failed"
                  [] OTHER -> "passed"
  /\ UNCHANGED <<files, caseVars, edits>>

(* The gate only reads: edits that follow a run of it are those without the run. *)
Edit == verdict = "none" /\ edits < MaxEdits /\ edits' = edits + 1 /\ UNCHANGED verdict

Toggle(set, x) == IF x \in set THEN set \ {x} ELSE set \cup {x}

EditPickles ==
  /\ Edit
  /\ \E s \in Sites : pickles' = Toggle(pickles, s)
  /\ UNCHANGED <<catalog, routes, backlog, coverage, inventory, measured, verified, summary,
                 expected, specimens, controls, caseVars>>

(* One entry is added, removed or has one field changed; or a file is renamed. *)
EntryEdits(e) ==
  {[e EXCEPT !.ambiguous = ~@], [e EXCEPT !.complete = ~@], [e EXCEPT !.embedsContexts = ~@]}
    \cup {[e EXCEPT !.invariant = i] : i \in {t.invariant : t \in Targets} \cup {None}}
    \cup {[e EXCEPT !.emittedIn = {s.file : s \in Sites}]}
NewEntry(code, shard) ==
  [code |-> code, record |-> shard.record, invariant |-> None, ambiguous |-> FALSE,
   embedsContexts |-> FALSE, complete |-> TRUE, emittedIn |-> EmittedBy(code)]
ShardEdits(shard) ==
  {[shard EXCEPT !.entries = Toggle(@, NewEntry(code, shard))] : code \in FindingCodes}
    \cup {[shard EXCEPT !.entries = @ \ {e}] : e \in shard.entries}
    \cup UNION {{[shard EXCEPT !.entries = (@ \ {e}) \cup {f}] : f \in EntryEdits(e)} : e \in shard.entries}
    \cup {[shard EXCEPT !.name = r] : r \in Families}
EditCatalog ==
  /\ Edit
  /\ \E shard \in catalog : \E other \in ShardEdits(shard) \ {shard} :
       catalog' = (catalog \ {shard}) \cup {other}
  /\ UNCHANGED <<pickles, routes, backlog, coverage, inventory, measured, verified, summary,
                 expected, specimens, controls, caseVars>>

(* A rule is put in front of or behind the others, or taken out; a shard is
   added, or given to another code. *)
NewRules == {[record |-> t.record, invariant |-> t.invariant, match |-> m] : t \in Targets, m \in Matches}
RouteEdits(shard) ==
  {[shard EXCEPT !.rules = <<rule>> \o @] : rule \in NewRules}
    \cup {[shard EXCEPT !.rules = Append(@, rule)] : rule \in NewRules}
    \cup {[shard EXCEPT !.rules = RemoveAt(@, i)] : i \in DOMAIN shard.rules}
    \cup {[shard EXCEPT !.finding = code] : code \in FindingCodes}
NewRoutes ==
  {[name |-> code, finding |-> code, readable |-> TRUE, rules |-> <<rule>>] :
     code \in FindingCodes, rule \in NewRules}
EditRoutes ==
  /\ Edit
  /\ \/ \E shard \in routes : \E other \in RouteEdits(shard) : routes' = (routes \ {shard}) \cup {other}
     \/ \E shard \in NewRoutes :
          /\ \A other \in routes : other.name # shard.name
          /\ routes' = routes \cup {shard}
     \/ \E shard \in routes : routes' = routes \ {shard}
  /\ UNCHANGED <<pickles, catalog, backlog, coverage, inventory, measured, verified, summary,
                 expected, specimens, controls, caseVars>>

EditBacklog ==
  /\ Edit
  /\ \E code \in FindingCodes :
       backlog' = IF code \in DOMAIN backlog THEN Without(backlog, code)
                  ELSE With(backlog, code, EmittedBy(code))
  /\ UNCHANGED <<pickles, catalog, routes, coverage, inventory, measured, verified, summary,
                 expected, specimens, controls, caseVars>>

(* An invariant gains or loses a code, a record its claim, the manifest a record. *)
EditCoverage ==
  /\ Edit
  /\ \/ \E r \in DOMAIN coverage : \E i \in DOMAIN coverage[r].invariants, code \in FindingCodes :
          coverage' = [coverage EXCEPT ![r].invariants[i] = Toggle(@, code)]
     \/ \E r \in DOMAIN coverage, v \in Verdicts : coverage' = [coverage EXCEPT ![r].claim = v]
     \/ \E r \in DOMAIN coverage : coverage' = Without(coverage, r)
  /\ UNCHANGED <<pickles, catalog, routes, backlog, inventory, measured, verified, summary,
                 expected, specimens, controls, caseVars>>

(* h5cve evidence: what the matrix of canaries shows of the records it reaches. *)
Remeasure ==
  /\ Edit
  /\ \E reached \in SUBSET DOMAIN coverage :
       measured' \in [reached -> [verdict : Verdicts, on : {{}, Base.seen}]]
  /\ UNCHANGED <<pickles, catalog, routes, backlog, coverage, inventory, verified, summary,
                 expected, specimens, controls, caseVars>>

(* h5cve verification: every requirement of every record of the manifest. *)
Reverify ==
  /\ Edit
  /\ verified' = DOMAIN coverage
  /\ UNCHANGED <<pickles, catalog, routes, backlog, coverage, inventory, measured, summary,
                 expected, specimens, controls, caseVars>>

EditSummary ==
  /\ Edit
  /\ summary' \in 0..Cardinality(DOMAIN Base.coverage)
  /\ UNCHANGED <<pickles, catalog, routes, backlog, coverage, inventory, measured, verified,
                 expected, specimens, controls, caseVars>>

(* message_routing.py --write, which loads the registry but reports nothing. *)
WriteInventory ==
  /\ Edit /\ ~LoadError(catalog, routes)
  /\ inventory' = Unrouted(pickles, Findings)
  /\ UNCHANGED <<pickles, catalog, routes, backlog, coverage, measured, verified, summary,
                 expected, specimens, controls, caseVars>>

EditInventory ==
  /\ Edit /\ inventory # None
  /\ \E p \in Extract(pickles) : inventory' = Toggle(inventory, p)
  /\ UNCHANGED <<pickles, catalog, routes, backlog, coverage, measured, verified, summary,
                 expected, specimens, controls, caseVars>>

(* A generated file is taken out. *)
RemoveGenerated ==
  /\ Edit
  /\ \/ inventory' = None /\ UNCHANGED <<measured, verified>>
     \/ measured' = None /\ UNCHANGED <<inventory, verified>>
     \/ verified' = None /\ UNCHANGED <<inventory, measured>>
  /\ UNCHANGED <<pickles, catalog, routes, backlog, coverage, summary, expected, specimens,
                 controls, caseVars>>

ExpectationEdits(x) ==
  {[x EXCEPT !.required = Toggle(@, code)] : code \in FindingCodes}
    \cup {[x EXCEPT !.file = None], [x EXCEPT !.mayMiss = ~@], [x EXCEPT !.readable = ~@]}
EditFixtures ==
  /\ Edit
  /\ \/ \E x \in DOMAIN expected : \E other \in ExpectationEdits(expected[x]) :
          expected' = [expected EXCEPT ![x] = other] /\ UNCHANGED specimens
     \/ \E x \in DOMAIN expected : expected' = Without(expected, x) /\ UNCHANGED specimens
     \/ \E x \in Base.specimens : specimens' = Toggle(specimens, x) /\ UNCHANGED expected
  /\ UNCHANGED <<pickles, catalog, routes, backlog, coverage, inventory, measured, verified,
                 summary, controls, caseVars>>

(* A row is taken out or given to another control, finding or verdict. *)
EditControls ==
  /\ Edit
  /\ \E row \in controls :
       \/ controls' = controls \ {row}
       \/ \E code \in FindingCodes : controls' = (controls \ {row}) \cup {[row EXCEPT !.finding = code]}
       \/ \E v \in Verdicts : controls' = (controls \ {row}) \cup {[row EXCEPT !.verdict = v]}
       \/ \E id \in Base.consumer : controls' = controls \cup {[row EXCEPT !.id = id]}
  /\ UNCHANGED <<pickles, catalog, routes, backlog, coverage, inventory, measured, verified,
                 summary, expected, specimens, caseVars>>

EditCases ==
  /\ Edit
  /\ \/ \E f \in CaseFiles, fields \in SUBSET FieldNames : CommitCase(f, fields)
     \/ \E f, g \in CaseFiles : RenameCase(f, g)
     \/ \E f \in CaseFiles : RemoveCase(f)
     \/ \E f \in CaseFiles \cup Documents, n \in FieldNames : Cite(f, n)
  /\ UNCHANGED files

Stop == verdict # "none" /\ UNCHANGED vars

Next ==
  \/ Gate
  \/ EditPickles \/ EditCatalog \/ EditRoutes \/ EditBacklog \/ EditCoverage \/ Remeasure
  \/ Reverify \/ EditSummary \/ WriteInventory \/ EditInventory \/ RemoveGenerated \/ EditFixtures \/ EditControls \/ EditCases
  \/ Stop
Spec == Init /\ [][Next]_vars
-----------------------------------------------------------------------------
(* The types of the state. *)
TypeOK ==
  /\ \A s \in pickles : s \in Sites /\ s.place \in Places /\ s.form \in Forms
  /\ DOMAIN backlog \subseteq FindingCodes /\ DOMAIN coverage \subseteq DOMAIN Base.coverage
  /\ verdict \in {"none", "refused", "failed", "passed"} /\ edits \in 0..MaxEdits

(* A message that a finding of the program can carry is accounted for: its code
   is on the backlog, or it is on the list of unrouted messages, or it leads to a
   record of the manifest whose claim is the measured one and, where it leads to
   an invariant, one that lists the code. *)
Accounted(code, message) ==
  LET family == Resolve(Findings, code, message)
  IN \/ code \in DOMAIN backlog
     \/ <<code, message>> \in inventory
     \/ /\ family.record \in DOMAIN coverage
        /\ family.invariant # None => Lists(family.record, family.invariant, code)
        /\ family.record \in DOMAIN measured => coverage[family.record].claim = measured[family.record].verdict

(* A site that emits what the source text does not show. *)
Silent(site) == ~(Emits(site) \subseteq Extracted(site)) /\ ~Unanalyzable(site)

(* A code and a message of one site, of the same client or of two in one file. *)
Paired(site) ==
  UNION {{<<c.code, d.message>> : d \in {e \in site.cases : e.client = c.client}} : c \in site.cases}

(* When the gate passes and the list of unrouted messages is there, every message of
   every site that is not silent is accounted for, although no check of the gate
   looks at more than one or two of the files that this takes; and the list names
   only codes and messages that clients of one file emit at one site. *)
EveryFindingAccounted ==
  verdict = "passed" /\ inventory # None =>
    /\ \A site \in pickles : ~Silent(site) => \A p \in Emits(site) : Accounted(p[1], p[2])
    /\ inventory \subseteq UNION {Paired(site) : site \in pickles}

(* tools/message_routing.py: "Anything else is reported as UNANALYZABLE rather
   than skipped". *)
EverythingShown ==
  verdict = "passed" /\ inventory # None =>
    \A site \in pickles : \A p \in Emits(site) : Accounted(p[1], p[2])

(* When the gate passes, every row of the control evidence stands on an expectation
   that can be read and whose specimen, if it names one that may not be missing, is
   there, and on a finding that the pickles emit, and cites the verdict that the
   manifest claims for the record. *)
ControlsBacked ==
  verdict = "passed" =>
    \A row \in controls :
      LET x == expected[row.fixture]
      IN /\ row.fixture \in Expectations
         /\ x.file # None /\ ~x.mayMiss => x.file \in specimens
         /\ row.finding \in Emitted
         /\ coverage[row.record].claim = row.verdict
=============================================================================
