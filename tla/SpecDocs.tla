------------------------------ MODULE SpecDocs ------------------------------
(***************************************************************************)
(* The format reference: tools/pkdoc.py renders one page for each prose    *)
(* sidecar of the pickles and a landing page for the manifest of sections, *)
(* the docs target of CMakeLists.txt runs it for what is out of date, and  *)
(* docs-check compares pickles, sidecars, manifest and pages.  People edit *)
(* any of them in any order; what the pages show can be older than all.    *)
(*                                                                         *)
(* A page shows the types of its sidecar with their field and variant      *)
(* names, the layouts, the canonical sections and the anchors; prose, and  *)
(* the labels derived from identifiers, are left out.                      *)
(***************************************************************************)
EXTENDS Naturals, FiniteSets, SequencesExt

CONSTANTS
  Absent,       \* an optional key that is not there
  Stems,        \* base names of pickles, sidecars and pages
  SectionOrder, \* FMT4_SECTION_ORDER
  Children,     \* the sections of each section, itself included
  Types, Names, \* bound: types of the pickles, words in their definitions
  Start,        \* the repository to start from, which passes docs-check
  MaxChanges    \* bound: edits made to it

ASSUME SectionAssumption == DOMAIN Children = ToSet(SectionOrder)

(* A sidecar read from its file, with an empty value for a key that is absent: the
   types are a dict of finitely many. *)
Keys == {"types", "order", "layouts", "sections", "anchors"}
Read(sidecar) == DOMAIN sidecar = Keys /\ IsFiniteSet(DOMAIN sidecar.types)

(* A stem is a string, and so never the None of a manifest row. *)
ASSUME StartAssumption ==
  /\ Absent \notin Stems /\ MaxChanges \in Nat
  /\ DOMAIN Start.pickles = Stems /\ DOMAIN Start.sidecars \subseteq Stems
  /\ \A stem \in DOMAIN Start.sidecars :
       /\ Read(Start.sidecars[stem])
       /\ \A layout \in Start.sidecars[stem].layouts : layout.columns = 4
  /\ Read(Start.draft)

VARIABLES
  definitions, \* pickle to its types and the words of each definition
  sidecars,    \* sidecar to its record, for the sidecars there are
  manifest,    \* index.yml: its sections in display order
  specs,       \* PKDOC_SPECS
  pages,       \* page to what it shows, for the pages there are
  landing,     \* what generated/README.md shows
  newer,       \* pages, and "index", whose sources are newer than they are
  outcome,     \* "none", "passed" or "failed"
  changes
sources == <<definitions, sidecars, manifest, specs>>
generated == <<pages, landing, newer>>
docsVars == <<sources, generated, outcome, changes>>

Put(f, key, value) == [k \in DOMAIN f \cup {key} |-> IF k = key THEN value ELSE f[k]]
Drop(f, key) == [k \in DOMAIN f \ {key} |-> f[k]]

(* The words of a definition that a sidecar documents, as a page orders them. *)
Order(sidecar) == IF sidecar.order # Absent THEN sidecar.order ELSE SetToSeq(DOMAIN sidecar.types)

LayoutRenders(layout) == layout.columns = 4
(* A type that type_order invents raises KeyError, a layout that is not four
   columns wide ValueError. *)
Renders(sidecar) ==
  /\ ToSet(Order(sidecar)) \subseteq DOMAIN sidecar.types
  /\ \A layout \in sidecar.layouts : LayoutRenders(layout)
Page(sidecar) ==
  [shows |-> [i \in DOMAIN Order(sidecar) |-> <<Order(sidecar)[i], sidecar.types[Order(sidecar)[i]]>>],
   layouts |-> sidecar.layouts, sections |-> sidecar.sections, anchors |-> sidecar.anchors]
Landing == [i \in DOMAIN manifest |-> [id |-> manifest[i].id, doc |-> manifest[i].doc, anchor |-> manifest[i].anchor]]

-----------------------------------------------------------------------------
(* docs-check *)

(* Fault: the order is compared as a set only. *)
OrderRightAsSet(sidecar) == sidecar.order # Absent => ToSet(sidecar.order) = DOMAIN sidecar.types

OrderRight(sidecar) ==
  sidecar.order # Absent =>
    ToSet(sidecar.order) = DOMAIN sidecar.types /\ IsInjective(sidecar.order)
LayoutRight(sidecar, layout) ==
  /\ LayoutRenders(layout)
  /\ IF layout.type = Absent THEN layout.fields = {}
     ELSE layout.type \in DOMAIN sidecar.types /\ layout.fields \subseteq sidecar.types[layout.type]
TypesRight(sidecar, pickle) ==
  \A t \in DOMAIN sidecar.types : t \in DOMAIN pickle /\ sidecar.types[t] \subseteq pickle[t]
Check(stem) ==
  LET sidecar == sidecars[stem]
  IN /\ OrderRight(sidecar) /\ sidecar.sections # {}
     /\ \A layout \in sidecar.layouts : LayoutRight(sidecar, layout)
     /\ TypesRight(sidecar, definitions[stem])

CheckGenerated(stem) == stem \in DOMAIN pages /\ pages[stem] = Page(sidecars[stem])

ManifestRight ==
  /\ \A i \in DOMAIN manifest : manifest[i].status = "not-covered" => manifest[i].doc = Absent
  /\ [i \in DOMAIN manifest |-> manifest[i].id] = SectionOrder
Linked == {manifest[i].doc : i \in DOMAIN manifest} \ {Absent}
SidecarsListed == Linked = DOMAIN sidecars
SectionsKnown == \A stem \in DOMAIN sidecars : sidecars[stem].sections \subseteq ToSet(SectionOrder)
SectionDeclared(row) ==
  \E parent \in sidecars[row.doc].sections \cap ToSet(SectionOrder) : row.id \in Children[parent]
AnchorRendered(row) ==
  row.anchor # Absent => Renders(sidecars[row.doc]) /\ row.anchor \in sidecars[row.doc].anchors
CheckIndex ==
  /\ ManifestRight /\ SidecarsListed /\ SectionsKnown
  /\ \A stem \in DOMAIN sidecars : Renders(sidecars[stem])
  /\ \A i \in DOMAIN manifest :
       manifest[i].doc # Absent => SectionDeclared(manifest[i]) /\ AnchorRendered(manifest[i])

(* tools/check_markdown_links.py on the links of the landing page. *)
LinksRight ==
  \A i \in DOMAIN landing :
    landing[i].doc # Absent =>
      /\ landing[i].doc \in DOMAIN pages
      /\ landing[i].anchor # Absent => landing[i].anchor \in pages[landing[i].doc].anchors

Passes ==
  /\ \A stem \in specs : /\ stem \in DOMAIN sidecars /\ Renders(sidecars[stem])
                         /\ Check(stem) /\ CheckGenerated(stem)
  /\ CheckIndex /\ landing = Landing
  /\ LinksRight
DocsCheck ==
  /\ outcome = "none"
  /\ outcome' = IF Passes THEN "passed" ELSE "failed"
  /\ UNCHANGED <<sources, generated, changes>>

-----------------------------------------------------------------------------
DocsInit ==
  /\ definitions = Start.pickles /\ sidecars = Start.sidecars /\ manifest = Start.manifest
  /\ specs = DOMAIN Start.sidecars
  /\ pages = [stem \in DOMAIN Start.sidecars |-> Page(Start.sidecars[stem])]
  /\ landing = Landing /\ newer = {} /\ outcome = "none" /\ changes = 0

(* docs-check only reads: edits that follow it are those without it. *)
Change == outcome = "none" /\ changes < MaxChanges /\ changes' = changes + 1 /\ UNCHANGED outcome
Flip(set, x) == IF x \in set THEN set \ {x} ELSE set \cup {x}

EditPickle(stem) ==
  /\ Change
  /\ \/ \E t \in DOMAIN definitions[stem], n \in Names :
          definitions' = [definitions EXCEPT ![stem][t] = Flip(@, n)]
     \/ \E t \in Types \ DOMAIN definitions[stem] : definitions' = [definitions EXCEPT ![stem] = Put(@, t, {})]
     \/ \E t \in DOMAIN definitions[stem] : definitions' = [definitions EXCEPT ![stem] = Drop(@, t)]
  /\ newer' = newer \cup {stem}
  /\ UNCHANGED <<sidecars, manifest, specs, pages, landing>>

(* What one edit makes of a sidecar. *)
SidecarEdits(sidecar) ==
  {[sidecar EXCEPT !.types[t] = Flip(@, n)] : t \in DOMAIN sidecar.types, n \in Names}
    \cup {[sidecar EXCEPT !.types = Put(@, t, {})] : t \in Types}
    \cup {[sidecar EXCEPT !.types = Drop(@, t)] : t \in Types}
    \cup {[sidecar EXCEPT !.order = o] : o \in {Absent} \cup Start.orders}
    \cup {[sidecar EXCEPT !.layouts = Flip(@, layout)] : layout \in Start.layouts}
    \cup {[sidecar EXCEPT !.sections = Flip(@, id)] : id \in ToSet(SectionOrder)}
    \cup {[sidecar EXCEPT !.anchors = Flip(@, a)] : a \in Start.anchors}
EditSidecar(stem) ==
  /\ Change
  /\ \/ stem \in DOMAIN sidecars
        /\ \/ \E sidecar \in SidecarEdits(sidecars[stem]) : sidecars' = Put(sidecars, stem, sidecar)
           \/ sidecars' = Drop(sidecars, stem)
     \/ stem \notin DOMAIN sidecars /\ sidecars' = Put(sidecars, stem, Start.draft)
  /\ newer' = newer \cup {stem}
  /\ UNCHANGED <<definitions, manifest, specs, pages, landing>>

EditManifest ==
  /\ Change
  /\ \E i \in DOMAIN manifest :
       \/ \E doc \in Stems \cup {Absent}, anchor \in Start.anchors \cup {Absent} :
            manifest' = [manifest EXCEPT ![i].doc = doc, ![i].anchor = anchor,
                                         ![i].status = IF doc = Absent THEN "not-covered" ELSE "partial"]
       \/ manifest' = [manifest EXCEPT ![i].status = "not-covered"]
       \/ manifest' = RemoveAt(manifest, i)
  /\ newer' = newer \cup {"index"}
  /\ UNCHANGED <<definitions, sidecars, specs, pages, landing>>

EditSpecs ==
  /\ Change
  /\ \E stem \in Stems : specs' = Flip(specs, stem)
  /\ UNCHANGED <<definitions, sidecars, manifest, generated>>

(* A page changed by hand is newer than its sources. *)
EditGenerated ==
  /\ Change
  /\ \/ \E stem \in DOMAIN pages :
          /\ pages' = [pages EXCEPT ![stem].shows = <<>>] /\ newer' = newer \ {stem}
          /\ UNCHANGED landing
     \/ \E stem \in DOMAIN pages : pages' = Drop(pages, stem) /\ UNCHANGED <<landing, newer>>
     \/ landing' = <<>> /\ newer' = newer \ {"index"} /\ UNCHANGED pages
  /\ UNCHANGED sources

(* pkdoc.py --doc, of any sidecar. *)
WritePage(stem) ==
  /\ Change
  /\ stem \in DOMAIN sidecars /\ Renders(sidecars[stem])
  /\ pages' = Put(pages, stem, Page(sidecars[stem])) /\ newer' = newer \ {stem}
  /\ UNCHANGED <<sources, landing>>

(* The docs target: pages that are missing or older than their sidecar, their
   pickle or the manifest, in any order; it ends at the first that fails. *)
Due == {stem \in specs : stem \in newer \/ stem \notin DOMAIN pages}
Build ==
  /\ Change
  /\ LET good == {stem \in Due : stem \in DOMAIN sidecars /\ Renders(sidecars[stem])}
         Write(done) == [stem \in DOMAIN pages \cup done |->
                           IF stem \in done THEN Page(sidecars[stem]) ELSE pages[stem]]
         Relanded == landing' = (IF "index" \in newer THEN Landing ELSE landing)
     IN \/ /\ good = Due /\ pages' = Write(Due) /\ Relanded
           /\ newer' = newer \ (Due \cup {"index"})
        \/ /\ good # Due
           /\ \E done \in SUBSET good :
                /\ pages' = Write(done)
                /\ \/ newer' = newer \ done /\ UNCHANGED landing
                   \/ newer' = newer \ (done \cup {"index"}) /\ Relanded
  /\ UNCHANGED sources

DocsOver == outcome # "none" /\ UNCHANGED docsVars

DocsNext ==
  \/ \E stem \in Stems : EditPickle(stem) \/ EditSidecar(stem) \/ WritePage(stem)
  \/ EditManifest \/ EditSpecs \/ EditGenerated \/ Build
  \/ DocsCheck \/ DocsOver
DocsSpec == DocsInit /\ [][DocsNext]_docsVars

-----------------------------------------------------------------------------
(* The types of the state; no page shows a layout that is not four columns wide. *)
DocsTypeOK ==
  /\ DOMAIN definitions = Stems /\ DOMAIN sidecars \cup specs \cup DOMAIN pages \subseteq Stems
  /\ newer \subseteq Stems \cup {"index"} /\ changes \in 0..MaxChanges
  /\ outcome \in {"none", "passed", "failed"}
  /\ \A stem \in DOMAIN pages : \A layout \in pages[stem].layouts : layout.columns = 4

(* What a reader finds on a page: each documented type once, under names that its
   definition has; and coming from a section of the landing page, the anchor, and
   that section or one above it among those the page is about. *)
TrueOf(stem) ==
  LET shows == pages[stem].shows
  IN /\ \A t \in DOMAIN sidecars[stem].types : Cardinality({i \in DOMAIN shows : shows[i][1] = t}) = 1
     /\ \A i \in DOMAIN shows : shows[i][1] \in DOMAIN definitions[stem]
                                /\ shows[i][2] \subseteq definitions[stem][shows[i][1]]
     /\ \A i \in DOMAIN landing :
          landing[i].doc = stem =>
            /\ \E parent \in pages[stem].sections : landing[i].id \in Children[parent]
            /\ landing[i].anchor # Absent => landing[i].anchor \in pages[stem].anchors

(* When docs-check passes, this holds of the pages as they lie there, although it
   compares pages with sidecars, sidecars with pickles and with the manifest, and
   the manifest with the landing page, but never a page with a pickle or with the
   landing page's sections. *)
PagesTrue == outcome = "passed" => \A stem \in specs : TrueOf(stem)

(* docs/README.md: docs-check "byte-compares every tracked generated page with
   freshly rendered output". *)
EveryPageTrue == outcome = "passed" => \A stem \in DOMAIN pages \cap DOMAIN sidecars : TrueOf(stem)
=============================================================================
