------------------------------ MODULE Registry ------------------------------
(***************************************************************************)
(* The sharded finding registry: tools/finding_registry.py loads catalog   *)
(* shards (one per record family) and route shards (one per ambiguous      *)
(* code) or refuses them, and resolve_finding of tools/h5cve maps a        *)
(* finding that h5policy emitted to its record family by its message.      *)
(*                                                                         *)
(* A message is the set of its words and a match a set of words; "in" is   *)
(* inclusion and the length of a match its number of words, so that of two *)
(* matches of which one contains the other the longer is the container,    *)
(* which is all that the order of the rules depends on.  What cannot be    *)
(* parsed, has another schema version or unknown keys is not "readable".   *)
(***************************************************************************)
EXTENDS Naturals, FiniteSets, SequencesExt

CONSTANTS
  None,        \* a field that is not there
  FindingCodes \* what starts with H5_

(* A catalog shard is a record of its file's base name, the record family it
   names, and its entries; an entry has a code and the fields of the entry.  Two
   entries with one code are a duplicate key.  A route shard has its file's base
   name, the code it names, and its rules in source order, the groups of matches
   already flattened. *)
Entries(catalog) == UNION {shard.entries : shard \in catalog}

(* _load_catalog raises RegistryError. *)
CatalogError(catalog) ==
  \/ catalog = {}
  \/ \E shard \in catalog :
       \/ ~shard.readable \/ shard.record = None \/ shard.name # shard.record
       \/ shard.entries = {}
       \/ \E e \in shard.entries :
            e.code \notin FindingCodes \/ e.record # shard.record \/ e.embedsContexts
  \/ \E e, f \in Entries(catalog) : e # f /\ e.code = f.code
  \/ \E s, t \in catalog : s # t /\ s.entries \cap t.entries # {}

Entry(catalog, code) == CHOOSE e \in Entries(catalog) : e.code = code
Catalogued(catalog) == {e.code : e \in Entries(catalog)}

(* _load_routes raises RegistryError. *)
RouteError(catalog, routes) ==
  \/ routes = {}
  \/ \E shard \in routes :
       \/ ~shard.readable \/ shard.finding = None \/ shard.name # shard.finding
       \/ shard.finding \notin Catalogued(catalog)
       \/ ~Entry(catalog, shard.finding).ambiguous
       \/ shard.rules = <<>>
       \/ \E i \in DOMAIN shard.rules :
            LET rule == shard.rules[i]
            IN rule.record = None \/ rule.match = {}
               \/ \E j \in 1..(i - 1) : shard.rules[j].match = rule.match

LoadError(catalog, routes) == CatalogError(catalog) \/ RouteError(catalog, routes)

(* The rules of a code, in source order. *)
Contexts(routes, code) ==
  IF \E shard \in routes : shard.finding = code
  THEN (CHOOSE shard \in routes : shard.finding = code).rules
  ELSE <<>>

(* The order in which they are tried: longest match first, the source order
   among equals. *)
TriedBefore(rules, i, j) ==
  LET length(k) == Cardinality(rules[k].match)
  IN length(i) > length(j) \/ (length(i) = length(j) /\ i < j)

(* What load_findings returns. *)
LoadFindings(catalog, routes) ==
  [code \in Catalogued(catalog) |->
     [entry |-> Entry(catalog, code), contexts |-> Contexts(routes, code)]]

-----------------------------------------------------------------------------
(* resolve_finding *)
Nowhere == [record |-> None, invariant |-> None]

(* The place of the first rule tried whose match is in the message, if any. *)
FirstMatch(rules, message) ==
  LET matching == {i \in DOMAIN rules : rules[i].match \subseteq message}
  IN {i \in matching : \A j \in matching \ {i} : TriedBefore(rules, i, j)}

Resolve(findings, code, message) ==
  IF code \notin DOMAIN findings THEN Nowhere
  ELSE LET entry == findings[code].entry
           rules == findings[code].contexts
           first == FirstMatch(rules, message)
           rule == rules[CHOOSE i \in first : TRUE]
       IN IF ~entry.ambiguous THEN [record |-> entry.record, invariant |-> entry.invariant]
          ELSE IF first = {} THEN Nowhere
          ELSE [record |-> rule.record,
                invariant |-> IF rule.invariant # None THEN rule.invariant
                              ELSE IF rule.record = entry.record THEN entry.invariant
                              ELSE None]
=============================================================================
