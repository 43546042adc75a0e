------------------------------ MODULE Routing -------------------------------
(***************************************************************************)
(* tools/message_routing.py: which messages the pickles can emit, read off *)
(* their source text, and which of them resolve to no record family.       *)
(*                                                                         *)
(* An emit site is abstracted to the file it stands in, where and how it   *)
(* calls, the form of its code and message expressions, and its cases: one *)
(* per caller or client that makes it emit something else, with the file   *)
(* that client stands in, the code and the message it emits then, and      *)
(* which of the two the source shows as a literal.  The expansion of a     *)
(* composing helper's call into one case for each of its codes and         *)
(* suffixes is part of the site: the table that restates them is taken to  *)
(* agree with the helper.                                                  *)
(***************************************************************************)
EXTENDS Registry

(* "emit": EMIT_SITES and COMPOSING_HELPERS; "body": a listed function calls it
   in its own definition; "unlisted": a function in neither table emits. *)
Places == {"emit", "body", "unlisted"}

(* "literal": a literal code and message; "role": a literal concatenated with
   a role parameter or role global; "spec": code and message are fields of a
   client's spec; "specMessage": only the message is; "opaque": anything else. *)
Forms == {"literal", "role", "spec", "specMessage", "opaque"}

(* What the program emits.  A client that leaves its message field "" does not
   run the check at all. *)
Emits(site) ==
  {<<c.code, c.message>> : c \in {d \in site.cases : site.form \in {"spec", "specMessage"} => d.message # {}}}

(* _role_values and _role_params: what the callers pass as a literal. *)
RoleValues(site) ==
  {<<c.code, c.message>> : c \in {d \in site.cases : "message" \in d.shown}}

(* _spec_fields: the literals that a file assigns to a field, "" among them. *)
SpecFields(site, client, field) ==
  {c[field] : c \in {d \in site.cases : d.client = client /\ field \in d.shown}}

(* Fields are grouped by file, so that a code goes with every message of the clients
   in its own; a client whose field is no literal adds nothing.  "" is dropped. *)
SpecPairs(site) ==
  UNION {SpecFields(site, client, "code") \X (SpecFields(site, client, "message") \ {{}}) :
           client \in {c.client : c \in site.cases}}
SpecMessages(site) == {p \in RoleValues(site) : p[2] # {}}

(* The values the two expressions can take as the source text shows them. *)
Resolved(site) ==
  CASE site.form = "literal" -> {<<c.code, c.message>> : c \in site.cases}
    [] site.form = "role" -> RoleValues(site)
    [] site.form = "spec" -> SpecPairs(site)
    [] site.form = "specMessage" -> SpecMessages(site)
    [] OTHER -> {}

(* A call in a function that neither table lists is not looked at. *)
Extracted(site) == IF site.place = "unlisted" THEN {} ELSE Resolved(site)

(* What is reported: a call outside of the listed functions whose code or message
   cannot be told, of a spec only if no client shows the field at all. *)
Unanalyzable(site) ==
  /\ site.place = "emit" /\ site.cases # {}
  /\ \/ site.form \in {"role", "specMessage", "opaque"} /\ Resolved(site) = {}
     \/ /\ site.form = "spec"
        /\ \E field \in {"code", "message"} : \A c \in site.cases : field \notin c.shown

Extract(sites) == UNION {Extracted(s) : s \in sites}

(* unrouted: the messages of ambiguous codes that resolve to no record. *)
Unrouted(sites, findings) ==
  {p \in Extract(sites) :
     /\ p[1] \in DOMAIN findings /\ findings[p[1]].entry.ambiguous
     /\ Resolve(findings, p[1], p[2]).record = None}
=============================================================================
