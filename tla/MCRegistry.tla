------------------------------ MODULE MCRegistry -----------------------------
(* One record family with a code of its own, two that share a code, and one code
   on the backlog. *)
EXTENDS RegistryGate

Case(client, code, message, shown) ==
  [client |-> client, code |-> code, message |-> message, shown |-> shown]
Seen(client, code, message) == Case(client, code, message, {"code", "message"})
Hidden(client, code, message) == Case(client, code, message, {"code"})
Site(file, place, form, seen) == [file |-> file, place |-> place, form |-> form, cases |-> seen]

(* One check engine has its clients in two files. *)
BaseSites ==
  {Site("chunk", "emit", "literal", {Seen("chunk", "plain", {"a"})}),
   Site("dense", "emit", "spec",
        {Seen("dense", "shared", {"a"}), Seen("chunk", "plain", {"b"}), Seen("walk", "shared", {})}),
   Site("dense", "emit", "role", {Seen("dense", "shared", {"a", "b"})}),
   Site("walk", "body", "opaque", {Seen("walk", "held", {"c"})}),
   Site("walk", "unlisted", "literal", {Seen("walk", "held", {"a"})})}

(* Two clients of one file with different codes; one that composes its message. *)
MCSites ==
  BaseSites \cup
  {Site("walk", "emit", "literal", {Seen("walk", "shared", {"c"})}),
   Site("chunk", "emit", "opaque", {Seen("chunk", "plain", {"a"})}),
   Site("chunk", "emit", "spec", {Seen("chunk", "shared", {"a"}), Seen("chunk", "plain", {"c"})}),
   Site("chunk", "emit", "spec", {Seen("dense", "shared", {"a"}), Hidden("chunk", "shared", {"c"})}),
   Site("chunk", "emit", "specMessage",
        {Seen("dense", "shared", {"b", "c"}), Seen("chunk", "shared", {})}),
   Site("chunk", "emit", "role", {Seen("dense", "shared", {"a"}), Hidden("chunk", "shared", {"c"})})}
MCMatches == {{"b"}, {"a", "b"}}
MCTargets ==
  {[record |-> "index", invariant |-> "reads"], [record |-> "links", invariant |-> None],
   [record |-> "links", invariant |-> "reads"], [record |-> "lost", invariant |-> None]}

Item(code, record, invariant, ambiguous, files_) ==
  [code |-> code, record |-> record, invariant |-> invariant, ambiguous |-> ambiguous,
   embedsContexts |-> FALSE, complete |-> TRUE, emittedIn |-> files_]
Observed == {<<"enforced", "one.yml">>}
MCBase ==
  [pickles |-> BaseSites,
   catalog |->
     {[name |-> "index", record |-> "index", readable |-> TRUE,
       entries |-> {Item("plain", "index", "reads", FALSE, {"chunk"})}],
      [name |-> "links", record |-> "links", readable |-> TRUE,
       entries |-> {Item("shared", "links", "owns", TRUE, {"dense"})}]},
   routes |->
     {[name |-> "shared", finding |-> "shared", readable |-> TRUE,
       rules |-> <<[record |-> "links", invariant |-> None, match |-> {"a"}],
                   [record |-> "index", invariant |-> "reads", match |-> {"a", "b"}]>>]},
   backlog |-> [c \in {"held"} |-> {"walk"}],
   coverage |->
     [r \in {"index", "links"} |->
        [claim |-> IF r = "index" THEN "enforced" ELSE "unmeasured",
         invariants |-> IF r = "index" THEN [i \in {"reads"} |-> {"plain", "shared"}]
                        ELSE [i \in {"owns"} |-> {"shared"}]]],
   inventory |-> {},
   measured |-> [r \in {"index"} |-> [verdict |-> "enforced", on |-> Observed]], verified |-> {"index", "links"}, summary |-> 1,
   expected |-> [x \in {"one.yml"} |->
                   [file |-> "one.h5", required |-> {"plain"}, mayMiss |-> FALSE, readable |-> TRUE]],
   specimens |-> {"one.h5"},
   controls |-> {[id |-> "TEST-05", record |-> "index", invariant |-> "reads", finding |-> "plain",
                  fixture |-> "one.yml", canary |-> "h5dump", decision |-> "reject",
                  verdict |-> "enforced", observed |-> {"enforced"}]},
   seen |-> Observed, canaries |-> [r \in {"index", "links"} |-> "h5dump"],
   fixtures |-> [x \in {"one.yml"} |-> [family |-> "index", decision |-> "reject"]],
   consumer |-> {"TEST-05"},
   cases |-> [f \in {"x.yml", "y.yml"} |-> {"field"}]]
=============================================================================
