----------------------------- MODULE MCSpecDocs ------------------------------
(* Two pickles, one of them without a page yet; a section with two below it. *)
EXTENDS SpecDocs

MCOrder == <<"III", "III.A", "III.B">>
MCChildren == [id \in ToSet(MCOrder) |-> IF id = "III" THEN ToSet(MCOrder) ELSE {id}]
Row(id, doc, anchor, status) == [id |-> id, doc |-> doc, anchor |-> anchor, status |-> status]
Layout(columns) == [type |-> "Node", fields |-> {"sign"}, columns |-> columns]
Sidecar(order) ==
  [types |-> [t \in {"Node"} |-> {"sign"}], order |-> order, layouts |-> {},
   sections |-> {"III.A"}, anchors |-> {"node"}]
MCStart ==
  [pickles |-> [stem \in {"heap", "tree"} |-> [t \in {"Node"} |-> {"sign", "size"}]],
   sidecars |-> [stem \in {"tree"} |-> Sidecar(<<"Node">>)],
   draft |-> [Sidecar(Absent) EXCEPT !.sections = {"III.B"}],
   manifest |-> <<Row("III", Absent, Absent, "not-covered"), Row("III.A", "tree", "node", "covered"),
                  Row("III.B", Absent, Absent, "not-covered")>>,
   orders |-> {<<"Node">>, <<"Leaf">>, <<"Node", "Node">>, <<"Node", "Leaf">>},
   layouts |-> {Layout(3), Layout(4)}, anchors |-> {"node"}]
=============================================================================
