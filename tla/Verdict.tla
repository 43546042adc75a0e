------------------------------- MODULE Verdict -------------------------------
(***************************************************************************)
(* What an h5policy analysis promises about its decision, with no finding  *)
(* list, no cap and no deduplication: the analysis establishes a set of    *)
(* finding classes, in any order and any number of times, and its process  *)
(* exit code is that of the gravest class established so far.              *)
(* h5_findings.pk computes the same code incrementally; module Findings    *)
(* shows that it implements this specification.                            *)
(***************************************************************************)
EXTENDS FindingClasses

Gravest(S) == CHOOSE k \in S : \A j \in S : ClassRank(j) <= ClassRank(k)

ExitCodeOf(S) == IF S = {} THEN ExitAccept ELSE ClassExitCode(Gravest(S))

VARIABLES established, exitCode

Init == established = {} /\ exitCode = ExitAccept

Begin == established' = {} /\ exitCode' = ExitAccept

Establish(klass) ==
  /\ established' = established \cup {klass}
  /\ exitCode' = ExitCodeOf(established')

Next == Begin \/ \E k \in Classes : Establish(k)

Spec == Init /\ [][Next]_<<established, exitCode>>
=============================================================================
