------------------------------ MODULE MCBTrees ------------------------------
(* Instances of BTrees for TLC. *)
EXTENDS BTrees, TLC

MCSymmetry == Permutations(Nodes)

\* What was named and decoded is only asked of an analysis without findings, so
\* that states that differ in nothing else have the same future.
MCView ==
  <<tree, stack, due, visited, counts, ceilings, findings, trees, reads, leaves,
    tally, verdict, IF findings = {} THEN <<named, decoded, unread>> ELSE <<>>>>
=============================================================================
