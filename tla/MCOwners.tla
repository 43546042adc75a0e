------------------------------ MODULE MCOwners ------------------------------
EXTENDS Owners, TLC

\* Addresses are compared and nothing else.
MCSymmetry ==
  Permutations(Prefixes) \cup Permutations(Segments) \cup Permutations(Headers)
=============================================================================
