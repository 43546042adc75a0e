CONSTANTS
  Prefixes = {p1, p2, p3}
  Segments = {s1, s2}
  Headers = {h1, h2}
  MaxOwners = 1
  MaxClasses = 2
  MaxRefs = 2
  MaxMessages = 3
  MaxAnalyses = 2

SPECIFICATION Spec
SYMMETRY MCSymmetry

INVARIANTS
  AliasReported NoFalseAlias RefsJudged
