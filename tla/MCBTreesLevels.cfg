CONSTANTS
  Nodes = {n1, n2, n3}
  Undefined = undefined
  Outside = outside
  Kinds = {"group"}
  MaxDepth = 1
  MaxChunks = 2
  MaxLevel = 2
  Fanout = 2
  MaxRecords = 1
  MaxTotal = 3
  MaxTrees = 2

SPECIFICATION Spec
SYMMETRY MCSymmetry
VIEW MCView

INVARIANT CleanIsReadAsNamed
