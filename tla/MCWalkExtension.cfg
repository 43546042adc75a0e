CONSTANTS
  Objects = {root, ext, a}
  Root = root
  Ext = ext
  PastEof = past_eof
  Outside = outside
  NoAddr = undefined
  Files <- MCPastEofFiles
  Options <- MCDefaultOptions
  Faults = {"corrupt"}
  Causes = {}
  MaxBodies = 0

SPECIFICATION Spec

INVARIANT ExtensionVetted
