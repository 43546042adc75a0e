CONSTANTS
  Objects = {root, ext, a}
  Root = root
  Ext = ext
  PastEof = past_eof
  Outside = outside
  NoAddr = undefined
  Files <- MCFiles
  Options <- MCOptions
  Faults = {"corrupt"}
  Causes = {"operation_budget"}
  MaxBodies = 1

SPECIFICATION FairSpec

INVARIANTS
  AcceptMeansVetted ExtensionIsPrivate
  ConclusiveReport DepthIsDistance
PROPERTIES ValidatedOnce AnalysisEnds
