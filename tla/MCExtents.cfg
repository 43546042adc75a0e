CONSTANTS
  Top = 3
  FileEnd = 3
  Records = {r1, r2}
  MaxMeta = 1
  MaxChecks = 2
  MaxSize = 2
  MaxMetaRead = 2
  MaxContiguous = 1

SPECIFICATION Spec

INVARIANTS RecordedDisjoint CollisionsReported NoFalseOverlap
