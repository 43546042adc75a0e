CONSTANTS
  FileEnd = 3
  Overhead = 2
  Budget = 1
  MaxHeaders = 2
  MaxTargets = 3

SPECIFICATION Spec

INVARIANTS ClaimedDisjoint CountExact CleanFollowsAll
