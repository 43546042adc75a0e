CONSTANTS
  Limits <- MCLimits
  Top = 9
  Interval = 3
  Costs = {1, 2, 6}
  Deaths = {0, 1, 139}
  MaxClock = 4

SPECIFICATION FairSpec

INVARIANTS
  StatusIsReported BudgetKept LooksOften KilledForSilence
PROPERTIES DriverEnds
