CONSTANTS
  Limits <- MCTightLimits
  Top = 9
  Interval = 3
  Costs = {1, 2}
  Deaths = {1}
  MaxClock = 4

SPECIFICATION Spec

INVARIANT BudgetNotAccepted
