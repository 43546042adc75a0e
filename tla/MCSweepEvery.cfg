CONSTANTS
  Cells = {0, 1, 2, 3, 5, 7}
  Base = 8
  Masks <- MCMasks
  Objhdr = 4
  Align = 2
  Slack = 1
  Sizes <- MCSizes

SPECIFICATION SweepSpec

INVARIANT
  EveryStuckReported
