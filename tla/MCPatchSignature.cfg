SPECIFICATION PatchSpec
CONSTANTS
  Modes <- OnlyInPlace
  Touchable = {}
  MaxDamage = 2
  MaxMishaps = 0
  MaxRounds = 1
INVARIANTS EachWritePlanned
