SPECIFICATION PatchSpec
CONSTANTS
  Modes <- EveryMode
  Touchable = {"base", "element"}
  MaxDamage = 2
  MaxMishaps = 1
  MaxRounds = 4
INVARIANTS AppliesThePlan NoFalseSeal VerifiedIsRepaired Converges
PROPERTIES OthersKept
