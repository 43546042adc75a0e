CONSTANTS
  None = None
  FindingCodes = {"plain", "shared", "held"}
  CaseFiles = {"x.yml", "y.yml"}
  FieldNames = {"field", "id"}
  Generic = {"id"}
  Documents = {"notes"}
  Families = {"index", "links"}
  Sites <- MCSites
  Matches <- MCMatches
  Targets <- MCTargets
  Base <- MCBase
  MaxEdits = 3
SPECIFICATION Spec
INVARIANTS EveryFindingAccounted RetiredNamesUncited ControlsBacked
