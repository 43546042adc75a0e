CONSTANTS
  Codes <- MCCodes
  CodeClass <- MCCodeClass
  AbsenceCode = "c_missing_storage"
  MarkerCode = "truncated"
  MaxFindings = 4
  MaxEvidence = 1
  MaxErrors = 3

SPECIFICATION Spec

PROPERTY LeftToItsOwnError
