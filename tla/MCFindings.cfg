CONSTANTS
  Codes <- MCCodes
  CodeClass <- MCCodeClass
  AbsenceCode = "c_missing_storage"
  MarkerCode = "truncated"
  MaxFindings = 2
  MaxEvidence = 1
  MaxErrors = 3

SPECIFICATION Spec

INVARIANTS TerminalMarker NothingLostSilently
PROPERTY ImplementsVerdict
