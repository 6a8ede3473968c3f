CONSTANTS
  MaxId = 2
  Names = {"ANN", "BOB"}
  Keys <- MCKeys
  Canonical <- MCCanonical
  MaxMoves = 2
  Recorders = {1, 2}
  Accounts = {"ANN"}
  NoAccount = ""
  Entries <- MCEntries
  auditWindow = 2
  Ages = {0, 1}
  Garbled = Garbled
  RowsValues = {Garbled, 1}
  TopAuditRows = 2
  DefaultAuditMaxRows = 2
  Limits = {0, 2}
  defaultLimit = 1
  MaxTime = 3
  MaxEvents = 2
SPECIFICATION MaintenanceSpec
INVARIANTS SavedAsSubmitted AuditExact
PROPERTIES OthersKept AuditLogExact
