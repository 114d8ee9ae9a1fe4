SPECIFICATION OneByOneSpec
CONSTANTS
  NULL = NULL
  Text <- MCText
  Lower <- MCLower
  IntOf <- MCIntOf
  Address <- MCAddress
  WellFormedIds <- MCIds
  Callers <- TwoCallers
  ProviderArgs <- OneProvider
  StreamIdArgs <- OneId
  TypeArgs <- LedgerTypes
  StreamBatches <- NoBatches
  MetadataArgs <- GrantArgs
  RecordBatches <- NoRecords
  TimeArgs <- MCTimes
  ValueArgs <- OneValue
  MaxHeight = 1
  MaxRows = 10
  MaxEvents = 2
  MaxInt8 = 1000
INVARIANTS LedgerTypeOK EventIntegrity
PROPERTY EventsImmutable
CHECK_DEADLOCK FALSE
