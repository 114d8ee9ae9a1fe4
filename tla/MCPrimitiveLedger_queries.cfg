SPECIFICATION LedgerSpec
CONSTANTS
  NULL = NULL
  Text <- MCText
  Lower <- MCLower
  IntOf <- MCIntOf
  Address <- MCAddress
  WellFormedIds <- MCIds
  Callers <- TwoCallers
  ProviderArgs <- OneProvider
  StreamIdArgs <- OneId
  TypeArgs <- PrimitiveArg
  StreamBatches <- NoBatches
  MetadataArgs <- QueryArgs
  RecordBatches <- MCRecords
  TimeArgs <- MCTimes
  ValueArgs <- MCValues
  MaxHeight = 1
  MaxRows = 6
  MaxEvents = 3
  MaxInt8 = 1000
INVARIANTS OneRecordPerTime WindowIndependent
PROPERTY FrozenStable
CHECK_DEADLOCK FALSE
