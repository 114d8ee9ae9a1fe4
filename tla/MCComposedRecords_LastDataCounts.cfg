SPECIFICATION ComposedSpec
CONSTANTS
  NULL = NULL
  Text <- MCText
  Lower <- MCLower
  IntOf <- MCIntOf
  Address <- MCAddress
  WellFormedIds <- MCIds
  Callers <- BothProviders
  ProviderArgs <- BothProviders
  StreamIdArgs <- MCIds
  TypeArgs <- NoTypes
  StreamBatches <- NoBatches
  MetadataArgs <- NoArgs
  TaxonomyArgs <- MCLinks
  GroupArgs <- Groups
  Deployed <- FourStreams
  WindowArgs <- MCWindows
  MaxTaxonomies = 3
  RecordBatches <- NoRecords
  TimeArgs <- MCTimes
  ValueArgs <- MCValues
  MaxEvents = 2
  MaxHeight = 0
  MaxRows = 20
  MaxInt8 = 1000
INVARIANT LastDataCounts
CHECK_DEADLOCK FALSE
