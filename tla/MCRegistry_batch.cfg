SPECIFICATION RegSpec
CONSTANTS
  NULL = NULL
  Text <- MCText
  Lower <- MCLower
  IntOf <- MCIntOf
  Address <- MCAddress
  WellFormedIds <- MCIds
  Callers <- MCCallers
  ProviderArgs <- MCProviders
  StreamIdArgs <- OneId
  TypeArgs <- MCTypes
  StreamBatches <- MCBatches
  MetadataArgs <- OwnerArgs
  MaxHeight = 0
  MaxRows = 10
INVARIANT Integrity
PROPERTY OwnerAuthority
CHECK_DEADLOCK FALSE
