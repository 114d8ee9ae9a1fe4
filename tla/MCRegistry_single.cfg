SPECIFICATION SingleSpec
CONSTANTS
  NULL = NULL
  Text <- MCText
  Lower <- MCLower
  IntOf <- MCIntOf
  Address <- MCAddress
  WellFormedIds <- MCIds
  Callers <- MCCallers
  ProviderArgs <- MCProviders
  StreamIdArgs <- TwoIds
  TypeArgs <- MCTypes
  StreamBatches <- NoBatches
  MetadataArgs <- MCArgs
  MaxHeight = 1
  MaxRows = 7
INVARIANTS TypeOK SoleOwner
PROPERTIES ImplementsOwnership RowsImmutable AccessFollowsOwner
CHECK_DEADLOCK FALSE
