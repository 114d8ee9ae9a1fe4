SPECIFICATION TaxonomySpec
CONSTANTS
  NULL = NULL
  Text <- MCText
  Lower <- MCLower
  IntOf <- MCIntOf
  Address <- MCAddress
  WellFormedIds <- MCIds
  Callers <- TwoCallers
  ProviderArgs <- OneProvider
  StreamIdArgs <- OneId
  TypeArgs <- AllTypes
  StreamBatches <- NoBatches
  MetadataArgs <- NoArgs
  TaxonomyArgs <- MCTaxonomies
  GroupArgs <- Groups
  MaxTaxonomies = 4
  MaxHeight = 1
  MaxRows = 10
INVARIANTS TaxonomyTypeOK VersionsWhole LatestIsWhole
PROPERTY DefinitionsImmutable
CHECK_DEADLOCK FALSE
