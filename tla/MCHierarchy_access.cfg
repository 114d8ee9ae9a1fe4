SPECIFICATION HierarchySpec
CONSTANTS
  NULL = NULL
  Text <- MCText
  Lower <- MCLower
  IntOf <- MCIntOf
  Address <- MCAddress
  WellFormedIds <- MCIds
  Callers <- TwoCallers
  ProviderArgs <- BothProviders
  StreamIdArgs <- OneId
  TypeArgs <- NoTypes
  StreamBatches <- NoBatches
  MetadataArgs <- AccessRows
  TaxonomyArgs <- ReadLinks
  GroupArgs <- FirstGroup
  Deployed <- OneOfEach
  WindowArgs <- AccessWindows
  MaxTaxonomies = 1
  MaxHeight = 0
  MaxRows = 12
  MaxInt8 = 1000
INVARIANTS ReadAllIsReadEach ComposeAllIsEachLink
PROPERTY ComposeFollowsOwner
CHECK_DEADLOCK FALSE
