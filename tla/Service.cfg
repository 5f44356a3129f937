CONSTANTS
  Handlers = {h1, h2}
  Nobody = Nobody
  root = root
  ann = ann
  bob = bob
  e1 = e1
  d1 = d1
  d2 = d2
  Width4 = 2
  Width6 = 3
  Private <- MCPrivate
  CountryOf <- MCCountryOf
  BucketOf <- MCBucketOf
  Loads <- MCLoads
  MaxAttempts = 2
  MaxSends = 2
  SendWindow = 2
  CodeTtl = 1
  TravelWindow = 2
  MinTravel = 1
  MinKm = 2
  MaxKmh = 3
  DeadMan = 1
  Day = 2
  SeriesCap = 2
  MaxAccounts = 2
  UsageTtl = 3
SPECIFICATION Spec
INVARIANTS GateIsTight AuthorityIsOnLedger AccountsAreUnique CodesAreBounded SeriesIsFaithful
PROPERTIES ViewersOnlyRead DeviceKeepsOwner TravelIsFlagged
SYMMETRY Symmetry
CHECK_DEADLOCK FALSE
