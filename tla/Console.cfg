CONSTANTS
  Null = Null
  root = root
  eve = eve
  ann = ann
  bob = bob
  Window = 7
  Day = 1
  Capacity = 4
  TransferLimit = 2
  AccessLife = 2
  RefreshGrace = 1
  Loads <- MCLoads
SPECIFICATION Spec
INVARIANTS SessionEndsForAReason TokensAreOfTheSession ViewShowsNewest PolicyIsEnforced
CHECK_DEADLOCK FALSE
