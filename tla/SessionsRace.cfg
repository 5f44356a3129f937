CONSTANTS
  Handlers = {p, q}
  Requests = {"login", "refresh"}
  Devices = {d1, d2}
  Scopes = {"full", "view"}
  Ttl = 2
  Lifetime = 1
  Grace = 0
  MaxTokens = 3
  MaxFamilies = 1
  MaxPasswords = 0
  MaxTime = 2
SPECIFICATION Spec
INVARIANTS NoFork LoginStampHolds
PROPERTIES ImplementsAbstract
SYMMETRY Symmetry
CHECK_DEADLOCK FALSE
