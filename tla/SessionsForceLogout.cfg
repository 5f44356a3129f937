CONSTANTS
  Handlers = {p, q}
  Requests = {"login", "refresh", "force_logout"}
  Devices = {d1}
  Scopes = {"full"}
  Ttl = 1
  Lifetime = 1
  Grace = 1
  MaxTokens = 2
  MaxFamilies = 2
  MaxPasswords = 0
  MaxTime = 0
SPECIFICATION Spec
INVARIANT RevocationIsComplete
CHECK_DEADLOCK FALSE
