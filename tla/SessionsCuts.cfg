CONSTANTS
  Handlers = {p, q}
  Requests = {"login", "refresh", "logout", "change", "force_logout", "disable_account", "set_status"}
  Devices = {d1, d2}
  Scopes = {"full"}
  Ttl = 2
  Lifetime = 2
  Grace = 1
  MaxTokens = 2
  MaxFamilies = 2
  MaxPasswords = 1
  MaxTime = 0
SPECIFICATION Spec
INVARIANTS OnlyRefreshesEscape OldPasswordShutOut
SYMMETRY Symmetry
CHECK_DEADLOCK FALSE
