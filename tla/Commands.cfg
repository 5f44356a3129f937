CONSTANTS
  Admins = {a1, a2}
  Pollers = {p1, p2}
  Ackers = {k1}
  Ids = {c1}
  MaxChanges = 2
SPECIFICATION Spec
INVARIANTS AuditMatchesQueue DeliveryIsSound LedgerKnowsStatus
PROPERTIES FinalIsFinal
SYMMETRY Symmetry
CHECK_DEADLOCK FALSE
