CONSTANTS
  Writers = {w1, w2}
  Tickers = {t1}
  Keys = {k1}
  NoKey = NoKey
  Domain = "audit"
  Retention = 2
  MaxStall = 1
  MaxRetries = 1
  MaxTime = 4
  MaxSeq = 3
SPECIFICATION Spec
INVARIANTS LedgerVerifies HistoryKept DuplicatesAreOld RetriesArePaidFor
PROPERTIES PruneWithinWindow ImplementsAbstract
SYMMETRY Symmetry
CHECK_DEADLOCK FALSE
