CONSTANTS
  Writers = {w1, w2}
  Tickers = {t1}
  Keys = {k1}
  NoKey = NoKey
  Domain = "audit"
  Retention = 0
  MaxStall = 0
  MaxRetries = 1
  MaxTime = 1
  MaxSeq = 3
SPECIFICATION LiveSpec
PROPERTIES HandlersReturn EventsGetAnchored
CHECK_DEADLOCK FALSE
