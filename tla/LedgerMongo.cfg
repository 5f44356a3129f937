CONSTANTS
  Writers = {w1}
  Tickers = {t1, t2}
  Keys = {}
  NoKey = NoKey
  Domain = "audit"
  Retention = 2
  MaxStall = 1
  MaxRetries = 1
  MaxTime = 3
  MaxSeq = 3
SPECIFICATION MongoSpec
INVARIANTS SuffixSurvives AlarmsSpareTheLinks
CHECK_DEADLOCK FALSE
