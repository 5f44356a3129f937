CONSTANTS
  MaxLen = 3
  MaxFaults = 2
SPECIFICATION Spec
INVARIANT VerifyIsExact
CHECK_DEADLOCK FALSE
