CONSTANTS
  Guessers = {h1, h2}
  MaxFails = 2
  Window = 1
  Cooldown = 2
  Threshold = 2
  IpWindow = 2
  MaxGuesses = 4
  MaxTime = 3
SPECIFICATION Spec
INVARIANTS GuessesAreCapped IncidentsAreReported
PROPERTIES LockHolds
SYMMETRY Symmetry
CHECK_DEADLOCK FALSE
