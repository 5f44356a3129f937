CONSTANTS
  Exporters = {x1, x2}
  Importers = {i1, i2}
  Users = {owner, other}
  Owner = owner
  Keys = {k1}
  MaxPerDay = 2
  Day = 1
  Earlier = 1
  Loads = {{x1, x2}, {i1, i2}}
  MaxMarks = 3
  MaxEvents = 3
  MaxTime = 1
SPECIFICATION Spec
INVARIANTS RetriesAgree AnswersAreRecorded ChargedOncePerLoss QuotaCountsCharges ImportsAreTraced
SYMMETRY Symmetry
CHECK_DEADLOCK FALSE
