SPECIFICATION Spec
CONSTANTS
  Person = {f, m}
  Tx = {t1, t2}
  Nil = Nil
  MaxId = 8
  MaxTx = 2
  MaxRequests = 1
  Idle = FALSE
INVARIANTS
  QuietFileRestores
  OnlyRacesFail
PROPERTIES
  RestoreIsWhole
  RestorerComesBack
SYMMETRY Symmetry
CHECK_DEADLOCK FALSE
