\* Two requests and the users' own writes on one position.
SPECIFICATION TxSpec
CONSTANTS
  Position = {p1}
  Month = {1, 2}
  Amount = {0, 1}
  UserAmount = {0, 1}
  Zero = 0
  SnapId = {1, 2, 3}
  Nil = Nil
  Tx = {t1, t2}
SYMMETRY Symmetric
INVARIANTS
  TableSound
PROPERTIES
  TerminationReadsZero
  BatchWhole
CHECK_DEADLOCK FALSE
