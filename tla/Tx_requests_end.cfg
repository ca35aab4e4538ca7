\* Two requests over the same months: deletions, lifecycle requests and batches that
\* wait for one another.
SPECIFICATION RequestsSpec
CONSTANTS
  Position = {p1}
  Month = {1, 2}
  Amount = {0, 1}
  UserAmount = {1}
  Zero = 0
  SnapId = {1, 2, 3, 4}
  Nil = Nil
  Tx = {t1, t2}
PROPERTIES
  EveryRequestEnds
CHECK_DEADLOCK FALSE
