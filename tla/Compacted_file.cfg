\* One position and one month: a close row, re-recorded, displaced in its turn.
SPECIFICATION Spec
CONSTANTS
  Position = {p1}
  Month = {1}
  Amount = {0, 1}
  UserAmount = {0, 1}
  Zero = 0
  SnapId = {s1, s2, s3}
  Nil = Nil
  Active = Active
  TerminalStatus = {Closed}
  Forgotten = Forgotten
SYMMETRY Symmetric
INVARIANT CompactedFileClosed
CHECK_DEADLOCK FALSE
