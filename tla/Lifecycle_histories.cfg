\* Two positions, two months, four rows: room for a close row that was re-recorded and
\* displaced in its turn, for a termination that moves to another month, and for
\* batches and flips of one position beside the other.
SPECIFICATION Spec
CONSTANTS
  Position = {p1, p2}
  Month = {1, 2}
  Amount = {0, 1, 2}
  UserAmount = {0, 1, 2}
  Zero = 0
  SnapId = {s1, s2, s3, s4}
  Nil = Nil
  Active = Active
  TerminalStatus = {Closed}
  Forgotten = Forgotten
SYMMETRY Symmetric
INVARIANTS
  TypeOK
  SupersedesSound
  UnterminateNeverFails
  CompactedKeepsUndo
PROPERTIES
  UnterminateRestores
  ReactivatedMonthNotZero
CHECK_DEADLOCK FALSE
