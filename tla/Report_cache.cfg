\* Two users, two months, two snapshots and one row of each other kind.
SPECIFICATION Spec
CONSTANTS
  SnapshotRow = {s1, s2}
  EntryRow = {e1}
  RateRow = {r1}
  ParentRow = {p1}
  Month = {1, 2}
  Value = {x, y}
  Gone = Gone
  User = {u1, u2}
  Engine = {1, 2}
  MaxTime = 4
SYMMETRY Symmetric
INVARIANTS
  NothingOlderMissing
PROPERTIES
  KeepsPromise
  NotThrashed
CHECK_DEADLOCK FALSE
