\* Positions of every kind, exported and created again.
SPECIFICATION Spec
CONSTANTS
  PosId = {1, 2}
  Entered = {1}
  TagId = {t1, t2}
  Name = {n1, n2}
  Month = {1, 2}
  Amount = {0, 1}
  Request <- Forms
  Revision <- Revisions
  Busy = {"liability", "stock", "bond", "time_deposit"}
  Member = {m1}
  owner = m1
  Joint = Joint
  Stranger = Stranger
  Primary = Primary
  Default = Default
  Blank = Blank
  Nil = Nil
  v = v
  w = w
  MaxWrites = 4
SYMMETRY Symmetric
INVARIANTS
  RoundTrips
  ResavingKeeps
PROPERTIES
  OnlyRacesWearDeadTags
CHECK_DEADLOCK FALSE
