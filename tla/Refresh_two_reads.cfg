\* Two reads on either side of the turn of a month, whose refreshes may wait for one
\* another, and a writer.
SPECIFICATION FairSpec
CONSTANTS
  SnapshotRow = {s1}
  EntryRow = {e1}
  RateRow = {}
  ParentRow = {}
  Month = {1, 2}
  Value = {x}
  Gone = Gone
  Request = {q1, q2}
  Calendar = {1, 2}
  MaxOpen = 1
  MaxTime = 3
PROPERTIES
  OnlyRacesGoStale
  EveryReadEnds
CHECK_DEADLOCK FALSE
