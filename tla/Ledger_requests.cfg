SPECIFICATION Spec
CONSTANTS
  Position = {p1, p2, p3}
  Born = {p1}
  Busy = {p1}
  Month = {0, 1}
  Amount = {zero, x}
  UserAmount = {x}
  Zero = zero
  SnapId = {s1, s2, s3, s4}
  TxnId = {t1, t2}
  Nil = Nil
  Forgotten = Forgotten
  Date <- Days
  DaysPerMonth = 2
  Client = {c1, c2}
  MaxRequests = 3
INVARIANTS
  NoLiveChild
  EndedReadsZero
  DepositInTerm
  MaturesOnce
  CloseRowAtEnd
  OneSuccessor
PROPERTIES
  ReopeningRestores
SYMMETRY Symmetry
CHECK_DEADLOCK FALSE
