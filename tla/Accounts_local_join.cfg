SPECIFICATION Spec
CONSTANTS
  Email = {f, g, m, a}
  Google = {f, a}
  Household = {1, 2, 3}
  Founders = {f, g}
  Restored = {m}
  SessionId = {1, 2, 3}
  InviteId = {1, 2}
  HandshakeId = {1}
  TokenId = {1, 2}
  Client = {c1, c2}
  Nil = Nil
  HandshakeTTL = 1
  ResetTTL = 1
  RelayTTL = 2
  InviteTTL = 1
  SessionTTL = 2
  MaxTime = 1
  MaxRequests = 3
INVARIANTS
  ReachableOrDormant
SYMMETRY Symmetry
CHECK_DEADLOCK FALSE
