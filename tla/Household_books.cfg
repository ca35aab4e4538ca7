\* One position of each kind, the stock in another currency.
SPECIFICATION Spec
CONSTANTS
  Home = "home"
  None = None
  Bank = "bank"
  Position <- Positions
  Kind <- Kinds
  Currency <- Currencies
  Rate = {1, 2}
  Amount = {2}
  Cash = 3
  LastMonth = 3
  MaxEvents = 3
INVARIANTS
  ExpensesAreSpending
  ReturnsAreGains
  PlacementIsNewMoney
  NoFalseAlarm
PROPERTIES
  PastIsSettled
CHECK_DEADLOCK FALSE
