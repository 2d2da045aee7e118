SPECIFICATION SessionSpec
CONSTANTS
  App = {a1}
  Conn = {c1}
  Self = a1
  Bus = c1
  Source = {s1}
  Message = {m1}
  Status = {}
  MaxRequest = 2
  MaxInFlight = 2
  MaxConnecting = 1
  MaxRestart = 0
INVARIANTS SessionTypeOK NothingLost
CHECK_DEADLOCK FALSE
