SPECIFICATION UndisturbedSpec
CONSTANTS
  App = {a1}
  Conn = {c1}
  Self = a1
  Bus = c1
  Source = {s1}
  Message = {m1}
  Status = {"away"}
  MaxRequest = 2
  MaxInFlight = 2
  MaxConnecting = 2
  MaxRestart = 1
INVARIANTS Converged RegisteredRuns
CHECK_DEADLOCK FALSE
