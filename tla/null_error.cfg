SPECIFICATION Spec
CONSTANTS
  App = {a1}
  Conn = {c1}
  Source = {}
  Message = {}
  MaxRequest = 1
INVARIANTS NeverCrashes
