SPECIFICATION Spec
CONSTANTS
  App = {a1}
  Conn = {c1, c2}
  Source = {}
  Message = {}
  MaxRequest = 2
PROPERTIES VanishSparesOthers
