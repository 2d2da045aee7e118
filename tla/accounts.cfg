SPECIFICATION Spec
CONSTANTS
  MaxChange = 3
  MaxWire = 2
INVARIANTS AccountsInv LatestUser FlagOnItsWay
PROPERTIES ProxyReturns
