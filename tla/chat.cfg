SPECIFICATION ChatSpec
CONSTANTS
  App = {a1, a2}
  Status = {0, 2, 4}
  MaxInFlight = 2
  MaxRestart = 1
SYMMETRY Applications
INVARIANTS ChatTypeOK PanelIsMostAvailable UserChoiceWins StatusArrives
