SPECIFICATION Spec
CONSTANTS
  App = {a1, a2}
  Conn = {c1}
  Source = {s1}
  Message = {m1}
  MaxRequest = 2
SYMMETRY Applications
INVARIANTS AttentionNotMissed RootReflectsApps ClearOnlyWithItems
PROPERTIES SectionsStay ImplementsMenu
