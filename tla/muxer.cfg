SPECIFICATION Spec
CONSTANTS
  Prefix = {p1, p2}
  Group = {g1, g2, g3}
  Name = {x, y}
  NULL = NULL
INVARIANTS MuxerInv MirrorIsList GroupsLetGo
