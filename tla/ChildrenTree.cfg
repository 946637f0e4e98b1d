\* A tree with a cycle, walked whole, and a tree that the bounds cut short.
CONSTANTS
  r = r
  a = a
  b = b
  c = c
  d = d
  SessionIDs = {r, a, b, c, d}
  Absent = Absent
  Worlds <- BothWorlds
SPECIFICATION Spec
INVARIANTS
  ShapeIsTopology
  NothingOutlives
  BusyIsSound
PROPERTIES
  WalkReturns
