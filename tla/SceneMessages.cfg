SPECIFICATION MessagesSpec
CONSTANTS
  d = d
  g = g
  f1 = f1
  f2 = f2
  Roots = {d, g}
  Direct = {d}
  Media = {f1, f2}
  None = None
  MaxPinned = 1
  MaxNodes = 2
  Bounds <- MCBounds
INVARIANTS
  MessagesAreWhole
PROPERTIES
  LosesOldestFirst
  MediaIsKept
