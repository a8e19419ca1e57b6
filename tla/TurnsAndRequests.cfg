SPECIFICATION ReadSpec
CONSTANTS
  a = a
  b = b
  s1 = s1
  s2 = s2
  s3 = s3
  c1 = c1
  c2 = c2
  Main = main
  space = space
  Keys = {a, b}
  Sessions = {s1, s2, s3}
  Chats = {c1, c2}
  Scopes = {main, space}
  None = None
  KeyOf <- MCKeyOf
  Requests = {1, 2, 3, 4}
  Urls = {"u"}
  Unattributed = Unattributed
  MaxRows = 2
  PageLimit = 1
  Bounds <- MCBounds
CHECK_DEADLOCK FALSE
INVARIANTS
  ThinkingIsTrue
  ShownPresetIsInUse
  WalkIsWhole
PROPERTIES
  SessionsKeepToThemselves
  ThinkingEnds
  EvidenceIsTrue
  WaitsEnd
