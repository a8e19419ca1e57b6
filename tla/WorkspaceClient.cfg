SPECIFICATION Spec
CONSTANTS
  main = main
  test = test
  a = a
  b = b
  Spaces = {main, test}
  Main = main
  Operators = {a, b}
  Place <- MCPlace
  Queries = {1, 2}
  None = None
  Window = 2
  Page = 1
  Bounds <- MCBounds
CHECK_DEADLOCK FALSE
INVARIANTS
  
  ViewFollowsOperator
PROPERTIES
  TrajectoryMovesForward
