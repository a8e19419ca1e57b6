SPECIFICATION Spec
CONSTANTS
  Calls = {c1, c2}
  Sends = {s1, s2}
  Applies = {a1}
  Payloads = {p1, p2}
  Tokens = {t1, t2}
  Operations = {reset, clear}
  Resets = {reset}
  CacheLimit = 1
  MaxChanges = 2
  MaxEpoch = 2
SYMMETRY Symmetry
INVARIANTS
  AnswersAreKept
  ReplayIsOfThisEpoch

  
CHECK_DEADLOCK FALSE
