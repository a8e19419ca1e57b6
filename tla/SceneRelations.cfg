SPECIFICATION Spec
CONSTANTS
  Users = {u1, u2}
  Bots = {b1}
  Groups = {g1}
  InitialScene <- MCInitialScene
  NoOne = NoOne
  NoGroup = NoGroup
  MaxRequests = 2
  MaxCalls = 1

  
  
PROPERTIES
  OwnerIsLostToOverlapOnly
SYMMETRY UserSymmetry
