------------------------ MODULE MCSceneRelations ------------------------
(* Instances of SceneRelations for TLC: a test space, which starts without participants. *)
EXTENDS SceneRelations, TLC

MCInitialScene ==
  [participants |-> {}, groups |-> {}, members |-> [g \in Groups |-> {}], friends |-> {},
   requests |-> {}, directRoots |-> {}, groupRoots |-> {}]

UserSymmetry == Permutations(Users)
=============================================================================
