------------------------ MODULE MCSceneMessages ------------------------
(* Instances of SceneMessages for TLC: the bounds are a set, so that one run explores
   branches, forwards and uploads each at depth instead of all at once. *)
EXTENDS SceneMessages

CONSTANTS d, g, f1, f2

Bound(roots, messages, limit, instances, media, forwards, recalls) ==
  [roots |-> roots, messages |-> messages, limit |-> limit, instances |-> instances,
   media |-> media, forwards |-> forwards, recalls |-> recalls]

MCBounds ==
  { Bound({g}, 4, 3, 3, {}, 0, 0),            \* branches of branches
    Bound({d, g}, 4, 2, 1, {f1}, 2, 1),       \* forwards across conversations
    Bound({d}, 3, 2, 0, {f1, f2}, 1, 0) }     \* uploads
=============================================================================
