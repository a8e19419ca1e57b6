-------------------------- MODULE MCWorkspaceClient --------------------------
(* Instances of WorkspaceClient for TLC: a page that moves between two spaces while others
   change them, one that also reads the history of a conversation, one whose user does more
   at once, and the model request panel. *)
EXTENDS WorkspaceClient, TLC

CONSTANTS main, test, a, b

MCPlace == a :> 1 @@ b :> 2

Bound(spaces, sent, asks, deletes, changes, queries) ==
  [spaces |-> spaces, sent |-> sent, asks |-> asks, deletes |-> deletes, changes |-> changes,
   queries |-> queries]

MCBounds ==
  { Bound({main, test}, 1, 2, {a, b}, 1, 0), Bound({main}, 5, 2, {a, b}, 1, 0),
    Bound({main}, 5, 3, {}, 0, 0), Bound({main}, 1, 0, {}, 0, 4) }
=============================================================================
