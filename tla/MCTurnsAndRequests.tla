-------------------------- MODULE MCTurnsAndRequests --------------------------
(* Instances of ThinkingTurns, RequestCapture and FederatedRead for TLC: two sessions of one
   bot in a conversation and one of another, in one scope or in two, with or without a chat
   that both bots use; two requests of a bot in a space that fail, are overtaken, or whose
   store is cleared; a walk over the records of two scopes. *)
EXTENDS FederatedRead

CONSTANTS a, b, s1, s2, s3, c1, c2, space

MCKeyOf == (s1 :> a) @@ (s2 :> a) @@ (s3 :> b)

NoRecords == [p \in {Main, space, Unattributed} |-> <<>>]
Nothing == [requests |-> {}, character |-> TRUE, outcomes |-> {}, failures |-> FALSE,
            strangers |-> 0, overlap |-> 0, clears |-> 0, started |-> 0, until |-> 0, spaces |-> {},
            stored |-> {NoRecords}, walks |-> FALSE]
Turns(sessions, scopes, users, tokens, n, reloads, forgets) ==
  Nothing @@
  [sessions |-> sessions, scopeOf |-> scopes, users |-> users, tokens |-> tokens,
   replies |-> n, reloads |-> reloads, forgets |-> forgets]
OneScope == (a :> Main) @@ (b :> Main)
TwoScopes == (a :> Main) @@ (b :> space)
Apart == (c1 :> {a}) @@ (c2 :> {b})
Twice == (c1 :> {a}) @@ (c2 :> {a})
Once == (c1 :> {a}) @@ (c2 :> {})
Common == (c1 :> {a, b}) @@ (c2 :> {})

Outcomes == {<<"success", TRUE>>, <<"error", FALSE>>}
Captured ==
  [requests |-> {1, 2}, character |-> FALSE, outcomes |-> Outcomes, failures |-> TRUE,
   strangers |-> 1, overlap |-> 2, clears |-> 1]
  @@ Turns({s3}, TwoScopes, Apart, FALSE, 0, 0, 0)
Reloaded ==
  [requests |-> {1}, outcomes |-> {<<"success", TRUE>>}, overlap |-> 1, until |-> 1]
  @@ Turns({s3}, TwoScopes, Apart, FALSE, 0, 1, 1)
\* Two records of an earlier process in one store and one in the other, their ids in several
\* orders, at times that tell ties apart. A fourth request is made.
Past ==
  { [NoRecords EXCEPT ![Main] = <<<<v[1], 0>>, <<v[2], t>>>>, ![space] = <<<<v[3], t>>>>] :
      v \in {<<1, 3, 2>>, <<3, 4, 1>>, <<2, 3, 4>>}, t \in {0, 1} }
Walked ==
  [requests |-> 1..4, character |-> FALSE, outcomes |-> {<<"success", TRUE>>}, started |-> 1, until |-> 1,
   overlap |-> 1, spaces |-> {space}, stored |-> Past, walks |-> TRUE]
  @@ Turns({s1}, TwoScopes, Apart, FALSE, 0, 0, 0)

MCBounds ==
  { Turns({s1, s2}, OneScope, Once, FALSE, 1, 0, 0),
    Turns({s1, s2}, OneScope, Once, FALSE, 0, 1, 0),
    Turns({s1, s2}, OneScope, Twice, FALSE, 0, 0, 1),
    Turns({s1, s3}, OneScope, Common, TRUE, 0, 0, 0),
    Turns({s1, s3}, TwoScopes, Apart, FALSE, 0, 1, 0),
    Captured, Reloaded, Walked }
=============================================================================
