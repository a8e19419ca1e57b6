------------------------- MODULE SceneProofs -------------------------
(* Proofs about SceneRelations and SceneMessages, for any participants, groups, roots, media and   *)
(* bounds: who is in a scene, and what is said in it. The two share no variable.               *)
EXTENDS SceneRelations, SceneMessages, FiniteSetTheorems, WellFoundedInduction, TLAPS

\* A sound scene of the right type.
Good(s) == s \in Scenes /\ Sound(s)

\* The scene and what is saved of it are sound, and differ by an unfriending at most.
IInv == calls \subseteq Calls /\ Good(scene) /\ Good(saved) /\ UnsavedIsAnUnfriending

-----------------------------------------------------------------------------
(* What scenes are made of *)

\* The fields of a scene, to have them at hand one by one.
LEMMA SceneFields ==
  ASSUME NEW s \in Scenes
  PROVE  /\ s.participants \subseteq Ids /\ s.groups \subseteq Groups
         /\ s.members \in [Groups -> SUBSET Members]
         /\ s.friends \subseteq Pairs /\ s.requests \subseteq Requests
         /\ s.directRoots \subseteq Pairs /\ s.groupRoots \subseteq Groups
  BY DEF Scenes

\* The parties of a request, and its group.
LEMMA RequestFields ==
  ASSUME NEW r \in Requests
  PROVE  /\ r.type \in {"friend", "add", "invite"}
         /\ r.from \in Ids /\ r.to \in Ids \cup {NoOne} /\ r.group \in Groups \cup {NoGroup}
         /\ r.type = "friend" => r.to \in Ids
         /\ r.type = "add" => r.to = NoOne /\ r.group \in Groups
         /\ r.type = "invite" => r.to \in Ids /\ r.group \in Groups
  BY DEF Requests, FriendRequests, JoinRequests, Invitations

\* Nobody and no group are neither participants nor groups.
LEMMA Nobody == NoOne \notin Ids /\ NoGroup \notin Groups
  BY RelationsAssumption DEF Ids

-----------------------------------------------------------------------------
(* What the helpers make of a sound scene *)

\* Friendships between participants without a request of one to the other.
LEMMA BefriendIsSound ==
  ASSUME NEW s, Good(s), NEW pairs \in SUBSET Pairs,
         \A pair \in pairs : pair \subseteq s.participants,
         \A r \in s.requests : r.type = "friend" => {r.from, r.to} \notin pairs
  PROVE  Good(Befriend(s, pairs))
<1> DEFINE t == Befriend(s, pairs)
<1>1. s \in Scenes /\ Sound(s)
  BY DEF Good
<1>2. t = [s EXCEPT !.friends = @ \cup pairs, !.directRoots = @ \cup (pairs \ s.friends)]
  BY DEF Befriend
<1>3. /\ t \in Scenes
      /\ t.participants = s.participants /\ t.groups = s.groups /\ t.members = s.members
      /\ t.requests = s.requests /\ t.groupRoots = s.groupRoots
      /\ t.friends = s.friends \cup pairs
      /\ t.directRoots = s.directRoots \cup (pairs \ s.friends)
  BY <1>1, <1>2 DEF Scenes
<1> HIDE DEF t
<1>4. NoDanglingReference(t)
  BY <1>1, <1>3 DEF Sound, NoDanglingReference
<1>5. RelationsHaveRoots(t)
  BY <1>1, <1>3 DEF Sound, RelationsHaveRoots
<1>6. RolesAreUnique(t)
  BY <1>1, <1>3 DEF Sound, RolesAreUnique
<1>7. NoRequestBetweenFriends(t)
  BY <1>1, <1>3 DEF Sound, NoRequestBetweenFriends
<1> QED BY <1>3, <1>4, <1>5, <1>6, <1>7 DEF Good, Sound, t

\* Fewer requests.
LEMMA FewerRequestsAreSound ==
  ASSUME NEW s, Good(s), NEW kept \in SUBSET s.requests
  PROVE  Good([s EXCEPT !.requests = kept])
<1> DEFINE t == [s EXCEPT !.requests = kept]
<1>1. s \in Scenes /\ Sound(s)
  BY DEF Good
<1>3. /\ t \in Scenes
      /\ t.participants = s.participants /\ t.groups = s.groups /\ t.members = s.members
      /\ t.requests = kept /\ t.groupRoots = s.groupRoots
      /\ t.friends = s.friends /\ t.directRoots = s.directRoots
  BY <1>1 DEF Scenes
<1> HIDE DEF t
<1>4. NoDanglingReference(t)
  BY <1>1, <1>3 DEF Sound, NoDanglingReference
<1>5. RelationsHaveRoots(t) /\ RolesAreUnique(t)
  BY <1>1, <1>3 DEF Sound, RelationsHaveRoots, RolesAreUnique
<1>6. NoRequestBetweenFriends(t)
  BY <1>1, <1>3 DEF Sound, NoRequestBetweenFriends
<1> QED BY <1>3, <1>4, <1>5, <1>6 DEF Good, Sound, t

\* One more request, of participants who are there; a friend request of two who are not
\* friends and have none.
LEMMA MoreRequestsAreSound ==
  ASSUME NEW s, Good(s), NEW r \in Requests,
         {r.from, r.to} \subseteq s.participants \cup {NoOne}, r.group \in s.groups \cup {NoGroup},
         r.type = "friend" =>
           /\ r.from # r.to /\ {r.from, r.to} \notin s.friends
           /\ ~\E x \in s.requests : x.type = "friend" /\ {x.from, x.to} = {r.from, r.to}
  PROVE  Good([s EXCEPT !.requests = @ \cup {r}])
<1> DEFINE t == [s EXCEPT !.requests = @ \cup {r}]
<1>1. s \in Scenes /\ Sound(s)
  BY DEF Good
<1>3. /\ t \in Scenes
      /\ t.participants = s.participants /\ t.groups = s.groups /\ t.members = s.members
      /\ t.requests = s.requests \cup {r} /\ t.groupRoots = s.groupRoots
      /\ t.friends = s.friends /\ t.directRoots = s.directRoots
  BY <1>1 DEF Scenes
<1> HIDE DEF t
<1>4. NoDanglingReference(t)
  BY <1>1, <1>3 DEF Sound, NoDanglingReference
<1>5. RelationsHaveRoots(t) /\ RolesAreUnique(t)
  BY <1>1, <1>3 DEF Sound, RelationsHaveRoots, RolesAreUnique
<1>6. NoRequestBetweenFriends(t)
  BY <1>1, <1>3 DEF Sound, NoRequestBetweenFriends
<1> QED BY <1>3, <1>4, <1>5, <1>6 DEF Good, Sound, t

\* Fewer friendships.
LEMMA FewerFriendsAreSound ==
  ASSUME NEW s, Good(s), NEW p, NEW q
  PROVE  Good(Unfriended(s, p, q))
<1> DEFINE t == Unfriended(s, p, q)
<1>1. s \in Scenes /\ Sound(s)
  BY DEF Good
<1>3. /\ t \in Scenes
      /\ t.participants = s.participants /\ t.groups = s.groups /\ t.members = s.members
      /\ t.requests = s.requests /\ t.groupRoots = s.groupRoots
      /\ t.friends = s.friends \ {{p, q}} /\ t.directRoots = s.directRoots
  BY <1>1 DEF Scenes, Unfriended
<1> HIDE DEF t
<1>4. NoDanglingReference(t)
  BY <1>1, <1>3 DEF Sound, NoDanglingReference
<1>5. RelationsHaveRoots(t) /\ RolesAreUnique(t)
  BY <1>1, <1>3 DEF Sound, RelationsHaveRoots, RolesAreUnique
<1>6. NoRequestBetweenFriends(t)
  BY <1>1, <1>3 DEF Sound, NoRequestBetweenFriends
<1> QED BY <1>3, <1>4, <1>5, <1>6 DEF Good, Sound, t

\* Members of a group: each once, at most one owner.
Proper(members) ==
  \A m, n \in members : m.id = n.id \/ (m.role = "owner" /\ n.role = "owner") => m = n

\* New members of a group that is there, which keeps its conversation.
LEMMA NewMembersAreSound ==
  ASSUME NEW s, Good(s), NEW g \in s.groups, NEW members \in SUBSET Members,
         Known(s, members), Proper(members)
  PROVE  /\ Good([s EXCEPT !.members[g] = members])
         /\ Good([s EXCEPT !.members[g] = members, !.groupRoots = @ \cup {g}])
<1> DEFINE t == [s EXCEPT !.members[g] = members]
<1>1. s \in Scenes /\ Sound(s)
  BY DEF Good
<1>2. /\ t \in Scenes
      /\ t.participants = s.participants /\ t.groups = s.groups
      /\ t.members = [s.members EXCEPT ![g] = members]
      /\ t.requests = s.requests /\ t.groupRoots = s.groupRoots
      /\ t.friends = s.friends /\ t.directRoots = s.directRoots
  BY <1>1 DEF Scenes
<1>3. [s EXCEPT !.members[g] = members, !.groupRoots = @ \cup {g}] = t
  <2>1. s.groupRoots \cup {g} = s.groupRoots
    BY <1>1 DEF Sound, RelationsHaveRoots
  <2> QED BY <1>1, <2>1 DEF Scenes
<1> HIDE DEF t
<1>m. \A h \in Groups : t.members[h] = IF h = g THEN members ELSE s.members[h]
  BY <1>1, <1>2, SceneFields
<1>4. NoDanglingReference(t)
  BY <1>1, <1>2, <1>m DEF Sound, NoDanglingReference, Known
<1>5. RelationsHaveRoots(t)
  BY <1>1, <1>2 DEF Sound, RelationsHaveRoots
<1>6. RolesAreUnique(t)
  BY <1>1, <1>m DEF Sound, RolesAreUnique, Proper
<1>7. NoRequestBetweenFriends(t)
  BY <1>1, <1>2 DEF Sound, NoRequestBetweenFriends
<1>8. Good(t)
  BY <1>2, <1>4, <1>5, <1>6, <1>7 DEF Good, Sound
<1> QED BY <1>3, <1>8 DEF t

\* A participant comes, whom no request names yet.
LEMMA NewParticipantIsSound ==
  ASSUME NEW s, Good(s), NEW p \in Ids \ s.participants
  PROVE  /\ Good([s EXCEPT !.participants = @ \cup {p}])
         /\ \A r \in s.requests : r.from # p /\ r.to # p
<1> DEFINE t == [s EXCEPT !.participants = @ \cup {p}]
<1>1. s \in Scenes /\ Sound(s)
  BY DEF Good
<1>2. /\ t \in Scenes
      /\ t.participants = s.participants \cup {p} /\ t.groups = s.groups /\ t.members = s.members
      /\ t.requests = s.requests /\ t.groupRoots = s.groupRoots
      /\ t.friends = s.friends /\ t.directRoots = s.directRoots
  BY <1>1 DEF Scenes
<1> HIDE DEF t
<1>3. NoDanglingReference(t)
  BY <1>1, <1>2 DEF Sound, NoDanglingReference
<1>4. RelationsHaveRoots(t) /\ RolesAreUnique(t) /\ NoRequestBetweenFriends(t)
  BY <1>1, <1>2 DEF Sound, RelationsHaveRoots, RolesAreUnique, NoRequestBetweenFriends
<1>5. \A r \in s.requests : r.from # p /\ r.to # p
  BY <1>1, Nobody DEF Sound, NoDanglingReference
<1> QED BY <1>2, <1>3, <1>4, <1>5 DEF Good, Sound, t

\* A participant goes, with everything that names it.
LEMMA DeletionIsSound ==
  ASSUME NEW s, Good(s), NEW p \in Ids
  PROVE  Good(WithoutParticipant(s, p))
<1> DEFINE t == WithoutParticipant(s, p)
           owned == {g \in s.groups : HasRole(s, g, p, {"owner"})}
<1>1. s \in Scenes /\ Sound(s)
  BY DEF Good
<1>2. /\ t.participants = s.participants \ {p} /\ t.groups = s.groups \ owned
      /\ t.members = [g \in Groups |-> IF g \in owned THEN {} ELSE Without(s.members[g], p)]
      /\ t.friends = {pair \in s.friends : p \notin pair}
      /\ t.requests = {r \in s.requests : r.from # p /\ r.to # p /\ r.group \notin owned}
      /\ t.directRoots = {pair \in s.directRoots : p \notin pair}
      /\ t.groupRoots = s.groupRoots \ owned
  BY DEF WithoutParticipant
<1>3. t \in Scenes
  <2>1. t.members \in [Groups -> SUBSET Members]
    BY <1>1, <1>2, SceneFields DEF Without
  <2>2. t = [participants |-> t.participants, groups |-> t.groups, members |-> t.members,
             friends |-> t.friends, requests |-> t.requests, directRoots |-> t.directRoots,
             groupRoots |-> t.groupRoots]
    BY DEF WithoutParticipant
  <2>3. /\ t.participants \subseteq Ids /\ t.groups \subseteq Groups /\ t.friends \subseteq Pairs
        /\ t.requests \subseteq Requests /\ t.directRoots \subseteq Pairs
        /\ t.groupRoots \subseteq Groups
    BY <1>1, <1>2, SceneFields
  <2> HIDE DEF t
  <2> QED BY <2>1, <2>2, <2>3 DEF Scenes
<1> HIDE DEF t
<1>m. \A g \in Groups : /\ t.members[g] \subseteq s.members[g]
                        /\ g \in owned => t.members[g] = {}
                        /\ \A m \in t.members[g] : m.id # p
  BY <1>2 DEF Without
<1> HIDE DEF owned
<1>4. NoDanglingReference(t)
  BY <1>1, <1>2, <1>m DEF Sound, NoDanglingReference
<1>5. RelationsHaveRoots(t)
  BY <1>1, <1>2 DEF Sound, RelationsHaveRoots
<1>6. RolesAreUnique(t)
  BY <1>1, <1>m DEF Sound, RolesAreUnique
<1>7. NoRequestBetweenFriends(t)
  BY <1>1, <1>2 DEF Sound, NoRequestBetweenFriends
<1> QED BY <1>3, <1>4, <1>5, <1>6, <1>7 DEF Good, Sound, t

\* A group comes with its members and its conversation.
LEMMA NewGroupIsSound ==
  ASSUME NEW s, Good(s), NEW g \in Groups \ s.groups, NEW members \in SUBSET Members,
         Known(s, members), Proper(members)
  PROVE  Good([s EXCEPT !.groups = @ \cup {g}, !.members[g] = members,
                        !.groupRoots = @ \cup {g}])
<1> DEFINE t == [s EXCEPT !.groups = @ \cup {g}, !.members[g] = members,
                          !.groupRoots = @ \cup {g}]
<1>1. s \in Scenes /\ Sound(s)
  BY DEF Good
<1>2. /\ t \in Scenes
      /\ t.participants = s.participants /\ t.groups = s.groups \cup {g}
      /\ t.members = [s.members EXCEPT ![g] = members]
      /\ t.requests = s.requests /\ t.groupRoots = s.groupRoots \cup {g}
      /\ t.friends = s.friends /\ t.directRoots = s.directRoots
  BY <1>1 DEF Scenes
<1> HIDE DEF t
<1>m. \A h \in Groups : t.members[h] = IF h = g THEN members ELSE s.members[h]
  BY <1>1, <1>2, SceneFields
<1>3. NoDanglingReference(t)
  BY <1>1, <1>2, <1>m DEF Sound, NoDanglingReference, Known
<1>4. RelationsHaveRoots(t)
  BY <1>1, <1>2 DEF Sound, RelationsHaveRoots
<1>5. RolesAreUnique(t)
  BY <1>1, <1>m DEF Sound, RolesAreUnique, Proper
<1>6. NoRequestBetweenFriends(t)
  BY <1>1, <1>2 DEF Sound, NoRequestBetweenFriends
<1> QED BY <1>2, <1>3, <1>4, <1>5, <1>6 DEF Good, Sound, t

\* A group goes, with its members, conversation and requests.
LEMMA GroupDeletionIsSound ==
  ASSUME NEW s, Good(s), NEW g \in Groups
  PROVE  Good(WithoutGroup(s, g))
<1> DEFINE t == WithoutGroup(s, g)
<1>1. s \in Scenes /\ Sound(s)
  BY DEF Good
<1>2. /\ t \in Scenes
      /\ t.participants = s.participants /\ t.groups = s.groups \ {g}
      /\ t.members = [s.members EXCEPT ![g] = {}]
      /\ t.requests = {r \in s.requests : r.group # g} /\ t.groupRoots = s.groupRoots \ {g}
      /\ t.friends = s.friends /\ t.directRoots = s.directRoots
  BY <1>1 DEF Scenes, WithoutGroup
<1> HIDE DEF t
<1>m. \A h \in Groups : t.members[h] = IF h = g THEN {} ELSE s.members[h]
  BY <1>1, <1>2, SceneFields
<1>3. NoDanglingReference(t)
  BY <1>1, <1>2, <1>m DEF Sound, NoDanglingReference
<1>4. RelationsHaveRoots(t)
  BY <1>1, <1>2 DEF Sound, RelationsHaveRoots
<1>5. RolesAreUnique(t)
  BY <1>1, <1>m DEF Sound, RolesAreUnique
<1>6. NoRequestBetweenFriends(t)
  BY <1>1, <1>2 DEF Sound, NoRequestBetweenFriends
<1> QED BY <1>2, <1>3, <1>4, <1>5, <1>6 DEF Good, Sound, t

\* Who is let into a group that is there becomes a plain member, unless they are one.
LEMMA AdmissionIsSound ==
  ASSUME NEW s, Good(s), NEW g \in s.groups, NEW p \in s.participants
  PROVE  Good(Admitted(s, g, p))
<1> DEFINE members == s.members[g] \cup {Member(p, "member")}
<1>1. s \in Scenes /\ Sound(s) /\ g \in Groups /\ p \in Ids
  BY SceneFields DEF Good
<1>2. CASE InGroup(s, g, p)
  BY <1>2 DEF Admitted
<1>3. CASE ~InGroup(s, g, p)
  <2>1. members \in SUBSET Members
    BY <1>1, SceneFields DEF Member, Members, Roles
  <2>2. Known(s, members)
    BY <1>1 DEF Known, Sound, NoDanglingReference, Member
  <2>3. \A m \in s.members[g] : m.id # p
    BY <1>1, <1>3, SceneFields DEF InGroup, HasRole, Members
  <2>4. Proper(members)
    BY <1>1, <2>3 DEF Proper, Sound, RolesAreUnique, Member
  <2>5. Admitted(s, g, p) = [s EXCEPT !.members[g] = members, !.groupRoots = @ \cup {g}]
    BY <1>3, <1>1 DEF Admitted
  <2> HIDE DEF members
  <2>6. Good([s EXCEPT !.members[g] = members, !.groupRoots = @ \cup {g}])
    BY <2>1, <2>2, <2>4, NewMembersAreSound
  <2> QED BY <2>5, <2>6, Zenon
<1> QED BY <1>2, <1>3

\* A late removal: fewer members if the group is still the same, and fewer requests.
LEMMA RemovalIsSound ==
  ASSUME NEW s, Good(s), NEW c \in Calls, c.group \in Groups
  PROVE  Good(Removed(s, c))
<1> DEFINE t == Removed(s, c)
           left == IF c.live THEN Without(s.members[c.group], c.who) ELSE s.members[c.group]
           kept == {r \in s.requests : ~(r.group = c.group /\ c.who \in {r.from, r.to})}
<1>1. s \in Scenes /\ Sound(s)
  BY DEF Good
<1>2. left \subseteq s.members[c.group] /\ kept \subseteq s.requests
  BY DEF Without
<1>3. (IF c.group \in s.groups THEN s.groupRoots \cup {c.group} ELSE s.groupRoots) = s.groupRoots
  BY <1>1 DEF Sound, RelationsHaveRoots
<1>4. t = [s EXCEPT !.members[c.group] = left, !.requests = kept, !.groupRoots = s.groupRoots]
  BY <1>1, <1>3 DEF Removed, Scenes
<1> HIDE DEF t, left, kept
<1>5. s.members[c.group] \subseteq Members
  BY <1>1, SceneFields
<1>6. /\ t \in Scenes
      /\ t.participants = s.participants /\ t.groups = s.groups
      /\ t.members = [s.members EXCEPT ![c.group] = left]
      /\ t.requests = kept /\ t.groupRoots = s.groupRoots
      /\ t.friends = s.friends /\ t.directRoots = s.directRoots
  BY <1>1, <1>2, <1>4, <1>5 DEF Scenes
<1>m. \A h \in Groups : t.members[h] \subseteq s.members[h]
  BY <1>1, <1>2, <1>6, SceneFields
<1>7. NoDanglingReference(t)
  BY <1>1, <1>2, <1>6, <1>m DEF Sound, NoDanglingReference
<1>8. RelationsHaveRoots(t)
  BY <1>1, <1>6 DEF Sound, RelationsHaveRoots
<1>9. RolesAreUnique(t)
  BY <1>1, <1>m DEF Sound, RolesAreUnique
<1>10. NoRequestBetweenFriends(t)
  BY <1>1, <1>2, <1>6 DEF Sound, NoRequestBetweenFriends
<1> QED BY <1>6, <1>7, <1>8, <1>9, <1>10 DEF Good, Sound, t

-----------------------------------------------------------------------------
(* Every step keeps the invariant *)

\* What is committed is what is saved.
LEMMA Committed ==
  ASSUME NEW s, Good(s), Commit(s), calls' \subseteq Calls
  PROVE  IInv'
<1>1. scene' = s /\ saved' = s
  BY DEF Commit
<1>2. UnsavedIsAnUnfriending'
  <2>1. s = [s EXCEPT !.friends = s.friends]
    BY DEF Good, Scenes
  <2> QED BY <1>1, <2>1 DEF UnsavedIsAnUnfriending
<1> QED BY <1>1, <1>2 DEF IInv, Good, Sound, NoDanglingReference, RelationsHaveRoots,
                          RolesAreUnique, NoRequestBetweenFriends

\* A call whose group object is no longer the scene's is still a call.
LEMMA DetachedCalls ==
  ASSUME calls \subseteq Calls, NEW groups \in SUBSET Groups
  PROVE  Detached(groups) \subseteq Calls
<1> SUFFICES ASSUME NEW c \in calls, c.group \in groups
             PROVE  [c EXCEPT !.live = FALSE] \in Calls
  BY DEF Detached
<1>1. c \in Calls /\ c.group \in Groups
  OBVIOUS
<1>2. c \in [act : {"leave", "kick"}, group : Groups, by : Ids, who : Ids, live : BOOLEAN]
  BY <1>1, Nobody DEF Calls
<1> QED BY <1>2 DEF Calls

LEMMA CreateUserKeeps == ASSUME IInv, NEW u \in Users, CreateUser(u) PROVE IInv'
<1> DEFINE s == [scene EXCEPT !.participants = @ \cup {u}]
           pairs == {{u, b} : b \in scene.participants \cap Bots}
<1>1. Good(scene) /\ u \in Ids \ scene.participants /\ scene.participants \subseteq Ids
  BY SceneFields DEF IInv, Good, CreateUser, Ids
<1>2. Good(s) /\ \A r \in scene.requests : r.from # u /\ r.to # u
  BY <1>1, NewParticipantIsSound
<1>3. s.participants = scene.participants \cup {u} /\ s.requests = scene.requests
  BY <1>1 DEF Good, Scenes
<1>4. pairs \in SUBSET Pairs
  BY <1>1, RelationsAssumption DEF Pairs, Ids
<1>5. \A pair \in pairs : pair \subseteq s.participants
  BY <1>3
<1>6. \A r \in s.requests : r.type = "friend" => {r.from, r.to} \notin pairs
  BY <1>2, <1>3
<1>7. Commit(Befriend(s, pairs)) /\ calls' = calls
  BY DEF CreateUser
<1> HIDE DEF s, pairs
<1>8. Good(Befriend(s, pairs))
  BY <1>2, <1>4, <1>5, <1>6, BefriendIsSound
<1> QED BY <1>7, <1>8, Committed DEF IInv

LEMMA CreateBotKeeps == ASSUME IInv, NEW b \in Bots, CreateBot(b) PROVE IInv'
<1> DEFINE s == [scene EXCEPT !.participants = @ \cup {b}]
           pairs == {{p, b} : p \in scene.participants}
<1>1. Good(scene) /\ b \in Ids \ scene.participants /\ scene.participants \subseteq Ids
  BY SceneFields DEF IInv, Good, CreateBot, Ids
<1>2. Good(s) /\ \A r \in scene.requests : r.from # b /\ r.to # b
  BY <1>1, NewParticipantIsSound
<1>3. s.participants = scene.participants \cup {b} /\ s.requests = scene.requests
  BY <1>1 DEF Good, Scenes
<1>4. pairs \in SUBSET Pairs
  BY <1>1 DEF Pairs
<1>5. \A pair \in pairs : pair \subseteq s.participants
  BY <1>3
<1>6. \A r \in s.requests : r.type = "friend" => {r.from, r.to} \notin pairs
  BY <1>2, <1>3
<1>7. Commit(Befriend(s, pairs)) /\ calls' = calls
  BY DEF CreateBot
<1> HIDE DEF s, pairs
<1>8. Good(Befriend(s, pairs))
  BY <1>2, <1>4, <1>5, <1>6, BefriendIsSound
<1> QED BY <1>7, <1>8, Committed DEF IInv

LEMMA DeleteParticipantKeeps ==
  ASSUME IInv, NEW p \in Ids, DeleteParticipant(p) PROVE IInv'
<1>1. Good(WithoutParticipant(scene, p))
  BY DeletionIsSound DEF IInv
<1>2. scene.groups \ WithoutParticipant(scene, p).groups \in SUBSET Groups
  BY SceneFields DEF IInv, Good
<1>3. calls' \subseteq Calls
  BY <1>2, DetachedCalls DEF IInv, DeleteParticipant
<1> QED BY <1>1, <1>3, Committed DEF DeleteParticipant

\* What the console gives a group is in order.
LEMMA MemberListsAreProper ==
  ASSUME NEW members \in MemberLists
  PROVE  members \in SUBSET Members /\ Proper(members)
  BY DEF MemberLists, Proper

LEMMA GroupEditsKeep ==
  ASSUME IInv, NEW g \in Groups, NEW members \in MemberLists,
         CreateGroup(g, members) \/ UpdateGroup(g, members)
  PROVE  IInv'
<1>1. Good(scene) /\ members \in SUBSET Members /\ Proper(members) /\ Known(scene, members)
  BY MemberListsAreProper DEF IInv, CreateGroup, UpdateGroup
<1>2. calls' \subseteq Calls
  BY DEF IInv, CreateGroup, UpdateGroup
<1>3. CASE CreateGroup(g, members)
  <2>1. Good([scene EXCEPT !.groups = @ \cup {g}, !.members[g] = members,
                           !.groupRoots = @ \cup {g}])
    BY <1>1, <1>3, NewGroupIsSound DEF CreateGroup
  <2> QED BY <1>2, <1>3, <2>1, Committed DEF CreateGroup
<1>4. CASE UpdateGroup(g, members)
  <2>1. Good([scene EXCEPT !.members[g] = members, !.groupRoots = @ \cup {g}])
    BY <1>1, <1>4, NewMembersAreSound DEF UpdateGroup
  <2> QED BY <1>2, <1>4, <2>1, Committed DEF UpdateGroup
<1> QED BY <1>3, <1>4

LEMMA DeleteGroupKeeps == ASSUME IInv, NEW g \in Groups, DeleteGroup(g) PROVE IInv'
<1>1. Good(WithoutGroup(scene, g))
  BY GroupDeletionIsSound DEF IInv
<1>2. calls' \subseteq Calls
  BY DetachedCalls DEF IInv, DeleteGroup
<1> QED BY <1>1, <1>2, Committed DEF DeleteGroup

LEMMA WholeScenesKeep ==
  ASSUME IInv, ReplaceScene \/ ResetScene \/ OtherCommit PROVE IInv'
<1>1. calls' \subseteq Calls
  BY DetachedCalls DEF IInv, ReplaceScene, ResetScene, OtherCommit
<1>2. Good(scene) /\ Good(InitialScene)
  BY InitialAssumption DEF IInv, Good
<1>3. Commit(scene) \/ Commit(InitialScene)
  BY DEF ReplaceScene, ResetScene, OtherCommit
<1> QED BY <1>1, <1>2, <1>3, Committed

LEMMA RequestFriendKeeps == ASSUME IInv, NEW p \in Ids, NEW q \in Ids, RequestFriend(p, q) PROVE IInv'
<1> DEFINE r == [type |-> "friend", from |-> p, to |-> q, group |-> NoGroup]
<1>1. r \in Requests
  BY DEF Requests, FriendRequests
<1>2. /\ r.from = p /\ r.to = q /\ r.group = NoGroup
      /\ p \in scene.participants /\ q \in scene.participants /\ p # q
      /\ {p, q} \notin scene.friends
      /\ ~\E x \in scene.requests : x.type = "friend" /\ {x.from, x.to} = {p, q}
      /\ Commit([scene EXCEPT !.requests = @ \cup {r}]) /\ calls' = calls
  BY DEF RequestFriend
<1> HIDE DEF r
<1>3. Good([scene EXCEPT !.requests = @ \cup {r}])
  BY <1>1, <1>2, MoreRequestsAreSound DEF IInv
<1> QED BY <1>2, <1>3, Committed DEF IInv

LEMMA RequestJoinKeeps == ASSUME IInv, NEW p \in Ids, NEW g \in Groups, RequestJoin(p, g) PROVE IInv'
<1> DEFINE r == [type |-> "add", from |-> p, to |-> NoOne, group |-> g]
<1>1. r \in Requests
  BY DEF Requests, JoinRequests
<1>2. /\ r.from = p /\ r.to = NoOne /\ r.group = g /\ r.type # "friend"
      /\ p \in scene.participants /\ g \in scene.groups
      /\ Commit([scene EXCEPT !.requests = @ \cup {r}]) /\ calls' = calls
  BY DEF RequestJoin
<1> HIDE DEF r
<1>3. Good([scene EXCEPT !.requests = @ \cup {r}])
  BY <1>1, <1>2, MoreRequestsAreSound DEF IInv
<1> QED BY <1>2, <1>3, Committed DEF IInv

LEMMA InviteKeeps ==
  ASSUME IInv, NEW p \in Ids, NEW q \in Ids, NEW g \in Groups, Invite(p, q, g) PROVE IInv'
<1> DEFINE r == [type |-> "invite", from |-> p, to |-> q, group |-> g]
<1>1. r \in Requests
  BY DEF Requests, Invitations
<1>2. /\ r.from = p /\ r.to = q /\ r.group = g /\ r.type # "friend"
      /\ p \in scene.participants /\ q \in scene.participants /\ g \in scene.groups
      /\ Commit([scene EXCEPT !.requests = @ \cup {r}]) /\ calls' = calls
  BY DEF Invite
<1> HIDE DEF r
<1>3. Good([scene EXCEPT !.requests = @ \cup {r}])
  BY <1>1, <1>2, MoreRequestsAreSound DEF IInv
<1> QED BY <1>2, <1>3, Committed DEF IInv

\* A request that is taken away, and what it leaves behind.
LEMMA RequestTaken ==
  ASSUME IInv, NEW r \in scene.requests
  PROVE  LET s == WithoutRequests(scene, {r}) IN
         /\ Good(s)
         /\ s.participants = scene.participants /\ s.groups = scene.groups
         /\ s.requests = scene.requests \ {r}
         /\ r \in Requests
         /\ {r.from, r.to} \subseteq scene.participants \cup {NoOne}
         /\ r.group \in scene.groups \cup {NoGroup}
<1>1. Good(scene) /\ scene \in Scenes /\ Sound(scene)
  BY DEF IInv, Good
<1>2. WithoutRequests(scene, {r}) = [scene EXCEPT !.requests = scene.requests \ {r}]
  BY <1>1 DEF WithoutRequests, Scenes
<1>3. Good([scene EXCEPT !.requests = scene.requests \ {r}])
  BY <1>1, FewerRequestsAreSound
<1>4. r \in Requests
  BY <1>1, SceneFields
<1>5. {r.from, r.to} \subseteq scene.participants \cup {NoOne} /\ r.group \in scene.groups \cup {NoGroup}
  BY <1>1 DEF Sound, NoDanglingReference
<1> QED BY <1>1, <1>2, <1>3, <1>4, <1>5 DEF Scenes

LEMMA SettleFriendRequestKeeps ==
  ASSUME IInv, NEW r \in FriendRequests, NEW approve \in BOOLEAN, SettleFriendRequest(r, approve)
  PROVE  IInv'
<1> DEFINE s == WithoutRequests(scene, {r})
           pair == {r.from, r.to}
<1>1. r \in scene.requests /\ r.type = "friend" /\ calls' = calls
  BY DEF SettleFriendRequest
<1>2. Commit(IF approve THEN Befriend(s, {pair}) ELSE s)
  BY DEF SettleFriendRequest
<1>3. /\ Good(s)
      /\ s.participants = scene.participants /\ s.requests = scene.requests \ {r}
      /\ r \in Requests /\ pair \subseteq scene.participants \cup {NoOne}
  BY <1>1, RequestTaken
<1> HIDE DEF s
<1>4. r.from \in Ids /\ r.to \in Ids
  BY <1>1, <1>3, RequestFields
<1>5. pair \subseteq s.participants
  BY <1>3, <1>4, Nobody
<1>6. r.from # r.to /\ \A x \in s.requests : x.type = "friend" => {x.from, x.to} # pair
  BY <1>1, <1>3 DEF IInv, Good, Sound, NoRequestBetweenFriends
<1>7. pair \in Pairs
  BY <1>4, <1>6 DEF Pairs
<1> HIDE DEF pair
<1>8. Good(Befriend(s, {pair}))
  <2>1. \A x \in s.requests : x.type = "friend" => {x.from, x.to} \notin {pair}
    BY <1>6
  <2> QED BY <1>3, <1>5, <1>7, <2>1, BefriendIsSound
<1> QED BY <1>1, <1>2, <1>3, <1>8, Committed DEF IInv

LEMMA SettleJoinKeeps ==
  ASSUME IInv, NEW p \in Ids, NEW r \in JoinRequests, NEW approve \in BOOLEAN, SettleJoin(p, r, approve)
  PROVE  IInv'
<1> DEFINE s == WithoutRequests(scene, {r})
<1>1. r \in scene.requests /\ r.type = "add" /\ calls' = calls
  BY DEF SettleJoin
<1>2. Commit(IF approve THEN Admitted(s, r.group, r.from) ELSE s)
  BY DEF SettleJoin
<1>3. /\ Good(s)
      /\ s.participants = scene.participants /\ s.groups = scene.groups
      /\ r \in Requests /\ {r.from, r.to} \subseteq scene.participants \cup {NoOne}
      /\ r.group \in scene.groups \cup {NoGroup}
  BY <1>1, RequestTaken
<1> HIDE DEF s
<1>4. r.from \in s.participants /\ r.group \in s.groups
  BY <1>1, <1>3, RequestFields, Nobody
<1>5. Good(Admitted(s, r.group, r.from))
  BY <1>3, <1>4, AdmissionIsSound
<1> QED BY <1>1, <1>2, <1>3, <1>5, Committed DEF IInv

LEMMA SettleInviteKeeps ==
  ASSUME IInv, NEW r \in Invitations, NEW approve \in BOOLEAN, SettleInvite(r, approve)
  PROVE  IInv'
<1> DEFINE s == WithoutRequests(scene, {r})
<1>1. r \in scene.requests /\ r.type = "invite" /\ calls' = calls
  BY DEF SettleInvite
<1>2. Commit(IF approve THEN Admitted(s, r.group, r.to) ELSE s)
  BY DEF SettleInvite
<1>3. /\ Good(s)
      /\ s.participants = scene.participants /\ s.groups = scene.groups
      /\ r \in Requests /\ {r.from, r.to} \subseteq scene.participants \cup {NoOne}
      /\ r.group \in scene.groups \cup {NoGroup}
  BY <1>1, RequestTaken
<1> HIDE DEF s
<1>4. r.to \in s.participants /\ r.group \in s.groups
  BY <1>1, <1>3, RequestFields, Nobody
<1>5. Good(Admitted(s, r.group, r.to))
  BY <1>3, <1>4, AdmissionIsSound
<1> QED BY <1>1, <1>2, <1>3, <1>5, Committed DEF IInv

LEMMA UnfriendKeeps == ASSUME IInv, NEW p, NEW q, Unfriend(p, q) PROVE IInv'
<1>1. Good(Unfriended(scene, p, q))
  BY FewerFriendsAreSound DEF IInv
<1> QED BY <1>1, Committed DEF IInv, Unfriend

\* The one step that changes the scene and does not commit.
LEMMA UnfriendBotKeeps == ASSUME IInv, NEW p \in Ids, NEW b \in Ids, UnfriendBot(p, b) PROVE IInv'
<1> DEFINE c == [act |-> "unfriend", group |-> NoGroup, by |-> p, who |-> b, live |-> TRUE]
<1>1. scene' = Unfriended(scene, p, b) /\ saved' = saved /\ b \in Bots
  BY DEF UnfriendBot
<1>2. Good(scene)'
  <2>1. Good(Unfriended(scene, p, b))
    BY FewerFriendsAreSound DEF IInv
  <2> QED BY <1>1, <2>1 DEF Good, Sound, NoDanglingReference, RelationsHaveRoots,
                           RolesAreUnique, NoRequestBetweenFriends
<1>3. Good(saved)'
  BY <1>1 DEF IInv, Good, Sound, NoDanglingReference,
     RelationsHaveRoots, RolesAreUnique, NoRequestBetweenFriends
<1>4. calls' \subseteq Calls
  <2>1. c \in Calls
    BY DEF Calls
  <2>2. calls' \subseteq calls \cup {c}
    BY DEF UnfriendBot
  <2> QED BY <2>1, <2>2 DEF IInv
<1>5. UnsavedIsAnUnfriending'
  BY <1>1 DEF IInv, Good, Scenes, UnsavedIsAnUnfriending, Unfriended
<1> QED BY <1>2, <1>3, <1>4, <1>5 DEF IInv

\* A call that threw leaves everything as it is.
LEMMA CallsOnly ==
  ASSUME IInv, UNCHANGED <<scene, saved>>, calls' \subseteq Calls
  PROVE  IInv'
  BY DEF IInv, Good, Sound, NoDanglingReference, RelationsHaveRoots, RolesAreUnique,
         NoRequestBetweenFriends, UnsavedIsAnUnfriending

LEMMA CallEndsKeep ==
  ASSUME IInv, NEW c \in Calls, NEW told \in BOOLEAN,
         UnfriendBotEnds(c, told) \/ RemovalEnds(c, told)
  PROVE  IInv'
<1>1. calls' \subseteq Calls /\ Good(scene)
  BY DEF IInv, UnfriendBotEnds, RemovalEnds
<1>2. CASE ~told
  BY <1>1, <1>2, CallsOnly DEF UnfriendBotEnds, RemovalEnds
<1>3. CASE told /\ UnfriendBotEnds(c, told)
  BY <1>1, <1>3, Committed DEF UnfriendBotEnds
<1>4. CASE told /\ RemovalEnds(c, told)
  <2>1. c.group \in Groups
    BY <1>4 DEF RemovalEnds, Calls
  <2>2. Good(Removed(scene, c))
    BY <1>1, <2>1, RemovalIsSound
  <2> QED BY <1>1, <1>4, <2>2, Committed DEF RemovalEnds
<1> QED BY <1>2, <1>3, <1>4

LEMMA SetAdminKeeps ==
  ASSUME IInv, NEW p \in Ids, NEW q \in Ids, NEW g \in Groups, NEW enabled \in BOOLEAN,
         SetAdmin(p, q, g, enabled)
  PROVE  IInv'
<1> DEFINE role == IF enabled THEN "admin" ELSE "member"
           members == Without(scene.members[g], q) \cup {Member(q, role)}
<1>1. Good(scene) /\ scene \in Scenes /\ Sound(scene) /\ g \in scene.groups
  BY DEF IInv, Good, SetAdmin
<1>2. members \in SUBSET Members
  BY <1>1, SceneFields DEF Without, Member, Members, Roles
<1>3. q \in scene.participants
  BY <1>1 DEF SetAdmin, HasRole, Sound, NoDanglingReference
<1>4. Known(scene, members)
  BY <1>1, <1>3 DEF Known, Without, Member, Sound, NoDanglingReference
<1>5. Proper(members)
  BY <1>1 DEF Proper, Without, Member, Sound, RolesAreUnique
<1>6. Commit([scene EXCEPT !.members[g] = members]) /\ calls' = calls
  BY <1>1 DEF SetAdmin, Scenes
<1> HIDE DEF members
<1>7. Good([scene EXCEPT !.members[g] = members])
  BY <1>1, <1>2, <1>4, <1>5, NewMembersAreSound
<1> QED BY <1>6, <1>7, Committed DEF IInv

LEMMA TransferOwnerKeeps ==
  ASSUME IInv, NEW p \in Ids, NEW q \in Ids, NEW g \in Groups, TransferOwner(p, q, g)
  PROVE  IInv'
<1> DEFINE others == Without(Without(scene.members[g], p), q)
           members == others \cup {Member(p, "member"), Member(q, "owner")}
<1>1. Good(scene) /\ scene \in Scenes /\ Sound(scene) /\ g \in scene.groups /\ p # q
  BY DEF IInv, Good, TransferOwner
<1>2. others \subseteq scene.members[g] /\ \A m \in others : m.id # p /\ m.id # q
  BY DEF Without
<1> HIDE DEF others
<1>3. members \in SUBSET Members
  BY <1>1, <1>2, SceneFields DEF Member, Members, Roles
<1>4. p \in scene.participants /\ q \in scene.participants
  BY <1>1 DEF TransferOwner, InGroup, HasRole, Sound, NoDanglingReference
<1>5. Known(scene, members)
  BY <1>1, <1>2, <1>4 DEF Known, Member, Sound, NoDanglingReference
<1>6. \A m \in others : m.role # "owner"
  BY <1>1, <1>2 DEF TransferOwner, HasRole, Sound, RolesAreUnique
<1>7. Proper(members)
  BY <1>1, <1>2, <1>6 DEF Proper, Member, Sound, RolesAreUnique
<1>8. Commit([scene EXCEPT !.members[g] = members]) /\ calls' = calls
  BY <1>1 DEF TransferOwner, Scenes, others
<1> HIDE DEF members
<1>9. Good([scene EXCEPT !.members[g] = members])
  BY <1>1, <1>3, <1>5, <1>7, NewMembersAreSound
<1> QED BY <1>8, <1>9, Committed DEF IInv

LEMMA RemovalsBegin ==
  ASSUME IInv, NEW p \in Ids, NEW q \in Ids, NEW g \in Groups, Leave(p, g) \/ Kick(p, q, g)
  PROVE  IInv'
<1>1. UNCHANGED <<scene, saved>>
  BY DEF Leave, Kick
<1>2. \A act \in {"leave", "kick"}, who \in Ids :
        [act |-> act, group |-> g, by |-> p, who |-> who, live |-> TRUE] \in Calls
  BY DEF Calls
<1>3. calls' \subseteq Calls
  BY <1>2 DEF IInv, Leave, Kick
<1> QED BY <1>1, <1>3, CallsOnly

LEMMA RestartKeeps == ASSUME IInv, Restart PROVE IInv'
<1>1. Commit(saved) /\ Good(saved) /\ calls' \subseteq Calls
  BY DEF Restart, Commit, IInv
<1> QED BY <1>1, Committed

\* Every step keeps the soundness of the scene.
LEMMA Inductive == IInv /\ [Next]_vars => IInv'
<1> SUFFICES ASSUME IInv, [Next]_vars PROVE IInv'
  OBVIOUS
<1>1. CASE Console
  BY <1>1, CreateUserKeeps, CreateBotKeeps, DeleteParticipantKeeps, GroupEditsKeep,
     DeleteGroupKeeps, WholeScenesKeep DEF Console
<1>2. CASE Friendship
  BY <1>2, RequestFriendKeeps, UnfriendKeeps, UnfriendBotKeeps, SettleFriendRequestKeeps
  DEF Friendship
<1>3. CASE Membership
  <2>1. CASE \E p, q \in Ids, g \in Groups : Invite(p, q, g) \/ TransferOwner(p, q, g) \/ Kick(p, q, g)
    BY <2>1, InviteKeeps, TransferOwnerKeeps, RemovalsBegin
  <2>2. CASE \E p, q \in Ids, g \in Groups, enabled \in BOOLEAN : SetAdmin(p, q, g, enabled)
    BY <2>2, SetAdminKeeps
  <2>3. CASE \E p \in Ids, g \in Groups : RequestJoin(p, g) \/ Leave(p, g)
    BY <2>3, RequestJoinKeeps, RemovalsBegin
  <2>4. CASE \E p \in Ids, r \in JoinRequests, approve \in BOOLEAN : SettleJoin(p, r, approve)
    BY <2>4, SettleJoinKeeps
  <2>5. CASE \E r \in Invitations, approve \in BOOLEAN : SettleInvite(r, approve)
    BY <2>5, SettleInviteKeeps
  <2> QED BY <1>3, <2>1, <2>2, <2>3, <2>4, <2>5 DEF Membership
<1>4. CASE \E c \in Calls, told \in BOOLEAN : UnfriendBotEnds(c, told) \/ RemovalEnds(c, told)
  BY <1>4, CallEndsKeep
<1>5. CASE Restart
  BY <1>5, RestartKeeps
<1>6. CASE UNCHANGED vars
  BY <1>6, CallsOnly DEF vars, IInv
<1> QED BY <1>1, <1>2, <1>3, <1>4, <1>5, <1>6 DEF Next

LEMMA Initially == Init => IInv
<1> SUFFICES ASSUME Init PROVE IInv
  OBVIOUS
<1>1. scene = InitialScene /\ saved = InitialScene /\ calls = {} /\ Good(InitialScene)
  BY InitialAssumption DEF Init, Good
<1>2. UnsavedIsAnUnfriending
  BY <1>1 DEF UnsavedIsAnUnfriending, Good, Scenes
<1> QED BY <1>1, <1>2 DEF IInv

-----------------------------------------------------------------------------
(* Theorems *)

\* Every reachable scene, and every call on its way, is of the expected shape.
THEOREM TypeCorrect == Spec => []TypeOK
<1>1. IInv => TypeOK
  BY DEF IInv, Good, TypeOK
<1> QED BY <1>1, Initially, Inductive, PTL DEF Spec

\* Whatever is deleted, approved, transferred, edited and removed late, in whatever order,
\* the scene and what a restart brings back stay sound.
THEOREM SoundnessHolds == Spec => []SceneIsSound
<1>1. IInv => SceneIsSound
  BY DEF IInv, Good, SceneIsSound
<1> QED BY <1>1, Initially, Inductive, PTL DEF Spec

\* Only friendships with bots that are being ended are ahead of the commit.
THEOREM UnsavedHolds == Spec => []UnsavedIsAnUnfriending
<1>1. IInv => UnsavedIsAnUnfriending
  BY DEF IInv
<1> QED BY <1>1, Initially, Inductive, PTL DEF Spec

-----------------------------------------------------------------------------
(* Owners *)

\* What a step may do to the owner of g.
OwnerKept(g) ==
  Owned(scene, g) /\ g \in scene'.groups /\ ~Owned(scene', g) =>
    \E c \in calls \ calls' : c.group = g /\ HasRole(scene, g, c.who, {"owner"})

\* Members added or not, an owner stays one.
LEMMA MoreMembersKeepOwner ==
  ASSUME NEW g \in Groups, g \in scene.groups => scene.members[g] \subseteq scene'.members[g]
  PROVE  OwnerKept(g)
  BY DEF OwnerKept, Owned

\* What does not touch members.
LEMMA SameMembersKeepOwner ==
  ASSUME NEW g \in Groups, NEW s, s.members = scene.members, scene' = s
  PROVE  OwnerKept(g)
  BY DEF OwnerKept, Owned

\* Members of one group are set to what has an owner.
LEMMA OwnedMembersKeepOwner ==
  ASSUME scene \in Scenes, NEW g \in Groups, NEW h \in Groups, NEW members,
         \E m \in members : m.role = "owner",
         scene'.members = [scene.members EXCEPT ![h] = members]
  PROVE  OwnerKept(g)
  BY SceneFields DEF OwnerKept, Owned

\* The console leaves no group without an owner.
LEMMA MemberListsAreOwned ==
  ASSUME NEW members \in MemberLists
  PROVE  \E m \in members : m.role = "owner"
<1>1. \E m \in members : m.role = "owner" /\ \A n \in members : n.role = "owner" => n = m
  BY Zenon DEF MemberLists
<1> QED BY <1>1

LEMMA ConsoleKeepsOwners == ASSUME IInv, Console, NEW g \in Groups PROVE OwnerKept(g)
<1>1. Good(scene) /\ scene \in Scenes /\ Sound(scene)
  BY DEF IInv, Good
<1>2. CASE (\E u \in Users : CreateUser(u)) \/ (\E b \in Bots : CreateBot(b))
  <2>1. scene'.members = scene.members
    BY <1>1, <1>2 DEF CreateUser, CreateBot, Commit, Befriend, Scenes
  <2> QED BY <2>1, SameMembersKeepOwner
<1>3. ASSUME NEW p \in Ids, DeleteParticipant(p) PROVE OwnerKept(g)
  BY <1>3 DEF DeleteParticipant, Commit, WithoutParticipant, OwnerKept, Owned, HasRole, Without
<1>4. ASSUME NEW h \in Groups, NEW members \in MemberLists, CreateGroup(h, members) \/ UpdateGroup(h, members)
      PROVE  OwnerKept(g)
  <2>1. scene'.members = [scene.members EXCEPT ![h] = members]
    BY <1>1, <1>4 DEF CreateGroup, UpdateGroup, Commit, Scenes
  <2>2. \E m \in members : m.role = "owner"
    BY MemberListsAreOwned
  <2> QED BY <1>1, <2>1, <2>2, OwnedMembersKeepOwner
<1>5. ASSUME NEW h \in Groups, DeleteGroup(h) PROVE OwnerKept(g)
  <2>1. scene'.members = [scene.members EXCEPT ![h] = {}] /\ scene'.groups = scene.groups \ {h}
    BY <1>1, <1>5 DEF DeleteGroup, Commit, WithoutGroup, Scenes
  <2> QED BY <1>1, <2>1, SceneFields DEF OwnerKept, Owned
<1>6. CASE ReplaceScene \/ OtherCommit
  BY <1>6, SameMembersKeepOwner DEF ReplaceScene, OtherCommit, Commit
<1>7. CASE ResetScene
  BY <1>7, InitialAssumption DEF ResetScene, Commit, OwnerKept, Owned
<1> QED BY <1>2, <1>3, <1>4, <1>5, <1>6, <1>7 DEF Console

LEMMA FriendshipKeepsOwners == ASSUME IInv, Friendship, NEW g \in Groups PROVE OwnerKept(g)
<1>1. scene \in Scenes
  BY DEF IInv, Good
<1>2. scene'.members = scene.members
  BY <1>1 DEF Friendship, RequestFriend, Unfriend, UnfriendBot, SettleFriendRequest, Commit,
              Befriend, WithoutRequests, Unfriended, Scenes
<1> QED BY <1>2, SameMembersKeepOwner

\* Who is let in comes on top of who is there.
LEMMA AdmissionKeepsOwners ==
  ASSUME scene \in Scenes, NEW r, NEW h \in Groups, NEW p, NEW g \in Groups,
         scene' = Admitted(WithoutRequests(scene, {r}), h, p)
  PROVE  OwnerKept(g)
<1>1. scene.members[g] \subseteq scene'.members[g]
  BY SceneFields DEF Admitted, WithoutRequests, Scenes
<1> QED BY <1>1, MoreMembersKeepOwner

LEMMA MembershipKeepsOwners == ASSUME IInv, Membership, NEW g \in Groups PROVE OwnerKept(g)
<1>1. scene \in Scenes /\ Sound(scene)
  BY DEF IInv, Good
<1>2. ASSUME NEW p \in Ids, NEW q \in Ids, NEW h \in Groups, TransferOwner(p, q, h) PROVE OwnerKept(g)
  <2> DEFINE members ==
        Without(Without(scene.members[h], p), q) \cup {Member(p, "member"), Member(q, "owner")}
  <2>1. scene'.members = [scene.members EXCEPT ![h] = members]
    BY <1>1, <1>2 DEF TransferOwner, Commit, Scenes
  <2>2. \E m \in members : m.role = "owner"
    <3>1. Member(q, "owner") \in members /\ Member(q, "owner").role = "owner"
      BY DEF Member
    <3> HIDE DEF members
    <3> QED BY <3>1
  <2> HIDE DEF members
  <2> QED BY <1>1, <2>1, <2>2, OwnedMembersKeepOwner
<1>3. ASSUME NEW p \in Ids, NEW q \in Ids, NEW h \in Groups, NEW enabled \in BOOLEAN,
             SetAdmin(p, q, h, enabled)
      PROVE  OwnerKept(g)
  <2> DEFINE role == IF enabled THEN "admin" ELSE "member"
             members == Without(scene.members[h], q) \cup {Member(q, role)}
  <2>1. PICK m \in scene.members[h] : m.id = p /\ m.role = "owner"
    BY <1>3 DEF SetAdmin, HasRole
  <2>2. m \in members
    BY <1>1, <1>3, <2>1 DEF SetAdmin, HasRole, Without, Sound, RolesAreUnique
  <2>3. scene'.members = [scene.members EXCEPT ![h] = members]
    BY <1>1, <1>3 DEF SetAdmin, Commit, Scenes
  <2> HIDE DEF members
  <2> QED BY <1>1, <2>1, <2>2, <2>3, OwnedMembersKeepOwner
<1>4. CASE \E p, q \in Ids, h \in Groups : Invite(p, q, h) \/ Kick(p, q, h) \/ RequestJoin(p, h) \/ Leave(p, h)
  <2>1. scene'.members = scene.members
    BY <1>1, <1>4 DEF Invite, Kick, RequestJoin, Leave, Commit, Scenes
  <2> QED BY <2>1, SameMembersKeepOwner
<1>5. ASSUME NEW p \in Ids, NEW r \in JoinRequests, NEW approve \in BOOLEAN, SettleJoin(p, r, approve)
      PROVE  OwnerKept(g)
  <2>1. r.group \in Groups
    BY DEF JoinRequests
  <2>2. CASE approve
    BY <1>1, <1>5, <2>1, <2>2, AdmissionKeepsOwners DEF SettleJoin, Commit
  <2>3. CASE ~approve
    <3>1. scene'.members = scene.members
      BY <1>1, <1>5, <2>3 DEF SettleJoin, Commit, WithoutRequests, Scenes
    <3> QED BY <3>1, SameMembersKeepOwner
  <2> QED BY <2>2, <2>3
<1>6. ASSUME NEW r \in Invitations, NEW approve \in BOOLEAN, SettleInvite(r, approve)
      PROVE  OwnerKept(g)
  <2>1. r.group \in Groups
    BY DEF Invitations
  <2>2. CASE approve
    BY <1>1, <1>6, <2>1, <2>2, AdmissionKeepsOwners DEF SettleInvite, Commit
  <2>3. CASE ~approve
    <3>1. scene'.members = scene.members
      BY <1>1, <1>6, <2>3 DEF SettleInvite, Commit, WithoutRequests, Scenes
    <3> QED BY <3>1, SameMembersKeepOwner
  <2> QED BY <2>2, <2>3
<1> QED BY <1>2, <1>3, <1>4, <1>5, <1>6 DEF Membership

LEMMA CallEndsKeepOwners ==
  ASSUME IInv, NEW c \in Calls, NEW told \in BOOLEAN,
         UnfriendBotEnds(c, told) \/ RemovalEnds(c, told), NEW g \in Groups
  PROVE  OwnerKept(g)
<1>1. scene \in Scenes /\ c \in calls \ calls'
  BY DEF IInv, Good, UnfriendBotEnds, RemovalEnds
<1>2. CASE scene' = scene
  BY <1>2, SameMembersKeepOwner
<1>3. CASE RemovalEnds(c, told) /\ scene' = Removed(scene, c)
  <2>1. c.group \in Groups
    BY <1>3 DEF RemovalEnds, Calls
  <2>2. scene'.members =
          [scene.members EXCEPT ![c.group] =
             IF c.live THEN Without(scene.members[c.group], c.who) ELSE scene.members[c.group]]
    BY <1>1, <1>3 DEF Removed, Scenes
  <2>3. CASE c.group # g
    <3>1. scene'.members[g] = scene.members[g]
      BY <1>1, <2>2, <2>3, SceneFields
    <3> QED BY <3>1, MoreMembersKeepOwner
  <2>4. CASE c.group = g
    <3>1. \A m \in scene.members[g] : m.id # c.who => m \in scene'.members[g]
      BY <1>1, <2>2, <2>4, SceneFields DEF Without
    <3> QED BY <1>1, <2>4, <3>1 DEF OwnerKept, Owned, HasRole
  <2> QED BY <2>3, <2>4
<1> QED BY <1>2, <1>3 DEF UnfriendBotEnds, RemovalEnds, Commit

\* Every step keeps the owner of every group, but for those the property excepts.
LEMMA OwnersStep == IInv /\ [Next]_vars => [\A g \in Groups : OwnerKept(g)]_vars
<1> SUFFICES ASSUME IInv, Next, NEW g \in Groups PROVE OwnerKept(g)
  BY DEF vars
<1>1. CASE Restart
  <2>1. scene'.members = scene.members
    BY <1>1 DEF IInv, Good, Scenes, UnsavedIsAnUnfriending, Restart
  <2> QED BY <2>1, SameMembersKeepOwner
<1> QED BY <1>1, ConsoleKeepsOwners, FriendshipKeepsOwners, MembershipKeepsOwners,
           CallEndsKeepOwners DEF Next

\* A group loses its owner to a removal begun earlier only, in every scene and however
\* many calls overlap.
THEOREM OwnersHold == Spec => OwnerIsLostToOverlapOnly
<1>1. IInv /\ [Next]_vars =>
        [\A g \in Groups : Owned(scene, g) /\ g \in scene'.groups /\ ~Owned(scene', g) =>
           \E c \in calls \ calls' : c.group = g /\ HasRole(scene, g, c.who, {"owner"})]_vars
  BY OwnersStep DEF OwnerKept
<1> QED BY <1>1, Initially, Inductive, PTL DEF Spec, OwnerIsLostToOverlapOnly

-----------------------------------------------------------------------------
(* Lists of a scene's messages and uploads. *)

\* A set of numbers that is not empty has a smallest one.
LEMMA Smallest ==
  ASSUME NEW S \in SUBSET Nat, S # {}
  PROVE  \E x \in S : \A y \in S : x <= y
<1>1. PICK x \in S : \A y \in S : ~(<<y, x>> \in OpToRel(<, Nat))
  BY NatLessThanWellFounded, WFMin
<1>2. ASSUME NEW y \in S PROVE x <= y
  <2>1. <<y, x>> \in Nat \X Nat /\ <<y, x>>[1] = y /\ <<y, x>>[2] = x
    OBVIOUS
  <2>2. ~(y < x)
    BY <1>1, <2>1, Zenon DEF OpToRel
  <2> QED BY <2>2
<1> QED BY <1>2

\* What Remaining computes, as a function on the lengths of the list's beginnings.
RestAt(list, gone, f, k) ==
  IF k = 0 THEN <<>> ELSE IF list[k] \in gone THEN f[k - 1] ELSE Append(f[k - 1], list[k])
\* The function itself, up to the length n.
RestUpTo(list, gone, n, f) == f = [k \in 0..n |-> RestAt(list, gone, f, k)]

\* There is such a function for any length.
LEMMA RestExists == ASSUME NEW list, NEW gone, NEW n \in Nat PROVE \E f : RestUpTo(list, gone, n, f)
<1> DEFINE wrong == {m \in Nat : ~\E f : RestUpTo(list, gone, m, f)}
<1> SUFFICES ASSUME wrong # {} PROVE FALSE
  OBVIOUS
<1>1. PICK m \in wrong : \A y \in wrong : m <= y
  BY Smallest
<1>2. m # 0
  <2>1. RestUpTo(list, gone, 0, [k \in 0..0 |-> <<>>])
    BY DEF RestUpTo, RestAt
  <2> QED BY <2>1
<1>3. m \in Nat /\ m - 1 \in Nat /\ m - 1 \notin wrong
  BY <1>1, <1>2
<1>4. PICK f : RestUpTo(list, gone, m - 1, f)
  BY <1>3
<1> DEFINE g == [k \in 0..m |-> RestAt(list, gone, f, k)]
<1>5. \A k \in 0..(m - 1) : f[k] = RestAt(list, gone, f, k)
  BY <1>4 DEF RestUpTo
<1>6. \A k \in 0..(m - 1) : g[k] = f[k]
  BY <1>3, <1>5
<1>7. \A k \in 0..m : k # 0 => k - 1 \in 0..(m - 1)
  BY <1>3
<1>8. \A k \in 0..m : k # 0 => g[k - 1] = f[k - 1]
  <2> HIDE DEF g
  <2> QED BY <1>6, <1>7
<1>9. RestUpTo(list, gone, m, g)
  <2> DEFINE h == g
  <2>1. \A k \in 0..m : k # 0 => h[k - 1] = f[k - 1]
    BY <1>8
  <2> HIDE DEF h
  <2>2. \A k \in 0..m : RestAt(list, gone, f, k) = RestAt(list, gone, h, k)
    BY <2>1 DEF RestAt
  <2>3. g = [k \in 0..m |-> RestAt(list, gone, h, k)]
    BY <2>2
  <2> QED BY <2>3 DEF RestUpTo, h
<1> QED BY <1>1, <1>9

\* A list without some of its items has the others, in their order.
LEMMA RemainingItems ==
  ASSUME NEW S, NEW list \in Seq(S), NEW gone
  PROVE  /\ Remaining(list, gone) \in Seq(S)
         /\ Items(Remaining(list, gone)) = Items(list) \ gone
         /\ Len(Remaining(list, gone)) <= Len(list)
         /\ S \subseteq Nat /\ Ascending(list) => Ascending(Remaining(list, gone))
<1>0. Len(list) \in Nat /\ DOMAIN list = 1..Len(list) /\ \A k \in 1..Len(list) : list[k] \in S
  OBVIOUS
<1>1. PICK f : RestUpTo(list, gone, Len(list), f) /\ Remaining(list, gone) = f[Len(list)]
  <2> DEFINE F == CHOOSE f : RestUpTo(list, gone, Len(list), f)
  <2>1. RestUpTo(list, gone, Len(list), F)
    BY <1>0, RestExists
  <2>2. Remaining(list, gone) = F[Len(list)]
    BY DEF Remaining, RestUpTo, RestAt
  <2> QED BY <2>1, <2>2
<1> DEFINE good(k) == /\ f[k] \in Seq(S) /\ Len(f[k]) <= k
                      /\ Items(f[k]) = {list[j] : j \in 1..k} \ gone
                      /\ S \subseteq Nat /\ Ascending(list) => Ascending(f[k])
           wrong == {k \in 0..Len(list) : ~good(k)}
<1>2. \A k \in 0..Len(list) : f[k] = IF k = 0 THEN <<>> ELSE IF list[k] \in gone THEN f[k - 1]
                                                            ELSE Append(f[k - 1], list[k])
  BY <1>1 DEF RestUpTo, RestAt
<1>3. wrong = {}
  <2> SUFFICES ASSUME wrong # {} PROVE FALSE
    OBVIOUS
  <2>1. wrong \in SUBSET Nat
    OBVIOUS
  <2>2. PICK m \in wrong : \A y \in wrong : m <= y
    <3> HIDE DEF wrong
    <3> QED BY <2>1, Smallest
  <2>3. m \in 0..Len(list) /\ ~good(m)
    OBVIOUS
  <2>4. m # 0
    <3>1. f[0] = <<>>
      BY <1>0, <1>2
    <3>2. good(0)
      BY <3>1 DEF Items, Ascending
    <3> QED BY <2>3, <3>2
  <2>5. m - 1 \in 0..Len(list) /\ m - 1 \in Nat /\ m \in 1..Len(list) /\ good(m - 1)
    <3>1. m - 1 \in 0..Len(list) /\ ~(m <= m - 1)
      BY <1>0, <2>3, <2>4
    <3>2. m - 1 \notin wrong
      BY <2>2, <3>1
    <3> HIDE DEF good
    <3> QED BY <1>0, <2>3, <2>4, <3>1, <3>2
  <2> DEFINE r == f[m - 1]
             x == list[m]
             t == f[m]
  <2>6. /\ r \in Seq(S) /\ Len(r) \in Nat /\ Len(r) <= m - 1 /\ DOMAIN r = 1..Len(r)
        /\ Items(r) = {list[j] : j \in 1..(m - 1)} \ gone
        /\ x \in S /\ t = IF x \in gone THEN r ELSE Append(r, x)
        /\ S \subseteq Nat /\ Ascending(list) => Ascending(r)
    BY <1>0, <1>2, <2>3, <2>4, <2>5
  <2>7. {list[j] : j \in 1..m} = {list[j] : j \in 1..(m - 1)} \cup {x}
    BY <2>5
  <2>8. CASE x \in gone
    <3>1. Items(t) = {list[j] : j \in 1..m} \ gone
      BY <2>6, <2>7, <2>8
    <3>2. good(m)
      BY <2>5, <2>6, <2>8, <3>1
    <3> QED BY <2>3, <3>2
  <2>9. CASE x \notin gone
    <3> HIDE DEF r, t, x
    <3>1. /\ t \in Seq(S) /\ Len(t) = Len(r) + 1 /\ DOMAIN t = 1..(Len(r) + 1) /\ t[Len(r) + 1] = x
          /\ \A j \in 1..Len(r) : t[j] = r[j]
      BY <2>6, <2>9
    <3>2. Items(t) = Items(r) \cup {x}
      BY <2>6, <3>1 DEF Items
    <3>3. Items(t) = {list[j] : j \in 1..m} \ gone
      BY <2>6, <2>7, <2>9, <3>2
    <3>4. ASSUME S \subseteq Nat, Ascending(list) PROVE Ascending(t)
      <4>1. \A j \in 1..(m - 1) : j \in DOMAIN list /\ m \in DOMAIN list /\ j < m /\ list[j] < list[m]
        BY <1>0, <2>5, <3>4 DEF Ascending
      <4>2. \A y \in Items(r) : y < x
        BY <2>6, <4>1 DEF x
      <4> QED BY <2>6, <3>1, <3>4, <4>2 DEF Ascending, Items
    <3>5. good(m)
      BY <2>5, <2>6, <3>1, <3>3, <3>4 DEF t
    <3> QED BY <2>3, <3>5
  <2> QED BY <2>8, <2>9
<1>4. good(Len(list))
  <2>1. Len(list) \in 0..Len(list)
    BY <1>0
  <2> HIDE DEF good
  <2> QED BY <1>3, <2>1
<1>5. {list[j] : j \in 1..Len(list)} = Items(list)
  BY <1>0 DEF Items
<1> QED BY <1>1, <1>4, <1>5

\* A list in order up to one of its items.
LEMMA UpToItems ==
  ASSUME NEW list \in Seq(Nat), Ascending(list), NEW item \in Nat
  PROVE  /\ UpTo(list, item) \in Seq(Nat) /\ Ascending(UpTo(list, item))
         /\ Items(UpTo(list, item)) =
              IF item \in Items(list) THEN {m \in Items(list) : m <= item} ELSE {}
<1>1. CASE item \notin Items(list)
  BY <1>1 DEF UpTo, Items, Ascending
<1>2. CASE item \in Items(list)
  <2> DEFINE k == CHOOSE k \in DOMAIN list : list[k] = item
             s == SubSeq(list, 1, k)
  <2>1. k \in DOMAIN list /\ list[k] = item
    BY <1>2 DEF Items
  <2>2. UpTo(list, item) = s
    BY <1>2 DEF UpTo
  <2> HIDE DEF k
  <2>3. /\ k \in 1..Len(list) /\ s \in Seq(Nat) /\ Len(s) = k /\ DOMAIN s = 1..k
        /\ \A j \in 1..k : s[j] = list[j] /\ j \in DOMAIN list
    BY <2>1
  <2> HIDE DEF s
  <2>4. Ascending(s)
    BY <2>3 DEF Ascending
  <2>5. \A j \in DOMAIN list : list[j] \in Nat /\ (j <= k <=> list[j] <= item)
    BY <2>1 DEF Ascending
  <2>6. Items(s) = {m \in Items(list) : m <= item}
    BY <2>3, <2>5 DEF Items
  <2> QED BY <1>2, <2>2, <2>3, <2>4, <2>6
<1> QED BY <1>1, <1>2

-----------------------------------------------------------------------------
(* What holds of a stored scene, between the steps of an operation too. *)

\* An instance branches off a conversation made before it, at a message sent before its own.
ForksAreEarlier(s) ==
  \A i \in InstanceIds(s) : s.instances[i].fork # None =>
    /\ s.instances[i].fork.source \in Roots \cup 1..(i - 1)
    /\ s.instances[i].fork.message \in 0..Len(s.messages)
    /\ \A m \in Items(s.own[i]) : s.instances[i].fork.message < m

\* What is named is there; more may be, until it is pruned.
NamedAreThere(s) == Named(s, s.forwards) \ {None} \subseteq {f.id : f \in s.forwards}
\* A scene between the parts of a commit, and one that is stored.
Unpruned(s) == SceneTypeOK(s) /\ RowsAndMessagesAgree(s) /\ ForksAreEarlier(s) /\ NamedAreThere(s)
Stored(s) == SceneTypeOK(s) /\ RowsAndMessagesAgree(s) /\ ForksAreEarlier(s) /\ ForwardsAreReachable(s)

\* The parts of a scene.
LEMMA SceneParts ==
  ASSUME NEW s, SceneTypeOK(s)
  PROVE  /\ Len(s.instances) \in Nat /\ DOMAIN s.instances = 1..Len(s.instances)
         /\ Len(s.messages) \in Nat /\ DOMAIN s.messages = 1..Len(s.messages)
         /\ DOMAIN s.own = Roots \cup DOMAIN s.instances
         /\ ConversationIds(s) \subseteq DOMAIN s.own
         /\ MessageIds(s) \subseteq 1..Len(s.messages) /\ IsFiniteSet(MessageIds(s))
         /\ \A i \in DOMAIN s.instances : s.instances[i] \in Instance \cup {None}
         /\ \A i \in InstanceIds(s) : s.instances[i] \in Instance /\ s.instances[i].root \in Roots
         /\ \A m \in DOMAIN s.messages : s.messages[m] \in MessageRow \cup {None}
         /\ \A m \in MessageIds(s) : s.messages[m] \in MessageRow
<1>1. /\ s.instances \in Seq(Instance \cup {None})
      /\ s.messages \in Seq(MessageRow \cup {None})
      /\ s.own = [c \in Roots \cup DOMAIN s.instances |-> s.own[c]]
      /\ s.roots \subseteq Roots
  BY DEF SceneTypeOK
<1>2. DOMAIN s.own = Roots \cup DOMAIN s.instances
  BY <1>1
<1>3. /\ Len(s.instances) \in Nat /\ DOMAIN s.instances = 1..Len(s.instances)
      /\ Len(s.messages) \in Nat /\ DOMAIN s.messages = 1..Len(s.messages)
      /\ \A i \in DOMAIN s.instances : s.instances[i] \in Instance \cup {None}
      /\ \A m \in DOMAIN s.messages : s.messages[m] \in MessageRow \cup {None}
  BY <1>1
<1>4. \A i \in InstanceIds(s) : s.instances[i] \in Instance
  BY <1>3 DEF InstanceIds
<1>5. \A x \in Instance : x.root \in Roots
  BY DEF Instance
<1>6. MessageIds(s) \subseteq 1..Len(s.messages) /\ \A m \in MessageIds(s) : s.messages[m] \in MessageRow
  BY <1>3 DEF MessageIds
<1>7. IsFiniteSet(MessageIds(s))
  BY <1>3, <1>6, FS_Interval, FS_Subset
<1> QED BY <1>1, <1>2, <1>3, <1>4, <1>5, <1>6, <1>7 DEF ConversationIds, InstanceIds

\* Pruned, a scene keeps what is named, and only that.
LEMMA PruneKeeps ==
  ASSUME NEW s, Unpruned(s)
  PROVE  /\ Stored(PruneForwards(s))
         /\ PruneForwards(s) = [roots |-> s.roots, visible |-> s.visible, instances |-> s.instances,
                                messages |-> s.messages, own |-> s.own,
                                forwards |-> PruneForwards(s).forwards]
         /\ PruneForwards(s).forwards \subseteq s.forwards
<1> DEFINE t == PruneForwards(s)
           kept == Reachable(s, s.forwards)
           Whole(k) == \A g \in s.forwards : g.id \in Named(s, k) => g \in k
<1>1. s = [roots |-> s.roots, visible |-> s.visible, instances |-> s.instances,
           messages |-> s.messages, own |-> s.own, forwards |-> s.forwards]
  BY DEF Unpruned, SceneTypeOK
<1>2. t = [roots |-> s.roots, visible |-> s.visible, instances |-> s.instances,
           messages |-> s.messages, own |-> s.own, forwards |-> kept]
  BY <1>1 DEF PruneForwards
<1>3. /\ t.roots = s.roots /\ t.visible = s.visible /\ t.instances = s.instances
      /\ t.messages = s.messages /\ t.own = s.own /\ t.forwards = kept
  BY <1>2
<1>4. kept \subseteq s.forwards
  BY DEF Reachable
<1>5. \A k \in SUBSET s.forwards : Whole(k) => kept \subseteq k
  BY DEF Reachable
<1>6. Whole(kept)
  <2> SUFFICES ASSUME NEW g \in s.forwards, g.id \in Named(s, kept), NEW k \in SUBSET s.forwards, Whole(k)
               PROVE  g \in k
    BY DEF Reachable
  <2>1. kept \subseteq k
    BY <1>5
  <2>2. g.id \in Named(s, k)
    <3> HIDE DEF kept
    <3> QED BY <2>1 DEF Named
  <2> QED BY <2>2
<1> HIDE DEF t, kept
<1>7. Named(t, t.forwards) = Named(s, kept)
  BY <1>3 DEF Named, MessageIds
<1>8. Named(t, t.forwards) \ {None} \subseteq {f.id : f \in t.forwards}
  <2> SUFFICES ASSUME NEW x \in Named(s, kept), x # None PROVE \E f \in kept : f.id = x
    BY <1>3, <1>7
  <2>1. x \in Named(s, s.forwards)
    BY <1>4 DEF Named
  <2>2. PICK f \in s.forwards : f.id = x
    BY <2>1 DEF Unpruned, NamedAreThere
  <2> QED BY <1>6, <2>2
<1>9. ASSUME NEW f \in t.forwards PROVE f.id \in Named(t, t.forwards)
  <2> SUFFICES ASSUME f.id \notin Named(s, kept) PROVE FALSE
    BY <1>7
  <2> DEFINE k == kept \ {f}
  <2>1. Named(s, k) \subseteq Named(s, kept)
    BY DEF Named
  <2>2. Whole(k)
    BY <1>6, <2>1
  <2>3. k \in SUBSET s.forwards
    BY <1>4
  <2>4. kept \subseteq k
    BY <1>5, <2>2, <2>3
  <2> QED BY <1>3, <1>9, <2>4
<1>10. SceneTypeOK(t)
  <2>1. /\ t.roots \subseteq Roots /\ t.visible \subseteq t.roots
        /\ t.instances \in Seq(Instance \cup {None})
        /\ t.messages \in Seq(MessageRow \cup {None})
        /\ t.own = [c \in Roots \cup DOMAIN t.instances |-> t.own[c]]
        /\ \A c \in DOMAIN t.own : t.own[c] \in Seq(Nat)
        /\ t.forwards \subseteq Forward
    BY <1>3, <1>4 DEF Unpruned, SceneTypeOK
  <2>2. t = [roots |-> t.roots, visible |-> t.visible, instances |-> t.instances,
             messages |-> t.messages, own |-> t.own, forwards |-> t.forwards]
    BY <1>2, <1>3
  <2> QED BY <2>1, <2>2 DEF SceneTypeOK
<1>11. RowsAndMessagesAgree(t) /\ ForksAreEarlier(t)
  BY <1>3 DEF Unpruned, RowsAndMessagesAgree, ForksAreEarlier, MessageIds, ConversationIds, InstanceIds
<1> QED BY <1>2, <1>3, <1>4, <1>8, <1>9, <1>10, <1>11 DEF Stored, ForwardsAreReachable, t

\* Taking messages from the list of messages and from the lists of conversations alike.
LEMMA ShrinkKeeps ==
  ASSUME NEW s, NEW t, NEW dropped, Unpruned(s),
         t = [roots |-> t.roots, visible |-> t.visible, instances |-> t.instances,
              messages |-> t.messages, own |-> t.own, forwards |-> s.forwards],
         t.roots \subseteq s.roots, t.visible \subseteq t.roots,
         t.instances \in Seq(Instance \cup {None}), DOMAIN t.instances = DOMAIN s.instances,
         \A i \in DOMAIN s.instances : t.instances[i] \in {None, s.instances[i]},
         t.messages = [m \in DOMAIN s.messages |-> IF m \in dropped THEN None ELSE s.messages[m]],
         t.own = [c \in DOMAIN s.own |-> t.own[c]],
         \A c \in DOMAIN s.own :
           /\ t.own[c] \in Seq(Nat) /\ Ascending(t.own[c])
           /\ Items(t.own[c]) = Items(s.own[c]) \ dropped
           /\ c \notin ConversationIds(t) => t.own[c] = <<>>,
         \A m \in MessageIds(s) \ dropped : s.messages[m].conversation \in ConversationIds(t)
  PROVE  Unpruned(t)
<1>1. SceneTypeOK(s) /\ RowsAndMessagesAgree(s) /\ ForksAreEarlier(s) /\ NamedAreThere(s)
  BY DEF Unpruned
<1>2. t.forwards = s.forwards
  OBVIOUS
<1>3. t.messages \in Seq(MessageRow \cup {None}) /\ Len(t.messages) = Len(s.messages)
      /\ DOMAIN t.messages = DOMAIN s.messages
  <2> DEFINE n == Len(s.messages)
             x == t.messages
  <2>1. x \in [1..n -> MessageRow \cup {None}] /\ n \in Nat /\ DOMAIN s.messages = 1..n
    BY <1>1, SceneParts
  <2> HIDE DEF n, x
  <2>2. x \in Seq(MessageRow \cup {None}) /\ Len(x) = n /\ DOMAIN x = 1..n
    BY <2>1
  <2> QED BY <2>1, <2>2 DEF n, x
<1>4. SceneTypeOK(t)
  BY <1>1, <1>2, <1>3, SceneParts DEF SceneTypeOK
<1>5. MessageIds(t) = MessageIds(s) \ dropped /\ \A m \in MessageIds(t) : t.messages[m] = s.messages[m]
  BY <1>3 DEF MessageIds
<1>6. InstanceIds(t) \subseteq InstanceIds(s) /\ \A i \in InstanceIds(t) : t.instances[i] = s.instances[i]
  BY DEF InstanceIds
<1>7. RowsAndMessagesAgree(t)
  <2>1. ASSUME NEW c \in DOMAIN t.own
        PROVE  Items(t.own[c]) = {m \in MessageIds(t) : t.messages[m].conversation = c}
    <3>1. c \in DOMAIN s.own
      OBVIOUS
    <3>2. Items(s.own[c]) = {m \in MessageIds(s) : s.messages[m].conversation = c}
      BY <1>1, <3>1 DEF RowsAndMessagesAgree
    <3>3. Items(t.own[c]) = Items(s.own[c]) \ dropped
      BY <3>1
    <3> QED BY <1>5, <3>2, <3>3
  <2> QED BY <1>5, <2>1 DEF RowsAndMessagesAgree
<1>8. ForksAreEarlier(t)
  <2> SUFFICES ASSUME NEW i \in InstanceIds(t), t.instances[i].fork # None
               PROVE  /\ t.instances[i].fork.source \in Roots \cup 1..(i - 1)
                      /\ t.instances[i].fork.message \in 0..Len(t.messages)
                      /\ \A m \in Items(t.own[i]) : t.instances[i].fork.message < m
    BY DEF ForksAreEarlier
  <2>1. i \in DOMAIN s.own
    BY <1>1, <1>6, SceneParts DEF ConversationIds
  <2> QED BY <1>1, <1>3, <1>6, <2>1 DEF ForksAreEarlier
<1>9. NamedAreThere(t)
  <2>1. Named(t, t.forwards) \subseteq Named(s, s.forwards)
    BY <1>2, <1>5 DEF Named
  <2> QED BY <1>1, <1>2, <2>1 DEF NamedAreThere
<1> QED BY <1>4, <1>7, <1>8, <1>9 DEF Unpruned

\* A list that has no items is empty.
LEMMA NoItems == ASSUME NEW S, NEW list \in Seq(S), Items(list) = {} PROVE list = <<>>
<1>1. Len(list) \in Nat /\ DOMAIN list = 1..Len(list)
  OBVIOUS
<1>2. \A k \in 1..Len(list) : FALSE
  BY <1>1 DEF Items
<1>3. Len(list) = 0
  BY <1>1, <1>2
<1> QED BY <1>3

\* t is s without messages that are older than all others.
Evicted(s, t, dropped) ==
  /\ dropped \subseteq MessageIds(s)
  /\ \A m \in dropped, k \in MessageIds(s) : k < m => k \in dropped
  /\ t.roots = s.roots /\ t.instances = s.instances
  /\ MessageIds(t) = MessageIds(s) \ dropped /\ \A m \in MessageIds(t) : t.messages[m] = s.messages[m]
  /\ \A c \in DOMAIN s.own : Items(t.own[c]) = Items(s.own[c]) \ dropped
  /\ t.forwards \subseteq s.forwards

\* Eviction takes the oldest messages, and keeps the scene whole.
LEMMA EvictKeeps ==
  ASSUME NEW s, Stored(s), bounds \in Bounds
  PROVE  Stored(Evict(s)) /\ \E dropped : Evicted(s, Evict(s), dropped)
<1> DEFINE n == Cardinality(MessageIds(s)) - bounds.limit
           dropped == IF Cardinality(MessageIds(s)) <= bounds.limit THEN {} ELSE Oldest(s, n)
           u == PruneRows(DropMessages(s, dropped), dropped)
           t == PruneForwards(u)
<1>1. SceneTypeOK(s) /\ RowsAndMessagesAgree(s) /\ ForksAreEarlier(s) /\ ForwardsAreReachable(s)
  BY DEF Stored
<1>2. Evict(s) = IF dropped = {} THEN s ELSE t
  BY DEF Evict
<1>3. IsFiniteSet(MessageIds(s)) /\ MessageIds(s) \subseteq Nat /\ Cardinality(MessageIds(s)) \in Nat
      /\ n \in Int
  <2>1. IsFiniteSet(MessageIds(s)) /\ MessageIds(s) \subseteq Nat
    BY <1>1, SceneParts
  <2> QED BY <2>1, FS_CardinalityType, MessagesAssumption
<1> HIDE DEF n
<1>4. dropped \subseteq MessageIds(s) /\ \A m \in dropped, k \in MessageIds(s) : k < m => k \in dropped
  <2> SUFFICES ASSUME NEW m \in Oldest(s, n), NEW k \in MessageIds(s), k < m PROVE k \in Oldest(s, n)
    BY DEF Oldest
  <2> DEFINE below(x) == {y \in MessageIds(s) : y < x}
  <2>1. m \in MessageIds(s) /\ Cardinality(below(m)) < n
    BY DEF Oldest
  <2>2. below(k) \subseteq below(m) /\ IsFiniteSet(below(m))
    BY <1>3, <2>1, FS_Subset
  <2>3. Cardinality(below(k)) <= Cardinality(below(m)) /\ IsFiniteSet(below(k))
    BY <2>2, FS_Subset
  <2>4. Cardinality(below(k)) \in Nat /\ Cardinality(below(m)) \in Nat
    BY <2>2, <2>3, FS_CardinalityType
  <2>5. Cardinality(below(k)) < n
    BY <1>3, <2>1, <2>3, <2>4
  <2> QED BY <2>5 DEF Oldest
<1> HIDE DEF dropped
<1>5. u = [roots |-> s.roots, visible |-> s.visible, instances |-> s.instances,
           messages |-> [m \in DOMAIN s.messages |-> IF m \in dropped THEN None ELSE s.messages[m]],
           own |-> [c \in DOMAIN s.own |-> Remaining(s.own[c], dropped)], forwards |-> s.forwards]
  <2>1. s = [roots |-> s.roots, visible |-> s.visible, instances |-> s.instances,
             messages |-> s.messages, own |-> s.own, forwards |-> s.forwards]
    BY <1>1 DEF SceneTypeOK
  <2> DEFINE rows == [m \in DOMAIN s.messages |-> IF m \in dropped THEN None ELSE s.messages[m]]
             lists == [c \in DOMAIN s.own |-> Remaining(s.own[c], dropped)]
             v == DropMessages(s, dropped)
  <2>2. v = [s EXCEPT !.messages = rows]
    BY DEF DropMessages
  <2> HIDE DEF rows
  <2>3. v = [roots |-> s.roots, visible |-> s.visible, instances |-> s.instances,
             messages |-> rows, own |-> s.own, forwards |-> s.forwards]
    BY <2>1, <2>2
  <2>4. v.own = s.own
    BY <2>3
  <2>5. u = [v EXCEPT !.own = lists]
    <3> HIDE DEF v
    <3> QED BY <2>4 DEF PruneRows, v
  <2> HIDE DEF lists, v, u
  <2>6. u = [roots |-> s.roots, visible |-> s.visible, instances |-> s.instances,
             messages |-> rows, own |-> lists, forwards |-> s.forwards]
    BY <2>3, <2>5
  <2> QED BY <2>6 DEF rows, lists
<1> HIDE DEF u
<1>6. /\ u.roots = s.roots /\ u.visible = s.visible /\ u.instances = s.instances
      /\ u.messages = [m \in DOMAIN s.messages |-> IF m \in dropped THEN None ELSE s.messages[m]]
      /\ u.own = [c \in DOMAIN s.own |-> Remaining(s.own[c], dropped)] /\ u.forwards = s.forwards
  BY <1>5
<1>7. \A c \in DOMAIN s.own :
        /\ u.own[c] \in Seq(Nat) /\ Ascending(u.own[c])
        /\ Items(u.own[c]) = Items(s.own[c]) \ dropped
        /\ c \notin ConversationIds(u) => u.own[c] = <<>>
  <2> SUFFICES ASSUME NEW c \in DOMAIN s.own
               PROVE  /\ u.own[c] \in Seq(Nat) /\ Ascending(u.own[c])
                      /\ Items(u.own[c]) = Items(s.own[c]) \ dropped
                      /\ c \notin ConversationIds(u) => u.own[c] = <<>>
    OBVIOUS
  <2>1. u.own[c] = Remaining(s.own[c], dropped)
    BY <1>6
  <2>2. s.own[c] \in Seq(Nat) /\ Ascending(s.own[c])
    BY <1>1 DEF SceneTypeOK, RowsAndMessagesAgree
  <2>3. /\ u.own[c] \in Seq(Nat) /\ Ascending(u.own[c])
        /\ Items(u.own[c]) = Items(s.own[c]) \ dropped
    BY <2>1, <2>2, RemainingItems
  <2>4. ASSUME c \notin ConversationIds(u) PROVE u.own[c] = <<>>
    <3>1. s.own[c] = <<>>
      BY <1>1, <1>6, <2>4 DEF RowsAndMessagesAgree, ConversationIds, InstanceIds
    <3>2. Items(s.own[c]) = {}
      BY <3>1 DEF Items
    <3>3. Items(u.own[c]) = {}
      BY <2>3, <3>2
    <3> QED BY <2>3, <3>3, NoItems
  <2> QED BY <2>3, <2>4
<1>8. Unpruned(s)
  BY <1>1 DEF Unpruned, ForwardsAreReachable, NamedAreThere
<1>9. Unpruned(u)
  <2>1. u = [roots |-> u.roots, visible |-> u.visible, instances |-> u.instances,
             messages |-> u.messages, own |-> u.own, forwards |-> s.forwards]
    BY <1>5, <1>6
  <2>2. /\ u.roots \subseteq s.roots /\ u.visible \subseteq u.roots
        /\ u.instances \in Seq(Instance \cup {None}) /\ DOMAIN u.instances = DOMAIN s.instances
        /\ \A i \in DOMAIN s.instances : u.instances[i] \in {None, s.instances[i]}
        /\ u.own = [c \in DOMAIN s.own |-> u.own[c]]
    BY <1>1, <1>6 DEF SceneTypeOK
  <2>3. \A m \in MessageIds(s) \ dropped : s.messages[m].conversation \in ConversationIds(u)
    BY <1>1, <1>6 DEF RowsAndMessagesAgree, ConversationIds, InstanceIds
  <2> QED BY <1>6, <1>7, <1>8, <2>1, <2>2, <2>3, ShrinkKeeps
<1>10. /\ Stored(t) /\ t.roots = s.roots /\ t.instances = s.instances /\ t.messages = u.messages
       /\ t.own = u.own /\ t.forwards \subseteq s.forwards
  <2>1. /\ Stored(t) /\ t.forwards \subseteq s.forwards
        /\ t = [roots |-> u.roots, visible |-> u.visible, instances |-> u.instances,
                messages |-> u.messages, own |-> u.own, forwards |-> t.forwards]
    BY <1>6, <1>9, PruneKeeps
  <2> HIDE DEF t
  <2>2. t.roots = u.roots /\ t.instances = u.instances /\ t.messages = u.messages /\ t.own = u.own
    BY <2>1
  <2> QED BY <1>6, <2>1, <2>2
<1>11. CASE dropped = {}
  <2>1. Evicted(s, s, {})
    BY DEF Evicted
  <2> QED BY <1>2, <1>11, <2>1
<1>12. CASE dropped # {}
  <2> HIDE DEF t
  <2>1. MessageIds(t) = MessageIds(s) \ dropped /\ \A m \in MessageIds(t) : t.messages[m] = s.messages[m]
    BY <1>6, <1>10 DEF MessageIds
  <2>2. Evicted(s, t, dropped)
    BY <1>4, <1>7, <1>10, <2>1 DEF Evicted
  <2> QED BY <1>2, <1>10, <1>12, <2>2
<1> QED BY <1>11, <1>12

-----------------------------------------------------------------------------
(* What conversations read. *)

\* ReadInstances is the function it is meant to be: a source comes before what branches off it.
ReadUpTo(s, n, f) == f = [i \in 1..n |-> ReadWith(s, f, i)]

\* The recursive function of ReadInstances exists, for any instances whose forks are earlier.
LEMMA ReadExists ==
  ASSUME NEW s, SceneTypeOK(s), ForksAreEarlier(s), NEW n \in Nat, n <= Len(s.instances)
  PROVE  \E f : ReadUpTo(s, n, f)
<1> DEFINE wrong == {m \in Nat : m <= n /\ ~\E f : ReadUpTo(s, m, f)}
<1>0. n <= n
  OBVIOUS
<1> SUFFICES ASSUME ~\E f : ReadUpTo(s, n, f) PROVE FALSE
  OBVIOUS
<1>a. n \in wrong
  BY <1>0
<1>1. PICK m \in wrong : \A y \in wrong : m <= y
  <2>1. wrong \in SUBSET Nat /\ wrong # {}
    BY <1>a
  <2> HIDE DEF wrong
  <2> QED BY <2>1, Smallest
<1>2. m # 0
  <2>1. ReadUpTo(s, 0, [i \in 1..0 |-> <<>>])
    BY DEF ReadUpTo
  <2> QED BY <2>1
<1>3. m \in Nat /\ m - 1 \in Nat /\ m - 1 \notin wrong /\ m - 1 <= n
  BY <1>1, <1>2
<1>4. PICK f : ReadUpTo(s, m - 1, f)
  BY <1>3
<1> DEFINE g == [i \in 1..m |-> ReadWith(s, f, i)]
<1>5. \A i \in 1..(m - 1) : f[i] = ReadWith(s, f, i)
  BY <1>4 DEF ReadUpTo
<1>6. \A i \in 1..(m - 1) : g[i] = f[i]
  BY <1>3, <1>5
<1>7. ReadUpTo(s, m, g)
  <2> DEFINE h == g
  <2>1. \A i \in 1..(m - 1) : h[i] = f[i]
    BY <1>6
  <2> HIDE DEF h
  <2>2. ASSUME NEW i \in 1..m PROVE ReadWith(s, f, i) = ReadWith(s, h, i)
    <3> DEFINE fork == s.instances[i].fork
    <3>1. CASE s.instances[i] = None \/ fork = None
      BY <3>1 DEF ReadWith
    <3>2. CASE s.instances[i] # None /\ fork # None
      <4>1. i \in DOMAIN s.instances
        BY <1>3, SceneParts
      <4>2. fork.source \in Roots \cup 1..(i - 1)
        BY <3>2, <4>1 DEF ForksAreEarlier, InstanceIds
      <4>3. fork.source \notin Roots => h[fork.source] = f[fork.source]
        BY <1>3, <2>1, <4>2
      <4> QED BY <4>3 DEF ReadWith
    <3> QED BY <3>1, <3>2
  <2>3. g = [i \in 1..m |-> ReadWith(s, h, i)]
    BY <2>2
  <2> QED BY <2>3 DEF ReadUpTo, h
<1> QED BY <1>1, <1>7

\* And what it reads is what its definition says: own items behind an inherited beginning.
LEMMA ReadsAre ==
  ASSUME NEW s, SceneTypeOK(s), ForksAreEarlier(s)
  PROVE  \A i \in DOMAIN s.instances : ReadInstances(s)[i] = ReadWith(s, ReadInstances(s), i)
<1> DEFINE F == CHOOSE f : ReadUpTo(s, Len(s.instances), f)
<1>1. Len(s.instances) \in Nat /\ DOMAIN s.instances = 1..Len(s.instances)
  BY SceneParts
<1>2. ReadUpTo(s, Len(s.instances), F)
  BY <1>1, ReadExists
<1>3. ReadInstances(s) = F
  BY <1>1 DEF ReadInstances, ReadUpTo
<1> HIDE DEF F
<1> QED BY <1>1, <1>2, <1>3 DEF ReadUpTo

\* Two lists in order, the one before the other, are one list in order.
LEMMA InOrderTogether ==
  ASSUME NEW a \in Seq(Nat), NEW b \in Seq(Nat), Ascending(a), Ascending(b),
         \A x \in Items(a), y \in Items(b) : x < y
  PROVE  a \o b \in Seq(Nat) /\ Ascending(a \o b) /\ Items(a \o b) = Items(a) \cup Items(b)
<1> DEFINE c == a \o b
<1>1. /\ c \in Seq(Nat) /\ Len(a) \in Nat /\ Len(b) \in Nat /\ Len(c) = Len(a) + Len(b)
      /\ DOMAIN c = 1..(Len(a) + Len(b)) /\ DOMAIN a = 1..Len(a) /\ DOMAIN b = 1..Len(b)
  OBVIOUS
<1>2. \A k \in 1..Len(a) : c[k] = a[k]
  OBVIOUS
<1>3. \A k \in 1..Len(b) : c[Len(a) + k] = b[k]
  OBVIOUS
<1> HIDE DEF c
<1>4. \A k \in DOMAIN c : \/ k \in DOMAIN a /\ c[k] = a[k]
                          \/ k - Len(a) \in DOMAIN b /\ c[k] = b[k - Len(a)] /\ Len(a) < k
  <2> SUFFICES ASSUME NEW k \in DOMAIN c, ~(k <= Len(a))
               PROVE  k - Len(a) \in DOMAIN b /\ c[k] = b[k - Len(a)] /\ Len(a) < k
    BY <1>1, <1>2
  <2>1. k - Len(a) \in 1..Len(b) /\ Len(a) + (k - Len(a)) = k /\ Len(a) < k
    BY <1>1
  <2> QED BY <1>1, <1>3, <2>1
<1>5. Items(c) = Items(a) \cup Items(b)
  <2>1. Items(c) \subseteq Items(a) \cup Items(b)
    BY <1>4 DEF Items
  <2>2. Items(a) \subseteq Items(c)
    BY <1>1, <1>2 DEF Items
  <2>3. Items(b) \subseteq Items(c)
    <3> SUFFICES ASSUME NEW k \in DOMAIN b PROVE \E j \in DOMAIN c : b[k] = c[j]
      BY DEF Items
    <3>1. Len(a) + k \in DOMAIN c
      BY <1>1
    <3> QED BY <1>1, <1>3, <3>1
  <2> QED BY <2>1, <2>2, <2>3
<1>6. Ascending(c)
  <2> SUFFICES ASSUME NEW j \in DOMAIN c, NEW k \in DOMAIN c, j < k PROVE c[j] < c[k]
    BY DEF Ascending
  <2>1. j \in Nat /\ k \in Nat
    BY <1>1
  <2>2. CASE j \in DOMAIN a /\ k \in DOMAIN a
    BY <1>1, <1>2, <2>2 DEF Ascending
  <2>3. CASE j \in DOMAIN a /\ k \notin DOMAIN a
    BY <1>1, <1>2, <1>4, <2>3 DEF Items
  <2>4. CASE j \notin DOMAIN a
    <3>1. j - Len(a) \in DOMAIN b /\ c[j] = b[j - Len(a)] /\ Len(a) < j
      BY <1>4, <2>4
    <3>2. k - Len(a) \in DOMAIN b /\ c[k] = b[k - Len(a)]
      BY <1>1, <1>4, <2>1, <3>1
    <3>3. j - Len(a) < k - Len(a)
      BY <1>1, <2>1
    <3> QED BY <3>1, <3>2, <3>3 DEF Ascending
  <2> QED BY <2>2, <2>3, <2>4
<1> QED BY <1>1, <1>5, <1>6 DEF c

\* What is read in a conversation.
History(s, c) == Items(ReadMessages(s, c))

\* A conversation branches off one that is there, at a message that is still read there.
Inherits(s, c) ==
  /\ c \in InstanceIds(s) /\ s.instances[c].fork # None
  /\ s.instances[c].fork.source \in ConversationIds(s)
  /\ s.instances[c].fork.message \in History(s, s.instances[c].fork.source)

\* What it inherits.
Inherited(s, c) ==
  IF Inherits(s, c) THEN {m \in History(s, s.instances[c].fork.source) : m <= s.instances[c].fork.message}
  ELSE {}

\* A conversation reads what it inherits and what is its own, once and in order.
ReadsWell(s, c) ==
  /\ ReadMessages(s, c) \in Seq(Nat) /\ Ascending(ReadMessages(s, c))
  /\ History(s, c) = Items(s.own[c]) \cup Inherited(s, c)
  /\ History(s, c) \subseteq MessageIds(s)

\* One instance reads well if those before it do.
LEMMA InstanceReadsWell ==
  ASSUME NEW s, SceneTypeOK(s), RowsAndMessagesAgree(s), ForksAreEarlier(s),
         NEW i \in DOMAIN s.instances,
         \A c \in Roots \cup {j \in DOMAIN s.instances : j < i} : ReadsWell(s, c)
  PROVE  ReadsWell(s, i)
<1> DEFINE fork == s.instances[i].fork
           source == fork.source
<1>1. i \in Nat /\ i \notin Roots /\ i \in DOMAIN s.own
  BY SceneParts, MessagesAssumption
<1>2. ReadMessages(s, i) = ReadWith(s, ReadInstances(s), i)
  BY <1>1, ReadsAre DEF ReadMessages
<1>3. s.own[i] \in Seq(Nat) /\ Ascending(s.own[i]) /\ Items(s.own[i]) \subseteq MessageIds(s)
  BY <1>1 DEF SceneTypeOK, RowsAndMessagesAgree
<1>4. CASE s.instances[i] = None \/ fork = None \/ source \notin ConversationIds(s)
  <2>1. ReadMessages(s, i) = s.own[i]
    BY <1>2, <1>4 DEF ReadWith
  <2>2. Inherited(s, i) = {}
    BY <1>4 DEF Inherited, Inherits, InstanceIds
  <2> QED BY <1>3, <2>1, <2>2 DEF ReadsWell, History
<1>5. CASE s.instances[i] # None /\ fork # None /\ source \in ConversationIds(s)
  <2>1. i \in InstanceIds(s) /\ source \in Roots \cup 1..(i - 1)
        /\ fork.message \in Nat /\ \A m \in Items(s.own[i]) : fork.message < m
    <3>1. Len(s.messages) \in Nat
      BY SceneParts
    <3>2. i \in InstanceIds(s)
      BY <1>5 DEF InstanceIds
    <3> QED BY <1>5, <3>1, <3>2 DEF ForksAreEarlier
  <2>2. source \in Roots \cup {j \in DOMAIN s.instances : j < i}
    BY <1>1, <2>1, SceneParts
  <2> DEFINE read == ReadMessages(s, source)
             part == UpTo(read, fork.message)
  <2>3. ReadsWell(s, source)
    BY <2>2
  <2>4. read = IF source \in Roots THEN s.own[source] ELSE ReadInstances(s)[source]
    BY DEF ReadMessages
  <2>5. ReadMessages(s, i) = part \o s.own[i]
    BY <1>2, <1>5, <2>4 DEF ReadWith
  <2>6. /\ part \in Seq(Nat) /\ Ascending(part)
        /\ Items(part) = IF fork.message \in Items(read) THEN {m \in Items(read) : m <= fork.message} ELSE {}
    BY <2>1, <2>3, UpToItems DEF ReadsWell
  <2>7. Items(part) = Inherited(s, i)
    BY <1>5, <2>1, <2>6 DEF Inherited, Inherits, History
  <2>8. \A x \in Items(part), y \in Items(s.own[i]) : x < y
    <3>1. \A x \in Items(part) : x \in Nat /\ x <= fork.message
      <4> HIDE DEF part, read
      <4>1. \A x \in Items(part) : x <= fork.message
        BY <2>6
      <4>2. \A x \in Items(part) : x \in Nat
        BY <2>6 DEF Items
      <4> QED BY <4>1, <4>2
    <3>2. \A y \in Items(s.own[i]) : y \in Nat
      BY <1>3 DEF Items
    <3> QED BY <2>1, <3>1, <3>2
  <2>9. /\ ReadMessages(s, i) \in Seq(Nat) /\ Ascending(ReadMessages(s, i))
        /\ History(s, i) = Items(part) \cup Items(s.own[i])
    BY <1>3, <2>5, <2>6, <2>8, InOrderTogether DEF History
  <2>10. Items(part) \subseteq MessageIds(s)
    BY <2>3, <2>6 DEF ReadsWell, History
  <2> QED BY <1>3, <2>7, <2>9, <2>10 DEF ReadsWell
<1> QED BY <1>4, <1>5

\* In a scene that is whole, every conversation reads well.
LEMMA AllReadWell ==
  ASSUME NEW s, SceneTypeOK(s), RowsAndMessagesAgree(s), ForksAreEarlier(s)
  PROVE  \A c \in DOMAIN s.own : ReadsWell(s, c)
<1>1. ASSUME NEW c \in Roots PROVE ReadsWell(s, c)
  <2>1. c \notin Nat /\ c \in DOMAIN s.own
    BY SceneParts, MessagesAssumption
  <2>2. Inherited(s, c) = {}
    BY <2>1, SceneParts DEF Inherited, Inherits, InstanceIds
  <2>3. ReadMessages(s, c) = s.own[c]
    BY DEF ReadMessages
  <2> QED BY <2>1, <2>2, <2>3 DEF ReadsWell, History, SceneTypeOK, RowsAndMessagesAgree
<1> DEFINE wrong == {i \in DOMAIN s.instances : ~ReadsWell(s, i)}
<1>2. wrong = {}
  <2> SUFFICES ASSUME wrong # {} PROVE FALSE
    OBVIOUS
  <2>1. wrong \in SUBSET Nat
    BY SceneParts
  <2>2. PICK i \in wrong : \A y \in wrong : i <= y
    <3> HIDE DEF wrong
    <3> QED BY <2>1, Smallest
  <2>3. \A j \in DOMAIN s.instances : j < i => ReadsWell(s, j)
    BY <2>1, <2>2, SceneParts
  <2> QED BY <1>1, <2>2, <2>3, InstanceReadsWell
<1> QED BY <1>1, <1>2, SceneParts

\* Each conversation of a stored scene reads as one history.
LEMMA StoredIsChronological == ASSUME NEW s, Stored(s) PROVE ReadIsChronological(s)
  BY AllReadWell, SceneParts DEF Stored, ReadIsChronological, ReadsWell, History

-----------------------------------------------------------------------------
(* Every call leaves a scene that is whole: first what it does itself, then what a commit adds. *)

\* t is s with more conversations, or more messages at the end of some.
Grown(s, t) ==
  /\ ConversationIds(s) \subseteq ConversationIds(t)
  /\ InstanceIds(s) \subseteq InstanceIds(t)
  /\ \A i \in InstanceIds(s) : t.instances[i] = s.instances[i]
  /\ \A c \in ConversationIds(s) : Items(s.own[c]) \subseteq Items(t.own[c])

\* Showing and hiding roots.
LEMMA RootsKeep ==
  ASSUME NEW s, Stored(s), NEW roots, NEW visible,
         s.roots \subseteq roots, roots \subseteq Roots, visible \subseteq roots
  PROVE  /\ Stored([s EXCEPT !.roots = roots, !.visible = visible])
         /\ Grown(s, [s EXCEPT !.roots = roots, !.visible = visible])
         /\ MediaReferences([s EXCEPT !.roots = roots, !.visible = visible]) = MediaReferences(s)
<1> DEFINE t == [s EXCEPT !.roots = roots, !.visible = visible]
<1>1. SceneTypeOK(s) /\ RowsAndMessagesAgree(s) /\ ForksAreEarlier(s) /\ ForwardsAreReachable(s)
  BY DEF Stored
<1>2. t = [roots |-> roots, visible |-> visible, instances |-> s.instances,
           messages |-> s.messages, own |-> s.own, forwards |-> s.forwards]
  <2>1. s = [roots |-> s.roots, visible |-> s.visible, instances |-> s.instances,
             messages |-> s.messages, own |-> s.own, forwards |-> s.forwards]
    BY <1>1 DEF SceneTypeOK
  <2> DEFINE u == [s EXCEPT !.roots = roots]
  <2>2. u = [roots |-> roots, visible |-> s.visible, instances |-> s.instances,
             messages |-> s.messages, own |-> s.own, forwards |-> s.forwards]
    BY <2>1
  <2>3. t = [u EXCEPT !.visible = visible]
    OBVIOUS
  <2> HIDE DEF u, t
  <2> QED BY <2>2, <2>3
<1> HIDE DEF t
<1>3. /\ t.roots = roots /\ t.visible = visible /\ t.instances = s.instances
      /\ t.messages = s.messages /\ t.own = s.own /\ t.forwards = s.forwards
  BY <1>2
<1>4. SceneTypeOK(t)
  BY <1>1, <1>2, <1>3 DEF SceneTypeOK
<1>5. MessageIds(t) = MessageIds(s) /\ InstanceIds(t) = InstanceIds(s)
      /\ ConversationIds(s) \subseteq ConversationIds(t)
  BY <1>3 DEF MessageIds, InstanceIds, ConversationIds
<1>6. RowsAndMessagesAgree(t)
  BY <1>1, <1>3, <1>5 DEF RowsAndMessagesAgree
<1>7. ForksAreEarlier(t)
  BY <1>1, <1>3, <1>5 DEF ForksAreEarlier
<1>8. ForwardsAreReachable(t)
  BY <1>1, <1>3, <1>5 DEF ForwardsAreReachable, Named
<1>9. Grown(s, t)
  BY <1>3, <1>5 DEF Grown
<1>10. MediaReferences(t) = MediaReferences(s)
  BY <1>3, <1>5 DEF MediaReferences
<1> QED BY <1>4, <1>6, <1>7, <1>8, <1>9, <1>10 DEF Stored, t

\* A new instance, blank or a branch.
LEMMA InstanceKeeps ==
  ASSUME NEW s, Stored(s), NEW c \in ConversationIds(s), NEW fork,
         fork = None \/ \E m \in MessageIds(s) : fork = [source |-> c, message |-> m]
  PROVE  LET made == [s EXCEPT
             !.instances = Append(@, [root |-> RootOf(s, c), fork |-> fork]),
             !.own = [d \in DOMAIN @ \cup {Len(s.instances) + 1} |->
                        IF d \in DOMAIN @ THEN @[d] ELSE <<>>]]
         IN  Stored(made) /\ Grown(s, made) /\ MediaReferences(made) = MediaReferences(s)
<1> DEFINE n == Len(s.instances)
           x == [root |-> RootOf(s, c), fork |-> fork]
           lists == [d \in DOMAIN s.own \cup {n + 1} |-> IF d \in DOMAIN s.own THEN s.own[d] ELSE <<>>]
           is == Append(s.instances, x)
           t == [s EXCEPT !.instances = is, !.own = lists]
<1>1. SceneTypeOK(s) /\ RowsAndMessagesAgree(s) /\ ForksAreEarlier(s) /\ ForwardsAreReachable(s)
  BY DEF Stored
<1>2. s = [roots |-> s.roots, visible |-> s.visible, instances |-> s.instances,
           messages |-> s.messages, own |-> s.own, forwards |-> s.forwards]
  BY <1>1 DEF SceneTypeOK
<1>3. t = [s EXCEPT
           !.instances = Append(@, [root |-> RootOf(s, c), fork |-> fork]),
           !.own = [d \in DOMAIN @ \cup {Len(s.instances) + 1} |->
                      IF d \in DOMAIN @ THEN @[d] ELSE <<>>]]
  BY <1>2
<1>4. t = [roots |-> s.roots, visible |-> s.visible, instances |-> is,
           messages |-> s.messages, own |-> lists, forwards |-> s.forwards]
  <2> HIDE DEF is, lists
  <2> DEFINE u == [s EXCEPT !.instances = is]
  <2>1. u = [roots |-> s.roots, visible |-> s.visible, instances |-> is,
             messages |-> s.messages, own |-> s.own, forwards |-> s.forwards]
    BY <1>2
  <2>2. t = [u EXCEPT !.own = lists]
    OBVIOUS
  <2> HIDE DEF u, t
  <2> QED BY <2>1, <2>2
<1>5. n \in Nat /\ DOMAIN s.instances = 1..n /\ DOMAIN s.own = Roots \cup 1..n /\ n + 1 \notin Roots
      /\ n + 1 \notin DOMAIN s.own
  BY <1>1, SceneParts, MessagesAssumption
<1>6. c \in Roots \cup 1..n /\ RootOf(s, c) \in Roots
  <2>1. c \in DOMAIN s.own
    BY <1>1, SceneParts
  <2>2. CASE c \in Roots
    BY <2>2 DEF RootOf
  <2>3. CASE c \notin Roots
    <3>1. c \in InstanceIds(s)
      BY <1>1, <2>3 DEF ConversationIds, SceneTypeOK
    <3> QED BY <1>1, <1>5, <2>1, <2>3, <3>1, SceneParts DEF RootOf
  <2> QED BY <1>5, <2>1, <2>2, <2>3
<1>7. fork = None \/ (fork.source = c /\ fork.message \in 0..Len(s.messages)
                      /\ fork \in [source : Conversations, message : Nat])
  <2> SUFFICES ASSUME NEW m \in MessageIds(s), fork = [source |-> c, message |-> m]
               PROVE  fork.source = c /\ fork.message \in 0..Len(s.messages)
                      /\ fork \in [source : Conversations, message : Nat]
    OBVIOUS
  <2>1. m \in 1..Len(s.messages) /\ Len(s.messages) \in Nat
    BY <1>1, SceneParts
  <2>2. c \in Conversations
    BY <1>5, <1>6 DEF Conversations
  <2> QED BY <2>1, <2>2
<1>8. x \in Instance /\ x # None /\ x.fork = fork
  BY <1>6, <1>7, MessagesAssumption DEF Instance
<1> HIDE DEF x, n
<1>9. /\ is \in Seq(Instance \cup {None}) /\ Len(is) = n + 1 /\ DOMAIN is = 1..(n + 1)
      /\ is[n + 1] = x /\ \A i \in 1..n : is[i] = s.instances[i]
  BY <1>1, <1>5, <1>8 DEF SceneTypeOK, n
<1>10. /\ DOMAIN lists = Roots \cup 1..(n + 1) /\ lists = [d \in DOMAIN lists |-> lists[d]]
       /\ lists[n + 1] = <<>> /\ \A d \in DOMAIN s.own : lists[d] = s.own[d]
  <2>1. 1..(n + 1) = 1..n \cup {n + 1}
    BY <1>5
  <2> QED BY <1>5, <2>1
<1> HIDE DEF is, lists, t
<1>11. /\ t.roots = s.roots /\ t.visible = s.visible /\ t.instances = is
       /\ t.messages = s.messages /\ t.own = lists /\ t.forwards = s.forwards
  BY <1>4
<1>12. SceneTypeOK(t)
  <2>1. \A d \in DOMAIN lists : lists[d] \in Seq(Nat)
    <3>1. \A d \in DOMAIN s.own : s.own[d] \in Seq(Nat)
      BY <1>1 DEF SceneTypeOK
    <3>2. \A d \in DOMAIN lists : d \in DOMAIN s.own \/ d = n + 1
      BY <1>5, <1>10
    <3>3. <<>> \in Seq(Nat)
      OBVIOUS
    <3> QED BY <1>10, <3>1, <3>2, <3>3
  <2>2. t = [roots |-> t.roots, visible |-> t.visible, instances |-> t.instances,
             messages |-> t.messages, own |-> t.own, forwards |-> t.forwards]
    BY <1>4, <1>11
  <2>3. t.own = [d \in Roots \cup DOMAIN t.instances |-> t.own[d]]
    BY <1>9, <1>10, <1>11
  <2>4. t.roots \subseteq Roots /\ t.visible \subseteq t.roots /\ t.forwards \subseteq Forward
        /\ t.messages \in Seq(MessageRow \cup {None})
    BY <1>1, <1>11 DEF SceneTypeOK
  <2> QED BY <1>9, <1>11, <2>1, <2>2, <2>3, <2>4 DEF SceneTypeOK
<1>13. MessageIds(t) = MessageIds(s) /\ InstanceIds(t) = InstanceIds(s) \cup {n + 1}
       /\ ConversationIds(t) = ConversationIds(s) \cup {n + 1}
  <2>1. InstanceIds(t) = InstanceIds(s) \cup {n + 1}
    <3>1. \A i \in 1..(n + 1) : i \in 1..n \/ i = n + 1
      BY <1>5
    <3>2. n + 1 \in 1..(n + 1) /\ 1..n \subseteq 1..(n + 1)
      BY <1>5
    <3> QED BY <1>5, <1>8, <1>9, <1>11, <3>1, <3>2 DEF InstanceIds
  <2> QED BY <1>11, <2>1 DEF MessageIds, ConversationIds
<1>14. RowsAndMessagesAgree(t)
  <2>1. ASSUME NEW d \in DOMAIN lists
        PROVE  /\ Ascending(lists[d])
               /\ Items(lists[d]) = {m \in MessageIds(s) : s.messages[m].conversation = d}
               /\ d \notin ConversationIds(t) => lists[d] = <<>>
    <3>1. CASE d \in DOMAIN s.own
      BY <1>1, <1>10, <1>13, <3>1 DEF RowsAndMessagesAgree
    <3>2. CASE d = n + 1
      <4>1. \A m \in MessageIds(s) : s.messages[m].conversation \in DOMAIN s.own
        BY <1>1, SceneParts DEF RowsAndMessagesAgree
      <4>2. {m \in MessageIds(s) : s.messages[m].conversation = d} = {}
        BY <1>5, <3>2, <4>1
      <4>3. Items(<<>>) = {} /\ Ascending(<<>>)
        BY DEF Items, Ascending
      <4> QED BY <1>10, <3>2, <4>2, <4>3
    <3> QED BY <1>5, <1>10, <3>1, <3>2
  <2>2. \A m \in MessageIds(s) : s.messages[m].conversation \in ConversationIds(t)
    BY <1>1, <1>13 DEF RowsAndMessagesAgree
  <2> QED BY <1>11, <1>13, <2>1, <2>2 DEF RowsAndMessagesAgree
<1>15. ForksAreEarlier(t)
  <2> SUFFICES ASSUME NEW i \in InstanceIds(t), is[i].fork # None
               PROVE  /\ is[i].fork.source \in Roots \cup 1..(i - 1)
                      /\ is[i].fork.message \in 0..Len(s.messages)
                      /\ \A m \in Items(lists[i]) : is[i].fork.message < m
    BY <1>11 DEF ForksAreEarlier
  <2>1. CASE i \in InstanceIds(s)
    <3>1. i \in 1..n /\ i \in DOMAIN s.own
      BY <1>5, <2>1 DEF InstanceIds
    <3>2. is[i] = s.instances[i] /\ lists[i] = s.own[i]
      BY <1>9, <1>10, <3>1
    <3> QED BY <1>1, <2>1, <3>2 DEF ForksAreEarlier
  <2>2. CASE i = n + 1
    <3>1. Items(lists[i]) = {}
      BY <1>10, <2>2 DEF Items
    <3>2. c \in Roots \cup 1..(i - 1)
      BY <1>5, <1>6, <2>2
    <3>3. is[i].fork = fork
      BY <1>8, <1>9, <2>2
    <3> QED BY <1>7, <3>1, <3>2, <3>3
  <2> QED BY <1>13, <2>1, <2>2
<1>16. ForwardsAreReachable(t)
  BY <1>1, <1>11, <1>13 DEF ForwardsAreReachable, Named
<1>17. Stored(t)
  BY <1>12, <1>14, <1>15, <1>16 DEF Stored
<1>18. Grown(s, t)
  <2>1. \A i \in InstanceIds(s) : i \in 1..n
    BY <1>5 DEF InstanceIds
  <2>2. ConversationIds(s) \subseteq DOMAIN s.own
    BY <1>1, SceneParts
  <2> QED BY <1>9, <1>10, <1>11, <1>13, <2>1, <2>2 DEF Grown
<1>19. MediaReferences(t) = MediaReferences(s)
  BY <1>11, <1>13 DEF MediaReferences
<1> QED BY <1>3, <1>17, <1>18, <1>19 DEF n, t

\* A list in order with a later item at its end.
LEMMA LaterItem ==
  ASSUME NEW list \in Seq(Nat), Ascending(list), NEW x \in Nat, \A y \in Items(list) : y < x
  PROVE  /\ Append(list, x) \in Seq(Nat) /\ Ascending(Append(list, x))
         /\ Items(Append(list, x)) = Items(list) \cup {x}
<1> DEFINE t == Append(list, x)
<1>1. /\ Len(list) \in Nat /\ DOMAIN list = 1..Len(list) /\ t \in Seq(Nat)
      /\ DOMAIN t = 1..(Len(list) + 1) /\ t[Len(list) + 1] = x
      /\ \A j \in 1..Len(list) : t[j] = list[j]
  OBVIOUS
<1> HIDE DEF t
<1>2. \A j \in DOMAIN t : j = Len(list) + 1 \/ (j \in DOMAIN list /\ t[j] = list[j])
  BY <1>1
<1>3. Items(t) = Items(list) \cup {x}
  <2>1. Items(list) \subseteq Items(t) /\ x \in Items(t)
    BY <1>1 DEF Items
  <2>2. Items(t) \subseteq Items(list) \cup {x}
    BY <1>1, <1>2 DEF Items
  <2> QED BY <2>1, <2>2
<1>4. Ascending(t)
  BY <1>1, <1>2 DEF Ascending, Items
<1> QED BY <1>1, <1>3, <1>4 DEF t

\* A message at the end of a conversation.
LEMMA AppendedKeeps ==
  ASSUME NEW s, Unpruned(s), NEW message \in MessageRow, message.conversation \in ConversationIds(s),
         message.forward # None => \E f \in s.forwards : f.id = message.forward,
         \A f \in s.forwards : f.id \in Named(s, s.forwards) \cup {message.forward}
  PROVE  /\ Stored(Appended(s, message)) /\ Grown(s, Appended(s, message))
         /\ MediaReferences(Appended(s, message)) = MediaReferences(s) \cup message.media
<1> DEFINE n == Len(s.messages)
           c == message.conversation
           rows == Append(s.messages, message)
           lists == [s.own EXCEPT ![c] = Append(@, n + 1)]
           t == Appended(s, message)
<1>1. SceneTypeOK(s) /\ RowsAndMessagesAgree(s) /\ ForksAreEarlier(s) /\ NamedAreThere(s)
  BY DEF Unpruned
<1>2. s = [roots |-> s.roots, visible |-> s.visible, instances |-> s.instances,
           messages |-> s.messages, own |-> s.own, forwards |-> s.forwards]
  BY <1>1 DEF SceneTypeOK
<1>3. t = [roots |-> s.roots, visible |-> s.visible, instances |-> s.instances,
           messages |-> rows, own |-> lists, forwards |-> s.forwards]
  <2> DEFINE u == [s EXCEPT !.messages = rows]
  <2> HIDE DEF rows, lists
  <2>1. u = [roots |-> s.roots, visible |-> s.visible, instances |-> s.instances,
             messages |-> rows, own |-> s.own, forwards |-> s.forwards]
    BY <1>2
  <2>2. t = [u EXCEPT !.own = lists]
    BY <1>2, <2>1 DEF Appended, rows, lists
  <2> HIDE DEF u, t
  <2> QED BY <2>1, <2>2
<1> HIDE DEF t
<1>4. /\ t.roots = s.roots /\ t.visible = s.visible /\ t.instances = s.instances
      /\ t.messages = rows /\ t.own = lists /\ t.forwards = s.forwards
  BY <1>3
<1>5. n \in Nat /\ DOMAIN s.messages = 1..n /\ c \in DOMAIN s.own /\ c \in Conversations
      /\ message # None
  BY <1>1, SceneParts, MessagesAssumption DEF MessageRow
<1>6. /\ rows \in Seq(MessageRow \cup {None}) /\ Len(rows) = n + 1 /\ DOMAIN rows = 1..(n + 1)
      /\ rows[n + 1] = message /\ \A m \in 1..n : rows[m] = s.messages[m]
  BY <1>1, <1>5 DEF SceneTypeOK
<1>7. /\ DOMAIN lists = DOMAIN s.own /\ lists = [d \in DOMAIN s.own |-> lists[d]]
      /\ lists[c] = Append(s.own[c], n + 1) /\ \A d \in DOMAIN s.own : d # c => lists[d] = s.own[d]
  BY <1>5
<1> HIDE DEF rows, lists, n
<1>8. InstanceIds(t) = InstanceIds(s) /\ ConversationIds(t) = ConversationIds(s)
  BY <1>4 DEF InstanceIds, ConversationIds
<1>9. MessageIds(t) = MessageIds(s) \cup {n + 1} /\ n + 1 \notin MessageIds(s)
      /\ \A m \in MessageIds(s) : m \in 1..n /\ t.messages[m] = s.messages[m]
  <2>1. \A m \in 1..(n + 1) : m \in 1..n \/ m = n + 1
    BY <1>5
  <2>2. n + 1 \in 1..(n + 1) /\ 1..n \subseteq 1..(n + 1) /\ n + 1 \notin 1..n
    BY <1>5
  <2> QED BY <1>4, <1>5, <1>6, <2>1, <2>2 DEF MessageIds
<1>10. \A d \in DOMAIN s.own : s.own[d] \in Seq(Nat) /\ Ascending(s.own[d])
                               /\ Items(s.own[d]) \subseteq MessageIds(s)
  BY <1>1 DEF SceneTypeOK, RowsAndMessagesAgree
<1>11. lists[c] \in Seq(Nat) /\ Ascending(lists[c]) /\ Items(lists[c]) = Items(s.own[c]) \cup {n + 1}
  <2> DEFINE list == s.own[c]
  <2>1. list \in Seq(Nat) /\ Ascending(list) /\ Items(list) \subseteq MessageIds(s)
    BY <1>5, <1>10
  <2>2. MessageIds(s) \subseteq 1..n /\ n + 1 \in Nat
    BY <1>5, <1>9
  <2> HIDE DEF list
  <2>3. \A x \in Items(list) : x < n + 1
    BY <1>5, <2>1, <2>2
  <2>4. /\ Append(list, n + 1) \in Seq(Nat) /\ Ascending(Append(list, n + 1))
        /\ Items(Append(list, n + 1)) = Items(list) \cup {n + 1}
    BY <2>1, <2>2, <2>3, LaterItem
  <2> QED BY <1>7, <2>4 DEF list
<1>12. SceneTypeOK(t)
  <2>1. \A d \in DOMAIN lists : lists[d] \in Seq(Nat)
    BY <1>7, <1>10, <1>11
  <2>2. t = [roots |-> t.roots, visible |-> t.visible, instances |-> t.instances,
             messages |-> t.messages, own |-> t.own, forwards |-> t.forwards]
    BY <1>3, <1>4
  <2>3. t.own = [d \in Roots \cup DOMAIN t.instances |-> t.own[d]]
    BY <1>1, <1>4, <1>7, SceneParts
  <2>4. t.roots \subseteq Roots /\ t.visible \subseteq t.roots /\ t.forwards \subseteq Forward
        /\ t.instances \in Seq(Instance \cup {None})
    BY <1>1, <1>4 DEF SceneTypeOK
  <2> QED BY <1>4, <1>6, <2>1, <2>2, <2>3, <2>4 DEF SceneTypeOK
<1>13. RowsAndMessagesAgree(t)
  <2>1. ASSUME NEW d \in DOMAIN s.own
        PROVE  /\ Ascending(lists[d])
               /\ Items(lists[d]) = {m \in MessageIds(t) : t.messages[m].conversation = d}
               /\ d \notin ConversationIds(t) => lists[d] = <<>>
    <3>1. Items(s.own[d]) = {m \in MessageIds(s) : s.messages[m].conversation = d}
      BY <1>1 DEF RowsAndMessagesAgree
    <3>2. CASE d = c
      <4>1. {m \in MessageIds(t) : t.messages[m].conversation = d} = Items(s.own[d]) \cup {n + 1}
        BY <1>4, <1>6, <1>9, <3>1, <3>2
      <4> QED BY <1>8, <1>11, <3>2, <4>1
    <3>3. CASE d # c
      <4>1. {m \in MessageIds(t) : t.messages[m].conversation = d} = Items(s.own[d])
        BY <1>4, <1>6, <1>9, <3>1, <3>3
      <4> QED BY <1>1, <1>7, <1>8, <3>3, <4>1 DEF RowsAndMessagesAgree
    <3> QED BY <3>2, <3>3
  <2>2. \A m \in MessageIds(t) : t.messages[m].conversation \in ConversationIds(t)
    BY <1>1, <1>4, <1>6, <1>8, <1>9 DEF RowsAndMessagesAgree
  <2> QED BY <1>4, <1>7, <2>1, <2>2 DEF RowsAndMessagesAgree
<1>14. ForksAreEarlier(t)
  <2> SUFFICES ASSUME NEW i \in InstanceIds(s), s.instances[i].fork # None
               PROVE  /\ s.instances[i].fork.source \in Roots \cup 1..(i - 1)
                      /\ s.instances[i].fork.message \in 0..(n + 1)
                      /\ \A m \in Items(lists[i]) : s.instances[i].fork.message < m
    BY <1>4, <1>6, <1>8 DEF ForksAreEarlier
  <2>1. /\ s.instances[i].fork.source \in Roots \cup 1..(i - 1)
        /\ s.instances[i].fork.message \in 0..n
        /\ \A m \in Items(s.own[i]) : s.instances[i].fork.message < m
    BY <1>1 DEF ForksAreEarlier, n
  <2>2. i \in DOMAIN s.own
    BY <1>1, SceneParts DEF InstanceIds
  <2>3. Items(lists[i]) \subseteq Items(s.own[i]) \cup {n + 1}
    BY <1>7, <1>11, <2>2
  <2> QED BY <1>5, <2>1, <2>3
<1>15. ForwardsAreReachable(t)
  <2>1. Named(t, t.forwards) = Named(s, s.forwards) \cup {message.forward}
    BY <1>4, <1>6, <1>9 DEF Named
  <2>2. \A x \in Named(t, t.forwards) \ {None} : \E f \in s.forwards : f.id = x
    BY <1>1, <2>1 DEF NamedAreThere
  <2> QED BY <1>4, <2>1, <2>2 DEF ForwardsAreReachable
<1>16. Grown(s, t)
  <2>1. ConversationIds(s) \subseteq DOMAIN s.own
    BY <1>1, SceneParts
  <2>2. \A d \in ConversationIds(s) : Items(s.own[d]) \subseteq Items(lists[d])
    BY <1>7, <1>11, <2>1
  <2> QED BY <1>4, <1>8, <2>2 DEF Grown
<1>17. MediaReferences(t) = MediaReferences(s) \cup message.media
  BY <1>4, <1>6, <1>9 DEF MediaReferences
<1> QED BY <1>12, <1>13, <1>14, <1>15, <1>16, <1>17 DEF Stored, t

\* A message is recalled.
LEMMA RecallKeeps ==
  ASSUME NEW s, Stored(s), NEW m \in MessageIds(s)
  PROVE  /\ Stored([s EXCEPT !.messages[m].kind = "recalled"])
         /\ Grown(s, [s EXCEPT !.messages[m].kind = "recalled"])
         /\ MediaReferences([s EXCEPT !.messages[m].kind = "recalled"]) = MediaReferences(s)
<1> DEFINE rows == [s.messages EXCEPT ![m].kind = "recalled"]
           t == [s EXCEPT !.messages[m].kind = "recalled"]
<1>1. SceneTypeOK(s) /\ RowsAndMessagesAgree(s) /\ ForksAreEarlier(s) /\ ForwardsAreReachable(s)
  BY DEF Stored
<1>2. s = [roots |-> s.roots, visible |-> s.visible, instances |-> s.instances,
           messages |-> s.messages, own |-> s.own, forwards |-> s.forwards]
  BY <1>1 DEF SceneTypeOK
<1>3. t = [roots |-> s.roots, visible |-> s.visible, instances |-> s.instances,
           messages |-> rows, own |-> s.own, forwards |-> s.forwards]
  <2>1. t = [s EXCEPT !.messages = rows]
    BY <1>2
  <2> HIDE DEF t, rows
  <2> QED BY <1>2, <2>1
<1> HIDE DEF t
<1>4. /\ t.roots = s.roots /\ t.visible = s.visible /\ t.instances = s.instances
      /\ t.messages = rows /\ t.own = s.own /\ t.forwards = s.forwards
  BY <1>3
<1> DEFINE n == Len(s.messages)
           row == [s.messages[m] EXCEPT !.kind = "recalled"]
<1>5. n \in Nat /\ DOMAIN s.messages = 1..n /\ m \in 1..n /\ s.messages[m] \in MessageRow
      /\ s.messages \in [1..n -> MessageRow \cup {None}]
  <2>1. s.messages \in Seq(MessageRow \cup {None})
    BY <1>1 DEF SceneTypeOK
  <2>2. n \in Nat /\ s.messages \in [1..n -> MessageRow \cup {None}]
    BY <2>1
  <2> HIDE DEF n
  <2> QED BY <1>1, <2>2, SceneParts DEF n
<1>6. /\ row \in MessageRow /\ row # None /\ row.conversation = s.messages[m].conversation
      /\ row.forward = s.messages[m].forward /\ row.media = s.messages[m].media
  BY <1>5, MessagesAssumption DEF MessageRow
<1>7. rows = [s.messages EXCEPT ![m] = row]
  BY <1>5
<1> HIDE DEF row, rows
<1>8. /\ rows \in [1..n -> MessageRow \cup {None}] /\ DOMAIN rows = 1..n
      /\ rows[m] = row /\ \A k \in 1..n : k # m => rows[k] = s.messages[k]
  BY <1>5, <1>6, <1>7
<1>9. rows \in Seq(MessageRow \cup {None}) /\ Len(rows) = n
  <2> HIDE DEF n
  <2> QED BY <1>5, <1>8
<1>10. MessageIds(t) = MessageIds(s) /\ InstanceIds(t) = InstanceIds(s)
       /\ ConversationIds(t) = ConversationIds(s)
  BY <1>4, <1>5, <1>6, <1>8 DEF MessageIds, InstanceIds, ConversationIds
<1>11. \A k \in MessageIds(s) : /\ rows[k].conversation = s.messages[k].conversation
                                /\ rows[k].forward = s.messages[k].forward
                                /\ rows[k].media = s.messages[k].media
  BY <1>5, <1>6, <1>8 DEF MessageIds
<1>12. SceneTypeOK(t)
  <2>1. t = [roots |-> t.roots, visible |-> t.visible, instances |-> t.instances,
             messages |-> t.messages, own |-> t.own, forwards |-> t.forwards]
    BY <1>3, <1>4
  <2> QED BY <1>1, <1>4, <1>9, <2>1 DEF SceneTypeOK
<1>13. RowsAndMessagesAgree(t)
  BY <1>1, <1>4, <1>10, <1>11 DEF RowsAndMessagesAgree
<1>14. ForksAreEarlier(t)
  BY <1>1, <1>4, <1>9, <1>10 DEF ForksAreEarlier
<1>15. ForwardsAreReachable(t)
  <2>1. Named(t, t.forwards) = Named(s, s.forwards)
    BY <1>4, <1>10, <1>11 DEF Named
  <2> QED BY <1>1, <1>4, <2>1 DEF ForwardsAreReachable
<1>16. Grown(s, t)
  BY <1>4, <1>10 DEF Grown
<1>17. MediaReferences(t) = MediaReferences(s)
  BY <1>4, <1>10, <1>11 DEF MediaReferences
<1> QED BY <1>12, <1>13, <1>14, <1>15, <1>16, <1>17 DEF Stored, t

\* t is s without some conversations, or with one of them cleared.
Reduced(s, t, cleared) ==
  /\ ConversationIds(t) \subseteq ConversationIds(s)
  /\ InstanceIds(t) \subseteq InstanceIds(s)
  /\ \A i \in InstanceIds(t) : t.instances[i] = s.instances[i]
  /\ \A c \in ConversationIds(t) \ {cleared} : t.own[c] = s.own[c]
  /\ cleared \in ConversationIds(t) => t.own[cleared] = <<>> /\ ConversationIds(t) = ConversationIds(s)
  /\ MessageIds(t) \subseteq MessageIds(s)
  /\ \A m \in MessageIds(t) : t.messages[m] = s.messages[m]
  /\ t.forwards \subseteq s.forwards

\* What pruning leaves alone stays as it is.
LEMMA PruneReduces ==
  ASSUME NEW s, NEW u, Unpruned(u), NEW cleared, Reduced(s, u, cleared)
  PROVE  Stored(PruneForwards(u)) /\ Reduced(s, PruneForwards(u), cleared)
<1> DEFINE t == PruneForwards(u)
<1>1. /\ Stored(t) /\ t.forwards \subseteq u.forwards
      /\ t = [roots |-> u.roots, visible |-> u.visible, instances |-> u.instances,
              messages |-> u.messages, own |-> u.own, forwards |-> t.forwards]
  BY PruneKeeps
<1> HIDE DEF t
<1>2. t.roots = u.roots /\ t.instances = u.instances /\ t.messages = u.messages /\ t.own = u.own
  BY <1>1
<1>3. ConversationIds(t) = ConversationIds(u) /\ InstanceIds(t) = InstanceIds(u)
      /\ MessageIds(t) = MessageIds(u)
  BY <1>2 DEF ConversationIds, InstanceIds, MessageIds
<1>4. Reduced(s, t, cleared)
  BY <1>1, <1>2, <1>3 DEF Reduced
<1> QED BY <1>1, <1>4 DEF t

\* Conversations go, with what is theirs.
LEMMA RemovalKeeps ==
  ASSUME NEW s, Stored(s), NEW gone \in SUBSET ConversationIds(s)
  PROVE  /\ Stored(WithoutConversations(s, gone))
         /\ Reduced(s, WithoutConversations(s, gone), None)
         /\ ConversationIds(WithoutConversations(s, gone)) = ConversationIds(s) \ gone
<1> DEFINE dropped == {m \in MessageIds(s) : s.messages[m].conversation \in gone}
           is == [i \in DOMAIN s.instances |-> IF i \in gone THEN None ELSE s.instances[i]]
           lists == [c \in DOMAIN s.own |-> IF c \in gone THEN <<>> ELSE s.own[c]]
           rows == [m \in DOMAIN s.messages |-> IF m \in dropped THEN None ELSE s.messages[m]]
           v == [s EXCEPT !.roots = @ \ gone, !.visible = @ \ gone,
                          !.instances = [i \in DOMAIN @ |-> IF i \in gone THEN None ELSE @[i]],
                          !.own = [c \in DOMAIN @ |-> IF c \in gone THEN <<>> ELSE @[c]]]
           u == DropMessages(v, dropped)
<1>1. SceneTypeOK(s) /\ RowsAndMessagesAgree(s) /\ ForksAreEarlier(s) /\ ForwardsAreReachable(s)
  BY DEF Stored
<1>2. s = [roots |-> s.roots, visible |-> s.visible, instances |-> s.instances,
           messages |-> s.messages, own |-> s.own, forwards |-> s.forwards]
  BY <1>1 DEF SceneTypeOK
<1>3. WithoutConversations(s, gone) = PruneForwards(u)
  BY DEF WithoutConversations
<1>4. v = [roots |-> s.roots \ gone, visible |-> s.visible \ gone, instances |-> is,
           messages |-> s.messages, own |-> lists, forwards |-> s.forwards]
  <2> DEFINE a == [s EXCEPT !.roots = @ \ gone]
             b == [a EXCEPT !.visible = @ \ gone]
             d == [b EXCEPT !.instances = is]
  <2>1. v = [d EXCEPT !.own = lists]
    BY <1>2
  <2> HIDE DEF is, lists, v
  <2>2. a = [roots |-> s.roots \ gone, visible |-> s.visible, instances |-> s.instances,
             messages |-> s.messages, own |-> s.own, forwards |-> s.forwards]
    BY <1>2
  <2> HIDE DEF a
  <2>3. b = [roots |-> s.roots \ gone, visible |-> s.visible \ gone, instances |-> s.instances,
             messages |-> s.messages, own |-> s.own, forwards |-> s.forwards]
    BY <2>2
  <2> HIDE DEF b
  <2>4. d = [roots |-> s.roots \ gone, visible |-> s.visible \ gone, instances |-> is,
             messages |-> s.messages, own |-> s.own, forwards |-> s.forwards]
    BY <2>3
  <2> HIDE DEF d
  <2> QED BY <2>1, <2>4
<1> HIDE DEF v
<1>5. u = [roots |-> s.roots \ gone, visible |-> s.visible \ gone, instances |-> is,
           messages |-> rows, own |-> lists, forwards |-> s.forwards]
  <2>1. v.messages = s.messages
    BY <1>4
  <2>2. u = [v EXCEPT !.messages = rows]
    BY <2>1 DEF DropMessages
  <2> HIDE DEF is, lists, rows, u
  <2> QED BY <1>4, <2>2
<1> HIDE DEF u
<1>6. /\ u.roots = s.roots \ gone /\ u.visible = s.visible \ gone /\ u.instances = is
      /\ u.messages = rows /\ u.own = lists /\ u.forwards = s.forwards
  BY <1>5
<1>7. /\ DOMAIN is = DOMAIN s.instances /\ DOMAIN lists = DOMAIN s.own /\ DOMAIN rows = DOMAIN s.messages
      /\ \A i \in DOMAIN is : is[i] = IF i \in gone THEN None ELSE s.instances[i]
      /\ \A c \in DOMAIN lists : lists[c] = IF c \in gone THEN <<>> ELSE s.own[c]
  OBVIOUS
<1>8. is \in Seq(Instance \cup {None})
  <2> DEFINE n == Len(s.instances)
  <2>1. n \in Nat /\ DOMAIN s.instances = 1..n
        /\ \A i \in DOMAIN s.instances : s.instances[i] \in Instance \cup {None}
    BY <1>1, SceneParts
  <2> HIDE DEF n
  <2>2. is \in [1..n -> Instance \cup {None}]
    BY <2>1
  <2> HIDE DEF is
  <2> QED BY <2>1, <2>2
<1>9. InstanceIds(u) = InstanceIds(s) \ gone
  BY <1>6, <1>7 DEF InstanceIds
<1>10. ConversationIds(u) = ConversationIds(s) \ gone
  BY <1>6, <1>9 DEF ConversationIds
<1>11. ConversationIds(s) \subseteq DOMAIN s.own
  BY <1>1, SceneParts
<1>12. \A c \in DOMAIN s.own :
         /\ u.own[c] \in Seq(Nat) /\ Ascending(u.own[c])
         /\ Items(u.own[c]) = Items(s.own[c]) \ dropped
         /\ c \notin ConversationIds(u) => u.own[c] = <<>>
  <2> SUFFICES ASSUME NEW c \in DOMAIN s.own
               PROVE  /\ lists[c] \in Seq(Nat) /\ Ascending(lists[c])
                      /\ Items(lists[c]) = Items(s.own[c]) \ dropped
                      /\ c \notin ConversationIds(s) \ gone => lists[c] = <<>>
    BY <1>6, <1>10
  <2>1. /\ s.own[c] \in Seq(Nat) /\ Ascending(s.own[c])
        /\ Items(s.own[c]) = {m \in MessageIds(s) : s.messages[m].conversation = c}
        /\ c \notin ConversationIds(s) => s.own[c] = <<>>
    BY <1>1 DEF SceneTypeOK, RowsAndMessagesAgree
  <2>2. CASE c \in gone
    <3>1. Items(s.own[c]) \ dropped = {}
      BY <2>1, <2>2
    <3>2. Items(<<>>) = {} /\ Ascending(<<>>) /\ <<>> \in Seq(Nat)
      BY DEF Items, Ascending
    <3> QED BY <1>7, <2>2, <3>1, <3>2
  <2>3. CASE c \notin gone
    <3>1. Items(s.own[c]) \ dropped = Items(s.own[c])
      BY <2>1, <2>3
    <3> QED BY <1>7, <2>1, <2>3, <3>1
  <2> QED BY <2>2, <2>3
<1> HIDE DEF is, lists
<1>13. Unpruned(s)
  BY <1>1 DEF Unpruned, ForwardsAreReachable, NamedAreThere
<1>14. Unpruned(u)
  <2>1. u = [roots |-> u.roots, visible |-> u.visible, instances |-> u.instances,
             messages |-> u.messages, own |-> u.own, forwards |-> s.forwards]
    BY <1>5, <1>6
  <2>2. /\ u.roots \subseteq s.roots /\ u.visible \subseteq u.roots
        /\ u.instances \in Seq(Instance \cup {None}) /\ DOMAIN u.instances = DOMAIN s.instances
        /\ \A i \in DOMAIN s.instances : u.instances[i] \in {None, s.instances[i]}
    BY <1>1, <1>6, <1>7, <1>8 DEF SceneTypeOK
  <2>3. u.own = [c \in DOMAIN s.own |-> u.own[c]]
    BY <1>6 DEF lists
  <2>4. \A m \in MessageIds(s) \ dropped : s.messages[m].conversation \in ConversationIds(u)
    BY <1>1, <1>10 DEF RowsAndMessagesAgree
  <2>5. u.messages = [m \in DOMAIN s.messages |-> IF m \in dropped THEN None ELSE s.messages[m]]
    BY <1>6
  <2> HIDE DEF dropped
  <2> QED BY <1>12, <1>13, <2>1, <2>2, <2>3, <2>4, <2>5, ShrinkKeeps
<1>15. Reduced(s, u, None)
  <2>1. None \notin ConversationIds(u)
    BY <1>1, <1>10, <1>11, SceneParts, MessagesAssumption
  <2>2. \A c \in ConversationIds(u) : u.own[c] = s.own[c]
    BY <1>6, <1>7, <1>10, <1>11
  <2>3. \A i \in InstanceIds(u) : u.instances[i] = s.instances[i]
    BY <1>6, <1>7, <1>9 DEF InstanceIds
  <2>4. MessageIds(u) \subseteq MessageIds(s) /\ \A m \in MessageIds(u) : u.messages[m] = s.messages[m]
    BY <1>6 DEF MessageIds
  <2> QED BY <1>6, <1>9, <1>10, <2>1, <2>2, <2>3, <2>4 DEF Reduced
<1>16. ConversationIds(PruneForwards(u)) = ConversationIds(u)
  <2> DEFINE t == PruneForwards(u)
  <2>1. t = [roots |-> u.roots, visible |-> u.visible, instances |-> u.instances,
             messages |-> u.messages, own |-> u.own, forwards |-> t.forwards]
    BY <1>14, PruneKeeps
  <2> HIDE DEF t
  <2>2. t.roots = u.roots /\ t.instances = u.instances
    BY <2>1
  <2> QED BY <2>2 DEF t, ConversationIds, InstanceIds
<1> QED BY <1>3, <1>10, <1>14, <1>15, <1>16, PruneReduces

\* A conversation is cleared of its own messages.
ClearedOf(s, c) ==
  PruneForwards(DropMessages([s EXCEPT !.own[c] = <<>>],
                             {m \in MessageIds(s) : s.messages[m].conversation = c}))

\* A cleared conversation leaves a scene that may be stored.
LEMMA ClearKeeps ==
  ASSUME NEW s, Stored(s), NEW c \in ConversationIds(s)
  PROVE  Stored(ClearedOf(s, c)) /\ Reduced(s, ClearedOf(s, c), c)
<1> DEFINE dropped == {m \in MessageIds(s) : s.messages[m].conversation = c}
           lists == [s.own EXCEPT ![c] = <<>>]
           rows == [m \in DOMAIN s.messages |-> IF m \in dropped THEN None ELSE s.messages[m]]
           v == [s EXCEPT !.own[c] = <<>>]
           u == DropMessages(v, dropped)
<1>1. SceneTypeOK(s) /\ RowsAndMessagesAgree(s) /\ ForksAreEarlier(s) /\ ForwardsAreReachable(s)
  BY DEF Stored
<1>2. s = [roots |-> s.roots, visible |-> s.visible, instances |-> s.instances,
           messages |-> s.messages, own |-> s.own, forwards |-> s.forwards]
  BY <1>1 DEF SceneTypeOK
<1>3. ClearedOf(s, c) = PruneForwards(u)
  BY DEF ClearedOf
<1>4. v = [roots |-> s.roots, visible |-> s.visible, instances |-> s.instances,
           messages |-> s.messages, own |-> lists, forwards |-> s.forwards]
  <2>1. v = [s EXCEPT !.own = lists]
    BY <1>2
  <2> HIDE DEF v, lists
  <2> QED BY <1>2, <2>1
<1> HIDE DEF v
<1>5. u = [roots |-> s.roots, visible |-> s.visible, instances |-> s.instances,
           messages |-> rows, own |-> lists, forwards |-> s.forwards]
  <2>1. v.messages = s.messages
    BY <1>4
  <2>2. u = [v EXCEPT !.messages = rows]
    BY <2>1 DEF DropMessages
  <2> HIDE DEF lists, rows, u
  <2> QED BY <1>4, <2>2
<1> HIDE DEF u
<1>6. /\ u.roots = s.roots /\ u.visible = s.visible /\ u.instances = s.instances
      /\ u.messages = rows /\ u.own = lists /\ u.forwards = s.forwards
  BY <1>5
<1>7. c \in DOMAIN s.own /\ ConversationIds(s) \subseteq DOMAIN s.own
  BY <1>1, SceneParts
<1>8. /\ lists = [d \in DOMAIN s.own |-> lists[d]] /\ lists[c] = <<>>
      /\ \A d \in DOMAIN s.own : d # c => lists[d] = s.own[d]
  BY <1>7
<1> HIDE DEF lists
<1>9. InstanceIds(u) = InstanceIds(s) /\ ConversationIds(u) = ConversationIds(s)
  BY <1>6 DEF InstanceIds, ConversationIds
<1>10. \A d \in DOMAIN s.own :
         /\ u.own[d] \in Seq(Nat) /\ Ascending(u.own[d])
         /\ Items(u.own[d]) = Items(s.own[d]) \ dropped
         /\ d \notin ConversationIds(u) => u.own[d] = <<>>
  <2> SUFFICES ASSUME NEW d \in DOMAIN s.own
               PROVE  /\ lists[d] \in Seq(Nat) /\ Ascending(lists[d])
                      /\ Items(lists[d]) = Items(s.own[d]) \ dropped
                      /\ d \notin ConversationIds(s) => lists[d] = <<>>
    BY <1>6, <1>9
  <2>1. /\ s.own[d] \in Seq(Nat) /\ Ascending(s.own[d])
        /\ Items(s.own[d]) = {m \in MessageIds(s) : s.messages[m].conversation = d}
        /\ d \notin ConversationIds(s) => s.own[d] = <<>>
    BY <1>1 DEF SceneTypeOK, RowsAndMessagesAgree
  <2>2. CASE d = c
    <3>1. Items(s.own[d]) \ dropped = {}
      BY <2>1, <2>2
    <3>2. Items(<<>>) = {} /\ Ascending(<<>>) /\ <<>> \in Seq(Nat)
      BY DEF Items, Ascending
    <3> QED BY <1>8, <2>2, <3>1, <3>2
  <2>3. CASE d # c
    <3>1. Items(s.own[d]) \ dropped = Items(s.own[d])
      BY <2>1, <2>3
    <3> QED BY <1>8, <2>1, <2>3, <3>1
  <2> QED BY <2>2, <2>3
<1>11. Unpruned(s)
  BY <1>1 DEF Unpruned, ForwardsAreReachable, NamedAreThere
<1>12. Unpruned(u)
  <2>1. u = [roots |-> u.roots, visible |-> u.visible, instances |-> u.instances,
             messages |-> u.messages, own |-> u.own, forwards |-> s.forwards]
    BY <1>5, <1>6
  <2>2. /\ u.roots \subseteq s.roots /\ u.visible \subseteq u.roots
        /\ u.instances \in Seq(Instance \cup {None}) /\ DOMAIN u.instances = DOMAIN s.instances
        /\ \A i \in DOMAIN s.instances : u.instances[i] \in {None, s.instances[i]}
    BY <1>1, <1>6 DEF SceneTypeOK
  <2>3. u.own = [d \in DOMAIN s.own |-> u.own[d]]
    BY <1>6, <1>8
  <2>4. \A m \in MessageIds(s) \ dropped : s.messages[m].conversation \in ConversationIds(u)
    BY <1>1, <1>9 DEF RowsAndMessagesAgree
  <2>5. u.messages = [m \in DOMAIN s.messages |-> IF m \in dropped THEN None ELSE s.messages[m]]
    BY <1>6
  <2> HIDE DEF dropped
  <2> QED BY <1>10, <1>11, <2>1, <2>2, <2>3, <2>4, <2>5, ShrinkKeeps
<1>13. Reduced(s, u, c)
  <2>1. \A d \in ConversationIds(u) \ {c} : u.own[d] = s.own[d]
    BY <1>6, <1>7, <1>8, <1>9
  <2>2. MessageIds(u) \subseteq MessageIds(s) /\ \A m \in MessageIds(u) : u.messages[m] = s.messages[m]
    BY <1>6 DEF MessageIds
  <2> QED BY <1>6, <1>8, <1>9, <2>1, <2>2 DEF Reduced
<1> QED BY <1>3, <1>12, <1>13, PruneReduces

\* What is stored after every call, with the uploads that are kept for it.
MessagesInv ==
  /\ bounds \in Bounds /\ Stored(chats)
  /\ files \subseteq Media /\ uploads \subseteq Media /\ pinned \in Seq(Media)
  /\ UploadsSurviveCommits

\* What an upload pins: itself, and of the earlier ones no more than there is room for.
LEMMA PinKeeps ==
  ASSUME NEW pins \in Seq(Media), Len(pins) <= MaxPinned, NEW f \in Media
  PROVE  /\ Pin(pins, f) \in Seq(Media) /\ Len(Pin(pins, f)) <= MaxPinned
         /\ Items(Pin(pins, f)) \subseteq Items(pins) \cup {f}
<1> DEFINE r == Remaining(pins, {f})
           all == Append(r, f)
<1>1. r \in Seq(Media) /\ Items(r) \subseteq Items(pins) /\ Len(r) <= Len(pins)
  BY RemainingItems
<1>2. MaxPinned \in Nat /\ MaxPinned # 0 /\ Len(pins) \in Nat
  BY MessagesAssumption
<1> HIDE DEF r
<1>3. /\ all \in Seq(Media) /\ Len(r) \in Nat /\ Len(all) = Len(r) + 1
      /\ DOMAIN all = 1..(Len(r) + 1) /\ all[Len(r) + 1] = f /\ DOMAIN r = 1..Len(r)
      /\ \A k \in 1..Len(r) : all[k] = r[k]
  BY <1>1
<1> HIDE DEF all
<1>4. Items(all) \subseteq Items(pins) \cup {f}
  <2> SUFFICES ASSUME NEW k \in DOMAIN all PROVE all[k] \in Items(r) \cup {f}
    BY <1>1 DEF Items
  <2>1. k \in 1..Len(r) \/ k = Len(r) + 1
    BY <1>3
  <2> QED BY <1>3, <2>1 DEF Items
<1>5. /\ Tail(all) \in Seq(Media) /\ Len(Tail(all)) = Len(r) /\ Items(Tail(all)) \subseteq Items(all)
  <2>1. /\ Tail(all) \in Seq(Media) /\ Len(Tail(all)) = Len(r) /\ DOMAIN Tail(all) = 1..Len(r)
        /\ \A k \in 1..Len(r) : Tail(all)[k] = all[k + 1] /\ k + 1 \in DOMAIN all
    BY <1>3
  <2> QED BY <2>1 DEF Items
<1>6. Pin(pins, f) = IF Len(all) > MaxPinned THEN Tail(all) ELSE all
  BY DEF Pin, all, r
<1> QED BY <1>1, <1>2, <1>3, <1>4, <1>5, <1>6

\* What an operation hands over to a commit: a scene that is whole, got from the stored one by
\* adding or by removing, with nothing shown in it that was not, but uploads and what was
\* just put on disk.
HandedOver(s, stored, pins) ==
  /\ Stored(s)
  /\ Grown(chats, s) \/ \E c : Reduced(chats, s, c)
  /\ files \subseteq stored /\ stored \subseteq Media
  /\ pins \in Seq(Media) /\ Items(pins) \subseteq stored /\ Len(pins) <= MaxPinned
  /\ MediaReferences(s) \subseteq MediaReferences(chats) \cup stored \cup uploads

\* What is shown of a scene that only lost something was shown before.
LEMMA ReducedShows ==
  ASSUME NEW s, NEW t, NEW c, Reduced(s, t, c) PROVE MediaReferences(t) \subseteq MediaReferences(s)
  BY DEF Reduced, MediaReferences

\* Conversations are named by roots and by numbers.
LEMMA ConversationsAreNamed ==
  ASSUME NEW s, SceneTypeOK(s) PROVE ConversationIds(s) \subseteq Conversations
<1>1. s.roots \subseteq Conversations
  BY DEF SceneTypeOK, Conversations
<1>2. InstanceIds(s) \subseteq 1..Len(s.instances) /\ Len(s.instances) \in Nat
  BY SceneParts DEF InstanceIds
<1>3. 1..Len(s.instances) \subseteq Nat \ {0}
  BY <1>2
<1> QED BY <1>1, <1>2, <1>3 DEF ConversationIds, Conversations

\* Every call hands over such a scene, or leaves the scene alone.
LEMMA StepHandsOver ==
  ASSUME MessagesInv, MessagesNext
  PROVE  \/ /\ \E s, stored, pins : HandedOver(s, stored, pins) /\ CommitWith(s, stored, pins)
            /\ UNCHANGED <<bounds, uploads>>
         \/ UNCHANGED <<bounds, chats>> /\ MessagesInv'
<1> USE DEF MessagesInv
<1> DEFINE Commits == /\ \E s, stored, pins : HandedOver(s, stored, pins) /\ CommitWith(s, stored, pins)
                      /\ UNCHANGED <<bounds, uploads>>
<1>1. SceneTypeOK(chats) /\ RowsAndMessagesAgree(chats) /\ ForksAreEarlier(chats)
      /\ ForwardsAreReachable(chats)
  BY DEF Stored
<1>2. Items(pinned) \subseteq files /\ Len(pinned) <= MaxPinned
  BY DEF UploadsSurviveCommits
<1>3. ASSUME NEW s, Stored(s), Grown(chats, s) \/ \E c : Reduced(chats, s, c),
             MediaReferences(s) \subseteq MediaReferences(chats) \cup uploads,
             CommitScene(s), UNCHANGED <<bounds, uploads>>
      PROVE  Commits
  <2>1. HandedOver(s, files, pinned)
    BY <1>2, <1>3 DEF HandedOver
  <2> QED BY <1>3, <2>1 DEF CommitScene
<1> HIDE DEF MessagesInv
<1>4. ASSUME NEW r \in Roots, OpenRoot(r) PROVE Commits
  <2> DEFINE roots == chats.roots \cup {r}
             visible == chats.visible \cup {r}
             s == [chats EXCEPT !.roots = roots, !.visible = visible]
  <2>1. CommitScene(s) /\ UNCHANGED <<bounds, uploads>>
    <3>1. s = [chats EXCEPT !.roots = @ \cup {r}, !.visible = @ \cup {r}]
      OBVIOUS
    <3> QED BY <1>4, <3>1 DEF OpenRoot
  <2>2. chats.roots \subseteq roots /\ roots \subseteq Roots /\ visible \subseteq roots
    BY <1>1 DEF SceneTypeOK
  <2> HIDE DEF roots, visible
  <2>3. Stored(s) /\ Grown(chats, s) /\ MediaReferences(s) = MediaReferences(chats)
    BY <2>2, RootsKeep DEF MessagesInv
  <2> HIDE DEF s
  <2> QED BY <1>3, <2>1, <2>3
<1>5. ASSUME NEW r \in Roots, HideRoot(r) PROVE Commits
  <2> DEFINE visible == chats.visible \ {r}
             s == [chats EXCEPT !.roots = chats.roots, !.visible = visible]
  <2>1. CommitScene(s) /\ UNCHANGED <<bounds, uploads>>
    <3>1. chats = [roots |-> chats.roots, visible |-> chats.visible, instances |-> chats.instances,
                   messages |-> chats.messages, own |-> chats.own, forwards |-> chats.forwards]
      BY <1>1 DEF SceneTypeOK
    <3> DEFINE u == [chats EXCEPT !.visible = visible]
               w == [chats EXCEPT !.roots = chats.roots]
    <3>2. u = [chats EXCEPT !.visible = @ \ {r}]
      OBVIOUS
    <3>3. s = [w EXCEPT !.visible = visible]
      OBVIOUS
    <3> HIDE DEF u, s, w, visible
    <3>4. w = [roots |-> chats.roots, visible |-> chats.visible, instances |-> chats.instances,
               messages |-> chats.messages, own |-> chats.own, forwards |-> chats.forwards]
      BY <3>1 DEF w
    <3>5. s = u
      BY <3>1, <3>3, <3>4 DEF u
    <3> QED BY <1>5, <3>2, <3>5 DEF HideRoot
  <2>2. chats.roots \subseteq Roots /\ visible \subseteq chats.roots
    BY <1>1 DEF SceneTypeOK
  <2> HIDE DEF visible
  <2>3. Stored(s) /\ Grown(chats, s) /\ MediaReferences(s) = MediaReferences(chats)
    BY <2>2, RootsKeep DEF MessagesInv
  <2> HIDE DEF s
  <2> QED BY <1>3, <2>1, <2>3
<1>6. ASSUME NEW gone \in SUBSET ConversationIds(chats), CommitScene(WithoutConversations(chats, gone)),
             UNCHANGED <<bounds, uploads>>
      PROVE  Commits
  <2>1. Stored(WithoutConversations(chats, gone)) /\ Reduced(chats, WithoutConversations(chats, gone), None)
    BY RemovalKeeps DEF MessagesInv
  <2> QED BY <1>3, <1>6, <2>1, ReducedShows
<1>7. ASSUME NEW r \in Roots, RemoveRoot(r) PROVE Commits
  <2>1. {r} \cup {i \in InstanceIds(chats) : RootOf(chats, i) = r} \subseteq ConversationIds(chats)
    BY <1>7 DEF RemoveRoot, ConversationIds
  <2> QED BY <1>6, <1>7, <2>1 DEF RemoveRoot
<1>8. ASSUME NEW i \in InstanceIds(chats), DeleteInstance(i) PROVE Commits
  BY <1>6, <1>8 DEF DeleteInstance, ConversationIds
<1>9. ASSUME NEW c \in ConversationIds(chats), ClearConversation(c) PROVE Commits
  <2>1. CommitScene(ClearedOf(chats, c)) /\ UNCHANGED <<bounds, uploads>>
    BY <1>9 DEF ClearConversation, ClearedOf
  <2>2. Stored(ClearedOf(chats, c)) /\ Reduced(chats, ClearedOf(chats, c), c)
    BY ClearKeeps DEF MessagesInv
  <2> QED BY <1>3, <2>1, <2>2, ReducedShows
<1>10. ASSUME NEW c \in ConversationIds(chats), NEW fork, MakeInstance(c, fork),
              fork = None \/ \E m \in MessageIds(chats) : fork = [source |-> c, message |-> m]
       PROVE  Commits
  <2> DEFINE s == [chats EXCEPT
               !.instances = Append(@, [root |-> RootOf(chats, c), fork |-> fork]),
               !.own = [d \in DOMAIN @ \cup {Len(chats.instances) + 1} |->
                          IF d \in DOMAIN @ THEN @[d] ELSE <<>>]]
  <2>1. CommitScene(s) /\ UNCHANGED <<bounds, uploads>>
    BY <1>10 DEF MakeInstance
  <2>2. Stored(s) /\ Grown(chats, s) /\ MediaReferences(s) = MediaReferences(chats)
    BY <1>10, InstanceKeeps DEF MessagesInv
  <2> HIDE DEF s
  <2> QED BY <1>3, <2>1, <2>2
<1>11. ASSUME NEW m \in MessageIds(chats), Recall(m) PROVE Commits
  <2> DEFINE s == [chats EXCEPT !.messages[m].kind = "recalled"]
  <2>1. CommitScene(s) /\ UNCHANGED <<bounds, uploads>>
    BY <1>11 DEF Recall
  <2>2. Stored(s) /\ Grown(chats, s) /\ MediaReferences(s) = MediaReferences(chats)
    BY RecallKeeps DEF MessagesInv
  <2> HIDE DEF s
  <2> QED BY <1>3, <2>1, <2>2
<1>12. Unpruned(chats) /\ \A f \in chats.forwards : f.id \in Named(chats, chats.forwards)
  BY <1>1 DEF Unpruned, ForwardsAreReachable, NamedAreThere
<1>13. ASSUME NEW c \in ConversationIds(chats), NEW kind \in {"text", "event"}, NEW media \in SUBSET Media
       PROVE  LET s == Appended(chats, Message(c, kind, media, None))
              IN  Stored(s) /\ Grown(chats, s) /\ MediaReferences(s) = MediaReferences(chats) \cup media
  <2> DEFINE x == Message(c, kind, media, None)
  <2>1. c \in Conversations
    BY <1>1, ConversationsAreNamed
  <2>2. x \in MessageRow /\ x.conversation = c /\ x.forward = None /\ x.media = media
    BY <2>1 DEF Message, MessageRow
  <2> HIDE DEF x
  <2> QED BY <1>12, <2>2, AppendedKeeps DEF x
<1>14. ASSUME NEW c \in ConversationIds(chats), NEW kind \in {"text", "event"}, Send(c, kind) PROVE Commits
  <2> DEFINE s == Appended(chats, Message(c, kind, {}, None))
  <2>1. CommitScene(s) /\ UNCHANGED <<bounds, uploads>>
    BY <1>14 DEF Send
  <2>2. Stored(s) /\ Grown(chats, s) /\ MediaReferences(s) \subseteq MediaReferences(chats) \cup {}
    BY <1>13
  <2> HIDE DEF s
  <2> QED BY <1>3, <2>1, <2>2
<1>15. ASSUME NEW c \in ConversationIds(chats), NEW f \in Media, SendStored(c, f) PROVE Commits
  <2> DEFINE s == Appended(chats, Message(c, "text", {f}, None))
  <2>1. CommitScene(s) /\ UNCHANGED <<bounds, uploads>> /\ f \in uploads
    BY <1>15 DEF SendStored
  <2>2. Stored(s) /\ Grown(chats, s) /\ MediaReferences(s) = MediaReferences(chats) \cup {f}
    BY <1>13
  <2> HIDE DEF s
  <2>3. MediaReferences(s) \subseteq MediaReferences(chats) \cup uploads
    BY <2>1, <2>2
  <2> QED BY <1>3, <2>1, <2>2, <2>3
<1>16. ASSUME NEW c \in ConversationIds(chats), NEW f \in Media, SendMedia(c, f) PROVE Commits
  <2> DEFINE s == Appended(chats, Message(c, "text", {f}, None))
  <2>1. CommitWith(s, files \cup {f}, Pin(pinned, f)) /\ UNCHANGED <<bounds, uploads>>
    BY <1>16 DEF SendMedia
  <2>2. Stored(s) /\ Grown(chats, s) /\ MediaReferences(s) = MediaReferences(chats) \cup {f}
    BY <1>13
  <2> HIDE DEF s
  <2>3. /\ Pin(pinned, f) \in Seq(Media) /\ Len(Pin(pinned, f)) <= MaxPinned
        /\ Items(Pin(pinned, f)) \subseteq Items(pinned) \cup {f}
    BY <1>2, PinKeeps DEF MessagesInv
  <2>4. HandedOver(s, files \cup {f}, Pin(pinned, f))
    BY <1>2, <2>2, <2>3 DEF HandedOver, MessagesInv
  <2> QED BY <2>1, <2>4
<1>17. ASSUME NEW c \in ConversationIds(chats), NEW ids \in SUBSET MessageIds(chats),
              NEW named \in SUBSET {f.id : f \in chats.forwards}, SendForward(c, ids, named)
       PROVE  Commits
  <2> DEFINE nested == {chats.messages[m].forward : m \in ids} \ {None}
             forward == [id |-> Len(chats.messages) + 1,
                         media |-> UNION {chats.messages[m].media : m \in ids},
                         nested |-> nested \cup named]
             fs == chats.forwards \cup {forward}
             v == [chats EXCEPT !.forwards = @ \cup {forward}]
             x == Message(c, "text", {}, forward.id)
             s == Appended(v, x)
  <2>1. CommitScene(s) /\ UNCHANGED <<bounds, uploads>>
    BY <1>17 DEF SendForward
  <2>2. forward.id = Len(chats.messages) + 1 /\ forward.id \in Nat
        /\ forward.media = UNION {chats.messages[m].media : m \in ids} /\ forward.nested = nested \cup named
    <3>1. Len(chats.messages) \in Nat
      BY <1>1, SceneParts
    <3> QED BY <3>1
  <2>3. \A m \in ids : chats.messages[m] \in MessageRow
    BY <1>1, SceneParts
  <2>4. chats.forwards \subseteq Forward
    BY <1>1 DEF SceneTypeOK
  <2>5. forward \in Forward /\ nested \cup named \subseteq {f.id : f \in chats.forwards}
        /\ forward.media \subseteq MediaReferences(chats)
    <3>1. \A m \in ids : chats.messages[m].forward \in Named(chats, chats.forwards)
      BY DEF Named
    <3>2. nested \subseteq {f.id : f \in chats.forwards}
      BY <1>1, <3>1 DEF ForwardsAreReachable
    <3>3. \A f \in chats.forwards : f.id \in Nat
      BY <2>4 DEF Forward
    <3>4. forward.media \subseteq Media
      BY <2>2, <2>3 DEF MessageRow
    <3>5. forward.media \subseteq MediaReferences(chats)
      BY <2>2 DEF MediaReferences
    <3>6. nested \cup named \subseteq Nat
      BY <3>2, <3>3
    <3> HIDE DEF nested
    <3>7. forward \in Forward
      BY <2>2, <3>4, <3>6 DEF Forward
    <3> QED BY <3>2, <3>5, <3>7
  <2> HIDE DEF forward, nested
  <2>6. v = [roots |-> chats.roots, visible |-> chats.visible, instances |-> chats.instances,
             messages |-> chats.messages, own |-> chats.own, forwards |-> fs]
    <3>1. chats = [roots |-> chats.roots, visible |-> chats.visible, instances |-> chats.instances,
                   messages |-> chats.messages, own |-> chats.own, forwards |-> chats.forwards]
      BY <1>1 DEF SceneTypeOK
    <3>2. v = [chats EXCEPT !.forwards = fs]
      OBVIOUS
    <3> HIDE DEF v, fs
    <3> QED BY <3>1, <3>2
  <2> HIDE DEF v, fs
  <2>7. /\ v.roots = chats.roots /\ v.visible = chats.visible /\ v.instances = chats.instances
        /\ v.messages = chats.messages /\ v.own = chats.own /\ v.forwards = fs
    BY <2>6
  <2>8. InstanceIds(v) = InstanceIds(chats) /\ ConversationIds(v) = ConversationIds(chats)
        /\ MessageIds(v) = MessageIds(chats)
    BY <2>7 DEF InstanceIds, ConversationIds, MessageIds
  <2>9. Named(v, v.forwards) = Named(chats, chats.forwards) \cup forward.nested
    BY <2>7, <2>8 DEF Named, fs
  <2>10. Unpruned(v)
    <3>1. SceneTypeOK(v)
      <4>1. v = [roots |-> v.roots, visible |-> v.visible, instances |-> v.instances,
                 messages |-> v.messages, own |-> v.own, forwards |-> v.forwards]
        BY <2>6, <2>7
      <4>2. v.forwards \subseteq Forward
        BY <2>4, <2>5, <2>7 DEF fs
      <4> QED BY <1>1, <2>7, <4>1, <4>2 DEF SceneTypeOK
    <3>2. RowsAndMessagesAgree(v)
      BY <1>1, <2>7, <2>8 DEF RowsAndMessagesAgree
    <3>3. ForksAreEarlier(v)
      BY <1>1, <2>7, <2>8 DEF ForksAreEarlier
    <3>4. NamedAreThere(v)
      BY <1>1, <2>2, <2>5, <2>7, <2>9 DEF NamedAreThere, ForwardsAreReachable, fs
    <3> QED BY <3>1, <3>2, <3>3, <3>4 DEF Unpruned
  <2>11. x \in MessageRow /\ x.conversation = c /\ x.forward = forward.id /\ x.media = {}
    <3>1. c \in Conversations
      BY <1>1, ConversationsAreNamed
    <3> QED BY <2>2, <3>1 DEF Message, MessageRow
  <2> HIDE DEF x
  <2>12. \A f \in v.forwards : f.id \in Named(v, v.forwards) \cup {x.forward}
    BY <1>12, <2>7, <2>9, <2>11 DEF fs
  <2>13. \E f \in v.forwards : f.id = x.forward
    BY <2>7, <2>11 DEF fs
  <2>14. Stored(s) /\ Grown(v, s) /\ MediaReferences(s) = MediaReferences(v) \cup {}
    BY <2>8, <2>10, <2>11, <2>12, <2>13, AppendedKeeps
  <2>15. MediaReferences(v) \subseteq MediaReferences(chats)
    <3>1. UNION {f.media : f \in fs} \subseteq (UNION {f.media : f \in chats.forwards}) \cup forward.media
      BY DEF fs
    <3>2. MediaReferences(v) = (UNION {chats.messages[m].media : m \in MessageIds(chats)})
                               \cup (UNION {f.media : f \in fs})
      BY <2>7, <2>8 DEF MediaReferences
    <3> QED BY <2>5, <3>1, <3>2 DEF MediaReferences
  <2>16. Grown(chats, s)
    BY <2>7, <2>8, <2>14 DEF Grown
  <2> HIDE DEF s
  <2> QED BY <1>3, <2>1, <2>14, <2>15, <2>16
<1>18. ASSUME NEW f \in Media, Upload(f) PROVE UNCHANGED <<bounds, chats>> /\ MessagesInv'
  <2>1. /\ Pin(pinned, f) \in Seq(Media) /\ Len(Pin(pinned, f)) <= MaxPinned
        /\ Items(Pin(pinned, f)) \subseteq Items(pinned) \cup {f}
    BY <1>2, PinKeeps DEF MessagesInv
  <2> QED BY <1>2, <1>18, <2>1 DEF Upload, MessagesInv, UploadsSurviveCommits
<1>19. ASSUME NEW f \in Media, FailedBatch(f) PROVE UNCHANGED <<bounds, chats>> /\ MessagesInv'
  <2>1. /\ Pin(pinned, f) \in Seq(Media) /\ Len(Pin(pinned, f)) <= MaxPinned
        /\ Items(Pin(pinned, f)) \subseteq Items(pinned) \cup {f}
    BY <1>2, PinKeeps DEF MessagesInv
  <2> DEFINE r == Remaining(Pin(pinned, f), {f})
  <2>2. r \in Seq(Media) /\ Len(r) <= Len(Pin(pinned, f)) /\ Items(r) = Items(Pin(pinned, f)) \ {f}
    BY <2>1, RemainingItems
  <2>3. Len(r) <= MaxPinned /\ Items(r) \subseteq files \ {f}
    <3>1. Len(r) \in Nat /\ Len(Pin(pinned, f)) \in Nat /\ MaxPinned \in Nat
      BY <2>1, <2>2, MessagesAssumption
    <3> HIDE DEF r
    <3>2. Len(r) <= MaxPinned
      BY <2>1, <2>2, <3>1
    <3>3. Items(r) \subseteq files \ {f}
      BY <1>2, <2>1, <2>2
    <3> QED BY <3>2, <3>3
  <2>4. pinned' = r /\ files' = files \ {f} /\ UNCHANGED <<bounds, chats, uploads>>
    BY <1>19 DEF FailedBatch
  <2> HIDE DEF r
  <2> QED BY <2>2, <2>3, <2>4 DEF MessagesInv, UploadsSurviveCommits
<1>20. ASSUME NEW c \in ConversationIds(chats), NewInstance(c) PROVE Commits
  BY <1>10, <1>20 DEF NewInstance
<1>21. ASSUME NEW c \in ConversationIds(chats), NEW m \in MessageIds(chats), Branch(c, m) PROVE Commits
  BY <1>10, <1>21 DEF Branch
<1> HIDE DEF Commits
<1>22. Commits \/ (UNCHANGED <<bounds, chats>> /\ MessagesInv')
  BY <1>4, <1>5, <1>7, <1>8, <1>9, <1>11, <1>14, <1>15, <1>16, <1>17, <1>18, <1>19, <1>20, <1>21
     DEF MessagesNext
<1> QED BY <1>22 DEF Commits

\* A commit evicts what is too old, and deletes no file that is shown or pinned.
LEMMA CommitKeeps ==
  ASSUME MessagesInv, NEW s, NEW stored, NEW pins, HandedOver(s, stored, pins),
         CommitWith(s, stored, pins), UNCHANGED <<bounds, uploads>>
  PROVE  /\ MessagesInv'
         /\ chats' = Evict(s) /\ Stored(chats') /\ \E dropped : Evicted(s, chats', dropped)
         /\ \A f \in MediaReferences(chats') : f \in MediaReferences(s) /\ (f \in stored => f \in files')
<1> DEFINE t == Evict(s)
           rest == Remaining(pins, MediaReferences(t))
<1>1. Stored(t) /\ \E dropped : Evicted(s, t, dropped)
  BY EvictKeeps DEF MessagesInv, HandedOver
<1>2. MediaReferences(t) \subseteq MediaReferences(s)
  <2>1. MessageIds(t) \subseteq MessageIds(s) /\ \A m \in MessageIds(t) : t.messages[m] = s.messages[m]
    BY <1>1 DEF Evicted
  <2>2. t.forwards \subseteq s.forwards
    BY <1>1 DEF Evicted
  <2> HIDE DEF t
  <2> QED BY <2>1, <2>2 DEF MediaReferences
<1>3. /\ chats' = t /\ pinned' = rest
      /\ files' = {f \in stored : f \in MediaReferences(t) \/ f \in Items(rest)}
  BY DEF CommitWith, Reclaimed
<1>4. rest \in Seq(Media) /\ Items(rest) \subseteq Items(pins) /\ Len(rest) <= Len(pins)
  BY RemainingItems DEF HandedOver
<1> HIDE DEF t, rest
<1>5. Items(rest) \subseteq files' /\ Len(rest) <= MaxPinned
  <2>1. Len(rest) \in Nat /\ Len(pins) \in Nat /\ MaxPinned \in Nat
    BY <1>4, MessagesAssumption DEF HandedOver
  <2> QED BY <1>3, <1>4, <2>1 DEF HandedOver
<1>6. files' \subseteq Media
  BY <1>3 DEF HandedOver
<1>7. Stored(chats') /\ MessagesInv'
  BY <1>1, <1>3, <1>4, <1>5, <1>6 DEF MessagesInv, UploadsSurviveCommits
<1>8. \A f \in MediaReferences(t) : f \in MediaReferences(s) /\ (f \in stored => f \in files')
  BY <1>2, <1>3
<1> QED BY <1>1, <1>3, <1>7, <1>8 DEF t

\* Nothing is stored at first.
LEMMA MessagesInvHoldsAtFirst == ASSUME MessagesInit PROVE MessagesInv
<1> DEFINE own == [c \in Roots |-> <<>>]
<1>1. /\ chats = [roots |-> {}, visible |-> {}, instances |-> <<>>, messages |-> <<>>,
                  own |-> own, forwards |-> {}]
      /\ bounds \in Bounds /\ files = {} /\ pinned = <<>> /\ uploads = {}
  BY DEF MessagesInit, EmptyScene
<1>2. DOMAIN own = Roots /\ own = [c \in Roots |-> own[c]] /\ \A c \in Roots : own[c] = <<>>
  OBVIOUS
<1> HIDE DEF own
<1>3. /\ chats.roots = {} /\ chats.visible = {} /\ chats.instances = <<>>
      /\ chats.messages = <<>> /\ chats.own = own /\ chats.forwards = {}
  BY <1>1
<1>4. DOMAIN chats.instances = {} /\ DOMAIN chats.messages = {}
  BY <1>3
<1>5. SceneTypeOK(chats)
  <2>1. chats = [roots |-> chats.roots, visible |-> chats.visible, instances |-> chats.instances,
                 messages |-> chats.messages, own |-> chats.own, forwards |-> chats.forwards]
    BY <1>1, <1>3
  <2>2. \A c \in DOMAIN chats.own : chats.own[c] \in Seq(Nat)
    <3>1. <<>> \in Seq(Nat)
      OBVIOUS
    <3>2. DOMAIN chats.own = Roots /\ \A c \in Roots : chats.own[c] = <<>>
      BY <1>2, <1>3
    <3> QED BY <3>1, <3>2
  <2>3. chats.instances \in Seq(Instance \cup {None}) /\ chats.messages \in Seq(MessageRow \cup {None})
    BY <1>3
  <2>4. chats.own = [c \in Roots \cup DOMAIN chats.instances |-> chats.own[c]]
    BY <1>2, <1>3, <1>4
  <2> QED BY <1>3, <2>1, <2>2, <2>3, <2>4 DEF SceneTypeOK
<1>6. MessageIds(chats) = {} /\ InstanceIds(chats) = {}
  BY <1>4 DEF MessageIds, InstanceIds
<1>7. RowsAndMessagesAgree(chats)
  <2>1. Items(<<>>) = {} /\ Ascending(<<>>)
    BY DEF Items, Ascending
  <2> QED BY <1>2, <1>3, <1>6, <2>1 DEF RowsAndMessagesAgree
<1>8. ForksAreEarlier(chats)
  BY <1>6 DEF ForksAreEarlier
<1>9. ForwardsAreReachable(chats)
  BY <1>3, <1>6 DEF ForwardsAreReachable, Named
<1>10. UploadsSurviveCommits
  BY <1>1, MessagesAssumption DEF UploadsSurviveCommits, Items
<1> QED BY <1>1, <1>5, <1>7, <1>8, <1>9, <1>10 DEF MessagesInv, Stored

\* Every step keeps what is proved of a stored scene and of its media.
LEMMA MessagesInvInductive ==
  ASSUME MessagesInv, [MessagesNext]_messageVars PROVE MessagesInv'
<1>1. CASE MessagesNext
  BY <1>1, StepHandsOver, CommitKeeps
<1>2. CASE UNCHANGED messageVars
  BY <1>2 DEF messageVars, MessagesInv, UploadsSurviveCommits
<1> QED BY <1>1, <1>2

LEMMA MessagesInvHolds == MessagesSpec => []MessagesInv
<1>1. MessagesInit => MessagesInv
  BY MessagesInvHoldsAtFirst
<1>2. MessagesInv /\ [MessagesNext]_messageVars => MessagesInv'
  BY MessagesInvInductive
<1> QED BY <1>1, <1>2, PTL DEF MessagesSpec

\* What is stored of messages, forwards and files is whole after every call: the lists of the
\* conversations and the list of messages agree, every conversation reads as one history, in
\* order, of messages that are there, and the forwards kept are those that are named
\* (appendMessage, reclaimSceneMessages, clearConversationMessages,
\* cascadeRemovedConversations, pruneUnreferencedForwards).
THEOREM MessagesStayWhole == MessagesSpec => []MessagesAreWhole
<1>1. MessagesInv => MessagesAreWhole
  <2> SUFFICES ASSUME MessagesInv PROVE MessagesAreWhole
    OBVIOUS
  <2>1. MessagesTypeOK
    BY DEF MessagesInv, Stored, MessagesTypeOK
  <2>2. ReadIsChronological(chats)
    BY StoredIsChronological DEF MessagesInv
  <2> QED BY <2>1, <2>2 DEF MessagesInv, Stored, MessagesAreWhole
<1> QED BY <1>1, MessagesInvHolds, PTL

\* A commit deletes no file that a message or a forward still shows, and what is pinned stays
\* on disk (reclaimUnreferenced, pin).
THEOREM MediaStayKept == MessagesSpec => MediaIsKept
<1>1. MessagesInv => UploadsSurviveCommits
  BY DEF MessagesInv
<1>2. ASSUME MessagesInv, [MessagesNext]_messageVars
      PROVE  [\A f \in MissingMedia' \ MissingMedia : chats' = chats \/ f \in uploads \ files]_messageVars
  <2>1. CASE UNCHANGED messageVars
    BY <2>1
  <2>2. CASE MessagesNext
    <3> SUFFICES ASSUME NEW f \in MissingMedia', f \notin MissingMedia, chats' # chats
                 PROVE  f \in uploads \ files
      OBVIOUS
    <3>1. PICK s, stored, pins : HandedOver(s, stored, pins) /\ CommitWith(s, stored, pins)
                                 /\ UNCHANGED <<bounds, uploads>>
      BY <1>2, <2>2, StepHandsOver
    <3>2. \A g \in MediaReferences(chats') : g \in MediaReferences(s) /\ (g \in stored => g \in files')
      BY <1>2, <3>1, CommitKeeps
    <3>3. f \in Media /\ f \notin files' /\ f \in MediaReferences(chats')
      BY DEF MissingMedia, MediaReferences, MessageIds
    <3>4. f \in MediaReferences(s) /\ f \notin stored /\ f \notin files
      BY <3>1, <3>2, <3>3 DEF HandedOver
    <3>5. f \notin MediaReferences(chats)
      BY <3>3, <3>4 DEF MissingMedia, MediaReferences
    <3> QED BY <3>1, <3>4, <3>5 DEF HandedOver
  <2> QED BY <1>2, <2>1, <2>2
<1> QED BY <1>1, <1>2, MessagesInvHolds, PTL DEF MessagesSpec, MediaIsKept, CommitKeepsMediaInUse

-----------------------------------------------------------------------------
(* What a call takes from a history. *)

\* Roots inherit nothing; an instance inherits from a conversation made before it, and its own
\* messages come after what it inherits.
LEMMA HistoryIs ==
  ASSUME NEW s, Stored(s), NEW c \in ConversationIds(s)
  PROVE  /\ History(s, c) = Items(s.own[c]) \cup Inherited(s, c)
         /\ History(s, c) \subseteq MessageIds(s) /\ History(s, c) \subseteq Nat
         /\ c \in Roots => c \notin Nat /\ Inherited(s, c) = {}
         /\ c \notin Roots => c \in InstanceIds(s) /\ c \in Nat
         /\ c \in InstanceIds(s) /\ s.instances[c].fork # None =>
              /\ s.instances[c].fork.source \in Roots \cup {j \in Nat : j < c}
              /\ s.instances[c].fork.message \in Nat
              /\ \A m \in Items(s.own[c]) : s.instances[c].fork.message < m
<1>1. SceneTypeOK(s) /\ RowsAndMessagesAgree(s) /\ ForksAreEarlier(s)
  BY DEF Stored
<1>2. /\ DOMAIN s.instances = 1..Len(s.instances) /\ Len(s.instances) \in Nat
      /\ Len(s.messages) \in Nat /\ MessageIds(s) \subseteq 1..Len(s.messages)
      /\ ConversationIds(s) \subseteq DOMAIN s.own /\ s.roots \subseteq Roots
  BY <1>1, SceneParts DEF SceneTypeOK
<1>3. ReadsWell(s, c)
  BY <1>1, <1>2, AllReadWell
<1>4. InstanceIds(s) \subseteq Nat
  BY <1>2 DEF InstanceIds
<1>5. c \in Roots => c \notin Nat
  BY MessagesAssumption
<1>6. c \in Roots => Inherited(s, c) = {}
  BY <1>4, <1>5 DEF Inherited, Inherits
<1>7. c \notin Roots => c \in InstanceIds(s) /\ c \in Nat
  BY <1>2, <1>4 DEF ConversationIds
<1>8. ASSUME c \in InstanceIds(s), s.instances[c].fork # None
      PROVE  /\ s.instances[c].fork.source \in Roots \cup {j \in Nat : j < c}
             /\ s.instances[c].fork.message \in Nat
             /\ \A m \in Items(s.own[c]) : s.instances[c].fork.message < m
  <2>1. /\ s.instances[c].fork.source \in Roots \cup 1..(c - 1)
        /\ s.instances[c].fork.message \in 0..Len(s.messages)
        /\ \A m \in Items(s.own[c]) : s.instances[c].fork.message < m
    BY <1>1, <1>8 DEF ForksAreEarlier
  <2>2. c \in Nat
    BY <1>4, <1>8
  <2> QED BY <1>2, <2>1, <2>2
<1>9. History(s, c) \subseteq Nat
  BY <1>2, <1>3 DEF ReadsWell
<1> QED BY <1>3, <1>5, <1>6, <1>7, <1>8, <1>9 DEF ReadsWell

\* A root reads its own messages.
LEMMA RootReads ==
  ASSUME NEW s, Stored(s), NEW c \in ConversationIds(s), c \in Roots
  PROVE  History(s, c) = Items(s.own[c])
<1>1. History(s, c) = Items(s.own[c]) \cup Inherited(s, c) /\ Inherited(s, c) = {}
  BY HistoryIs
<1> QED BY <1>1

\* So does an instance without own messages what it inherits.
LEMMA InheritedReads ==
  ASSUME NEW s, Stored(s), NEW c \in ConversationIds(s), s.own[c] = <<>>
  PROVE  History(s, c) = Inherited(s, c)
<1>1. History(s, c) = Items(s.own[c]) \cup Inherited(s, c)
  BY HistoryIs
<1>2. Items(s.own[c]) = {}
  BY DEF Items
<1> QED BY <1>1, <1>2

\* What only grows loses nothing anywhere.
LEMMA GrownReads ==
  ASSUME NEW s, NEW t, Stored(s), Stored(t), Grown(s, t)
  PROVE  \A c \in ConversationIds(s) : History(s, c) \subseteq History(t, c)
<1> DEFINE wrong == {i \in Nat : i \in ConversationIds(s) /\ ~(History(s, i) \subseteq History(t, i))}
<1>1. ASSUME NEW c \in ConversationIds(s), c \in Roots PROVE History(s, c) \subseteq History(t, c)
  <2>1. History(s, c) = Items(s.own[c])
    BY <1>1, HistoryIs
  <2>2. c \in ConversationIds(t) /\ Items(s.own[c]) \subseteq Items(t.own[c])
    BY DEF Grown
  <2> QED BY <2>1, <2>2, HistoryIs
<1>2. wrong = {}
  <2> SUFFICES ASSUME wrong # {} PROVE FALSE
    OBVIOUS
  <2>1. PICK i \in wrong : \A y \in wrong : i <= y
    <3>1. wrong \in SUBSET Nat
      OBVIOUS
    <3> HIDE DEF wrong
    <3> QED BY <3>1, Smallest
  <2>2. i \in Nat /\ i \in ConversationIds(s) /\ i \notin Roots /\ ~(History(s, i) \subseteq History(t, i))
    BY MessagesAssumption
  <2>3. i \in InstanceIds(s) /\ i \in InstanceIds(t) /\ t.instances[i] = s.instances[i]
        /\ i \in ConversationIds(t) /\ Items(s.own[i]) \subseteq Items(t.own[i])
    BY <2>2, HistoryIs DEF Grown
  <2> DEFINE fork == s.instances[i].fork
  <2>4. Inherited(s, i) \subseteq Inherited(t, i)
    <3>1. CASE ~Inherits(s, i)
      BY <3>1 DEF Inherited
    <3>2. CASE Inherits(s, i)
      <4>1. fork # None /\ fork.source \in ConversationIds(s) /\ fork.message \in History(s, fork.source)
        BY <3>2 DEF Inherits
      <4>2. fork.source \in Roots \cup {j \in Nat : j < i}
        BY <2>2, <2>3, <4>1, HistoryIs
      <4>3. History(s, fork.source) \subseteq History(t, fork.source)
        <5>1. CASE fork.source \in Roots
          BY <1>1, <4>1, <5>1
        <5>2. CASE fork.source \notin Roots
          <6>1. fork.source \in Nat /\ ~(i <= fork.source)
            BY <2>2, <4>2, <5>2
          <6> QED BY <2>1, <4>1, <6>1
        <5> QED BY <5>1, <5>2
      <4>4. fork.source \in ConversationIds(t)
        BY <4>1 DEF Grown
      <4>5. Inherits(t, i)
        BY <2>3, <4>1, <4>3, <4>4 DEF Inherits
      <4> QED BY <2>3, <3>2, <4>3, <4>5 DEF Inherited
    <3> QED BY <3>1, <3>2
  <2> QED BY <2>2, <2>3, <2>4, HistoryIs
<1>3. ASSUME NEW c \in ConversationIds(s), c \notin Roots PROVE History(s, c) \subseteq History(t, c)
  <2>1. c \in Nat
    BY <1>3, HistoryIs
  <2> QED BY <1>2, <2>1
<1> QED BY <1>1, <1>3

\* Eviction takes the same messages from every history: where the message goes that a branch
\* begins at, all goes that it inherits.
LEMMA EvictedReads ==
  ASSUME NEW s, NEW t, NEW dropped, Stored(s), Stored(t), Evicted(s, t, dropped)
  PROVE  \A c \in ConversationIds(s) : History(t, c) = History(s, c) \ dropped
<1> DEFINE wrong == {i \in Nat : i \in ConversationIds(s) /\ History(t, i) # History(s, i) \ dropped}
<1>1. /\ t.instances = s.instances /\ InstanceIds(t) = InstanceIds(s)
      /\ ConversationIds(t) = ConversationIds(s)
      /\ \A c \in ConversationIds(s) : Items(t.own[c]) = Items(s.own[c]) \ dropped
      /\ \A m \in dropped, k \in MessageIds(s) : k < m => k \in dropped
  <2>1. ConversationIds(s) \subseteq DOMAIN s.own
    BY SceneParts DEF Stored
  <2> QED BY <2>1 DEF Evicted, InstanceIds, ConversationIds
<1>2. ASSUME NEW c \in ConversationIds(s), c \in Roots PROVE History(t, c) = History(s, c) \ dropped
  <2>1. History(s, c) = Items(s.own[c])
    BY <1>2, HistoryIs
  <2>2. History(t, c) = Items(t.own[c])
    BY <1>1, <1>2, HistoryIs
  <2> QED BY <1>1, <2>1, <2>2
<1>3. wrong = {}
  <2> SUFFICES ASSUME wrong # {} PROVE FALSE
    OBVIOUS
  <2>1. PICK i \in wrong : \A y \in wrong : i <= y
    <3>1. wrong \in SUBSET Nat
      OBVIOUS
    <3> HIDE DEF wrong
    <3> QED BY <3>1, Smallest
  <2>2. i \in Nat /\ i \in ConversationIds(s) /\ i \notin Roots /\ History(t, i) # History(s, i) \ dropped
    BY MessagesAssumption
  <2>3. i \in InstanceIds(s) /\ i \in ConversationIds(t)
    BY <1>1, <2>2, HistoryIs
  <2> DEFINE fork == s.instances[i].fork
             read == History(s, fork.source)
  <2>4. Inherited(t, i) = Inherited(s, i) \ dropped
    <3>1. CASE fork = None \/ fork.source \notin ConversationIds(s)
      BY <1>1, <3>1 DEF Inherited, Inherits
    <3>2. CASE fork # None /\ fork.source \in ConversationIds(s)
      <4>1. fork.source \in Roots \cup {j \in Nat : j < i} /\ fork.message \in Nat
        BY <2>2, <2>3, <3>2, HistoryIs
      <4>2. History(t, fork.source) = read \ dropped
        <5>1. CASE fork.source \in Roots
          BY <1>2, <3>2, <5>1
        <5>2. CASE fork.source \notin Roots
          <6>1. fork.source \in Nat /\ ~(i <= fork.source)
            BY <2>2, <4>1, <5>2
          <6> QED BY <2>1, <3>2, <6>1
        <5> QED BY <5>1, <5>2
      <4>3. read \subseteq MessageIds(s) /\ read \subseteq Nat
        BY <3>2, HistoryIs
      <4>4. Inherited(s, i) = IF fork.message \in read THEN {m \in read : m <= fork.message} ELSE {}
        BY <2>3, <3>2 DEF Inherited, Inherits
      <4>5. Inherited(t, i) = IF fork.message \in read \ dropped
                              THEN {m \in read \ dropped : m <= fork.message} ELSE {}
        BY <1>1, <2>3, <3>2, <4>2 DEF Inherited, Inherits
      <4>6. ASSUME fork.message \in dropped, fork.message \in read
            PROVE  \A m \in read : m <= fork.message => m \in dropped
        <5> SUFFICES ASSUME NEW m \in read, m <= fork.message PROVE m \in dropped
          OBVIOUS
        <5>1. m = fork.message \/ m < fork.message
          BY <4>1, <4>3
        <5> QED BY <1>1, <4>3, <4>6, <5>1
      <4> HIDE DEF read
      <4> QED BY <4>4, <4>5, <4>6
    <3> QED BY <3>1, <3>2
  <2>5. History(s, i) = Items(s.own[i]) \cup Inherited(s, i)
        /\ History(t, i) = Items(t.own[i]) \cup Inherited(t, i)
    BY <2>2, <2>3, HistoryIs
  <2> QED BY <1>1, <2>2, <2>4, <2>5
<1>4. ASSUME NEW c \in ConversationIds(s), c \notin Roots PROVE History(t, c) = History(s, c) \ dropped
  <2>1. c \in Nat
    BY <1>4, HistoryIs
  <2> QED BY <1>3, <2>1
<1> QED BY <1>2, <1>4

\* What was made before the conversation that is cleared reads as it did.
LEMMA BeforeCleared ==
  ASSUME NEW s, NEW t, NEW cleared, Stored(s), Stored(t), Reduced(s, t, cleared),
         cleared \in ConversationIds(t)
  PROVE  \A c \in ConversationIds(t) :
           c # cleared /\ (c \in Roots \/ (cleared \in Nat /\ c < cleared)) => History(t, c) = History(s, c)
<1>1. /\ ConversationIds(t) = ConversationIds(s) /\ InstanceIds(t) \subseteq InstanceIds(s)
      /\ \A i \in InstanceIds(t) : t.instances[i] = s.instances[i]
      /\ \A c \in ConversationIds(t) \ {cleared} : t.own[c] = s.own[c]
  BY DEF Reduced
<1>2. ASSUME NEW c \in ConversationIds(t), c \in Roots, c # cleared PROVE History(t, c) = History(s, c)
  <2>1. History(s, c) = Items(s.own[c])
    BY <1>1, <1>2, RootReads
  <2>2. History(t, c) = Items(t.own[c])
    BY <1>2, RootReads
  <2> QED BY <1>1, <1>2, <2>1, <2>2
<1> DEFINE wrong == {i \in Nat : i \in ConversationIds(t) /\ i < cleared /\ History(t, i) # History(s, i)}
<1>3. ASSUME cleared \in Nat PROVE wrong = {}
  <2> SUFFICES ASSUME wrong # {} PROVE FALSE
    OBVIOUS
  <2>1. PICK i \in wrong : \A y \in wrong : i <= y
    <3>1. wrong \in SUBSET Nat
      OBVIOUS
    <3> HIDE DEF wrong
    <3> QED BY <3>1, Smallest
  <2>2. i \in Nat /\ i \in ConversationIds(t) /\ i \notin Roots /\ i < cleared /\ i # cleared
        /\ History(t, i) # History(s, i) /\ cleared \notin Roots
    BY <1>3, MessagesAssumption
  <2>3. i \in InstanceIds(t) /\ i \in InstanceIds(s) /\ t.instances[i] = s.instances[i]
        /\ t.own[i] = s.own[i]
    BY <1>1, <2>2, HistoryIs
  <2> DEFINE fork == s.instances[i].fork
  <2>4. Inherited(t, i) = Inherited(s, i)
    <3>1. CASE fork = None \/ fork.source \notin ConversationIds(s)
      BY <1>1, <2>3, <3>1 DEF Inherited, Inherits
    <3>2. CASE fork # None /\ fork.source \in ConversationIds(s)
      <4>1. fork.source \in Roots \cup {j \in Nat : j < i}
        BY <1>1, <2>2, <2>3, <3>2, HistoryIs
      <4>2. History(t, fork.source) = History(s, fork.source)
        <5>1. CASE fork.source \in Roots
          BY <1>1, <1>2, <2>2, <3>2, <5>1
        <5>2. CASE fork.source \notin Roots
          <6>1. fork.source \in Nat /\ ~(i <= fork.source) /\ fork.source < cleared
            BY <1>3, <2>2, <4>1, <5>2
          <6> QED BY <1>1, <2>1, <3>2, <6>1
        <5> QED BY <5>1, <5>2
      <4> QED BY <1>1, <2>3, <3>2, <4>2 DEF Inherited, Inherits
    <3> QED BY <3>1, <3>2
  <2>5. History(s, i) = Items(s.own[i]) \cup Inherited(s, i)
        /\ History(t, i) = Items(t.own[i]) \cup Inherited(t, i)
    BY <1>1, <2>2, HistoryIs
  <2> QED BY <2>2, <2>3, <2>4, <2>5
<1>4. ASSUME NEW c \in ConversationIds(t), c # cleared, c \notin Roots, cleared \in Nat, c < cleared
      PROVE  History(t, c) = History(s, c)
  <2>1. c \in Nat
    BY <1>4, HistoryIs
  <2> QED BY <1>3, <1>4, <2>1
<1> QED BY <1>2, <1>4

\* What was cleared still reads what it inherits.
LEMMA ClearedReads ==
  ASSUME NEW s, NEW t, NEW cleared, Stored(s), Stored(t), Reduced(s, t, cleared),
         cleared \in ConversationIds(t)
  PROVE  History(t, cleared) = Inherited(s, cleared)
<1>1. /\ ConversationIds(t) = ConversationIds(s) /\ InstanceIds(t) \subseteq InstanceIds(s)
      /\ \A i \in InstanceIds(t) : t.instances[i] = s.instances[i]
      /\ t.own[cleared] = <<>>
  BY DEF Reduced
<1>2. History(t, cleared) = Inherited(t, cleared)
  BY <1>1, InheritedReads
<1>3. CASE cleared \in Roots
  BY <1>1, <1>2, <1>3, HistoryIs
<1>4. CASE cleared \notin Roots
  <2>1. cleared \in InstanceIds(t) /\ cleared \in InstanceIds(s) /\ cleared \in Nat
        /\ t.instances[cleared] = s.instances[cleared]
    BY <1>1, <1>4, HistoryIs
  <2> DEFINE fork == s.instances[cleared].fork
  <2>2. CASE fork = None \/ fork.source \notin ConversationIds(s)
    BY <1>1, <1>2, <2>1, <2>2 DEF Inherited, Inherits
  <2>3. CASE fork # None /\ fork.source \in ConversationIds(s)
    <3>1. fork.source \in Roots \cup {j \in Nat : j < cleared}
      BY <1>1, <2>1, <2>3, HistoryIs
    <3>2. History(t, fork.source) = History(s, fork.source)
      <4>1. fork.source # cleared
        BY <1>4, <2>1, <3>1
      <4>2. fork.source \in Roots \/ fork.source < cleared
        BY <3>1
      <4>3. fork.source \in ConversationIds(t)
        BY <1>1, <2>3
      <4>4. \A c \in ConversationIds(t) :
              c # cleared /\ (c \in Roots \/ (cleared \in Nat /\ c < cleared)) => History(t, c) = History(s, c)
        BY BeforeCleared
      <4> HIDE DEF fork
      <4> QED BY <2>1, <4>1, <4>2, <4>3, <4>4
    <3> QED BY <1>1, <1>2, <2>1, <2>3, <3>2 DEF Inherited, Inherits
  <2> QED BY <2>2, <2>3
<1> QED BY <1>3, <1>4

\* Of what is left of a history, all is later than what is lost.
LosesFromItsStart(s, t, c) ==
  /\ History(t, c) \subseteq History(s, c)
  /\ \A m \in History(s, c) \ History(t, c), k \in History(t, c) : m < k

\* One instance loses from its start, if those made before it do.
LEMMA InstanceReduces ==
  ASSUME NEW s, NEW t, NEW cleared, Stored(s), Stored(t), Reduced(s, t, cleared),
         NEW i \in ConversationIds(t), i \notin Roots, i # cleared,
         \A c \in ConversationIds(t) : c # cleared /\ (c \in Roots \/ c \in {j \in Nat : j < i}) =>
                                         LosesFromItsStart(s, t, c)
  PROVE  LosesFromItsStart(s, t, i)
<1> DEFINE fork == s.instances[i].fork
           own == Items(s.own[i])
           before == History(s, fork.source)
           after == History(t, fork.source)
<1>1. /\ ConversationIds(t) \subseteq ConversationIds(s) /\ InstanceIds(t) \subseteq InstanceIds(s)
      /\ i \in InstanceIds(t) /\ i \in InstanceIds(s) /\ i \in Nat
      /\ t.instances[i] = s.instances[i] /\ t.own[i] = s.own[i]
  BY HistoryIs DEF Reduced
<1>2. /\ History(s, i) = own \cup Inherited(s, i) /\ History(s, i) \subseteq Nat
      /\ History(t, i) = own \cup Inherited(t, i)
  BY <1>1, HistoryIs
<1>3. CASE ~Inherits(s, i)
  <2>1. Inherited(s, i) = {}
    BY <1>3 DEF Inherited
  <2>2. Inherited(t, i) = {}
    <3> SUFFICES ASSUME Inherits(t, i) PROVE FALSE
      BY DEF Inherited
    <3>1. fork # None /\ fork.source \in ConversationIds(t) /\ fork.message \in after
      BY <1>1 DEF Inherits
    <3>2. fork.source \in ConversationIds(s) /\ fork.message \notin before
      BY <1>1, <1>3, <3>1 DEF Inherits
    <3>3. fork.source \in Roots \cup {j \in Nat : j < i}
      BY <1>1, <3>1, <3>2, HistoryIs
    <3>4. CASE fork.source # cleared
      BY <3>1, <3>2, <3>3, <3>4 DEF LosesFromItsStart
    <3>5. CASE fork.source = cleared
      <4>1. after = Inherited(s, cleared)
        BY <3>1, <3>5, ClearedReads
      <4>2. after \subseteq before
        BY <3>2, <3>5, <4>1, HistoryIs
      <4> QED BY <3>1, <3>2, <4>2
    <3> QED BY <3>4, <3>5
  <2> QED BY <1>2, <2>1, <2>2 DEF LosesFromItsStart
<1>4. CASE Inherits(s, i)
  <2>1. /\ fork # None /\ fork.source \in ConversationIds(s) /\ fork.message \in before
        /\ Inherited(s, i) = {m \in before : m <= fork.message}
    BY <1>4 DEF Inherits, Inherited
  <2>2. /\ fork.source \in Roots \cup {j \in Nat : j < i} /\ fork.message \in Nat
        /\ \A m \in own : fork.message < m
    BY <1>1, <2>1, HistoryIs
  <2>3. before \subseteq Nat /\ own \subseteq Nat
    BY <1>2, <2>1, HistoryIs
  <2>4. CASE ~Inherits(t, i)
    <3>1. History(t, i) = own
      BY <1>2, <2>4 DEF Inherited
    <3>2. \A m \in History(s, i) \ own : m \in Nat /\ m <= fork.message
      BY <1>2, <2>1
    <3>3. \A m \in History(s, i) \ own, k \in own : m < k
      <4> SUFFICES ASSUME NEW m \in History(s, i) \ own, NEW k \in own PROVE m < k
        OBVIOUS
      <4> HIDE DEF own
      <4>1. m \in Nat /\ m <= fork.message /\ fork.message < k /\ k \in Nat
        BY <2>2, <2>3, <3>2
      <4> HIDE DEF fork
      <4> QED BY <2>2, <4>1
    <3> QED BY <1>2, <3>1, <3>3 DEF LosesFromItsStart
  <2>5. CASE Inherits(t, i)
    <3>1. /\ fork.source \in ConversationIds(t) /\ fork.message \in after
          /\ Inherited(t, i) = {m \in after : m <= fork.message}
      BY <1>1, <2>5 DEF Inherits, Inherited
    <3>2. CASE fork.source # cleared
      <4>1. after \subseteq before /\ \A m \in before \ after, k \in after : m < k
        BY <2>2, <3>1, <3>2 DEF LosesFromItsStart
      <4> HIDE DEF before, after, own
      <4>2. History(t, i) \subseteq History(s, i)
        BY <1>2, <2>1, <3>1, <4>1
      <4>3. \A m \in History(s, i) \ History(t, i) : m \in before \ after /\ m <= fork.message /\ m \in Nat
        BY <1>2, <2>1, <2>3, <3>1
      <4>4. \A k \in History(t, i) : k \in own \/ k \in after
        BY <1>2, <3>1
      <4>5. ASSUME NEW m \in History(s, i) \ History(t, i), NEW k \in History(t, i) PROVE m < k
        <5>1. CASE k \in own
          <6>1. m \in Nat /\ m <= fork.message /\ fork.message < k /\ k \in Nat
            BY <2>2, <2>3, <4>3, <5>1
          <6> HIDE DEF fork
          <6> QED BY <2>2, <6>1
        <5>2. CASE k \in after
          BY <4>1, <4>3, <5>2
        <5> QED BY <4>4, <5>1, <5>2
      <4> QED BY <4>2, <4>5 DEF LosesFromItsStart
    <3>3. CASE fork.source = cleared
      <4>1. after = Inherited(s, cleared)
        BY <3>1, <3>3, ClearedReads
      <4>2. before = Items(s.own[cleared]) \cup Inherited(s, cleared)
        BY <2>1, <3>3, HistoryIs
      <4>3. Inherits(s, cleared) /\ \A m \in after : m <= s.instances[cleared].fork.message
        BY <3>1, <4>1 DEF Inherited
      <4>4. /\ s.instances[cleared].fork.message \in Nat
            /\ \A m \in Items(s.own[cleared]) : s.instances[cleared].fork.message < m
        BY <2>1, <3>3, <4>3, HistoryIs DEF Inherits
      <4>5. \A m \in Items(s.own[cleared]) : ~(m <= fork.message)
        <5>1. fork.message <= s.instances[cleared].fork.message
          BY <3>1, <4>3
        <5>2. Items(s.own[cleared]) \subseteq Nat
          BY <2>3, <4>2
        <5> QED BY <2>2, <4>4, <5>1, <5>2
      <4>6. Inherited(t, i) = Inherited(s, i)
        <5> HIDE DEF before, after
        <5> QED BY <2>1, <3>1, <4>1, <4>2, <4>5
      <4> QED BY <1>2, <4>6 DEF LosesFromItsStart
    <3> QED BY <3>2, <3>3
  <2> QED BY <2>4, <2>5
<1> QED BY <1>3, <1>4

\* Every history but the one cleared loses from its start.
LEMMA ReducedReads ==
  ASSUME NEW s, NEW t, NEW cleared, Stored(s), Stored(t), Reduced(s, t, cleared)
  PROVE  \A c \in ConversationIds(t) : c # cleared => LosesFromItsStart(s, t, c)
<1> DEFINE wrong == {i \in Nat : i \in ConversationIds(t) /\ i # cleared /\ ~LosesFromItsStart(s, t, i)}
<1>1. ASSUME NEW c \in ConversationIds(t), c \in Roots, c # cleared PROVE LosesFromItsStart(s, t, c)
  <2>1. c \in ConversationIds(s) /\ t.own[c] = s.own[c]
    BY <1>1 DEF Reduced
  <2>2. History(s, c) = Items(s.own[c]) /\ History(t, c) = Items(t.own[c])
    BY <1>1, <2>1, RootReads
  <2> QED BY <2>1, <2>2 DEF LosesFromItsStart
<1>2. wrong = {}
  <2> SUFFICES ASSUME wrong # {} PROVE FALSE
    OBVIOUS
  <2>1. PICK i \in wrong : \A y \in wrong : i <= y
    <3>1. wrong \in SUBSET Nat
      OBVIOUS
    <3> HIDE DEF wrong
    <3> QED BY <3>1, Smallest
  <2>2. i \in Nat /\ i \in ConversationIds(t) /\ i \notin Roots /\ i # cleared
        /\ ~LosesFromItsStart(s, t, i)
    BY MessagesAssumption
  <2>3. ASSUME NEW c \in ConversationIds(t), c # cleared, c \in Roots \/ c \in {j \in Nat : j < i}
        PROVE  LosesFromItsStart(s, t, c)
    <3>1. CASE c \in Roots
      BY <1>1, <2>3, <3>1
    <3>2. CASE c \in {j \in Nat : j < i}
      <4>1. c \in Nat /\ ~(i <= c)
        BY <2>2, <3>2
      <4> QED BY <2>1, <2>3, <4>1
    <3> QED BY <2>3, <3>1, <3>2
  <2> QED BY <2>2, <2>3, InstanceReduces
<1>3. ASSUME NEW c \in ConversationIds(t), c \notin Roots, c # cleared PROVE LosesFromItsStart(s, t, c)
  <2>1. c \in Nat
    BY <1>3, HistoryIs
  <2> QED BY <1>2, <1>3, <2>1
<1> QED BY <1>1, <1>3

\* A history is lost from its beginning: what a conversation no longer reads is older than all
\* it still reads, unless it is the one that was cleared (readRowMessageIds,
\* clearConversationMessages, reclaimSceneMessages).
THEOREM HistoriesLoseOldestFirst == MessagesSpec => LosesOldestFirst
<1> DEFINE A == \A c \in ConversationIds(chats) \cap ConversationIds(chats)' :
                  LET before == ReadMessages(chats, c)
                      after == ReadMessages(chats, c)'
                  IN  \/ chats.own[c] # <<>> /\ chats'.own[c] = <<>>
                      \/ \A m \in Items(before) \ Items(after), k \in Items(before) \cap Items(after) : m < k
<1>1. ASSUME MessagesInv, [MessagesNext]_messageVars PROVE [A]_messageVars
  <2>1. CASE UNCHANGED messageVars
    BY <2>1
  <2>2. CASE MessagesNext
    <3> SUFFICES ASSUME NEW c \in ConversationIds(chats), c \in ConversationIds(chats'),
                        ~(chats.own[c] # <<>> /\ chats'.own[c] = <<>>),
                        NEW m \in History(chats, c) \ History(chats', c),
                        NEW k \in History(chats, c) \cap History(chats', c)
                 PROVE  m < k
      BY DEF History
    <3>1. CASE UNCHANGED chats
      BY <3>1
    <3>2. CASE ~(UNCHANGED chats)
      <4>1. PICK s, stored, pins : HandedOver(s, stored, pins) /\ CommitWith(s, stored, pins)
                                   /\ UNCHANGED <<bounds, uploads>>
        BY <1>1, <2>2, <3>2, StepHandsOver
      <4>2. Stored(chats') /\ Stored(s) /\ Stored(chats)
        BY <1>1, <4>1, CommitKeeps DEF HandedOver, MessagesInv
      <4>3. PICK dropped : Evicted(s, chats', dropped)
        BY <1>1, <4>1, CommitKeeps
      <4>4. ConversationIds(chats') = ConversationIds(s)
        BY <4>3 DEF Evicted, ConversationIds, InstanceIds
      <4>5. History(chats', c) = History(s, c) \ dropped /\ History(s, c) \subseteq MessageIds(s)
            /\ History(s, c) \subseteq Nat
        BY <4>2, <4>3, <4>4, EvictedReads, HistoryIs
      <4>6. CASE m \in History(s, c)
        <5>1. m \in dropped /\ k \in MessageIds(s) /\ k \notin dropped /\ m \in Nat /\ k \in Nat
          BY <4>5, <4>6
        <5>2. ~(k < m) /\ k # m
          BY <4>3, <5>1 DEF Evicted
        <5> QED BY <5>1, <5>2
      <4>7. CASE m \notin History(s, c)
        <5>1. ~Grown(chats, s)
          BY <4>2, <4>7, GrownReads
        <5>2. PICK d : Reduced(chats, s, d)
          BY <4>1, <5>1 DEF HandedOver
        <5>3. CASE c # d
          BY <4>2, <4>4, <4>5, <4>7, <5>2, <5>3, ReducedReads DEF LosesFromItsStart
        <5>4. CASE c = d
          <6>1. s.own[c] = <<>>
            BY <4>4, <5>2, <5>4 DEF Reduced
          <6>2. Items(s.own[c]) = {}
            BY <6>1 DEF Items
          <6>3. c \in DOMAIN s.own /\ c \in DOMAIN chats'.own
            BY <4>2, <4>4, SceneParts DEF Stored
          <6>4. Items(chats'.own[c]) = {}
            BY <4>3, <6>2, <6>3 DEF Evicted
          <6>5. chats'.own[c] \in Seq(Nat)
            BY <4>2, <6>3 DEF Stored, SceneTypeOK
          <6>6. chats.own[c] = <<>>
            BY <6>4, <6>5, NoItems
          <6>7. History(chats, c) = Inherited(chats, c)
            BY <4>2, <6>6, InheritedReads
          <6>8. History(s, c) = Inherited(chats, c)
            BY <4>2, <4>4, <5>2, <5>4, ClearedReads
          <6> QED BY <4>7, <6>7, <6>8
        <5> QED BY <5>3, <5>4
      <4> QED BY <4>6, <4>7
    <3> QED BY <3>1, <3>2
  <2> QED BY <1>1, <2>1, <2>2
<1> QED BY <1>1, MessagesInvHolds, PTL DEF MessagesSpec, LosesOldestFirst
=============================================================================
