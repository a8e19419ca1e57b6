---------------------------- MODULE SceneRelations ----------------------------
(***************************************************************************)
(* Relations of one scene: its participants, groups with their members,    *)
(* friendships, requests, and the root conversations these call for.       *)
(* Users, the management console and bots (over OneBot) act on it through  *)
(* the control service. A bot that is switched off is refused its own      *)
(* client; that only takes behaviours away and is left out.                *)
(*                                                                         *)
(* Every call runs to its end at once, except where it awaits a notice to  *)
(* the bots before the change it announces: leaving a group, a kick, and   *)
(* the end of a friendship with a bot. A call holds the group object it    *)
(* looked up, which by then may no longer be the scene's.                  *)
(***************************************************************************)
EXTENDS Naturals, FiniteSets

CONSTANTS
  Users, Bots,
  Groups,
  InitialScene,   \* of the main scene: createDefaultScene; of a test space: nothing
  NoOne, NoGroup,
  MaxRequests,    \* bound: requests pending at once
  MaxCalls        \* bound: calls awaiting a notice at once

ASSUME RelationsAssumption ==
  /\ Users \cap Bots = {}
  /\ NoOne \notin Users \cup Bots /\ NoGroup \notin Groups
  /\ MaxRequests \in Nat /\ MaxCalls \in Nat

\* Participants, whatever their kind; an owner, admins and plain members.
Ids == Users \cup Bots
Roles == {"owner", "admin", "member"}
Members == [id : Ids, role : Roles]
Pairs == {{p, q} : p, q \in Ids} \ {{p} : p \in Ids}

FriendRequests == [type : {"friend"}, from : Ids, to : Ids, group : {NoGroup}]
JoinRequests == [type : {"add"}, from : Ids, to : {NoOne}, group : Groups]
Invitations == [type : {"invite"}, from : Ids, to : Ids, group : Groups]
Requests == FriendRequests \cup JoinRequests \cup Invitations

\* A call awaiting its notice. "live": its group object is still in the scene.
Calls == [act : {"leave", "kick"}, group : Groups, by : Ids, who : Ids, live : BOOLEAN]
           \cup [act : {"unfriend"}, group : {NoGroup}, by : Ids, who : Ids, live : {TRUE}]

Scenes ==
  [participants : SUBSET Ids,
   groups : SUBSET Groups,
   members : [Groups -> SUBSET Members],   \* none for a group that is not there
   friends : SUBSET Pairs,
   requests : SUBSET Requests,
   directRoots : SUBSET Pairs,
   groupRoots : SUBSET Groups]

VARIABLES
  scene,
  saved,   \* the scene as of the last commit: what revision names and the database gets
  calls

vars == <<scene, saved, calls>>

Init ==
  /\ scene = InitialScene
  /\ saved = InitialScene
  /\ calls = {}

----------------------------------------------------------------------------
(* Helpers. *)

HasRole(s, g, p, roles) == \E m \in s.members[g] : m.id = p /\ m.role \in roles
InGroup(s, g, p) == HasRole(s, g, p, Roles)
Without(members, p) == {m \in members : m.id # p}
Member(p, role) == [id |-> p, role |-> role]

\* The new scene becomes current, gets a revision, and is queued for the database.
Commit(s) == scene' = s /\ saved' = s

\* Friendships that are not there yet, with the root conversation of each.
Befriend(s, pairs) ==
  [s EXCEPT !.friends = @ \cup pairs,
            !.directRoots = @ \cup (pairs \ s.friends)]

\* The group objects that calls hold are no longer the scene's.
Detached(groups) ==
  {IF c.group \in groups THEN [c EXCEPT !.live = FALSE] ELSE c : c \in calls}

WithoutRequests(s, dropped) == [s EXCEPT !.requests = @ \ dropped]

\* A member manages another: owner over everyone else, admin over plain members.
MayManage(s, g, a, t) ==
  \/ HasRole(s, g, a, {"owner"}) /\ HasRole(s, g, t, {"admin", "member"})
  \/ HasRole(s, g, a, {"admin"}) /\ HasRole(s, g, t, {"member"})

\* What the console may give a group: everyone once, one owner (validateGroupMembers),
\* out of the participants there are.
MemberLists ==
  {members \in SUBSET Members :
     /\ \A m, n \in members : m.id = n.id => m = n
     /\ \E m \in members : m.role = "owner" /\ \A n \in members : n.role = "owner" => n = m}

Known(s, members) == \A m \in members : m.id \in s.participants

----------------------------------------------------------------------------
(* What makes a scene sound. *)

\* Whatever is deleted in whatever order, and whatever calls end late: a member,
\* a friend, a party to a request or to a private chat is a participant, and
\* nothing belongs to a group that is gone (deleteUser, deleteBot, deleteGroup,
\* removeGroupMember).
NoDanglingReference(s) ==
  /\ \A g \in Groups : \A m \in s.members[g] : g \in s.groups /\ m.id \in s.participants
  /\ \A pair \in s.friends \cup s.directRoots : pair \subseteq s.participants
  /\ \A r \in s.requests : /\ {r.from, r.to} \subseteq s.participants \cup {NoOne}
                          /\ r.group \in s.groups \cup {NoGroup}

\* Friends can always talk, and so can a group: each friendship and each group has its
\* root conversation (addFriendship and syncGroupConversations create it only when they
\* find none, and deletions cascade).
RelationsHaveRoots(s) == s.friends \subseteq s.directRoots /\ s.groups = s.groupRoots

\* Nobody is in a group twice, and no group has two owners, whatever transfers, approvals
\* of stale requests, edits and late removals come together.
RolesAreUnique(s) ==
  \A g \in Groups : \A m, n \in s.members[g] :
    m.id = n.id \/ (m.role = "owner" /\ n.role = "owner") => m = n

\* Between two participants there is never more than one of: a friendship, a pending
\* request of either. A bot gets its friends silently when it or they are created, so a
\* request could be left over.
NoRequestBetweenFriends(s) ==
  \A r, x \in {y \in s.requests : y.type = "friend"} :
    /\ r.from # r.to /\ {r.from, r.to} \notin s.friends
    /\ {r.from, r.to} = {x.from, x.to} => r = x

Sound(s) ==
  NoDanglingReference(s) /\ RelationsHaveRoots(s) /\ RolesAreUnique(s) /\ NoRequestBetweenFriends(s)

\* The scene a control begins with is sound, and its groups have owners.
ASSUME InitialAssumption ==
  /\ InitialScene \in Scenes /\ Sound(InitialScene)
  /\ \A g \in InitialScene.groups : \E m \in InitialScene.members[g] : m.role = "owner"

----------------------------------------------------------------------------
(* The console. *)

CreateUser(u) ==
  /\ u \notin scene.participants
  /\ Commit(Befriend([scene EXCEPT !.participants = @ \cup {u}],
                     {{u, b} : b \in scene.participants \cap Bots}))
  /\ UNCHANGED calls

CreateBot(b) ==
  /\ b \notin scene.participants
  /\ Commit(Befriend([scene EXCEPT !.participants = @ \cup {b}],
                     {{p, b} : p \in scene.participants}))
  /\ UNCHANGED calls

\* The participant goes with the groups it owns, and with every relation to either.
WithoutParticipant(s, p) ==
  LET owned == {g \in s.groups : HasRole(s, g, p, {"owner"})} IN
  [participants |-> s.participants \ {p},
   groups |-> s.groups \ owned,
   members |-> [g \in Groups |-> IF g \in owned THEN {} ELSE Without(s.members[g], p)],
   friends |-> {pair \in s.friends : p \notin pair},
   requests |-> {r \in s.requests : r.from # p /\ r.to # p /\ r.group \notin owned},
   directRoots |-> {pair \in s.directRoots : p \notin pair},
   groupRoots |-> s.groupRoots \ owned]

DeleteParticipant(p) ==
  /\ p \in scene.participants
  /\ Commit(WithoutParticipant(scene, p))
  /\ calls' = Detached(scene.groups \ WithoutParticipant(scene, p).groups)

CreateGroup(g, members) ==
  /\ g \notin scene.groups
  /\ Known(scene, members)
  /\ Commit([scene EXCEPT !.groups = @ \cup {g}, !.members[g] = members,
                          !.groupRoots = @ \cup {g}])
  /\ UNCHANGED calls

UpdateGroup(g, members) ==
  /\ g \in scene.groups
  /\ Known(scene, members)
  /\ Commit([scene EXCEPT !.members[g] = members, !.groupRoots = @ \cup {g}])
  /\ UNCHANGED calls

WithoutGroup(s, g) ==
  [s EXCEPT !.groups = @ \ {g}, !.members[g] = {}, !.groupRoots = @ \ {g},
            !.requests = {r \in @ : r.group # g}]

DeleteGroup(g) ==
  /\ g \in scene.groups
  /\ Commit(WithoutGroup(scene, g))
  /\ calls' = Detached({g})

\* replaceScene refuses what breaks these; the environment tools of the MCP server edit a
\* copy of the scene and put it back through this check.
Importable(s) ==
  /\ \A g \in s.groups : Known(s, s.members[g]) /\ s.members[g] \in MemberLists
  /\ \A pair \in s.directRoots \cup s.friends : pair \subseteq s.participants
  /\ s.groupRoots \subseteq s.groups

ReplaceScene ==
  /\ Importable(scene)
  /\ Commit(scene)
  /\ calls' = Detached(Groups)

ResetScene ==
  /\ Commit(InitialScene)
  /\ calls' = Detached(Groups)

\* Names, cards, titles, remarks, mutes, avatars, messages: any other change commits too.
OtherCommit ==
  /\ Commit(scene)
  /\ UNCHANGED calls

----------------------------------------------------------------------------
(* Friends. *)

RequestFriend(p, q) ==
  LET r == [type |-> "friend", from |-> p, to |-> q, group |-> NoGroup] IN
  /\ p \in scene.participants /\ q \in scene.participants /\ p # q
  /\ {p, q} \notin scene.friends
  /\ ~\E x \in scene.requests : x.type = "friend" /\ {x.from, x.to} = {p, q}
  /\ Cardinality(scene.requests) < MaxRequests
  /\ Commit([scene EXCEPT !.requests = @ \cup {r}])
  /\ UNCHANGED calls

\* Mutant of SettleFriendRequest: a refusal is not committed.
SettleFriendRequestQuietly(r, approve) ==
  /\ r \in scene.requests /\ r.type = "friend"
  /\ IF approve THEN Commit(Befriend(WithoutRequests(scene, {r}), {{r.from, r.to}}))
                ELSE scene' = WithoutRequests(scene, {r}) /\ UNCHANGED saved
  /\ UNCHANGED calls

\* The target decides; a bot does so over OneBot.
SettleFriendRequest(r, approve) ==
  /\ r \in scene.requests /\ r.type = "friend"
  /\ Commit(IF approve THEN Befriend(WithoutRequests(scene, {r}), {{r.from, r.to}})
                       ELSE WithoutRequests(scene, {r}))
  /\ UNCHANGED calls

Unfriended(s, p, q) == [s EXCEPT !.friends = @ \ {{p, q}}]

\* delete_friend of a bot, and a friend deleted that is no bot: committed at once.
Unfriend(p, q) ==
  /\ p \in scene.participants /\ (p \in Users => q \in Users)
  /\ {p, q} \in scene.friends
  /\ Commit(Unfriended(scene, p, q))
  /\ UNCHANGED calls

\* A bot is told before the commit. dispatchBotNotice knows users only: a bot that deletes
\* a bot fails right there.
UnfriendBot(p, b) ==
  LET c == [act |-> "unfriend", group |-> NoGroup, by |-> p, who |-> b, live |-> TRUE] IN
  /\ p \in scene.participants /\ b \in Bots
  /\ {p, b} \in scene.friends
  /\ p \in Users => Cardinality(calls) < MaxCalls
  /\ scene' = Unfriended(scene, p, b)
  /\ calls' = IF p \in Users THEN calls \cup {c} ELSE calls
  /\ UNCHANGED saved

\* "told": the notice was delivered; otherwise it threw, and the call with it.
UnfriendBotEnds(c, told) ==
  /\ c \in calls /\ c.act = "unfriend"
  /\ IF told THEN Commit(scene) ELSE UNCHANGED <<scene, saved>>
  /\ calls' = calls \ {c}

----------------------------------------------------------------------------
(* Groups. *)

RequestJoin(p, g) ==
  LET r == [type |-> "add", from |-> p, to |-> NoOne, group |-> g] IN
  /\ p \in scene.participants /\ g \in scene.groups
  /\ ~InGroup(scene, g, p)
  /\ r \notin scene.requests
  /\ Cardinality(scene.requests) < MaxRequests
  /\ Commit([scene EXCEPT !.requests = @ \cup {r}])
  /\ UNCHANGED calls

Invite(p, q, g) ==
  LET r == [type |-> "invite", from |-> p, to |-> q, group |-> g] IN
  /\ p \in scene.participants /\ g \in scene.groups /\ InGroup(scene, g, p)
  /\ q \in scene.participants /\ ~InGroup(scene, g, q)
  /\ ~\E x \in scene.requests : x.type = "invite" /\ x.to = q /\ x.group = g
  /\ Cardinality(scene.requests) < MaxRequests
  /\ Commit([scene EXCEPT !.requests = @ \cup {r}])
  /\ UNCHANGED calls

\* Mutant of Admitted: membership is as it was when the request was made.
AdmittedAnyway(s, g, p) ==
  [s EXCEPT !.members[g] = @ \cup {Member(p, "member")}, !.groupRoots = @ \cup {g}]

\* addApprovedGroupMember: who is a member by now is left as they are.
Admitted(s, g, p) ==
  IF InGroup(s, g, p) THEN s
  ELSE [s EXCEPT !.members[g] = @ \cup {Member(p, "member")},
                 !.groupRoots = @ \cup {g}]

\* p, a manager of the group, settles a request to join.
SettleJoin(p, r, approve) ==
  /\ r \in scene.requests /\ r.type = "add"
  /\ HasRole(scene, r.group, p, {"owner", "admin"})
  /\ Commit(IF approve THEN Admitted(WithoutRequests(scene, {r}), r.group, r.from)
                       ELSE WithoutRequests(scene, {r}))
  /\ UNCHANGED calls

\* The invited participant decides; the inviter may have left.
SettleInvite(r, approve) ==
  /\ r \in scene.requests /\ r.type = "invite"
  /\ Commit(IF approve THEN Admitted(WithoutRequests(scene, {r}), r.group, r.to)
                       ELSE WithoutRequests(scene, {r}))
  /\ UNCHANGED calls

\* Mutant of SetAdmin: the owner is a target like any other.
SetAdminOfAnyone(p, q, g, enabled) ==
  /\ g \in scene.groups
  /\ HasRole(scene, g, p, {"owner"})
  /\ InGroup(scene, g, q)
  /\ Commit([scene EXCEPT !.members[g] =
       Without(@, q) \cup {Member(q, IF enabled THEN "admin" ELSE "member")}])
  /\ UNCHANGED calls

SetAdmin(p, q, g, enabled) ==
  /\ g \in scene.groups
  /\ HasRole(scene, g, p, {"owner"})
  /\ HasRole(scene, g, q, {"admin", "member"})
  /\ Commit([scene EXCEPT !.members[g] =
       Without(@, q) \cup {Member(q, IF enabled THEN "admin" ELSE "member")}])
  /\ UNCHANGED calls

TransferOwner(p, q, g) ==
  /\ g \in scene.groups
  /\ HasRole(scene, g, p, {"owner"})
  /\ InGroup(scene, g, q) /\ p # q
  /\ Commit([scene EXCEPT !.members[g] =
       Without(Without(@, p), q) \cup {Member(p, "member"), Member(q, "owner")}])
  /\ UNCHANGED calls

\* Checked, and then the notice is awaited before anyone is removed.
Leave(p, g) ==
  /\ g \in scene.groups
  /\ HasRole(scene, g, p, {"admin", "member"})
  /\ Cardinality(calls) < MaxCalls
  /\ calls' = calls \cup {[act |-> "leave", group |-> g, by |-> p, who |-> p, live |-> TRUE]}
  /\ UNCHANGED <<scene, saved>>

Kick(p, q, g) ==
  /\ g \in scene.groups
  /\ MayManage(scene, g, p, q)
  /\ Cardinality(calls) < MaxCalls
  /\ calls' = calls \cup {[act |-> "kick", group |-> g, by |-> p, who |-> q, live |-> TRUE]}
  /\ UNCHANGED <<scene, saved>>

\* removeGroupMember: from the object the call holds, while requests and the root
\* conversation go by the id of the group, which may be a new one.
Removed(s, c) ==
  [s EXCEPT !.members[c.group] = IF c.live THEN Without(@, c.who) ELSE @,
            !.requests = {r \in @ : ~(r.group = c.group /\ c.who \in {r.from, r.to})},
            !.groupRoots = IF c.group \in s.groups THEN @ \cup {c.group} ELSE @]

RemovalEnds(c, told) ==
  /\ c \in calls /\ c.act \in {"leave", "kick"}
  /\ IF told THEN Commit(Removed(scene, c)) ELSE UNCHANGED <<scene, saved>>
  /\ calls' = calls \ {c}

\* The process restarts with what was saved; calls are gone.
Restart ==
  /\ scene' = saved /\ saved' = saved
  /\ calls' = {}

----------------------------------------------------------------------------
Console ==
  \/ \E u \in Users : CreateUser(u)
  \/ \E b \in Bots : CreateBot(b)
  \/ \E p \in Ids : DeleteParticipant(p)
  \/ \E g \in Groups, members \in MemberLists : CreateGroup(g, members) \/ UpdateGroup(g, members)
  \/ \E g \in Groups : DeleteGroup(g)
  \/ ReplaceScene
  \/ ResetScene
  \/ OtherCommit

Friendship ==
  \/ \E p, q \in Ids : RequestFriend(p, q) \/ Unfriend(p, q) \/ UnfriendBot(p, q)
  \/ \E r \in FriendRequests, approve \in BOOLEAN : SettleFriendRequest(r, approve)

Membership ==
  \/ \E p, q \in Ids, g \in Groups : Invite(p, q, g) \/ TransferOwner(p, q, g) \/ Kick(p, q, g)
  \/ \E p, q \in Ids, g \in Groups, enabled \in BOOLEAN : SetAdmin(p, q, g, enabled)
  \/ \E p \in Ids, g \in Groups : RequestJoin(p, g) \/ Leave(p, g)
  \/ \E p \in Ids, r \in JoinRequests, approve \in BOOLEAN : SettleJoin(p, r, approve)
  \/ \E r \in Invitations, approve \in BOOLEAN : SettleInvite(r, approve)

Next ==
  \/ Console
  \/ Friendship
  \/ Membership
  \/ \E c \in Calls, told \in BOOLEAN : UnfriendBotEnds(c, told) \/ RemovalEnds(c, told)
  \/ Restart

Spec == Init /\ [][Next]_vars

----------------------------------------------------------------------------
(* Properties. *)

TypeOK == scene \in Scenes /\ saved \in Scenes /\ calls \subseteq Calls

\* The scene stays one that replaceScene would accept and a page can show, and so does what
\* a restart would bring back.
SceneIsSound == Sound(scene) /\ Sound(saved)

Owned(s, g) == g \in s.groups /\ \E m \in s.members[g] : m.role = "owner"

\* leaveGroup and kickGroupMember refuse to take the owner away, but check before they
\* await the notice. Only such a call, begun before its target became the owner, ever
\* leaves a group without one.
OwnerIsLostToOverlapOnly ==
  [][\A g \in Groups : Owned(scene, g) /\ g \in scene'.groups /\ ~Owned(scene', g) =>
       \E c \in calls \ calls' : c.group = g /\ HasRole(scene, g, c.who, {"owner"})]_vars

\* A scene that differs from what its revision stands for, and from what a restart would
\* bring back, differs by friendships with bots that were just ended: every other call
\* changes and commits in one step.
UnsavedIsAnUnfriending ==
  /\ saved = [scene EXCEPT !.friends = saved.friends]
  /\ scene.friends \subseteq saved.friends
  /\ \A pair \in saved.friends \ scene.friends : pair \cap Bots # {}
=============================================================================
