-------------------------- MODULE TestSpacesProofs --------------------------
(* Proofs about TestSpaces, for any sets of spaces and bots and any bounds.    *)
EXTENDS TestSpaces, TLAPS

\* The inductive invariant: a fresh control must be known to run nothing, or the
\* bots of an earlier control of the same id would be forgotten with their claims.
IInv == TypeOK /\ RegistryAgrees /\ FreshRunsNothing

\* The sentinels are no controls.
LEMMA Sentinels == Free \notin Controls /\ Orphan \notin Controls /\ Free # Orphan
                   /\ Main \in Controls /\ Main \notin Spaces /\ DefaultBots \subseteq Bots
  BY SpacesAssumption DEF Controls

\* syncRuntimeBots touches one control and leaves the registry in agreement, whether
\* it runs to its end or throws half way.
LEMMA SyncAgrees ==
  ASSUME NEW c \in Controls, NEW B \in SUBSET Bots,
         RegistryTypeOK, RegistryAgrees, SyncRuntimeBots(c, B)
  PROVE  /\ RegistryTypeOK' /\ RegistryAgrees'
         /\ \A d \in Controls : d # c => runtime'[d] = runtime[d]
<1> DEFINE dropped == runtime[c] \ B
           released == Release(owner, c, dropped)
<1>1. PICK claimed \in Synced(c, B, owner) :
        /\ runtime' = [runtime EXCEPT ![c] = (@ \cap B) \cup claimed]
        /\ owner' = Claim(released, c, claimed)
  BY DEF SyncRuntimeBots
<1>2. claimed \subseteq B \ runtime[c] /\ \A b \in claimed : released[b] \in {Free, c}
  BY <1>1 DEF Synced, Blocked
<1>3. released \in [Bots -> Controls \cup {Free, Orphan}]
  BY DEF Release, RegistryTypeOK
<1>4. RegistryTypeOK'
  BY <1>1, <1>2, <1>3, Sentinels DEF RegistryTypeOK, Claim
<1>5. \A d \in Controls : d # c => runtime'[d] = runtime[d]
  BY <1>1 DEF RegistryTypeOK
<1>6. ASSUME NEW d \in Controls, NEW b \in Bots
      PROVE  owner'[b] = d <=> b \in runtime'[d]
  <2>1. owner[b] = d <=> b \in runtime[d]
    BY DEF RegistryAgrees
  <2>2. owner[b] = c <=> b \in runtime[c]
    BY DEF RegistryAgrees
  <2>3. released[b] = IF b \in dropped THEN Free ELSE owner[b]
    BY <2>2 DEF Release
  <2>4. owner'[b] = IF b \in claimed THEN c ELSE released[b]
    BY <1>1 DEF Claim
  <2>5. CASE b \in claimed
    <3>1. owner'[b] = c /\ b \notin runtime[c] /\ b \in B
      BY <1>2, <2>4, <2>5
    <3>2. b \notin runtime[d]
      BY <1>2, <2>1, <2>2, <2>3, <2>5, <3>1, Sentinels
    <3> QED BY <1>1, <1>5, <2>5, <3>1, <3>2 DEF RegistryTypeOK
  <2>6. CASE b \notin claimed
    BY <1>1, <1>5, <2>1, <2>2, <2>3, <2>4, <2>6, Sentinels DEF RegistryTypeOK
  <2> QED BY <2>5, <2>6
<1> QED BY <1>4, <1>5, <1>6 DEF RegistryAgrees

\* Stopping some bots of a control, or all of them, keeps the agreement.
LEMMA ReleaseAgrees ==
  ASSUME NEW c \in Controls, NEW B \in SUBSET Bots, RegistryTypeOK, RegistryAgrees,
         runtime' = [runtime EXCEPT ![c] = @ \ B],
         owner' = Release(owner, c, runtime[c] \cap B)
  PROVE  /\ RegistryTypeOK' /\ RegistryAgrees'
         /\ \A d \in Controls : d # c => runtime'[d] = runtime[d]
  BY Sentinels DEF Release, RegistryTypeOK, RegistryAgrees

LEMMA StopAgrees ==
  ASSUME NEW c \in Controls, RegistryTypeOK, RegistryAgrees,
         runtime' = [runtime EXCEPT ![c] = {}],
         owner' = Release(owner, c, runtime[c])
  PROVE  RegistryTypeOK' /\ RegistryAgrees'
  BY Sentinels DEF Release, RegistryTypeOK, RegistryAgrees

\* One more bot for a control, when the registry lets it.
LEMMA ClaimAgrees ==
  ASSUME NEW c \in Controls, NEW b \in Bots, RegistryTypeOK, RegistryAgrees,
         Available(b, c),
         runtime' = [runtime EXCEPT ![c] = @ \cup {b}],
         owner' = Claim(owner, c, {b})
  PROVE  /\ RegistryTypeOK' /\ RegistryAgrees'
         /\ \A d \in Controls : d # c => runtime'[d] = runtime[d]
  BY Sentinels DEF Available, Claim, RegistryTypeOK, RegistryAgrees

\* A control without bots is given a scene: it gets all of its bots, or none of the
\* ones its constructor had claimed before it threw.
LEMMA RestoreAgrees ==
  ASSUME NEW s \in Spaces, RegistryTypeOK, RegistryAgrees, runtime[s] = {},
         fetched[s] \in SpaceRow, RestoreSpace(s)
  PROVE  /\ RegistryTypeOK' /\ RegistryAgrees'
<1> DEFINE B == fetched[s].bots
<1>1. B \subseteq Bots /\ s \in Controls
  BY DEF SpaceRow, Controls
<1>2. \A b \in Bots : owner[b] # s
  BY <1>1 DEF RegistryAgrees
<1>3. \A b \in B : b \notin Blocked(s, B, owner) => owner[b] = Free
  BY <1>1, <1>2 DEF Blocked, Release
<1>4. CASE Blocked(s, B, owner) = {} /\ runtime' = [runtime EXCEPT ![s] = B]
           /\ owner' = Claim(owner, s, B)
  BY <1>1, <1>2, <1>3, <1>4, Sentinels DEF Claim, RegistryTypeOK, RegistryAgrees
<1>5. ASSUME NEW claimed \in Synced(s, B, owner), owner' = Claim(owner, Orphan, claimed),
             Blocked(s, B, owner) # {}, UNCHANGED runtime
      PROVE  RegistryTypeOK' /\ RegistryAgrees'
  <2>1. claimed \subseteq B /\ \A b \in claimed : owner[b] = Free
    BY <1>3, <1>5 DEF Synced
  <2> QED BY <1>1, <1>5, <2>1, Sentinels DEF Claim, RegistryTypeOK, RegistryAgrees
<1>6. CASE UNCHANGED registryVars
  BY <1>6 DEF registryVars, RegistryTypeOK, RegistryAgrees
<1> QED BY <1>4, <1>5, <1>6 DEF RestoreSpace

-----------------------------------------------------------------------------
LEMMA InitIInv == Init => IInv
<1> SUFFICES ASSUME Init PROVE IInv
  OBVIOUS
<1>1. SceneTypeOK /\ RegistryTypeOK
  BY Sentinels
  DEF Init, SceneTypeOK, RegistryTypeOK, ConstructedBots, ConstructedOwner, Controls, Statuses
<1>2. QueueTypeOK
  BY DEF Init, QueueTypeOK
<1>3. LoadTypeOK /\ DbTypeOK /\ HistoryTypeOK
  BY SpacesAssumption DEF Init, LoadTypeOK, DbTypeOK, HistoryTypeOK, NoRows
<1>4. RegistryAgrees /\ FreshRunsNothing
  BY Sentinels
  DEF Init, RegistryAgrees, FreshRunsNothing, ConstructedBots, ConstructedOwner, Controls
<1> QED BY <1>1, <1>2, <1>3, <1>4 DEF IInv, TypeOK

\* A row or a scene to write is one the queues may hold.
LEMMA QueueTypes ==
  ASSUME QueueTypeOK
  PROVE  /\ \A s \in Spaces, row \in SpaceRow \cup {NoRow} :
              Append(queue, [space |-> s, row |-> row]) \in Seq(Writes)
         /\ \A B \in SUBSET Bots : Append(mainQueue, [bots |-> B]) \in Seq(SceneRow)
         /\ queue # <<>> => /\ Head(queue).space \in Spaces
                            /\ Head(queue).row \in SpaceRow \cup {NoRow}
                            /\ Tail(queue) \in Seq(Writes)
         /\ mainQueue # <<>> => Head(mainQueue) \in SceneRow /\ Tail(mainQueue) \in Seq(SceneRow)
<1>1. \A s \in Spaces, row \in SpaceRow \cup {NoRow} : [space |-> s, row |-> row] \in Writes
  BY DEF Writes
<1>2. \A B \in SUBSET Bots : [bots |-> B] \in SceneRow
  BY DEF SceneRow
<1>3. queue # <<>> => Head(queue) \in Writes /\ Tail(queue) \in Seq(Writes)
  BY DEF QueueTypeOK
<1>4. \A w \in Writes : w.space \in Spaces /\ w.row \in SpaceRow \cup {NoRow}
  BY DEF Writes
<1>5. mainQueue # <<>> => Head(mainQueue) \in SceneRow /\ Tail(mainQueue) \in Seq(SceneRow)
  BY DEF QueueTypeOK
<1> QED BY <1>1, <1>2, <1>3, <1>4, <1>5 DEF QueueTypeOK

\* What an edit leaves behind: its commit queues a row that belongs there.
LEMMA CommitTypes ==
  ASSUME NEW c \in Controls, NEW B \in SUBSET Bots, SceneTypeOK, QueueTypeOK, HistoryTypeOK,
         Commit(c, B)
  PROVE  /\ QueueTypeOK'
         /\ forgotten' \subseteq Spaces /\ unsaved' \subseteq Controls
<1>1. c # Main => Stored(status[c], B) \in SpaceRow
  BY DEF Stored, SpaceRow, SceneTypeOK, Controls
<1> QED BY <1>1, QueueTypes, Sentinels
  DEF Commit, Listening, QueueSave, QueueMainSave, Enqueue, QueueTypeOK, HistoryTypeOK, Controls

\* Steps of the start-up and of the queues keep the types.
LEMMA StartTypes ==
  ASSUME TypeOK, RegistryAgrees,
         \/ Restart \/ MainLoaded \/ MainSynchronized \/ MainMissing \/ MainUnavailable
         \/ SpacesFetched \/ SpacesUnreadable \/ RestoreDone
         \/ WriteSpace \/ WriteSpaceFails \/ WriteMain \/ WriteMainFails
  PROVE  TypeOK'
<1> USE DEF TypeOK, registryVars, queueVars, loadVars, dbVars, boundVars, historyVars
<1>1. CASE Restart
  <2>1. SceneTypeOK' /\ RegistryTypeOK'
    BY <1>1, Sentinels
    DEF Restart, SceneTypeOK, RegistryTypeOK, ConstructedBots, ConstructedOwner, Controls, Statuses
  <2>2. QueueTypeOK' /\ LoadTypeOK' /\ DbTypeOK'
    BY <1>1 DEF Restart, QueueTypeOK, LoadTypeOK, DbTypeOK, NoRows
  <2>3. HistoryTypeOK'
    BY <1>1, SpacesAssumption DEF Restart, HistoryTypeOK
  <2> QED BY <2>1, <2>2, <2>3
<1>2. CASE MainLoaded
  <2>1. SceneTypeOK'
    BY <1>2, Sentinels DEF MainLoaded, SceneTypeOK, DbTypeOK, SceneRow
  <2> QED BY <1>2, <2>1, Sentinels
    DEF MainLoaded, RegistryTypeOK, QueueTypeOK, LoadTypeOK, DbTypeOK, HistoryTypeOK
<1>3. CASE MainSynchronized
  <2>1. RegistryTypeOK'
    BY <1>3, SyncAgrees, Sentinels DEF MainSynchronized, SceneTypeOK
  <2>2. DbTypeOK'
    BY <1>3, Sentinels DEF MainSynchronized, DbTypeOK, SceneTypeOK, SceneRow
  <2> QED BY <1>3, <2>1, <2>2, Sentinels
    DEF MainSynchronized, SceneTypeOK, QueueTypeOK, LoadTypeOK, HistoryTypeOK
<1>4. CASE MainMissing
  <2>1. DbTypeOK'
    BY <1>4, Sentinels DEF MainMissing, DbTypeOK, SceneTypeOK, SceneRow
  <2>2. HistoryTypeOK'
    BY <1>4, SpacesAssumption DEF MainMissing, HistoryTypeOK
  <2> QED BY <1>4, <2>1, <2>2
    DEF MainMissing, SceneTypeOK, RegistryTypeOK, QueueTypeOK, LoadTypeOK
<1>5. CASE MainUnavailable \/ SpacesUnreadable
  <2>1. HistoryTypeOK'
    BY <1>5, SpacesAssumption DEF MainUnavailable, SpacesUnreadable, HistoryTypeOK
  <2> QED BY <1>5, <2>1
    DEF MainUnavailable, SpacesUnreadable, SceneTypeOK, RegistryTypeOK, QueueTypeOK, LoadTypeOK,
        DbTypeOK
<1>6. CASE SpacesFetched \/ RestoreDone
  BY <1>6 DEF SpacesFetched, RestoreDone, SceneTypeOK, RegistryTypeOK, QueueTypeOK, LoadTypeOK,
              DbTypeOK, HistoryTypeOK
<1>7. CASE WriteSpace \/ WriteMain
  <2>1. QueueTypeOK' /\ DbTypeOK'
    BY <1>7, QueueTypes DEF WriteSpace, WriteMain, QueueTypeOK, DbTypeOK
  <2> QED BY <1>7, <2>1
    DEF WriteSpace, WriteMain, SceneTypeOK, RegistryTypeOK, LoadTypeOK, HistoryTypeOK
<1>8. CASE WriteSpaceFails \/ WriteMainFails
  <2>1. QueueTypeOK'
    BY <1>8, QueueTypes DEF WriteSpaceFails, WriteMainFails, QueueTypeOK
  <2>2. HistoryTypeOK'
    BY <1>8, SpacesAssumption DEF WriteSpaceFails, WriteMainFails, HistoryTypeOK
  <2> QED BY <1>8, <2>1, <2>2
    DEF WriteSpaceFails, WriteMainFails, SceneTypeOK, RegistryTypeOK, LoadTypeOK, DbTypeOK
<1> QED BY <1>1, <1>2, <1>3, <1>4, <1>5, <1>6, <1>7, <1>8

\* Every step keeps the registry and the controls in agreement.
LEMMA RegistryStep ==
  ASSUME TypeOK, RegistryAgrees, FreshRunsNothing, [Next]_vars
  PROVE  RegistryTypeOK' /\ RegistryAgrees'
<1> USE DEF registryVars
<1>0. RegistryTypeOK /\ SceneTypeOK /\ LoadTypeOK
  BY DEF TypeOK
<1>1. CASE UNCHANGED registryVars
  BY <1>0, <1>1 DEF RegistryTypeOK, RegistryAgrees
<1>2. CASE Restart
  BY <1>2, Sentinels
  DEF Restart, RegistryTypeOK, RegistryAgrees, ConstructedBots, ConstructedOwner, Controls
<1>3. CASE MainSynchronized
  BY <1>0, <1>3, SyncAgrees, Sentinels DEF MainSynchronized, SceneTypeOK
<1>4. ASSUME NEW s \in Spaces, RestoreSpace(s)
      PROVE  RegistryTypeOK' /\ RegistryAgrees'
  <2>1. fetched[s] \in SpaceRow /\ runtime[s] = {}
    BY <1>0, <1>4 DEF RestoreSpace, RestoreRow, Live, FreshRunsNothing, LoadTypeOK
  <2> QED BY <1>0, <1>4, <2>1, RestoreAgrees
<1>5. ASSUME NEW s \in Spaces, Deactivate(s) \/ Dispose(s)
      PROVE  RegistryTypeOK' /\ RegistryAgrees'
  BY <1>0, <1>1, <1>5, StopAgrees DEF Deactivate, Dispose, Controls
<1>6. ASSUME NEW s \in Spaces, NEW st \in Statuses, ReactivateSpace(s, st)
      PROVE  RegistryTypeOK' /\ RegistryAgrees'
  BY <1>0, <1>1, <1>6, SyncAgrees DEF ReactivateSpace, SceneTypeOK, Controls
<1>7. ASSUME NEW c \in Controls, NEW b \in Bots, CreateBot(c, b)
      PROVE  RegistryTypeOK' /\ RegistryAgrees'
  BY <1>0, <1>1, <1>7, ClaimAgrees DEF CreateBot
<1>8. ASSUME NEW c \in Controls, NEW b \in Bots, DeleteBot(c, b)
      PROVE  RegistryTypeOK' /\ RegistryAgrees'
  BY <1>0, <1>8, ReleaseAgrees DEF DeleteBot
<1>9. ASSUME NEW c \in Controls, NEW B \in SUBSET Bots, ReplaceScene(c, B)
      PROVE  RegistryTypeOK' /\ RegistryAgrees'
  BY <1>0, <1>1, <1>9, SyncAgrees DEF ReplaceScene
<1>10. ASSUME NEW c \in Controls, ResetScene(c)
       PROVE  RegistryTypeOK' /\ RegistryAgrees'
  BY <1>0, <1>1, <1>10, SyncAgrees DEF ResetScene, SceneTypeOK
<1>11. CASE \/ MainLoaded \/ MainMissing \/ MainUnavailable
            \/ SpacesFetched \/ SpacesUnreadable \/ RestoreDone
            \/ WriteSpace \/ WriteSpaceFails \/ WriteMain \/ WriteMainFails
  BY <1>1, <1>11
  DEF MainLoaded, MainMissing, MainUnavailable, SpacesFetched, SpacesUnreadable, RestoreDone,
      WriteSpace, WriteSpaceFails, WriteMain, WriteMainFails
<1>12. ASSUME NEW s \in Spaces,
              \/ RestoreKnown(s) \/ CreateSpace(s) \/ TakeOver(s) \/ ReturnControl(s)
              \/ DeleteSpace(s) \/ PassGate(s)
       PROVE  RegistryTypeOK' /\ RegistryAgrees'
  BY <1>1, <1>12
  DEF RestoreKnown, CreateSpace, TakeOver, ReturnControl, SetStatus, DeleteSpace, Deleting, PassGate
<1>14. ASSUME NEW c \in Controls, BotActs(c)
       PROVE  RegistryTypeOK' /\ RegistryAgrees'
  BY <1>1, <1>14 DEF BotActs
<1>13. ASSUME NEW s \in Spaces, TerminateSpace(s) \/ EndByAi(s)
       PROVE  RegistryTypeOK' /\ RegistryAgrees'
  BY <1>5, <1>13 DEF TerminateSpace, EndByAi, End
<1> QED
  BY <1>1, <1>2, <1>3, <1>4, <1>5, <1>6, <1>7, <1>8, <1>9, <1>10, <1>11, <1>12, <1>13, <1>14
  DEF Next, vars, Statuses

\* Steps of a space's life keep the types.
LEMMA LifeTypes ==
  ASSUME TypeOK, RegistryTypeOK', NEW s \in Spaces,
         \/ RestoreKnown(s) \/ RestoreSpace(s) \/ CreateSpace(s)
         \/ TakeOver(s) \/ ReturnControl(s) \/ TerminateSpace(s) \/ EndByAi(s)
         \/ (\E st \in {"running", "taken-over"} : ReactivateSpace(s, st))
         \/ DeleteSpace(s) \/ Dispose(s) \/ PassGate(s)
  PROVE  TypeOK'
<1> USE DEF TypeOK, registryVars, queueVars, loadVars, dbVars, boundVars, historyVars
<1>1. CASE RestoreKnown(s)
  BY <1>1 DEF RestoreKnown, RestoreRow, SceneTypeOK, QueueTypeOK, LoadTypeOK, DbTypeOK, HistoryTypeOK
<1>2. CASE RestoreSpace(s)
  <2>1. fetched[s] \in SpaceRow
    BY <1>2 DEF RestoreSpace, RestoreRow, LoadTypeOK
  <2>2. SceneTypeOK'
    BY <1>2, <2>1 DEF RestoreSpace, SyncOccupation, SceneTypeOK, SpaceRow, Controls
  <2> QED BY <1>2, <2>2
    DEF RestoreSpace, RestoreRow, QueueTypeOK, LoadTypeOK, DbTypeOK, HistoryTypeOK
<1>3. CASE CreateSpace(s)
  <2>1. SceneTypeOK'
    BY <1>3 DEF CreateSpace, SyncOccupation, SceneTypeOK, Controls, Statuses
  <2>2. Stored("running", {}) \in SpaceRow
    BY DEF Stored, SpaceRow, Statuses
  <2>3. QueueTypeOK'
    BY <1>3, <2>2, QueueTypes DEF CreateSpace, QueueSave, Enqueue, QueueTypeOK
  <2> QED BY <1>3, <2>1, <2>3 DEF CreateSpace, LoadTypeOK, DbTypeOK, HistoryTypeOK
<1>4. ASSUME NEW st \in Statuses, ChangeStatus(s, st), active' \in [Controls -> BOOLEAN]
      PROVE  TypeOK'
  <2>1. SceneTypeOK'
    BY <1>4 DEF ChangeStatus, SyncOccupation, SceneTypeOK
  <2>2. Stored(st, bots[s]) \in SpaceRow
    BY DEF Stored, SpaceRow, SceneTypeOK, Controls
  <2>3. QueueTypeOK'
    BY <1>4, <2>2, QueueTypes DEF ChangeStatus, QueueSave, Enqueue, QueueTypeOK
  <2> QED BY <1>4, <2>1, <2>3 DEF ChangeStatus, LoadTypeOK, DbTypeOK, HistoryTypeOK
<1>5. CASE \/ TakeOver(s) \/ ReturnControl(s)
           \/ (\E st \in {"running", "taken-over"} : ReactivateSpace(s, st))
  BY <1>4, <1>5
  DEF TakeOver, ReturnControl, SetStatus, ReactivateSpace, SceneTypeOK, Statuses
<1>6. CASE TerminateSpace(s) \/ EndByAi(s)
  BY <1>4, <1>6 DEF TerminateSpace, EndByAi, End, Deactivate, SceneTypeOK, Statuses
<1>7. CASE DeleteSpace(s)
  <2>1. SceneTypeOK' /\ HistoryTypeOK'
    BY <1>7 DEF DeleteSpace, Deleting, SyncOccupation, SceneTypeOK, HistoryTypeOK
  <2>2. QueueTypeOK'
    BY <1>7, QueueTypes DEF DeleteSpace, Deleting, Enqueue, QueueTypeOK
  <2> QED BY <1>7, <2>1, <2>2 DEF DeleteSpace, Deleting, LoadTypeOK, DbTypeOK
<1>8. CASE Dispose(s)
  BY <1>8 DEF Dispose, SceneTypeOK, QueueTypeOK, LoadTypeOK, DbTypeOK, HistoryTypeOK
<1>9. CASE PassGate(s)
  BY <1>9 DEF PassGate, SceneTypeOK, QueueTypeOK, LoadTypeOK, DbTypeOK, HistoryTypeOK
<1> QED BY <1>1, <1>2, <1>3, <1>5, <1>6, <1>7, <1>8, <1>9

\* Edits of a scene keep the types.
LEMMA EditTypes ==
  ASSUME TypeOK, RegistryTypeOK',
         \/ \E c \in Controls : \/ ResetScene(c) \/ BotActs(c)
                                \/ \E b \in Bots : CreateBot(c, b) \/ DeleteBot(c, b)
                                \/ \E B \in SUBSET Bots : ReplaceScene(c, B)
  PROVE  TypeOK'
<1> USE DEF TypeOK, registryVars, queueVars, loadVars, dbVars, boundVars, historyVars
<1>1. ASSUME NEW c \in Controls, BotActs(c)
      PROVE  TypeOK'
  <2>1. bots[c] \in SUBSET Bots /\ Commit(c, bots[c])
    BY <1>1 DEF BotActs, SceneTypeOK
  <2>2. QueueTypeOK' /\ forgotten' \subseteq Spaces /\ unsaved' \subseteq Controls
    BY <2>1, CommitTypes
  <2> QED BY <1>1, <2>2 DEF BotActs, SceneTypeOK, LoadTypeOK, DbTypeOK, HistoryTypeOK
<1>2. ASSUME NEW c \in Controls, NEW B \in SUBSET Bots, Edit(c),
             bots' = [bots EXCEPT ![c] = B],
             QueueTypeOK', forgotten' \subseteq Spaces, unsaved' \subseteq Controls,
             torn' \subseteq Controls
      PROVE  TypeOK'
  BY <1>2 DEF Edit, SceneTypeOK, LoadTypeOK, DbTypeOK, HistoryTypeOK
<1>3. ASSUME NEW c \in Controls, NEW b \in Bots, CreateBot(c, b) \/ DeleteBot(c, b)
      PROVE  TypeOK'
  <2>1. bots'[c] \in SUBSET Bots /\ bots' = [bots EXCEPT ![c] = bots'[c]]
    BY <1>3 DEF CreateBot, DeleteBot, SceneTypeOK
  <2>2. /\ QueueTypeOK' /\ forgotten' \subseteq Spaces
        /\ unsaved' \subseteq Controls /\ torn' \subseteq Controls
    <3>1. CASE Commit(c, bots'[c])
      BY <1>3, <2>1, <3>1, CommitTypes DEF CreateBot, DeleteBot, HistoryTypeOK
    <3>2. CASE UNCHANGED <<queueVars, forgotten>> /\ unsaved' = unsaved \cup {c}
      BY <1>3, <3>2 DEF CreateBot, DeleteBot, QueueTypeOK, HistoryTypeOK
    <3> QED BY <1>3, <3>1, <3>2 DEF CreateBot, DeleteBot
  <2> QED BY <1>2, <1>3, <2>1, <2>2 DEF CreateBot, DeleteBot
<1>4. ASSUME NEW c \in Controls, NEW B \in SUBSET Bots, ReplaceScene(c, B)
      PROVE  TypeOK'
  <2>1. QueueTypeOK' /\ forgotten' \subseteq Spaces /\ unsaved' \subseteq Controls
    BY <1>4, CommitTypes DEF ReplaceScene
  <2> QED BY <1>2, <1>4, <2>1 DEF ReplaceScene, HistoryTypeOK
<1>5. ASSUME NEW c \in Controls, ResetScene(c)
      PROVE  TypeOK'
  <2>1. initial[c] \in SUBSET Bots
    BY DEF SceneTypeOK
  <2>2. QueueTypeOK'
    BY <1>5, <2>1, QueueTypes DEF ResetScene, QueueMainSave, QueueTypeOK
  <2>3. forgotten' \subseteq Spaces /\ unsaved' \subseteq Controls /\ torn' \subseteq Controls
    BY <1>5 DEF ResetScene, HistoryTypeOK
  <2> QED BY <1>2, <1>5, <2>1, <2>2, <2>3 DEF ResetScene
<1> QED BY <1>1, <1>3, <1>4, <1>5

\* Every step keeps new controls without bots.
LEMMA FreshStep ==
  ASSUME TypeOK, RegistryAgrees, FreshRunsNothing, [Next]_vars
  PROVE  FreshRunsNothing'
<1> USE DEF TypeOK, FreshRunsNothing, registryVars, queueVars, loadVars
<1>1. CASE Restart
  BY <1>1, Sentinels DEF Restart, ConstructedBots, Controls
<1>2. CASE MainSynchronized
  <2>1. \A s \in Spaces : runtime'[s] = runtime[s]
    BY <1>2, SyncAgrees, Sentinels DEF MainSynchronized, SceneTypeOK, Controls
  <2> QED BY <1>2, <2>1 DEF MainSynchronized
<1>3. CASE \/ MainLoaded \/ MainMissing \/ MainUnavailable
           \/ SpacesFetched \/ SpacesUnreadable \/ RestoreDone
           \/ WriteSpace \/ WriteSpaceFails \/ WriteMain \/ WriteMainFails
           \/ UNCHANGED vars
  BY <1>3
  DEF MainLoaded, MainMissing, MainUnavailable, SpacesFetched, SpacesUnreadable, RestoreDone,
      WriteSpace, WriteSpaceFails, WriteMain, WriteMainFails, LoadTypeOK, vars
<1>4. ASSUME NEW s \in Spaces,
             \/ RestoreKnown(s) \/ RestoreSpace(s) \/ CreateSpace(s)
             \/ DeleteSpace(s) \/ Dispose(s) \/ PassGate(s)
      PROVE  FreshRunsNothing'
  <2>1. CASE RestoreKnown(s) \/ CreateSpace(s)
    BY <1>4, <2>1 DEF RestoreKnown, RestoreRow, CreateSpace, SceneTypeOK
  <2>2. CASE RestoreSpace(s)
    <3>1. \A d \in Spaces : d # s => runtime'[d] = runtime[d]
      BY <2>2 DEF RestoreSpace, RegistryTypeOK, Controls
    <3>2. ctl'[s] = "live" /\ \A d \in Spaces : d # s => ctl'[d] = ctl[d]
      BY <2>2 DEF RestoreSpace, SceneTypeOK
    <3> QED BY <2>2, <3>1, <3>2 DEF RestoreSpace, RestoreRow
  <2>3. CASE DeleteSpace(s)
    BY <2>3 DEF DeleteSpace, Deleting, SceneTypeOK
  <2>4. CASE Dispose(s)
    BY <2>4 DEF Dispose, SceneTypeOK, RegistryTypeOK, Controls
  <2>5. CASE PassGate(s)
    BY <2>5, Sentinels DEF PassGate, Gate, Live
  <2> QED BY <1>4, <2>1, <2>2, <2>3, <2>4, <2>5
<1>5. ASSUME NEW s \in Spaces, TakeOver(s) \/ ReturnControl(s) \/ TerminateSpace(s) \/ EndByAi(s)
      PROVE  FreshRunsNothing'
  BY <1>5
  DEF TakeOver, ReturnControl, SetStatus, TerminateSpace, EndByAi, End, Deactivate, ChangeStatus,
      RegistryTypeOK, Controls
<1>6. ASSUME NEW s \in Spaces, NEW st \in Statuses, ReactivateSpace(s, st)
      PROVE  FreshRunsNothing'
  <2>1. bots[s] \in SUBSET Bots /\ s \in Controls
    BY DEF SceneTypeOK, Controls
  <2>2. \A d \in Spaces : d # s => runtime'[d] = runtime[d]
    BY <1>6, <2>1, SyncAgrees DEF ReactivateSpace, Controls
  <2> QED BY <1>6, <2>2 DEF ReactivateSpace, ChangeStatus, Live
\* An edit starts bots of its own control only, and that control is no fresh one.
<1>7. ASSUME NEW c \in Controls, Edit(c),
             \A d \in Controls : d # c => runtime'[d] = runtime[d]
      PROVE  FreshRunsNothing'
  <2>1. c \in Spaces => ~(ctl[c] = "none" \/ (spacePhase # "ready" /\ ctl[c] # "live"))
    BY <1>7, Sentinels DEF Edit, Gate, Live
  <2>2. editing' \subseteq editing /\ UNCHANGED <<ctl, spacePhase>>
    BY <1>7 DEF Edit
  <2> QED BY <1>7, <2>1, <2>2 DEF Controls
<1>8. ASSUME NEW c \in Controls, NEW B \in SUBSET Bots,
             Edit(c), SyncRuntimeBots(c, B) \/ UNCHANGED runtime
      PROVE  FreshRunsNothing'
  BY <1>7, <1>8, SyncAgrees
<1>9. ASSUME NEW c \in Controls,
             \/ ResetScene(c) \/ BotActs(c)
             \/ \E b \in Bots : CreateBot(c, b) \/ DeleteBot(c, b)
             \/ \E B \in SUBSET Bots : ReplaceScene(c, B)
      PROVE  FreshRunsNothing'
  <2>1. CASE ResetScene(c)
    BY <1>8, <2>1 DEF ResetScene, SceneTypeOK
  <2>2. CASE \E b \in Bots : CreateBot(c, b) \/ DeleteBot(c, b)
    BY <1>7, <2>2 DEF CreateBot, DeleteBot, RegistryTypeOK
  <2>3. CASE \E B \in SUBSET Bots : ReplaceScene(c, B)
    BY <1>8, <2>3 DEF ReplaceScene
  <2>4. CASE BotActs(c)
    BY <2>4 DEF BotActs
  <2> QED BY <1>9, <2>1, <2>2, <2>3, <2>4
<1> QED BY <1>1, <1>2, <1>3, <1>4, <1>5, <1>6, <1>9 DEF Next, Statuses

LEMMA StepIInv == IInv /\ [Next]_vars => IInv'
<1> SUFFICES ASSUME IInv, [Next]_vars PROVE IInv'
  OBVIOUS
<1>1. RegistryTypeOK' /\ RegistryAgrees' /\ FreshRunsNothing'
  BY RegistryStep, FreshStep DEF IInv
<1>2. CASE UNCHANGED vars
  <2> USE <1>2 DEF IInv, TypeOK, vars, queueVars, loadVars, dbVars, boundVars, historyVars
  <2>1. SceneTypeOK'
    BY DEF SceneTypeOK
  <2>2. QueueTypeOK'
    BY DEF QueueTypeOK
  <2>3. LoadTypeOK' /\ DbTypeOK' /\ HistoryTypeOK'
    BY DEF LoadTypeOK, DbTypeOK, HistoryTypeOK
  <2> QED BY <1>1, <2>1, <2>2, <2>3
<1>3. CASE Next
  BY <1>1, <1>3, StartTypes, LifeTypes, EditTypes DEF Next, IInv
<1> QED BY <1>1, <1>2, <1>3 DEF IInv

\* The inductive invariant holds in every reachable state: controls that are not live run
\* nothing, and types are right.
THEOREM IInvHolds == Spec => []IInv
  BY InitIInv, StepIInv, PTL DEF Spec

\* Every variable keeps its type, whatever the sets of spaces and bots and the bounds.
THEOREM TypeCorrect == Spec => []TypeOK
  BY IInvHolds, PTL DEF IInv

\* A control owns exactly the bots it runs: no handler, restart, restore, failed
\* constructor or half-done synchronisation makes SandboxRuntimeBotRegistry and the
\* runtimeBots maps disagree.
THEOREM RegistryAlwaysAgrees == Spec => []RegistryAgrees
  BY IInvHolds, PTL DEF IInv

\* No two controls ever run a bot with the same id: the registry has one owner per id
\* and agrees with the controls.
THEOREM BotsAreUnique == Spec => []OneRuntimePerBot
<1>1. IInv => OneRuntimePerBot
  BY DEF IInv, TypeOK, RegistryTypeOK, RegistryAgrees, OneRuntimePerBot
<1> QED BY <1>1, IInvHolds, PTL
-----------------------------------------------------------------------------
(* Occupation *)

\* Every step that changes what is live or running tells the listeners.
LEMMA OccupationStep ==
  ASSUME TypeOK, OccupationIsCurrent, [Next]_vars
  PROVE  OccupationIsCurrent'
<1> USE DEF OccupationIsCurrent, Live
<1>1. CASE UNCHANGED <<ctl, status, occupied>>
  BY <1>1
<1>2. CASE SyncOccupation(ctl', status')
  BY <1>2 DEF SyncOccupation
<1>3. CASE Restart
  BY <1>3 DEF Restart
<1>4. ASSUME NEW s \in Spaces, Dispose(s)
      PROVE  OccupationIsCurrent'
  <2>1. \A d \in Spaces : (ctl'[d] = "live") <=> (ctl[d] = "live")
    BY <1>4 DEF Dispose, TypeOK, SceneTypeOK
  <2> QED BY <1>4, <2>1 DEF Dispose
<1>5. ASSUME NEW s \in Spaces, NEW st \in Statuses, ChangeStatus(s, st)
      PROVE  OccupationIsCurrent'
  BY <1>5 DEF ChangeStatus, SyncOccupation
<1>6. ASSUME NEW s \in Spaces,
             \/ TakeOver(s) \/ ReturnControl(s) \/ TerminateSpace(s) \/ EndByAi(s)
             \/ ReactivateSpace(s, "running") \/ ReactivateSpace(s, "taken-over")
      PROVE  OccupationIsCurrent'
  BY <1>5, <1>6
  DEF TakeOver, ReturnControl, SetStatus, TerminateSpace, EndByAi, End, ReactivateSpace, Statuses
<1>7. ASSUME NEW s \in Spaces,
             \/ RestoreKnown(s) \/ RestoreSpace(s) \/ CreateSpace(s) \/ DeleteSpace(s)
             \/ PassGate(s)
      PROVE  OccupationIsCurrent'
  BY <1>1, <1>2, <1>7
  DEF RestoreKnown, RestoreSpace, CreateSpace, DeleteSpace, Deleting, PassGate, SyncOccupation
<1>8. ASSUME NEW c \in Controls,
             \/ ResetScene(c) \/ BotActs(c)
             \/ \E b \in Bots : CreateBot(c, b) \/ DeleteBot(c, b)
             \/ \E B \in SUBSET Bots : ReplaceScene(c, B)
      PROVE  OccupationIsCurrent'
  BY <1>1, <1>8 DEF ResetScene, BotActs, CreateBot, DeleteBot, ReplaceScene, Edit
<1>9. CASE \/ MainLoaded \/ MainSynchronized \/ MainMissing \/ MainUnavailable
           \/ SpacesFetched \/ SpacesUnreadable \/ RestoreDone
           \/ WriteSpace \/ WriteSpaceFails \/ WriteMain \/ WriteMainFails
           \/ UNCHANGED vars
  BY <1>1, <1>9
  DEF MainLoaded, MainSynchronized, MainMissing, MainUnavailable, SpacesFetched, SpacesUnreadable,
      RestoreDone, WriteSpace, WriteSpaceFails, WriteMain, WriteMainFails, vars
<1> QED BY <1>3, <1>4, <1>6, <1>7, <1>8, <1>9 DEF Next

\* What the listeners were told last, whether some test space is under the AI's control, is
\* true after every step: create, restore, takeover, the ends, reactivation and deletion.
THEOREM OccupationHolds == Spec => []OccupationIsCurrent
<1>1. Init => OccupationIsCurrent
  BY DEF Init, OccupationIsCurrent, Live
<1> QED BY <1>1, OccupationStep, TypeCorrect, PTL DEF Spec

-----------------------------------------------------------------------------
(* Active controls *)

\* A synchronisation nobody stands in the way of starts exactly the bots of the scene.
LEMMA SyncRunsScene ==
  ASSUME NEW c \in Controls, NEW B \in SUBSET Bots, RegistryTypeOK,
         SyncRuntimeBots(c, B), Blocked(c, B, owner) = {}
  PROVE  runtime' = [runtime EXCEPT ![c] = B]
  BY DEF SyncRuntimeBots, Synced, RegistryTypeOK

\* Bots that are free, or the control's own, are not in its way.
LEMMA AvailableIsUnblocked ==
  ASSUME NEW c \in Controls, NEW B \in SUBSET Bots, \A b \in B : Available(b, c)
  PROVE  Blocked(c, B, owner) = {}
  BY DEF Available, Blocked, Release

\* Only the control c is touched, and it runs its scene afterwards if it is active.
LEMMA OneControlRuns ==
  ASSUME NEW c \in Controls, TypeOK, TypeOK', ActiveRunsItsScene,
         \A d \in Controls : d # c =>
           /\ runtime'[d] = runtime[d] /\ bots'[d] = bots[d]
           /\ active'[d] = active[d] /\ (d \in torn' <=> d \in torn),
         active'[c] /\ c \notin torn' /\ (c = Main => mainPhase' # "normalizing")
           => runtime'[c] = bots'[c],
         c # Main => mainPhase' = mainPhase
  PROVE  ActiveRunsItsScene'
  BY DEF ActiveRunsItsScene

\* A control's scene is replaced by B and its bots follow.
LEMMA SceneFollows ==
  ASSUME NEW c \in Controls, NEW B \in SUBSET Bots, TypeOK, TypeOK', RegistryAgrees, ActiveRunsItsScene,
         bots' = [bots EXCEPT ![c] = B], UNCHANGED <<active, mainPhase>>,
         IF active[c] THEN SyncRuntimeBots(c, B) ELSE UNCHANGED registryVars,
         torn' = torn \cup {c} \/ (torn' = torn \ {c} /\ (active[c] => Blocked(c, B, owner) = {}))
           \/ (torn' = torn /\ ~active[c])
  PROVE  ActiveRunsItsScene'
<1> USE DEF TypeOK, SceneTypeOK, RegistryTypeOK, registryVars
<1>1. \A d \in Controls : d # c => runtime'[d] = runtime[d]
  BY SyncAgrees
<1>2. active[c] /\ c \notin torn' => runtime'[c] = B
  BY SyncRunsScene
<1> QED BY <1>1, <1>2, OneControlRuns

\* Every step that touches a control leaves it inactive, torn, or with the bots of its scene.
LEMMA ActiveStep ==
  ASSUME IInv, TypeOK', ActiveRunsItsScene, [Next]_vars
  PROVE  ActiveRunsItsScene'
<1> USE DEF IInv, TypeOK, SceneTypeOK, RegistryTypeOK, registryVars
<1>1. CASE UNCHANGED <<runtime, bots, active, torn>> /\ (mainPhase' = mainPhase \/ mainPhase # "normalizing")
  BY <1>1 DEF ActiveRunsItsScene
<1>2. CASE Restart
  BY <1>2 DEF Restart, ActiveRunsItsScene
<1>3. CASE MainLoaded
  <2>1. \A d \in Controls : d # Main => bots'[d] = bots[d]
    BY <1>3 DEF MainLoaded
  <2> QED BY <1>3, <2>1, Sentinels, OneControlRuns DEF MainLoaded
<1>4. CASE MainSynchronized
  <2>1. bots[Main] \in SUBSET Bots /\ Main \in Controls /\ SyncRuntimeBots(Main, bots[Main])
    BY <1>4, Sentinels DEF MainSynchronized
  <2>2. \A d \in Controls : d # Main => runtime'[d] = runtime[d]
    BY <2>1, SyncAgrees
  <2>3. Main \notin torn' => runtime'[Main] = bots[Main]
    BY <1>4, <2>1, SyncRunsScene DEF MainSynchronized
  <2> QED BY <1>4, <2>1, <2>2, <2>3, OneControlRuns DEF MainSynchronized
<1>5. CASE \/ MainMissing \/ MainUnavailable
           \/ SpacesFetched \/ SpacesUnreadable \/ RestoreDone
           \/ WriteSpace \/ WriteSpaceFails \/ WriteMain \/ WriteMainFails
           \/ UNCHANGED vars
  BY <1>1, <1>5
  DEF MainMissing, MainUnavailable, SpacesFetched, SpacesUnreadable, RestoreDone, WriteSpace,
      WriteSpaceFails, WriteMain, WriteMainFails, vars, loadVars, queueVars, historyVars
<1>6. ASSUME NEW s \in Spaces, RestoreSpace(s)
      PROVE  ActiveRunsItsScene'
  <2> s \in Controls /\ s # Main
    BY Sentinels DEF Controls
  <2>1. active'[s] => runtime'[s] = bots'[s]
    BY <1>6 DEF RestoreSpace
  <2>2. \A d \in Controls : d # s =>
          runtime'[d] = runtime[d] /\ bots'[d] = bots[d] /\ active'[d] = active[d]
    BY <1>6 DEF RestoreSpace
  <2> QED BY <1>6, <2>1, <2>2, OneControlRuns DEF RestoreSpace, historyVars
<1>7. ASSUME NEW s \in Spaces, CreateSpace(s)
      PROVE  ActiveRunsItsScene'
  <2> s \in Controls /\ s # Main
    BY Sentinels DEF Controls
  <2>1. runtime'[s] = {} /\ bots'[s] = {}
    BY <1>7 DEF CreateSpace, FreshRunsNothing
  <2> QED BY <1>7, <2>1, OneControlRuns DEF CreateSpace, historyVars, loadVars
<1>8. ASSUME NEW s \in Spaces, UNCHANGED <<bots, mainPhase, torn>>,
             active' = [active EXCEPT ![s] = FALSE],
             runtime' = [runtime EXCEPT ![s] = {}] \/ UNCHANGED runtime
      PROVE  ActiveRunsItsScene'
  <2> s \in Controls /\ s # Main
    BY Sentinels DEF Controls
  <2> QED BY <1>8, OneControlRuns
<1>9. ASSUME NEW s \in Spaces, TerminateSpace(s) \/ EndByAi(s) \/ Dispose(s)
      PROVE  ActiveRunsItsScene'
  BY <1>8, <1>9
  DEF TerminateSpace, EndByAi, End, Deactivate, ChangeStatus, Dispose, loadVars, historyVars
<1>10. ASSUME NEW s \in Spaces, NEW st \in Statuses, ReactivateSpace(s, st)
       PROVE  ActiveRunsItsScene'
  <2> s \in Controls /\ s # Main /\ bots[s] \in SUBSET Bots
    BY Sentinels DEF Controls
  <2>1. UNCHANGED <<bots, mainPhase, torn>> /\ active' = [active EXCEPT ![s] = TRUE]
    BY <1>10 DEF ReactivateSpace, ChangeStatus, loadVars
  <2>2. CASE active[s]
    BY <1>1, <1>10, <2>1, <2>2 DEF ReactivateSpace
  <2>3. CASE ~active[s]
    <3>1. SyncRuntimeBots(s, bots[s]) /\ Blocked(s, bots[s], owner) = {}
      BY <1>10, <2>3, AvailableIsUnblocked DEF ReactivateSpace
    <3>2. runtime' = [runtime EXCEPT ![s] = bots[s]]
      BY <3>1, SyncRunsScene
    <3> QED BY <2>1, <3>2, OneControlRuns
  <2> QED BY <2>2, <2>3
<1>11. ASSUME NEW s \in Spaces,
              \/ RestoreKnown(s) \/ TakeOver(s) \/ ReturnControl(s) \/ DeleteSpace(s)
              \/ PassGate(s)
       PROVE  ActiveRunsItsScene'
  BY <1>1, <1>11
  DEF RestoreKnown, TakeOver, ReturnControl, SetStatus, ChangeStatus, DeleteSpace, Deleting,
      PassGate, loadVars, historyVars
<1>12. ASSUME NEW c \in Controls, NEW b \in Bots, CreateBot(c, b) \/ DeleteBot(c, b)
       PROVE  ActiveRunsItsScene'
  <2>1. active'[c] /\ c \notin torn' => (active[c] /\ c \notin torn)
    BY <1>12 DEF CreateBot, DeleteBot, Edit
  <2>2. c = Main => mainPhase # "normalizing"
    BY <1>12, Sentinels DEF CreateBot, DeleteBot, Edit, Gate
  <2>3. active[c] /\ c \notin torn => runtime'[c] = bots'[c]
    <3>1. active[c] /\ c \notin torn => runtime[c] = bots[c]
      BY <2>2 DEF ActiveRunsItsScene
    <3>2. active[c] /\ CreateBot(c, b) => runtime'[c] = runtime[c] \cup {b} /\ bots'[c] = bots[c] \cup {b}
      BY DEF CreateBot
    <3>3. DeleteBot(c, b) => runtime'[c] = runtime[c] \ {b} /\ bots'[c] = bots[c] \ {b}
      BY DEF DeleteBot
    <3> QED BY <1>12, <3>1, <3>2, <3>3
  <2> QED BY <1>12, <2>1, <2>3, OneControlRuns DEF CreateBot, DeleteBot, Edit, loadVars
<1>13. ASSUME NEW c \in Controls, NEW B \in SUBSET Bots, ReplaceScene(c, B)
       PROVE  ActiveRunsItsScene'
  <2>1. active[c] => Blocked(c, B, owner) = {}
    BY <1>13, AvailableIsUnblocked DEF ReplaceScene
  <2> QED BY <1>13, <2>1, SceneFollows DEF ReplaceScene, Edit, loadVars
<1>14. ASSUME NEW c \in Controls, ResetScene(c)
       PROVE  ActiveRunsItsScene'
  <2>1. initial[c] \in SUBSET Bots
    OBVIOUS
  <2> QED BY <1>14, <2>1, SceneFollows DEF ResetScene, Edit, loadVars
<1>15. ASSUME NEW c \in Controls, BotActs(c)
       PROVE  ActiveRunsItsScene'
  BY <1>1, <1>15 DEF BotActs, loadVars
<1> QED
  BY <1>2, <1>3, <1>4, <1>5, <1>6, <1>7, <1>9, <1>10, <1>11, <1>12, <1>13, <1>14, <1>15
  DEF Next, Statuses

\* An active control runs exactly the bots of its scene, but for the ones a synchronisation
\* that threw left half done: no edit, restore, reactivation or restart leaves a bot of the
\* scene without its runtime or a runtime without its bot.
THEOREM ActiveHolds == Spec => []ActiveRunsItsScene
<1>1. Init => ActiveRunsItsScene
  BY DEF Init, ActiveRunsItsScene
<1>2. IInv /\ IInv' /\ ActiveRunsItsScene /\ [Next]_vars => ActiveRunsItsScene'
  BY ActiveStep DEF IInv
<1> QED BY <1>1, <1>2, IInvHolds, PTL DEF Spec

-----------------------------------------------------------------------------
(* A database that could not be read *)

\* Nothing is restored any more once the main scene could not be read.
UnreadIsReady == ~authoritative => mainPhase = "ready"

LEMMA UnreadStep == TypeOK /\ UnreadIsReady /\ [Next]_vars => UnreadIsReady'
<1> SUFFICES ASSUME TypeOK, UnreadIsReady, [Next]_vars PROVE UnreadIsReady'
  OBVIOUS
<1> USE DEF UnreadIsReady, loadVars
<1>1. CASE UNCHANGED <<authoritative, mainPhase>>
  BY <1>1
<1>2. CASE \/ Restart \/ MainLoaded \/ MainSynchronized \/ MainMissing \/ MainUnavailable
  BY <1>2 DEF Restart, MainLoaded, MainSynchronized, MainMissing, MainUnavailable
<1>3. CASE \/ SpacesFetched \/ SpacesUnreadable \/ RestoreDone
           \/ WriteSpace \/ WriteSpaceFails \/ WriteMain \/ WriteMainFails
  BY <1>1, <1>3
  DEF SpacesFetched, SpacesUnreadable, RestoreDone, WriteSpace, WriteSpaceFails, WriteMain,
      WriteMainFails
<1>4. ASSUME NEW s \in Spaces,
             \/ RestoreKnown(s) \/ RestoreSpace(s) \/ CreateSpace(s) \/ TakeOver(s)
             \/ ReturnControl(s) \/ TerminateSpace(s) \/ EndByAi(s)
             \/ ReactivateSpace(s, "running") \/ ReactivateSpace(s, "taken-over")
             \/ DeleteSpace(s) \/ Dispose(s) \/ PassGate(s)
      PROVE  UnreadIsReady'
  BY <1>1, <1>4
  DEF RestoreKnown, RestoreSpace, CreateSpace, TakeOver, ReturnControl, SetStatus, TerminateSpace,
      EndByAi, End, ReactivateSpace, ChangeStatus, DeleteSpace, Deleting, Dispose, PassGate
<1>5. ASSUME NEW c \in Controls,
             \/ ResetScene(c) \/ BotActs(c)
             \/ \E b \in Bots : CreateBot(c, b) \/ DeleteBot(c, b)
             \/ \E B \in SUBSET Bots : ReplaceScene(c, B)
      PROVE  UnreadIsReady'
  BY <1>1, <1>5 DEF ResetScene, BotActs, CreateBot, DeleteBot, ReplaceScene, Edit
<1> QED BY <1>1, <1>2, <1>3, <1>4, <1>5 DEF Next, vars

\* What a database that could not be read holds of the main scene is not touched before the
\* next restart: the edits, resets, restores and bots of this process write nothing there.
THEOREM UnreadIsKept == Spec => UnreadIsNotOverwritten
<1>1. TypeOK /\ UnreadIsReady /\ [Next]_vars
      => (~authoritative /\ mainQueue = <<>> /\ restarts' = restarts
            => UNCHANGED <<mainRow, mainQueue, authoritative>>)
  <2> SUFFICES ASSUME TypeOK, [Next]_vars, ~authoritative, mainPhase = "ready", mainQueue = <<>>,
                      restarts' = restarts
               PROVE  UNCHANGED <<mainRow, mainQueue, authoritative>>
    BY DEF UnreadIsReady
  <2> USE DEF loadVars, dbVars, queueVars
  <2>1. ~Restart
    BY DEF Restart, TypeOK, HistoryTypeOK
  <2>2. CASE \/ MainLoaded \/ MainSynchronized \/ MainMissing \/ MainUnavailable
             \/ SpacesFetched \/ SpacesUnreadable \/ RestoreDone
             \/ WriteSpace \/ WriteSpaceFails \/ WriteMain \/ WriteMainFails
    BY <2>2
    DEF MainLoaded, MainSynchronized, MainMissing, MainUnavailable, SpacesFetched, SpacesUnreadable,
        RestoreDone, WriteSpace, WriteSpaceFails, WriteMain, WriteMainFails
  <2>3. ASSUME NEW s \in Spaces,
               \/ RestoreKnown(s) \/ RestoreSpace(s) \/ CreateSpace(s) \/ TakeOver(s)
               \/ ReturnControl(s) \/ TerminateSpace(s) \/ EndByAi(s)
               \/ ReactivateSpace(s, "running") \/ ReactivateSpace(s, "taken-over")
               \/ DeleteSpace(s) \/ Dispose(s) \/ PassGate(s)
        PROVE  UNCHANGED <<mainRow, mainQueue, authoritative>>
    BY <2>3
    DEF RestoreKnown, RestoreSpace, CreateSpace, TakeOver, ReturnControl, SetStatus, TerminateSpace,
        EndByAi, End, ReactivateSpace, ChangeStatus, DeleteSpace, Deleting, Dispose, PassGate
  <2>4. ASSUME NEW c \in Controls,
               \/ ResetScene(c) \/ BotActs(c)
               \/ \E b \in Bots : CreateBot(c, b) \/ DeleteBot(c, b)
               \/ \E B \in SUBSET Bots : ReplaceScene(c, B)
        PROVE  UNCHANGED <<mainRow, mainQueue, authoritative>>
    BY <2>4
    DEF ResetScene, BotActs, CreateBot, DeleteBot, ReplaceScene, Edit, Commit, QueueMainSave
  <2> QED BY <2>1, <2>2, <2>3, <2>4 DEF Next, vars
<1>2. Init => UnreadIsReady
  BY DEF Init, UnreadIsReady
<1> QED BY <1>1, <1>2, UnreadStep, TypeCorrect, PTL DEF Spec, UnreadIsNotOverwritten

-----------------------------------------------------------------------------
(* What is stored *)

\* No write to the row of s waits in the queue.
NoWrites(s) == \A i \in DOMAIN queue : queue[i].space # s

\* The write at i is the last that waits for its space.
IsLast(i) == /\ i \in DOMAIN queue
             /\ \A j \in DOMAIN queue : j > i => queue[j].space # queue[i].space

\* Once the queue has drained, and if no write of it fails, the row of s is row.
Leaves(s, row) ==
  /\ NoWrites(s) => rows[s] = row
  /\ \A i \in DOMAIN queue : IsLast(i) /\ queue[i].space = s => queue[i].row = row

\* Until the spaces are restored nobody writes to one that is not there, and none is deleted.
LoadOK ==
  /\ spacePhase \in {"loading", "ready"} => fetched = NoRows
  /\ spacePhase # "ready" => \A s \in Spaces :
       /\ ctl[s] # "closing"
       /\ ~Live(s) => NoWrites(s) /\ (fetched[s] # NoRow => fetched[s] = rows[s])

\* What was deleted and is held by nobody has no row, and nothing will write one.
ForgottenOK ==
  \A s \in forgotten : ctl[s] \in {"closing", "gone"} /\ fetched[s] = NoRow /\ Leaves(s, NoRow)

\* Unless a write failed, the row of a live space will be its scene.
SavedOK ==
  faults = 0 =>
    \A s \in Spaces \ unsaved : Live(s) => Leaves(s, Stored(status[s], bots[s]))

\* The same for the main scene, whose bots may also be those the database gave.
MainOK ==
  /\ mainPhase = "loading" => Main \notin unsaved
  /\ faults = 0 =>
       /\ authoritative
       /\ Main \notin unsaved =>
            IF mainQueue = <<>> THEN mainPhase # "loading" => mainRow = [bots |-> bots[Main]]
            ELSE mainQueue[Len(mainQueue)] = [bots |-> bots[Main]]

\* All that is proved of rows and queues together.
StorageInv == LoadOK /\ ForgottenOK /\ SavedOK /\ MainOK

\* A write that is queued is the last one to its space.
LEMMA EnqueueLeaves ==
  ASSUME TypeOK, NEW s \in Spaces, NEW row \in SpaceRow \cup {NoRow}, Enqueue(s, row), UNCHANGED rows
  PROVE  /\ Leaves(s, row)'
         /\ \A t \in Spaces : t # s => \A r : Leaves(t, r) => Leaves(t, r)'
         /\ \A t \in Spaces : t # s => (NoWrites(t) => NoWrites(t)')
<1> DEFINE n == Len(queue)
<1>1. /\ DOMAIN queue = 1..n /\ n \in Nat /\ DOMAIN queue' = 1..(n + 1)
      /\ queue'[n + 1] = [space |-> s, row |-> row]
      /\ \A i \in 1..n : queue'[i] = queue[i]
  BY DEF Enqueue, TypeOK, QueueTypeOK
<1> HIDE DEF n
<1>2. \A t \in Spaces : t # s => (NoWrites(t) <=> NoWrites(t)')
  BY <1>1 DEF NoWrites
<1>3. ~NoWrites(s)'
  BY <1>1 DEF NoWrites
<1>4. \A i \in 1..n : queue[i].space # s => (IsLast(i)' <=> IsLast(i))
  BY <1>1 DEF IsLast
<1>5. \A i \in 1..n : queue[i].space = s => ~IsLast(i)'
  BY <1>1 DEF IsLast
<1>6. Leaves(s, row)'
  BY <1>1, <1>3, <1>5 DEF Leaves
<1>7. ASSUME NEW t \in Spaces, t # s, NEW r, Leaves(t, r)
      PROVE  Leaves(t, r)'
  BY <1>1, <1>2, <1>4, <1>7 DEF Leaves
<1> QED BY <1>2, <1>6, <1>7

\* The write at the head is done, or fails and is skipped.
LEMMA WriteLeaves ==
  ASSUME TypeOK, queue # <<>>, queue' = Tail(queue)
  PROVE  /\ \A t \in Spaces : NoWrites(t) => NoWrites(t)' /\ t # Head(queue).space
         /\ rows' = rows => \A t \in Spaces : t # Head(queue).space =>
              \A r : Leaves(t, r) => Leaves(t, r)'
         /\ rows' = [rows EXCEPT ![Head(queue).space] = Head(queue).row] =>
              \A t \in Spaces : \A r : Leaves(t, r) => Leaves(t, r)'
<1> DEFINE n == Len(queue)
           h == Head(queue)
<1>1. /\ DOMAIN queue = 1..n /\ n \in Nat /\ n > 0 /\ DOMAIN queue' = 1..(n - 1)
      /\ h = queue[1] /\ h.space \in Spaces
      /\ \A i \in 1..(n - 1) : queue'[i] = queue[i + 1]
  BY QueueTypes DEF TypeOK, QueueTypeOK
<1>2. \A t \in Spaces : NoWrites(t) => NoWrites(t)' /\ t # h.space
  BY <1>1 DEF NoWrites
<1>3. \A i \in 1..(n - 1) : IsLast(i)' => IsLast(i + 1)
  <2> SUFFICES ASSUME NEW i \in 1..(n - 1), IsLast(i)' PROVE IsLast(i + 1)
    OBVIOUS
  <2>1. ASSUME NEW j \in 1..n, j > i + 1 PROVE queue[j].space # queue[i + 1].space
    <3>1. j - 1 \in 1..(n - 1) /\ j - 1 > i /\ queue'[j - 1] = queue[j]
      BY <1>1, <2>1
    <3> QED BY <1>1, <3>1 DEF IsLast
  <2> QED BY <1>1, <2>1 DEF IsLast
<1>4. \A t \in Spaces : t # h.space => (NoWrites(t)' => NoWrites(t))
  <2> SUFFICES ASSUME NEW t \in Spaces, t # h.space, NoWrites(t)', NEW i \in 1..n
               PROVE  queue[i].space # t
    BY <1>1 DEF NoWrites
  <2>1. CASE i = 1
    BY <1>1, <2>1
  <2>2. CASE i # 1
    <3>1. i - 1 \in 1..(n - 1) /\ queue'[i - 1] = queue[i]
      BY <1>1, <2>2
    <3> QED BY <1>1, <3>1 DEF NoWrites
  <2> QED BY <2>1, <2>2
<1>5. ASSUME NEW t \in Spaces, NEW r, Leaves(t, r),
             (t # h.space /\ rows' = rows) \/ rows' = [rows EXCEPT ![h.space] = h.row]
      PROVE  Leaves(t, r)'
  <2>1. ASSUME NEW i \in 1..(n - 1), IsLast(i)', queue'[i].space = t
        PROVE  queue'[i].row = r
    <3>1. IsLast(i + 1) /\ queue'[i] = queue[i + 1] /\ i + 1 \in 1..n
      BY <1>1, <1>3, <2>1
    <3> QED BY <1>1, <1>5, <2>1, <3>1 DEF Leaves
  <2>2. ASSUME NoWrites(t)' PROVE rows'[t] = r
    <3>1. CASE t # h.space
      BY <1>1, <1>4, <1>5, <2>2, <3>1 DEF Leaves, TypeOK, DbTypeOK
    <3>2. CASE t = h.space
      <4>1. \A j \in 1..n : j > 1 => queue[j].space # t
        <5> SUFFICES ASSUME NEW j \in 1..n, j > 1 PROVE queue[j].space # t
          OBVIOUS
        <5>1. j - 1 \in 1..(n - 1) /\ queue'[j - 1] = queue[j]
          BY <1>1
        <5> QED BY <1>1, <2>2, <5>1 DEF NoWrites
      <4>2. 1 \in DOMAIN queue /\ IsLast(1)
        BY <1>1, <3>2, <4>1 DEF IsLast
      <4>3. h.row = r
        BY <1>1, <1>5, <3>2, <4>2 DEF Leaves
      <4> QED BY <1>5, <3>2, <4>3 DEF TypeOK, DbTypeOK
    <3> QED BY <3>1, <3>2
  <2> QED BY <1>1, <2>1, <2>2 DEF Leaves
<1> QED BY <1>2, <1>5

\* The same when the queue and the rows stay.
LEMMA SameLeaves ==
  ASSUME UNCHANGED <<queue, rows>>
  PROVE  /\ \A t : NoWrites(t)' <=> NoWrites(t)
         /\ \A t, r : Leaves(t, r)' <=> Leaves(t, r)
  BY DEF NoWrites, Leaves, IsLast

\* What an edit of c leaves in the queue of the spaces.
LEMMA CommitLeaves ==
  ASSUME TypeOK, NEW c \in Controls, NEW B \in SUBSET Bots, Commit(c, B),
         UNCHANGED <<rows, status>>
  PROVE  /\ \A t \in Spaces : t # c => \A r : Leaves(t, r) => Leaves(t, r)'
         /\ \A t \in Spaces : t # c => (NoWrites(t) => NoWrites(t)')
         /\ c \in Spaces /\ Listening(c) => Leaves(c, Stored(status[c], B))' /\ c \notin forgotten'
         /\ ~(c \in Spaces /\ Listening(c)) => UNCHANGED <<queue, forgotten>>
         /\ forgotten' \subseteq forgotten /\ unsaved' = unsaved \ {c}
<1>1. CASE c \in Spaces /\ Listening(c)
  <2>1. Stored(status[c], B) \in SpaceRow
    BY <1>1 DEF Stored, SpaceRow, TypeOK, SceneTypeOK, Controls
  <2>2. Enqueue(c, Stored(status[c], B))
    BY <1>1, Sentinels DEF Commit, QueueSave, Listening
  <2>3. c \notin forgotten' /\ forgotten' \subseteq forgotten /\ unsaved' = unsaved \ {c}
    BY <1>1 DEF Commit
  <2>4. Leaves(c, Stored(status[c], B))'
    BY <1>1, <2>1, <2>2, EnqueueLeaves
  <2> QED BY <1>1, <2>1, <2>2, <2>3, <2>4, EnqueueLeaves
<1>2. CASE ~(c \in Spaces /\ Listening(c))
  <2>1. UNCHANGED <<queue, forgotten>> /\ unsaved' = unsaved \ {c}
    BY <1>2, Sentinels DEF Commit, Listening, Controls
  <2> QED BY <1>2, <2>1, SameLeaves
<1> QED BY <1>1, <1>2

-----------------------------------------------------------------------------
(* Loading *)

\* A step of one space at most, which is live or of which nothing has to be kept.
LEMMA LoadSame ==
  ASSUME TypeOK, LoadOK, UNCHANGED <<spacePhase, fetched, ctl, rows>>,
         \A s \in Spaces : ~Live(s) /\ spacePhase # "ready" => (NoWrites(s) => NoWrites(s)')
  PROVE  LoadOK'
  BY DEF LoadOK, Live

LEMMA LoadEnqueue ==
  ASSUME TypeOK, LoadOK, UNCHANGED <<spacePhase, fetched, ctl, rows>>,
         NEW s \in Spaces, NEW row \in SpaceRow, Enqueue(s, row), Live(s) \/ spacePhase = "ready"
  PROVE  LoadOK'
  BY LoadSame, EnqueueLeaves

\* Each step keeps each part of it.
LEMMA LoadStep ==
  ASSUME TypeOK, LoadOK, [Next]_vars
  PROVE  LoadOK'
<1> USE DEF loadVars, dbVars, queueVars
<1>1. CASE UNCHANGED <<spacePhase, fetched, ctl, queue, rows>>
  BY <1>1, LoadSame, SameLeaves
<1>2. CASE Restart
  <2>1. queue' = <<>> /\ fetched' = NoRows /\ \A s \in Spaces : ctl'[s] # "closing"
    BY <1>2 DEF Restart
  <2> QED BY <2>1 DEF LoadOK, NoWrites, NoRows
<1>3. CASE SpacesFetched
  BY <1>3, SameLeaves DEF SpacesFetched, LoadOK, Live, NoWrites
<1>4. CASE SpacesUnreadable \/ RestoreDone
  BY <1>4 DEF SpacesUnreadable, RestoreDone, LoadOK
<1>5. CASE WriteSpace
  <2>1. \A s \in Spaces : NoWrites(s) => NoWrites(s)' /\ s # Head(queue).space
    BY <1>5, WriteLeaves DEF WriteSpace
  <2> QED BY <1>5, <2>1 DEF WriteSpace, LoadOK, Live, TypeOK, DbTypeOK
<1>6. CASE WriteSpaceFails
  BY <1>6, WriteLeaves, LoadSame DEF WriteSpaceFails
<1>7. CASE MainLoaded \/ MainMissing \/ MainUnavailable \/ MainSynchronized
           \/ WriteMain \/ WriteMainFails \/ UNCHANGED vars
  BY <1>1, <1>7
  DEF MainLoaded, MainMissing, MainUnavailable, MainSynchronized, WriteMain, WriteMainFails, vars
<1>8. ASSUME NEW s \in Spaces, RestoreKnown(s) \/ RestoreSpace(s)
      PROVE  LoadOK'
  <2>1. /\ spacePhase' = "restoring" /\ spacePhase # "ready" /\ UNCHANGED <<queue, rows>>
        /\ fetched' = [fetched EXCEPT ![s] = NoRow]
        /\ ctl' = ctl \/ ctl' = [ctl EXCEPT ![s] = "live"]
    BY <1>8 DEF RestoreKnown, RestoreSpace, RestoreRow
  <2>2. \A t \in Spaces : ctl'[t] # "closing" /\ (ctl'[t] # "live" => ctl[t] # "live")
    BY <2>1 DEF LoadOK, TypeOK, SceneTypeOK
  <2>3. \A t \in Spaces : fetched'[t] # NoRow => fetched[t] = fetched'[t]
    BY <2>1 DEF TypeOK, LoadTypeOK
  <2> QED BY <2>1, <2>2, <2>3, SameLeaves DEF LoadOK, Live
<1>9. ASSUME NEW s \in Spaces, CreateSpace(s)
      PROVE  LoadOK'
  <2>1. Stored("running", {}) \in SpaceRow
    BY DEF Stored, SpaceRow, Statuses
  <2>2. \A t \in Spaces : t # s => (NoWrites(t) => NoWrites(t)')
    BY <1>9, <2>1, EnqueueLeaves DEF CreateSpace, QueueSave
  <2>3. ctl' = [ctl EXCEPT ![s] = "live"] /\ UNCHANGED <<fetched, spacePhase, rows>>
    BY <1>9 DEF CreateSpace
  <2> QED BY <2>2, <2>3 DEF LoadOK, Live, TypeOK, SceneTypeOK
<1>10. ASSUME NEW s \in Spaces, NEW st \in Statuses, Live(s), ChangeStatus(s, st)
       PROVE  LoadOK'
  <2>1. Stored(st, bots[s]) \in SpaceRow
    BY DEF Stored, SpaceRow, TypeOK, SceneTypeOK, Controls
  <2> QED BY <1>10, <2>1, LoadEnqueue DEF ChangeStatus, QueueSave
<1>11. ASSUME NEW s \in Spaces,
              \/ TakeOver(s) \/ ReturnControl(s) \/ TerminateSpace(s) \/ EndByAi(s)
              \/ ReactivateSpace(s, "running") \/ ReactivateSpace(s, "taken-over")
       PROVE  LoadOK'
  BY <1>10, <1>11
  DEF TakeOver, ReturnControl, SetStatus, TerminateSpace, EndByAi, End, ReactivateSpace, Statuses
<1>12. ASSUME NEW s \in Spaces, DeleteSpace(s)
       PROVE  LoadOK'
  BY <1>12 DEF DeleteSpace, Deleting, LoadOK
<1>13. ASSUME NEW s \in Spaces, Dispose(s)
       PROVE  LoadOK'
  BY <1>13 DEF Dispose, LoadOK
<1>16. ASSUME NEW s \in Spaces, PassGate(s)
       PROVE  LoadOK'
  BY <1>1, <1>16 DEF PassGate
<1>14. ASSUME NEW c \in Controls, NEW B \in SUBSET Bots, Commit(c, B),
              UNCHANGED <<spacePhase, fetched, ctl, rows, status>>
       PROVE  LoadOK'
  <2>1. c \in Spaces /\ ~Live(c) /\ spacePhase # "ready" => ~Listening(c)
    BY DEF LoadOK, Live, Listening
  <2>2. \A s \in Spaces : ~Live(s) /\ spacePhase # "ready" => (NoWrites(s) => NoWrites(s)')
    BY <1>14, <2>1, CommitLeaves DEF NoWrites
  <2> QED BY <1>14, <2>2, LoadSame
<1>15. ASSUME NEW c \in Controls,
              \/ ResetScene(c) \/ BotActs(c)
              \/ \E b \in Bots : CreateBot(c, b) \/ DeleteBot(c, b)
              \/ \E B \in SUBSET Bots : ReplaceScene(c, B)
       PROVE  LoadOK'
  <2>1. CASE ResetScene(c)
    BY <1>1, <2>1 DEF ResetScene, Edit
  <2>2. CASE BotActs(c)
    BY <1>14, <2>2 DEF BotActs, TypeOK, SceneTypeOK
  <2>3. ASSUME NEW b \in Bots, CreateBot(c, b) \/ DeleteBot(c, b)
        PROVE  LoadOK'
    <3>1. bots'[c] \in SUBSET Bots
      BY <2>3 DEF CreateBot, DeleteBot, TypeOK, SceneTypeOK
    <3> QED BY <1>1, <1>14, <2>3, <3>1 DEF CreateBot, DeleteBot, Edit
  <2>4. CASE \E B \in SUBSET Bots : ReplaceScene(c, B)
    BY <1>14, <2>4 DEF ReplaceScene, Edit
  <2> QED BY <1>15, <2>1, <2>2, <2>3, <2>4
<1> QED
  BY <1>2, <1>3, <1>4, <1>5, <1>6, <1>7, <1>8, <1>9, <1>11, <1>12, <1>13, <1>15, <1>16
  DEF Next

-----------------------------------------------------------------------------
(* Deleted spaces *)

\* A step that leaves the life of a space and what is forgotten as they are.
LEMMA ForgottenSame ==
  ASSUME ForgottenOK, UNCHANGED ctl, forgotten' \subseteq forgotten,
         \A s \in forgotten' : (fetched[s] = NoRow => fetched'[s] = NoRow)
                               /\ (Leaves(s, NoRow) => Leaves(s, NoRow)')
  PROVE  ForgottenOK'
  BY DEF ForgottenOK

\* A row is queued for a space that is not deleted, or is not forgotten from now on.
LEMMA ForgottenEnqueue ==
  ASSUME TypeOK, ForgottenOK, UNCHANGED <<ctl, fetched, rows>>, forgotten' \subseteq forgotten,
         NEW s \in Spaces, NEW row \in SpaceRow, Enqueue(s, row), Live(s)
  PROVE  ForgottenOK'
<1>1. s \notin forgotten
  BY DEF ForgottenOK, Live
<1>2. \A t \in forgotten' : t \in Spaces /\ t # s
  BY <1>1 DEF TypeOK, HistoryTypeOK
<1> QED BY <1>2, EnqueueLeaves, ForgottenSame

LEMMA ForgottenStep ==
  ASSUME TypeOK, LoadOK, ForgottenOK, [Next]_vars
  PROVE  ForgottenOK'
<1> USE DEF loadVars, dbVars, queueVars, historyVars
<1>1. CASE UNCHANGED <<fetched, ctl, queue, rows>> /\ forgotten' \subseteq forgotten
  BY <1>1, ForgottenSame, SameLeaves
<1>2. CASE Restart
  <2> SUFFICES ASSUME NEW s \in forgotten'
               PROVE  ctl'[s] \in {"closing", "gone"} /\ fetched'[s] = NoRow /\ Leaves(s, NoRow)'
    BY DEF ForgottenOK
  <2>1. s \in Spaces /\ s \in forgotten /\ rows[s] = NoRow
    BY <1>2 DEF Restart, TypeOK, HistoryTypeOK
  <2>2. ctl'[s] = "gone" /\ fetched'[s] = NoRow /\ rows'[s] = NoRow /\ queue' = <<>>
    BY <1>2, <2>1 DEF Restart, ForgottenOK, NoRows
  <2> QED BY <2>2 DEF Leaves
<1>3. CASE SpacesFetched
  <2>1. \A s \in forgotten : s \in Spaces /\ rows[s] = NoRow
    BY <1>3 DEF SpacesFetched, LoadOK, ForgottenOK, Live, Leaves, TypeOK, HistoryTypeOK
  <2> QED BY <1>3, <2>1, SameLeaves, ForgottenSame DEF SpacesFetched
<1>4. CASE WriteSpace
  <2>1. \A s \in Spaces : Leaves(s, NoRow) => Leaves(s, NoRow)'
    BY <1>4, WriteLeaves DEF WriteSpace
  <2> QED BY <1>4, <2>1, ForgottenSame DEF WriteSpace, TypeOK, HistoryTypeOK
<1>5. CASE WriteSpaceFails
  <2>1. \A s \in Spaces : s # Head(queue).space => (Leaves(s, NoRow) => Leaves(s, NoRow)')
    BY <1>5, WriteLeaves DEF WriteSpaceFails
  <2> QED BY <1>5, <2>1, ForgottenSame DEF WriteSpaceFails, TypeOK, HistoryTypeOK
<1>6. CASE MainLoaded \/ MainMissing \/ MainUnavailable \/ MainSynchronized \/ SpacesUnreadable
           \/ RestoreDone \/ WriteMain \/ WriteMainFails \/ UNCHANGED vars
  BY <1>1, <1>6
  DEF MainLoaded, MainMissing, MainUnavailable, MainSynchronized, SpacesUnreadable, RestoreDone,
      WriteMain, WriteMainFails, vars
<1>7. ASSUME NEW s \in Spaces, RestoreKnown(s)
      PROVE  ForgottenOK'
  <2>1. \A t : fetched[t] = NoRow => fetched'[t] = NoRow
    BY <1>7 DEF RestoreKnown, RestoreRow, TypeOK, LoadTypeOK
  <2> QED BY <1>7, <2>1, ForgottenSame, SameLeaves DEF RestoreKnown
<1>8. ASSUME NEW s \in Spaces, RestoreSpace(s)
      PROVE  ForgottenOK'
  <2>1. s \notin forgotten
    BY <1>8 DEF RestoreSpace, RestoreRow, ForgottenOK
  <2>2. /\ ctl' = [ctl EXCEPT ![s] = "live"] /\ fetched' = [fetched EXCEPT ![s] = NoRow]
        /\ UNCHANGED <<queue, rows, forgotten>>
    BY <1>8 DEF RestoreSpace, RestoreRow
  <2> QED BY <2>1, <2>2, SameLeaves DEF ForgottenOK, TypeOK, SceneTypeOK, LoadTypeOK, HistoryTypeOK
<1>9. ASSUME NEW s \in Spaces, CreateSpace(s)
      PROVE  ForgottenOK'
  <2>1. s \notin forgotten /\ \A t \in forgotten : t \in Spaces /\ t # s
    BY <1>9 DEF CreateSpace, ForgottenOK, TypeOK, HistoryTypeOK
  <2>2. Stored("running", {}) \in SpaceRow
    BY DEF Stored, SpaceRow, Statuses
  <2>3. \A t \in Spaces : t # s => (Leaves(t, NoRow) => Leaves(t, NoRow)')
    BY <1>9, <2>2, EnqueueLeaves DEF CreateSpace, QueueSave
  <2>4. ctl' = [ctl EXCEPT ![s] = "live"] /\ UNCHANGED <<fetched, forgotten>>
    BY <1>9 DEF CreateSpace
  <2> QED BY <2>1, <2>3, <2>4 DEF ForgottenOK, TypeOK, SceneTypeOK
<1>10. ASSUME NEW s \in Spaces, NEW st \in Statuses, Live(s), ChangeStatus(s, st)
       PROVE  ForgottenOK'
  <2>1. Stored(st, bots[s]) \in SpaceRow
    BY DEF Stored, SpaceRow, TypeOK, SceneTypeOK, Controls
  <2> QED BY <1>10, <2>1, ForgottenEnqueue DEF ChangeStatus, QueueSave
<1>11. ASSUME NEW s \in Spaces,
              \/ TakeOver(s) \/ ReturnControl(s) \/ TerminateSpace(s) \/ EndByAi(s)
              \/ ReactivateSpace(s, "running") \/ ReactivateSpace(s, "taken-over")
       PROVE  ForgottenOK'
  BY <1>10, <1>11
  DEF TakeOver, ReturnControl, SetStatus, TerminateSpace, EndByAi, End, ReactivateSpace, Statuses
<1>12. ASSUME NEW s \in Spaces, DeleteSpace(s)
       PROVE  ForgottenOK'
  <2>1. /\ Enqueue(s, NoRow) /\ UNCHANGED <<rows, fetched>> /\ ctl' = [ctl EXCEPT ![s] = "closing"]
        /\ forgotten' = forgotten \cup {s} /\ fetched[s] = NoRow
    BY <1>12 DEF DeleteSpace, Deleting, LoadOK, NoRows
  <2>2. Leaves(s, NoRow)' /\ \A t \in Spaces : t # s => (Leaves(t, NoRow) => Leaves(t, NoRow)')
    BY <2>1, EnqueueLeaves
  <2> QED BY <2>1, <2>2 DEF ForgottenOK, TypeOK, SceneTypeOK, HistoryTypeOK
<1>13. ASSUME NEW s \in Spaces, Dispose(s)
       PROVE  ForgottenOK'
  <2>1. ctl' = [ctl EXCEPT ![s] = "gone"] /\ UNCHANGED <<fetched, queue, rows, forgotten>>
    BY <1>13 DEF Dispose
  <2> QED BY <2>1, SameLeaves DEF ForgottenOK, TypeOK, SceneTypeOK, HistoryTypeOK
<1>14. ASSUME NEW s \in Spaces, PassGate(s)
       PROVE  ForgottenOK'
  BY <1>1, <1>14 DEF PassGate
<1>15. ASSUME NEW c \in Controls, NEW B \in SUBSET Bots, Commit(c, B),
              UNCHANGED <<fetched, ctl, rows, status>>
       PROVE  ForgottenOK'
  <2>1. \A s \in forgotten' : s \in Spaces /\ (Leaves(s, NoRow) => Leaves(s, NoRow)')
    <3> SUFFICES ASSUME NEW s \in forgotten', Leaves(s, NoRow) PROVE s \in Spaces /\ Leaves(s, NoRow)'
      BY <1>15, CommitLeaves DEF TypeOK, HistoryTypeOK
    <3>1. s \in Spaces
      BY <1>15, CommitLeaves DEF TypeOK, HistoryTypeOK
    <3>2. CASE s = c
      <4>1. UNCHANGED <<queue, rows>>
        BY <1>15, <3>1, <3>2, CommitLeaves
      <4>2. Leaves(s, NoRow)' <=> Leaves(s, NoRow)
        BY <4>1, SameLeaves
      <4> QED BY <3>1, <4>2
    <3>3. CASE s # c
      <4>1. \A r : Leaves(s, r) => Leaves(s, r)'
        BY <1>15, <3>1, <3>3, CommitLeaves
      <4> QED BY <3>1, <4>1
    <3> QED BY <3>1, <3>2, <3>3
  <2> QED BY <1>15, <2>1, CommitLeaves, ForgottenSame
<1>16. ASSUME NEW c \in Controls,
              \/ ResetScene(c) \/ BotActs(c)
              \/ \E b \in Bots : CreateBot(c, b) \/ DeleteBot(c, b)
              \/ \E B \in SUBSET Bots : ReplaceScene(c, B)
       PROVE  ForgottenOK'
  <2>1. CASE ResetScene(c)
    BY <1>1, <2>1 DEF ResetScene, Edit
  <2>2. CASE BotActs(c)
    BY <1>15, <2>2 DEF BotActs, TypeOK, SceneTypeOK
  <2>3. ASSUME NEW b \in Bots, CreateBot(c, b) \/ DeleteBot(c, b)
        PROVE  ForgottenOK'
    <3>1. bots'[c] \in SUBSET Bots
      BY <2>3 DEF CreateBot, DeleteBot, TypeOK, SceneTypeOK
    <3> QED BY <1>1, <1>15, <2>3, <3>1 DEF CreateBot, DeleteBot, Edit
  <2>4. CASE \E B \in SUBSET Bots : ReplaceScene(c, B)
    BY <1>15, <2>4 DEF ReplaceScene, Edit
  <2> QED BY <1>16, <2>1, <2>2, <2>3, <2>4
<1> QED
  BY <1>2, <1>3, <1>4, <1>5, <1>6, <1>7, <1>8, <1>9, <1>11, <1>12, <1>13, <1>14, <1>16 DEF Next

-----------------------------------------------------------------------------
(* Rows of the spaces *)

\* A step of the space s at most, which leaves its row as it is from now on.
LEMMA SavedOne ==
  ASSUME TypeOK, TypeOK', SavedOK, faults' = 0 => faults = 0, NEW s,
         \A t \in Spaces : t # s =>
           /\ ctl'[t] = ctl[t] /\ status'[t] = status[t] /\ bots'[t] = bots[t]
           /\ t \notin unsaved' => t \notin unsaved
           /\ \A r : Leaves(t, r) => Leaves(t, r)',
         s \in Spaces /\ s \notin unsaved' /\ ctl'[s] = "live" /\ faults' = 0 =>
           Leaves(s, Stored(status[s], bots[s]))'
  PROVE  SavedOK'
<1> SUFFICES ASSUME faults' = 0, NEW t \in Spaces \ unsaved', ctl'[t] = "live"
             PROVE  Leaves(t, Stored(status[t], bots[t]))'
  BY DEF SavedOK, Live
<1>1. CASE t # s
  <2>1. Leaves(t, Stored(status[t], bots[t]))
    BY <1>1 DEF SavedOK, Live
  <2>2. Stored(status[t], bots[t])' = Stored(status[t], bots[t])
    BY <1>1 DEF Stored
  <2> QED BY <1>1, <2>1, <2>2 DEF Leaves
<1> QED BY <1>1

LEMMA SavedStep ==
  ASSUME TypeOK, TypeOK', LoadOK, SavedOK, [Next]_vars
  PROVE  SavedOK'
<1> USE DEF loadVars, dbVars, queueVars, historyVars, boundVars
<1>0. Main \notin Spaces /\ \A s \in Spaces : s \in Controls /\ s # Main
  BY Sentinels DEF Controls
<1>1. ASSUME UNCHANGED <<status, ctl, queue, rows>>, unsaved \subseteq unsaved' \cup {Main},
             faults' = 0 => faults = 0, \A s \in Spaces : bots'[s] = bots[s]
      PROVE  SavedOK'
  BY <1>0, <1>1, SameLeaves, SavedOne
<1>2. CASE Restart
  BY <1>2 DEF Restart, SavedOK, Live
<1>3. CASE WriteSpace
  <2>1. \A s \in Spaces : \A r : Leaves(s, r) => Leaves(s, r)'
    BY <1>3, WriteLeaves DEF WriteSpace
  <2> QED BY <1>0, <1>3, <2>1, SavedOne DEF WriteSpace
<1>4. CASE \/ WriteSpaceFails \/ WriteMainFails \/ MainUnavailable \/ SpacesUnreadable
  <2>1. faults' # 0
    BY <1>4 DEF WriteSpaceFails, WriteMainFails, MainUnavailable, SpacesUnreadable, TypeOK,
                HistoryTypeOK
  <2> QED BY <2>1 DEF SavedOK
<1>5. CASE MainLoaded \/ MainSynchronized \/ MainMissing \/ SpacesFetched
           \/ RestoreDone \/ WriteMain \/ UNCHANGED vars
  <2>1. faults' = 0 => faults = 0
    BY <1>5
    DEF MainLoaded, MainSynchronized, MainMissing, SpacesFetched, RestoreDone, WriteMain, vars,
        TypeOK, HistoryTypeOK
  <2>2. \A s \in Spaces : bots'[s] = bots[s]
    BY <1>0, <1>5
    DEF MainLoaded, MainSynchronized, MainMissing, SpacesFetched, RestoreDone, WriteMain, vars,
        TypeOK, SceneTypeOK
  <2> QED BY <1>1, <1>5, <2>1, <2>2
    DEF MainLoaded, MainSynchronized, MainMissing, SpacesFetched, RestoreDone, WriteMain, vars
<1>6. ASSUME NEW s \in Spaces, RestoreKnown(s) \/ PassGate(s)
      PROVE  SavedOK'
  BY <1>1, <1>6 DEF RestoreKnown, PassGate
<1>7. ASSUME NEW s \in Spaces, RestoreSpace(s)
      PROVE  SavedOK'
  <2>1. fetched[s] = rows[s] /\ NoWrites(s) /\ fetched[s] \in SpaceRow
    BY <1>7 DEF RestoreSpace, RestoreRow, LoadOK, TypeOK, LoadTypeOK
  <2>2. /\ status' = [status EXCEPT ![s] = fetched[s].status]
        /\ bots' = [bots EXCEPT ![s] = fetched[s].bots]
        /\ ctl' = [ctl EXCEPT ![s] = "live"]
        /\ UNCHANGED <<queue, rows, unsaved, faults>>
    BY <1>7 DEF RestoreSpace
  <2>3. Stored(status[s], bots[s])' = fetched[s]
    BY <1>0, <2>1, <2>2 DEF Stored, SpaceRow, TypeOK, SceneTypeOK
  <2>4. Leaves(s, fetched[s])
    BY <2>1 DEF Leaves, NoWrites
  <2>5. Leaves(s, Stored(status[s], bots[s]))'
    BY <2>2, <2>3, <2>4 DEF Leaves, NoWrites, IsLast
  <2>6. \A t \in Spaces : t # s =>
          ctl'[t] = ctl[t] /\ status'[t] = status[t] /\ bots'[t] = bots[t]
    BY <1>0, <2>2 DEF TypeOK, SceneTypeOK
  <2> QED BY <2>2, <2>5, <2>6, SameLeaves, SavedOne
<1>8. ASSUME NEW s \in Spaces, CreateSpace(s)
      PROVE  SavedOK'
  <2>1. /\ Enqueue(s, Stored("running", {})) /\ UNCHANGED <<rows, unsaved, faults>>
        /\ ctl' = [ctl EXCEPT ![s] = "live"] /\ status' = [status EXCEPT ![s] = "running"]
        /\ bots' = [bots EXCEPT ![s] = {}]
    BY <1>8 DEF CreateSpace, QueueSave
  <2>2. Stored("running", {}) \in SpaceRow
    BY DEF Stored, SpaceRow, Statuses
  <2>3. Stored(status[s], bots[s])' = Stored("running", {})
    BY <1>0, <2>1 DEF Stored, TypeOK, SceneTypeOK
  <2>4. Leaves(s, Stored("running", {}))' /\ \A t \in Spaces : t # s => \A r : Leaves(t, r) => Leaves(t, r)'
    BY <2>1, <2>2, EnqueueLeaves
  <2>5. Leaves(s, Stored(status[s], bots[s]))'
    BY <2>3, <2>4 DEF Stored
  <2>6. \A t \in Spaces : t # s =>
          ctl'[t] = ctl[t] /\ status'[t] = status[t] /\ bots'[t] = bots[t]
    BY <1>0, <2>1 DEF TypeOK, SceneTypeOK
  <2> QED BY <2>1, <2>4, <2>5, <2>6, SavedOne
<1>9. ASSUME NEW s \in Spaces, NEW st \in Statuses, ChangeStatus(s, st)
      PROVE  SavedOK'
  <2>1. /\ Enqueue(s, Stored(st, bots[s])) /\ UNCHANGED <<rows, ctl, bots, faults>>
        /\ status' = [status EXCEPT ![s] = st] /\ unsaved' = unsaved \ {s}
    BY <1>9 DEF ChangeStatus, QueueSave
  <2>2. Stored(st, bots[s]) \in SpaceRow
    BY <1>0 DEF Stored, SpaceRow, TypeOK, SceneTypeOK
  <2>3. Stored(status[s], bots[s])' = Stored(st, bots[s])
    BY <2>1 DEF Stored, TypeOK, SceneTypeOK
  <2>4. \A r : r = Stored(st, bots[s]) => Leaves(s, r)'
    BY <2>1, <2>2, EnqueueLeaves
  <2>5. Leaves(s, Stored(status[s], bots[s]))'
    BY <2>3, <2>4
  <2>6. \A t \in Spaces : t # s => \A r : Leaves(t, r) => Leaves(t, r)'
    BY <2>1, <2>2, EnqueueLeaves
  <2>7. \A t \in Spaces : t # s => status'[t] = status[t]
    BY <2>1 DEF TypeOK, SceneTypeOK
  <2> QED BY <2>1, <2>5, <2>6, <2>7, SavedOne
<1>10. ASSUME NEW s \in Spaces,
              \/ TakeOver(s) \/ ReturnControl(s) \/ TerminateSpace(s) \/ EndByAi(s)
              \/ ReactivateSpace(s, "running") \/ ReactivateSpace(s, "taken-over")
       PROVE  SavedOK'
  BY <1>9, <1>10
  DEF TakeOver, ReturnControl, SetStatus, TerminateSpace, EndByAi, End, ReactivateSpace, Statuses
<1>11. ASSUME NEW s \in Spaces, DeleteSpace(s)
       PROVE  SavedOK'
  <2>1. /\ Enqueue(s, NoRow) /\ UNCHANGED <<rows, bots, status, unsaved, faults>>
        /\ ctl' = [ctl EXCEPT ![s] = "closing"]
    BY <1>11 DEF DeleteSpace, Deleting
  <2>2. \A t \in Spaces : t # s => \A r : Leaves(t, r) => Leaves(t, r)'
    BY <2>1, EnqueueLeaves
  <2>3. ctl'[s] # "live" /\ \A t \in Spaces : t # s => ctl'[t] = ctl[t]
    BY <2>1 DEF TypeOK, SceneTypeOK
  <2> QED BY <2>1, <2>2, <2>3, SavedOne
<1>12. ASSUME NEW s \in Spaces, Dispose(s)
       PROVE  SavedOK'
  <2>1. ctl' = [ctl EXCEPT ![s] = "gone"] /\ UNCHANGED <<rows, queue, bots, status, unsaved, faults>>
    BY <1>12 DEF Dispose
  <2>2. ctl'[s] # "live" /\ \A t \in Spaces : t # s => ctl'[t] = ctl[t]
    BY <2>1 DEF TypeOK, SceneTypeOK
  <2> QED BY <2>1, <2>2, SameLeaves, SavedOne
<1>13. ASSUME NEW c \in Controls, NEW B \in SUBSET Bots, Commit(c, B),
              bots' = [bots EXCEPT ![c] = B], UNCHANGED <<ctl, rows, status, faults>>
       PROVE  SavedOK'
  <2>1. \A t \in Spaces : t # c =>
          bots'[t] = bots[t] /\ (t \notin unsaved' => t \notin unsaved)
    BY <1>0, <1>13, CommitLeaves DEF TypeOK, SceneTypeOK
  <2>2. c \in Spaces /\ ctl'[c] = "live" => Leaves(c, Stored(status[c], B))'
    BY <1>0, <1>13, CommitLeaves DEF Listening
  <2>3. Stored(status[c], bots[c])' = Stored(status[c], B)'
    BY <1>13 DEF Stored, TypeOK, SceneTypeOK
  <2>4. c \in Spaces /\ ctl'[c] = "live" => Leaves(c, Stored(status[c], bots[c]))'
    BY <2>2, <2>3 DEF Leaves
  <2> QED BY <1>13, <2>1, <2>4, CommitLeaves, SavedOne
<1>14. ASSUME NEW c \in Controls, NEW B \in SUBSET Bots,
              bots' = [bots EXCEPT ![c] = B], UNCHANGED <<queue, ctl, rows, status, faults>>,
              unsaved \ {c} \subseteq unsaved', c # Main => c \in unsaved'
       PROVE  SavedOK'
  <2>1. \A t \in Spaces : t # c =>
          bots'[t] = bots[t] /\ (t \notin unsaved' => t \notin unsaved)
    BY <1>0, <1>14 DEF TypeOK, SceneTypeOK
  <2> QED BY <1>0, <1>14, <2>1, SameLeaves, SavedOne
<1>15. ASSUME NEW c \in Controls,
              \/ ResetScene(c) \/ BotActs(c)
              \/ \E b \in Bots : CreateBot(c, b) \/ DeleteBot(c, b)
              \/ \E B \in SUBSET Bots : ReplaceScene(c, B)
       PROVE  SavedOK'
  <2>1. CASE ResetScene(c)
    <3>1. initial[c] \in SUBSET Bots /\ (c = Main \/ c \in Spaces)
      BY DEF TypeOK, SceneTypeOK, Controls
    <3> QED BY <1>14, <2>1, <3>1 DEF ResetScene, Edit, TypeOK, SceneTypeOK
  <2>2. CASE BotActs(c)
    <3>1. bots' = [bots EXCEPT ![c] = bots[c]] /\ bots[c] \in SUBSET Bots
      BY <2>2 DEF BotActs, TypeOK, SceneTypeOK
    <3> QED BY <1>13, <2>2, <3>1 DEF BotActs
  <2>3. ASSUME NEW b \in Bots, CreateBot(c, b) \/ DeleteBot(c, b)
        PROVE  SavedOK'
    <3>1. bots'[c] \in SUBSET Bots /\ bots' = [bots EXCEPT ![c] = bots'[c]]
      BY <2>3 DEF CreateBot, DeleteBot, TypeOK, SceneTypeOK
    <3> QED BY <1>13, <1>14, <2>3, <3>1 DEF CreateBot, DeleteBot, Edit
  <2>4. CASE \E B \in SUBSET Bots : ReplaceScene(c, B)
    BY <1>13, <2>4 DEF ReplaceScene, Edit
  <2> QED BY <1>15, <2>1, <2>2, <2>3, <2>4
<1> QED
  BY <1>2, <1>3, <1>4, <1>5, <1>6, <1>7, <1>8, <1>10, <1>11, <1>12, <1>15 DEF Next

-----------------------------------------------------------------------------
(* The row of the main scene *)

\* A step that leaves the main scene, its queue and its row as they are.
LEMMA MainSame ==
  ASSUME MainOK, UNCHANGED <<mainQueue, authoritative, mainPhase, mainRow>>,
         bots'[Main] = bots[Main], Main \in unsaved' <=> Main \in unsaved, faults' = 0 => faults = 0
  PROVE  MainOK'
  BY DEF MainOK

\* A scene that is queued as it is becomes the row, whatever was queued before.
LEMMA MainSaved ==
  ASSUME TypeOK, TypeOK', MainOK, QueueMainSave(bots'[Main]), Main \notin unsaved',
         UNCHANGED <<authoritative, faults>>
  PROVE  MainOK'
<1> SUFFICES ASSUME faults = 0
             PROVE  authoritative' /\ mainQueue' # <<>>
                    /\ mainQueue'[Len(mainQueue')] = [bots |-> bots'[Main]]
  BY DEF MainOK
<1>1. authoritative /\ mainQueue \in Seq(SceneRow)
  BY DEF MainOK, TypeOK, QueueTypeOK
<1>2. mainQueue' = Append(mainQueue, [bots |-> bots'[Main]])
  BY <1>1 DEF QueueMainSave
<1>3. [bots |-> bots'[Main]] \in SceneRow
  BY DEF SceneRow, TypeOK, SceneTypeOK, Controls
<1> QED BY <1>1, <1>2, <1>3

\* Until the next restart the row the main scene would get is the scene, unless it is unsaved.
LEMMA MainStep ==
  ASSUME TypeOK, TypeOK', MainOK, [Next]_vars
  PROVE  MainOK'
<1> USE DEF loadVars, dbVars, queueVars, historyVars, boundVars
<1>0. Main \notin Spaces /\ Main \in Controls
  BY Sentinels, SpacesAssumption DEF Controls
<1>1. CASE Restart
  BY <1>1 DEF Restart, MainOK
<1>2. CASE MainLoaded
  <2>1. mainRow \in SceneRow /\ bots'[Main] = mainRow.bots
    BY <1>0, <1>2 DEF MainLoaded, TypeOK, SceneTypeOK, DbTypeOK
  <2>2. mainRow = [bots |-> bots'[Main]]
    BY <2>1 DEF SceneRow
  <2> QED BY <1>2, <2>2 DEF MainLoaded, MainOK
<1>3. CASE MainSynchronized
  BY <1>3 DEF MainSynchronized, MainOK
<1>4. CASE MainMissing
  <2>1. faults' = 0 => faults = 0 /\ mainRow' = [bots |-> bots[Main]]
    BY <1>4 DEF MainMissing, TypeOK, HistoryTypeOK
  <2> QED BY <1>4, <2>1 DEF MainMissing, MainOK
<1>5. CASE WriteMain
  <2>1. mainQueue \in Seq(SceneRow) /\ mainQueue # <<>>
    BY <1>5 DEF WriteMain, TypeOK, QueueTypeOK
  <2>2. /\ mainRow' = mainQueue[1]
        /\ mainQueue' = <<>> => Len(mainQueue) = 1
        /\ mainQueue' # <<>> => mainQueue'[Len(mainQueue')] = mainQueue[Len(mainQueue)]
    <3>1. mainRow' = Head(mainQueue) /\ mainQueue' = Tail(mainQueue)
      BY <1>5 DEF WriteMain
    <3>2. /\ Len(mainQueue) \in Nat /\ Len(mainQueue) > 0 /\ Head(mainQueue) = mainQueue[1]
          /\ Len(mainQueue') = Len(mainQueue) - 1
          /\ \A i \in 1..(Len(mainQueue) - 1) : mainQueue'[i] = mainQueue[i + 1]
      BY <2>1, <3>1
    <3>3. mainQueue' = <<>> => Len(mainQueue) = 1
      BY <3>2
    <3>4. mainQueue' # <<>> => Len(mainQueue') # 0
      BY <3>1, <2>1
    <3>5. mainQueue' # <<>> => Len(mainQueue) - 1 \in 1..(Len(mainQueue) - 1)
      BY <3>2, <3>4
    <3> QED BY <3>1, <3>2, <3>3, <3>5
  <2> QED BY <1>5, <2>2 DEF WriteMain, MainOK
<1>6. CASE WriteMainFails \/ WriteSpaceFails \/ MainUnavailable \/ SpacesUnreadable
  <2>1. faults' # 0
    BY <1>6 DEF WriteSpaceFails, WriteMainFails, MainUnavailable, SpacesUnreadable, TypeOK,
                HistoryTypeOK
  <2>2. mainPhase' = "loading" => mainPhase = "loading" /\ unsaved' = unsaved
    BY <1>6 DEF WriteSpaceFails, WriteMainFails, MainUnavailable, SpacesUnreadable
  <2> QED BY <2>1, <2>2 DEF MainOK
<1>7. CASE SpacesFetched \/ RestoreDone \/ WriteSpace \/ UNCHANGED vars
  BY <1>7, MainSame DEF SpacesFetched, RestoreDone, WriteSpace, vars
<1>8. ASSUME NEW s \in Spaces,
             \/ RestoreKnown(s) \/ RestoreSpace(s) \/ CreateSpace(s) \/ TakeOver(s) \/ ReturnControl(s)
             \/ TerminateSpace(s) \/ EndByAi(s)
             \/ ReactivateSpace(s, "running") \/ ReactivateSpace(s, "taken-over")
             \/ DeleteSpace(s) \/ Dispose(s) \/ PassGate(s)
      PROVE  MainOK'
  <2>1. UNCHANGED <<mainQueue, authoritative, mainPhase, mainRow, faults>>
    BY <1>8
    DEF RestoreKnown, RestoreSpace, CreateSpace, TakeOver, ReturnControl, SetStatus, TerminateSpace,
        EndByAi, End, ReactivateSpace, ChangeStatus, DeleteSpace, Deleting, Dispose, PassGate
  <2>2. unsaved' = unsaved \/ unsaved' = unsaved \ {s}
    BY <1>8
    DEF RestoreKnown, RestoreSpace, CreateSpace, TakeOver, ReturnControl, SetStatus, TerminateSpace,
        EndByAi, End, ReactivateSpace, ChangeStatus, DeleteSpace, Deleting, Dispose, PassGate
  <2>3. bots'[Main] = bots[Main]
    BY <1>0, <1>8
    DEF RestoreKnown, RestoreSpace, CreateSpace, TakeOver, ReturnControl, SetStatus, TerminateSpace,
        EndByAi, End, ReactivateSpace, ChangeStatus, DeleteSpace, Deleting, Dispose, PassGate,
        TypeOK, SceneTypeOK
  <2> QED BY <1>0, <2>1, <2>2, <2>3, MainSame
<1>9. ASSUME NEW c \in Controls, c # Main,
             \/ ResetScene(c) \/ BotActs(c)
             \/ \E b \in Bots : CreateBot(c, b) \/ DeleteBot(c, b)
             \/ \E B \in SUBSET Bots : ReplaceScene(c, B)
      PROVE  MainOK'
  <2>1. UNCHANGED <<mainQueue, authoritative, mainPhase, mainRow, faults>>
    BY <1>9 DEF ResetScene, BotActs, CreateBot, DeleteBot, ReplaceScene, Edit, Commit
  <2>2. unsaved' = unsaved \ {c} \/ unsaved' = unsaved \cup {c}
    BY <1>9 DEF ResetScene, BotActs, CreateBot, DeleteBot, ReplaceScene, Edit, Commit
  <2>3. bots'[Main] = bots[Main]
    BY <1>0, <1>9 DEF ResetScene, BotActs, CreateBot, DeleteBot, ReplaceScene, TypeOK, SceneTypeOK
  <2> QED BY <1>9, <2>1, <2>2, <2>3, MainSame
<1>10. ASSUME NEW B \in SUBSET Bots, Commit(Main, B), B = bots'[Main],
              UNCHANGED <<authoritative, faults>>
       PROVE  MainOK'
  BY <1>10, MainSaved DEF Commit
<1>11. ASSUME Edit(Main)
       PROVE  mainPhase = "ready" /\ mainPhase' = "ready" /\ UNCHANGED <<authoritative, faults, mainRow>>
  BY <1>0, <1>11 DEF Edit, Gate, TypeOK, SceneTypeOK
<1>12. ASSUME \/ ResetScene(Main) \/ BotActs(Main)
              \/ \E b \in Bots : CreateBot(Main, b) \/ DeleteBot(Main, b)
              \/ \E B \in SUBSET Bots : ReplaceScene(Main, B)
       PROVE  MainOK'
  <2>0. bots'[Main] \in SUBSET Bots
    BY <1>0 DEF TypeOK, SceneTypeOK
  <2>1. CASE ResetScene(Main)
    <3>1. bots'[Main] = initial[Main] /\ Edit(Main)
      BY <1>0, <2>1 DEF ResetScene, TypeOK, SceneTypeOK
    <3>2. CASE Main \in unsaved'
      BY <1>11, <2>1, <3>1, <3>2 DEF MainOK
    <3>3. CASE Main \notin unsaved'
      <4>1. QueueMainSave(bots'[Main])
        BY <2>1, <3>1, <3>3 DEF ResetScene
      <4> QED BY <1>11, <3>1, <3>3, <4>1, MainSaved
    <3> QED BY <3>2, <3>3
  <2>2. CASE BotActs(Main)
    BY <1>10, <2>0, <2>2 DEF BotActs
  <2>3. ASSUME NEW b \in Bots, CreateBot(Main, b) \/ DeleteBot(Main, b)
        PROVE  MainOK'
    <3>1. CASE Commit(Main, bots'[Main])
      BY <1>10, <1>11, <2>0, <2>3, <3>1 DEF CreateBot, DeleteBot
    <3>2. CASE Main \in unsaved'
      BY <1>11, <2>3, <3>2 DEF MainOK, CreateBot, DeleteBot
    <3> QED BY <2>3, <3>1, <3>2 DEF CreateBot, DeleteBot
  <2>4. ASSUME NEW B \in SUBSET Bots, ReplaceScene(Main, B)
        PROVE  MainOK'
    <3>1. bots'[Main] = B
      BY <1>0, <2>4 DEF ReplaceScene, TypeOK, SceneTypeOK
    <3> QED BY <1>10, <1>11, <2>4, <3>1 DEF ReplaceScene
  <2> QED BY <1>12, <2>1, <2>2, <2>3, <2>4
<1> QED
  BY <1>1, <1>2, <1>3, <1>4, <1>5, <1>6, <1>7, <1>8, <1>9, <1>12 DEF Next

\* Nothing is stored, queued or deleted in the beginning.
LEMMA InitStorage == Init => StorageInv
  BY DEF Init, StorageInv, LoadOK, ForgottenOK, SavedOK, MainOK, NoWrites, NoRows, Live

\* With an empty queue, what the writes would leave behind is what is stored.
LEMMA StoredScenes == TypeOK /\ StorageInv => StoredScenesCatchUp
<1> SUFFICES ASSUME TypeOK, StorageInv PROVE StoredScenesCatchUp
  OBVIOUS
<1>1. queue = <<>> => \A s : NoWrites(s)
  BY DEF NoWrites
<1>2. RowsCatchUp
  BY <1>1 DEF RowsCatchUp, StorageInv, SavedOK, Leaves
<1>3. MainRowCatchesUp
  BY DEF MainRowCatchesUp, StorageInv, MainOK
<1>4. ForgottenStaysForgotten
  BY <1>1 DEF ForgottenStaysForgotten, StorageInv, ForgottenOK, Leaves, Live
<1> QED BY <1>2, <1>3, <1>4 DEF StoredScenesCatchUp

\* Once the queues have drained and no write failed, the table holds every scene as it runs, the
\* main one included, and a deleted space nothing wrote to is in the table no more: whatever edits,
\* restarts and restores happened in between, a restart brings back what the users last saw.
THEOREM StoredScenesHold == Spec => []StoredScenesCatchUp
<1>1. TypeOK /\ TypeOK' /\ StorageInv /\ [Next]_vars => StorageInv'
  BY LoadStep, ForgottenStep, SavedStep, MainStep DEF StorageInv
<1> QED BY <1>1, InitStorage, StoredScenes, TypeCorrect, PTL DEF Spec
=============================================================================
