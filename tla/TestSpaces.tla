----------------------------- MODULE TestSpaces -----------------------------
(***************************************************************************)
(* Scenes, their control services and the runtime bots they hold: the main *)
(* QQ environment and the AI test spaces of one Koishi process, sharing    *)
(* one SandboxRuntimeBotRegistry, with the space rows and the main scene   *)
(* row that survive a restart.                                             *)
(*                                                                         *)
(* A scene is abstracted to the set of bots it contains; everything else a *)
(* scene holds moves with it (getSnapshot copies the whole scene).  JS     *)
(* runs one handler at a time, so a handler without an await is one action.*)
(***************************************************************************)
EXTENDS Naturals, Sequences, FiniteSets

CONSTANTS
  Spaces,        \* ids a test space may get (randomUUID: never reused)
  Bots,          \* bot ids
  DefaultBots,   \* the bots of createDefaultScene()
  Main,          \* the control service of the main environment
  Free,          \* the registry has no owner for the bot
  Orphan,        \* the owner is a control whose constructor threw
  NoRow,         \* no row in the database
  MaxQueue,      \* bound: writes waiting in one persistence queue
  MaxEdits,      \* bound: spaces with a handler past the gate
  MaxRestarts,   \* bound: restarts of the process
  MaxFaults      \* bound: failing database writes and reads

ASSUME SpacesAssumption ==
  /\ DefaultBots \subseteq Bots
  /\ Main \notin Spaces
  /\ Free \notin Spaces \cup {Main}
  /\ Orphan \notin Spaces \cup {Main, Free}
  /\ NoRow \notin [status : {"running", "taken-over", "ended"},
                   bots : SUBSET Bots]
  /\ NoRow \notin [bots : SUBSET Bots]
  /\ MaxQueue \in Nat /\ MaxEdits \in Nat /\ MaxRestarts \in Nat /\ MaxFaults \in Nat

Controls == Spaces \cup {Main}
Statuses == {"running", "taken-over", "ended"}   \* completed and failed differ in nothing else
SpaceRow == [status : Statuses, bots : SUBSET Bots]
SceneRow == [bots : SUBSET Bots]
Writes   == [space : Spaces, row : SpaceRow \cup {NoRow}]
NoRows   == [s \in Spaces |-> NoRow]

VARIABLES
  \* process memory
  ctl,           \* life of the control of a space ("gone" outlives the process)
  status,        \* SandboxTestSpaceRecord.status
  bots,          \* bots in the scene of a control
  editing,       \* spaces a handler has passed the gate of and not edited yet
  initial,       \* bots in its initialScene, what resetScene returns to
  active,        \* runtimeBotsActive
  runtime,       \* keys of its runtimeBots map
  owner,         \* SandboxRuntimeBotRegistry.owners
  occupied,      \* SandboxTestSpaceService.occupied
  queue,         \* persistenceQueue of the test space service
  mainQueue,     \* persistenceQueue of the main control
  authoritative, \* scenePersistenceAuthoritative of the main control
  mainPhase,     \* restoreScene of the main control
  spacePhase,    \* the ready handler of the test space service
  fetched,       \* rows loadAll returned, until each is restored
  \* database
  rows,          \* chatluna-sandbox.test-space
  mainRow,       \* chatluna-sandbox.scene
  \* bounds and history
  restarts, faults,
  forgotten,     \* deleted spaces that nothing wrote to afterwards
  unsaved,       \* controls whose scene the last write queued does not hold
  torn           \* controls a failed synchronisation left half done

registryVars == <<runtime, owner>>
queueVars    == <<queue, mainQueue>>
loadVars     == <<authoritative, mainPhase, spacePhase, fetched>>
dbVars       == <<rows, mainRow>>
boundVars    == <<restarts, faults>>
historyVars  == <<forgotten, unsaved, torn>>
vars == <<ctl, status, bots, editing, initial, active, occupied, registryVars, queueVars,
          loadVars, dbVars, boundVars, historyVars>>

Live(s)   == ctl[s] = "live"
\* The restore loop has no await: no other handler runs between two rows.
Idle      == spacePhase # "restoring"

-----------------------------------------------------------------------------
(* SandboxRuntimeBotRegistry and syncRuntimeBots *)

Available(b, c) == owner[b] \in {Free, c}

Release(own, c, B) == [b \in Bots |-> IF b \in B /\ own[b] = c THEN Free ELSE own[b]]
Claim(own, c, B)   == [b \in Bots |-> IF b \in B THEN c ELSE own[b]]

\* The bots syncRuntimeBots creates when the scene of c holds B: bots no longer
\* in the scene are released first, then the missing ones are claimed in scene
\* order until one is taken by another owner.  The order of the participants is
\* abstracted: any part of the free ones may have been claimed before the throw.
Blocked(c, B, own) ==
  {b \in B \ runtime[c] : Release(own, c, runtime[c] \ B)[b] \notin {Free, c}}
Synced(c, B, own) ==
  LET missing == B \ runtime[c]
  IN  IF Blocked(c, B, own) = {} THEN {missing}
      ELSE SUBSET (missing \ Blocked(c, B, own))

\* syncRuntimeBots of an active control c whose scene now holds B.
SyncRuntimeBots(c, B) ==
  \E claimed \in Synced(c, B, owner) :
    /\ runtime' = [runtime EXCEPT ![c] = (@ \cap B) \cup claimed]
    /\ owner' = Claim(Release(owner, c, runtime[c] \ B), c, claimed)

\* Mutant of Deactivate: the bots are stopped and stay claimed.
DeactivateKeepingClaims(c) ==
  /\ active' = [active EXCEPT ![c] = FALSE]
  /\ runtime' = [runtime EXCEPT ![c] = {}]
  /\ UNCHANGED owner

\* setRuntimeActive(false): nothing to do for a control that is inactive already.
Deactivate(c) ==
  /\ active' = [active EXCEPT ![c] = FALSE]
  /\ IF active[c]
     THEN /\ runtime' = [runtime EXCEPT ![c] = {}]
          /\ owner' = Release(owner, c, runtime[c])
     ELSE UNCHANGED registryVars

-----------------------------------------------------------------------------
(* Persistence of the spaces and of the main scene *)

\* queuePersistence captures the row when it is called, not when it is written.
Stored(st, B) == [status |-> st, bots |-> B]
Enqueue(s, row) == queue' = Append(queue, [space |-> s, row |-> row])
QueueSave(s, st, B) == Enqueue(s, Stored(st, B))

\* Mutant of QueueMainSave: no authority check.
QueueMainSaveAlways(B) == mainQueue' = Append(mainQueue, [bots |-> B])

QueueMainSave(B) ==
  mainQueue' = IF authoritative THEN Append(mainQueue, [bots |-> B]) ELSE mainQueue

Room == Len(queue) < MaxQueue /\ Len(mainQueue) < MaxQueue

SyncOccupation(life, st) ==
  occupied' = \E s \in Spaces : life[s] = "live" /\ st[s] = "running"

-----------------------------------------------------------------------------
(* Start-up *)

\* What the constructors of the main control and of the service leave behind.
ConstructedBots  == [c \in Controls |-> IF c = Main THEN DefaultBots ELSE {}]
ConstructedOwner == [b \in Bots |-> IF b \in DefaultBots THEN Main ELSE Free]

Init ==
  /\ ctl = [s \in Spaces |-> "none"]
  /\ status = [s \in Spaces |-> "running"]
  /\ bots = ConstructedBots
  /\ editing = {}
  /\ initial = ConstructedBots
  /\ active = [c \in Controls |-> c = Main]
  /\ runtime = ConstructedBots
  /\ owner = ConstructedOwner
  /\ occupied = FALSE
  /\ queue = <<>> /\ mainQueue = <<>>
  /\ authoritative = TRUE
  /\ mainPhase = "loading" /\ spacePhase = "loading"
  /\ fetched = NoRows
  /\ rows = NoRows
  /\ mainRow = NoRow
  /\ restarts = 0 /\ faults = 0
  /\ forgotten = {} /\ unsaved = {} /\ torn = {}

\* The process stops at any point and starts again: memory and queued writes are lost.
Restart ==
  /\ restarts < MaxRestarts
  /\ restarts' = restarts + 1
  /\ ctl' = [s \in Spaces |-> IF ctl[s] \in {"closing", "gone"} THEN "gone" ELSE "none"]
  /\ status' = [s \in Spaces |-> "running"]
  /\ bots' = ConstructedBots
  /\ editing' = {}
  /\ initial' = ConstructedBots
  /\ active' = [c \in Controls |-> c = Main]
  /\ runtime' = ConstructedBots
  /\ owner' = ConstructedOwner
  /\ occupied' = FALSE
  /\ queue' = <<>> /\ mainQueue' = <<>>
  /\ authoritative' = TRUE
  /\ mainPhase' = "loading" /\ spacePhase' = "loading"
  /\ fetched' = NoRows
  /\ unsaved' = {} /\ torn' = {}
  /\ forgotten' = {s \in forgotten : rows[s] = NoRow}
  /\ UNCHANGED <<dbVars, faults>>

\* restoreScene, kind "loaded": the scene is replaced, its avatars are normalised
\* (an await), then its bots are synchronised and a scene the restore has changed is
\* written.  A bot a test space took first makes the synchronisation throw.
MainLoaded ==
  /\ Idle /\ mainPhase = "loading" /\ mainRow # NoRow
  /\ mainPhase' = "normalizing"
  /\ bots' = [bots EXCEPT ![Main] = mainRow.bots]
  /\ unsaved' = IF mainQueue = <<>> THEN unsaved ELSE unsaved \cup {Main}
  /\ UNCHANGED <<ctl, status, editing, initial, active, occupied, registryVars,
                 queueVars, authoritative, spacePhase, fetched, dbVars, boundVars,
                 forgotten, torn>>

MainSynchronized ==
  /\ Idle /\ mainPhase = "normalizing"
  /\ mainPhase' = "ready"
  /\ SyncRuntimeBots(Main, bots[Main])
  /\ torn' = IF Blocked(Main, bots[Main], owner) = {} THEN torn ELSE torn \cup {Main}
  /\ mainRow' \in {mainRow} \cup (IF Main \in torn' THEN {} ELSE {[bots |-> bots[Main]]})
  /\ UNCHANGED <<ctl, status, bots, editing, initial, active, occupied, queueVars,
                 authoritative, spacePhase, fetched, rows, boundVars, forgotten,
                 unsaved>>

\* restoreScene, kind "missing": the default scene is written outside the queue (save
\* swallows its own failure).
MainMissing ==
  /\ Idle /\ mainPhase = "loading" /\ mainRow = NoRow
  /\ mainPhase' = "ready"
  /\ \/ mainRow' = [bots |-> bots[Main]] /\ UNCHANGED faults
     \/ faults < MaxFaults /\ faults' = faults + 1 /\ UNCHANGED mainRow
  /\ UNCHANGED <<ctl, status, bots, editing, initial, active, occupied,
                 registryVars, queueVars, authoritative, spacePhase, fetched, rows,
                 restarts, historyVars>>

\* restoreScene, kind "unavailable": nothing may be written any more.
MainUnavailable ==
  /\ Idle /\ mainPhase = "loading"
  /\ faults < MaxFaults /\ faults' = faults + 1
  /\ mainPhase' = "ready"
  /\ authoritative' = FALSE
  /\ UNCHANGED <<ctl, status, bots, editing, initial, active, occupied,
                 registryVars, queueVars, spacePhase, fetched, dbVars, restarts,
                 historyVars>>

\* loadAll has read the table; a failed read restores nothing in this run.
SpacesFetched ==
  /\ Idle /\ spacePhase = "loading"
  /\ spacePhase' = "fetched"
  /\ fetched' = rows
  /\ UNCHANGED <<ctl, status, bots, editing, initial, active, occupied,
                 registryVars, queueVars, authoritative, mainPhase, dbVars,
                 boundVars, historyVars>>

SpacesUnreadable ==
  /\ Idle /\ spacePhase = "loading"
  /\ faults < MaxFaults /\ faults' = faults + 1
  /\ spacePhase' = "ready"
  /\ UNCHANGED <<ctl, status, bots, editing, initial, active, occupied,
                 registryVars, queueVars, authoritative, mainPhase, fetched, dbVars,
                 restarts, historyVars>>

RestoreDone ==
  /\ spacePhase \in {"fetched", "restoring"} /\ fetched = NoRows
  /\ spacePhase' = "ready"
  /\ UNCHANGED <<ctl, status, bots, editing, initial, active, occupied,
                 registryVars, queueVars, authoritative, mainPhase, fetched, dbVars,
                 boundVars, historyVars>>

RestoreRow(s) ==
  /\ spacePhase \in {"fetched", "restoring"} /\ fetched[s] # NoRow
  /\ spacePhase' = "restoring"
  /\ fetched' = [fetched EXCEPT ![s] = NoRow]

\* restoreSpace of a space created before the rows arrived.
RestoreKnown(s) ==
  /\ RestoreRow(s) /\ Live(s)
  /\ UNCHANGED <<ctl, status, bots, editing, initial, active, occupied,
                 registryVars, queueVars, authoritative, mainPhase, dbVars,
                 boundVars, historyVars>>

\* restoreSpace: a space that should be active but cannot get its bots is built a
\* second time, inactive, with the same status.  The bots the first constructor had
\* claimed before it threw stay with a control nobody holds any more.
RestoreSpace(s) ==
  LET row     == fetched[s]
      running == row.status # "ended"
      taken   == Blocked(s, row.bots, owner)
  IN
  /\ RestoreRow(s) /\ ~Live(s)
  /\ ctl' = [ctl EXCEPT ![s] = "live"]
  /\ status' = [status EXCEPT ![s] = row.status]
  /\ bots' = [bots EXCEPT ![s] = row.bots]
  /\ initial' = [initial EXCEPT ![s] = row.bots]
  /\ active' = [active EXCEPT ![s] = running /\ taken = {}]
  /\ \/ /\ running /\ taken = {}
        /\ runtime' = [runtime EXCEPT ![s] = row.bots]
        /\ owner' = Claim(owner, s, row.bots)
     \/ /\ running /\ taken # {}
        /\ \E claimed \in Synced(s, row.bots, owner) : owner' = Claim(owner, Orphan, claimed)
        /\ UNCHANGED runtime
     \/ ~running /\ UNCHANGED registryVars
  /\ SyncOccupation(ctl', status')
  /\ UNCHANGED <<editing, queueVars, authoritative, mainPhase, dbVars, boundVars,
                 historyVars>>

-----------------------------------------------------------------------------
(* Life of a test space.  Each operation queues the row it leaves behind. *)

\* createSpace allocates an empty scene and an active control without bots.
CreateSpace(s) ==
  /\ Idle /\ Room
  /\ ctl[s] = "none" /\ rows[s] = NoRow
  /\ ctl' = [ctl EXCEPT ![s] = "live"]
  /\ status' = [status EXCEPT ![s] = "running"]
  /\ bots' = [bots EXCEPT ![s] = {}]
  /\ initial' = [initial EXCEPT ![s] = {}]
  /\ active' = [active EXCEPT ![s] = TRUE]
  /\ QueueSave(s, "running", {})
  /\ SyncOccupation(ctl', status')
  /\ UNCHANGED <<editing, registryVars, mainQueue, loadVars, dbVars, boundVars,
                 historyVars>>

ChangeStatus(s, st) ==
  /\ status' = [status EXCEPT ![s] = st]
  /\ QueueSave(s, st, bots[s])
  /\ SyncOccupation(ctl, status')
  /\ unsaved' = unsaved \ {s}
  /\ UNCHANGED <<ctl, bots, editing, initial, mainQueue, loadVars, dbVars,
                 boundVars, forgotten, torn>>

\* takeOver and returnControl (setStatus): refused once the space has ended; they
\* never start a runtime.
SetStatus(s, st) ==
  /\ Idle /\ Room /\ Live(s) /\ status[s] # "ended"
  /\ ChangeStatus(s, st)
  /\ UNCHANGED <<active, registryVars>>

TakeOver(s)      == SetStatus(s, "taken-over")
ReturnControl(s) == SetStatus(s, "running")

\* terminateSpace ends any space that has not ended; completeSpace and failSpace
\* (EndByAi) only one the AI controls.  All of them stop the runtime.
End(s) ==
  /\ Idle /\ Room /\ Live(s)
  /\ Deactivate(s)
  /\ ChangeStatus(s, "ended")

TerminateSpace(s) == status[s] # "ended" /\ End(s)
EndByAi(s)        == status[s] = "running" /\ End(s)

\* Mutant of ReactivateSpace: the flag is set and the bots are not started.
ReactivateWithoutSync(s, st) ==
  /\ Idle /\ Room /\ Live(s) /\ status[s] = "ended"
  /\ active' = [active EXCEPT ![s] = TRUE]
  /\ UNCHANGED registryVars
  /\ ChangeStatus(s, st)

\* reactivateSpace: setRuntimeActive(true) first checks every bot and throws before
\* anything has changed; an active control is left as it is.
ReactivateSpace(s, st) ==
  /\ Idle /\ Room /\ Live(s) /\ status[s] = "ended"
  /\ ~active[s] => \A b \in bots[s] : Available(b, s)
  /\ active' = [active EXCEPT ![s] = TRUE]
  /\ IF active[s] THEN UNCHANGED registryVars ELSE SyncRuntimeBots(s, bots[s])
  /\ ChangeStatus(s, st)

\* deleteSpace: the space leaves the map and its delete is queued; its control stays
\* alive, with its listener and its bots, until its records are on disk.  (A space is
\* not deleted here while the rows are still being loaded: see the README.)
Deleting(s) ==
  /\ Idle /\ Room /\ Live(s) /\ spacePhase = "ready"
  /\ ctl' = [ctl EXCEPT ![s] = "closing"]
  /\ forgotten' = forgotten \cup {s}
  /\ UNCHANGED <<status, bots, editing, initial, active, registryVars, mainQueue,
                 loadVars, dbVars, boundVars, unsaved, torn>>

\* Mutant of DeleteSpace: nobody is told.
DeleteSilently(s) == Deleting(s) /\ Enqueue(s, NoRow) /\ UNCHANGED occupied

DeleteSpace(s) ==
  /\ Deleting(s)
  /\ Enqueue(s, NoRow)
  /\ SyncOccupation(ctl', status)

\* Mutant of Dispose: an inactive control returns early.
DisposeActiveOnly(s) ==
  /\ Idle /\ ctl[s] = "closing" /\ active[s]
  /\ ctl' = [ctl EXCEPT ![s] = "gone"]
  /\ active' = [active EXCEPT ![s] = FALSE]
  /\ runtime' = [runtime EXCEPT ![s] = {}]
  /\ owner' = Release(owner, s, runtime[s])
  /\ UNCHANGED <<status, bots, editing, initial, occupied, queueVars, loadVars,
                 dbVars, boundVars, historyVars>>

\* SandboxControlService.dispose of a deleted space, once waitForPersistence settled.
Dispose(s) ==
  /\ Idle /\ ctl[s] = "closing"
  /\ ctl' = [ctl EXCEPT ![s] = "gone"]
  /\ active' = [active EXCEPT ![s] = FALSE]
  /\ runtime' = [runtime EXCEPT ![s] = {}]
  /\ owner' = Release(owner, s, runtime[s])
  /\ UNCHANGED <<status, bots, editing, initial, occupied, queueVars, loadVars,
                 dbVars, boundVars, historyVars>>

-----------------------------------------------------------------------------
(* Editing a scene *)

\* The gate: requireAiControl / requireUserControl, or the main scene being ready.
\* A handler keeps the control across its awaits (resolveReadyControl, importAvatar)
\* and edits it whatever has become of the space in the meantime.
Gate(c) ==
  IF c = Main THEN mainPhase = "ready" ELSE Live(c) /\ status[c] # "ended"

PassGate(s) ==
  /\ Idle /\ Gate(s) /\ Cardinality(editing) < MaxEdits /\ s \notin editing
  /\ editing' = editing \cup {s}
  /\ UNCHANGED <<ctl, status, bots, initial, active, occupied, registryVars,
                 queueVars, loadVars, dbVars, boundVars, historyVars>>

Edit(c) ==
  /\ Idle /\ Room
  /\ \/ Gate(c) /\ UNCHANGED editing
     \/ c \in editing /\ editing' = editing \ {c}
  /\ UNCHANGED <<ctl, status, initial, active, occupied, loadVars, dbVars,
                 boundVars>>

\* commitSceneMutation / notifySceneMutation: the main control writes its own row, a
\* space is written by the listener attachControl registered, which dispose removes
\* and deleteSpace does not.
Listening(c) == c # Main /\ ctl[c] \in {"live", "closing"}

Commit(c, B) ==
  /\ IF c = Main THEN QueueMainSave(B) /\ UNCHANGED queue
     ELSE /\ IF Listening(c) THEN QueueSave(c, status[c], B) ELSE UNCHANGED queue
          /\ UNCHANGED mainQueue
  /\ forgotten' = IF Listening(c) THEN forgotten \ {c} ELSE forgotten
  /\ unsaved' = unsaved \ {c}

\* createBot: availability is only checked for an active control, the runtime is
\* created in any case.
CreateBot(c, b) ==
  /\ Edit(c)
  /\ b \notin bots[c]
  /\ active[c] => Available(b, c)
  /\ bots' = [bots EXCEPT ![c] = @ \cup {b}]
  /\ UNCHANGED torn
  /\ \/ /\ Available(b, c)
        /\ runtime' = [runtime EXCEPT ![c] = @ \cup {b}]
        /\ owner' = Claim(owner, c, {b})
        /\ Commit(c, bots'[c])
     \/ /\ ~Available(b, c)   \* claim throws: the participant stays, nothing is committed
        /\ unsaved' = unsaved \cup {c}
        /\ UNCHANGED <<registryVars, queueVars, forgotten>>

DeleteBot(c, b) ==
  /\ Edit(c)
  /\ b \in bots[c]
  /\ bots' = [bots EXCEPT ![c] = @ \ {b}]
  /\ runtime' = [runtime EXCEPT ![c] = @ \ {b}]
  /\ owner' = Release(owner, c, runtime[c] \cap {b})
  /\ Commit(c, bots'[c])
  /\ UNCHANGED torn

\* replaceScene (apply_environment_changes, import_scene, clear_scene).
ReplaceScene(c, B) ==
  /\ Edit(c)
  /\ active[c] => \A b \in B : Available(b, c)
  /\ bots' = [bots EXCEPT ![c] = B]
  /\ IF active[c] THEN SyncRuntimeBots(c, B) ELSE UNCHANGED registryVars
  /\ Commit(c, B)
  /\ torn' = IF active[c] THEN torn \ {c} ELSE torn

\* resetScene: no availability check before the scene is replaced, and no notification
\* after it, so a space is not written; the main scene is, unless the synchronisation
\* threw.
ResetScene(c) ==
  LET failed == active[c] /\ Blocked(c, initial[c], owner) # {}
  IN
  /\ Edit(c)
  /\ bots' = [bots EXCEPT ![c] = initial[c]]
  /\ IF active[c] THEN SyncRuntimeBots(c, initial[c]) ELSE UNCHANGED registryVars
  /\ IF c = Main /\ ~failed THEN QueueMainSave(initial[c]) ELSE UNCHANGED mainQueue
  /\ unsaved' = IF c = Main /\ ~failed THEN unsaved \ {c} ELSE unsaved \cup {c}
  /\ torn' = IF failed THEN torn \cup {c} ELSE torn \ {c}
  /\ UNCHANGED <<queue, forgotten>>

\* A runtime bot acts in its scene (a reply, an OneBot action) on its own time: nothing
\* makes it wait for the scene to be restored, nor stops it with the space.
BotActs(c) ==
  /\ Idle /\ Room /\ runtime[c] # {}
  /\ c = Main \/ Listening(c)
  /\ Commit(c, bots[c])
  /\ UNCHANGED <<ctl, status, bots, editing, initial, active, occupied, registryVars,
                 loadVars, dbVars, boundVars, torn>>

-----------------------------------------------------------------------------
(* Queued writes run one at a time; a failed one is logged and skipped. *)

\* Mutant of WriteSpace: the writes are not chained, the latest one may run first.
WriteSpaceUnchained ==
  \E i \in {1, Len(queue)} \ {0} :
    /\ queue # <<>>
    /\ rows' = [rows EXCEPT ![queue[i].space] = queue[i].row]
    /\ queue' = SubSeq(queue, 1, i - 1) \o SubSeq(queue, i + 1, Len(queue))
    /\ UNCHANGED <<ctl, status, bots, editing, initial, active, occupied, registryVars,
                   mainQueue, loadVars, mainRow, boundVars, historyVars>>

WriteSpace ==
  /\ queue # <<>>
  /\ rows' = [rows EXCEPT ![Head(queue).space] = Head(queue).row]
  /\ queue' = Tail(queue)
  /\ UNCHANGED <<ctl, status, bots, editing, initial, active, occupied, registryVars,
                 mainQueue, loadVars, mainRow, boundVars, historyVars>>

WriteSpaceFails ==
  /\ queue # <<>>
  /\ faults < MaxFaults /\ faults' = faults + 1
  /\ queue' = Tail(queue)
  /\ forgotten' = forgotten \ {Head(queue).space}
  /\ UNCHANGED <<ctl, status, bots, editing, initial, active, occupied, registryVars,
                 mainQueue, loadVars, dbVars, restarts, unsaved, torn>>

WriteMain ==
  /\ mainQueue # <<>>
  /\ mainRow' = Head(mainQueue)
  /\ mainQueue' = Tail(mainQueue)
  /\ UNCHANGED <<ctl, status, bots, editing, initial, active, occupied, registryVars,
                 queue, loadVars, rows, boundVars, historyVars>>

WriteMainFails ==
  /\ mainQueue # <<>>
  /\ faults < MaxFaults /\ faults' = faults + 1
  /\ mainQueue' = Tail(mainQueue)
  /\ UNCHANGED <<ctl, status, bots, editing, initial, active, occupied, registryVars,
                 queue, loadVars, dbVars, restarts, historyVars>>

Next ==
  \/ Restart
  \/ MainLoaded \/ MainSynchronized \/ MainMissing \/ MainUnavailable
  \/ SpacesFetched \/ SpacesUnreadable \/ RestoreDone
  \/ WriteSpace \/ WriteSpaceFails \/ WriteMain \/ WriteMainFails
  \/ \E s \in Spaces :
       \/ RestoreKnown(s) \/ RestoreSpace(s) \/ CreateSpace(s) \/ TakeOver(s) \/ ReturnControl(s)
       \/ TerminateSpace(s) \/ EndByAi(s)
       \/ ReactivateSpace(s, "running") \/ ReactivateSpace(s, "taken-over")
       \/ DeleteSpace(s) \/ Dispose(s) \/ PassGate(s)
  \/ \E c \in Controls :
       \/ ResetScene(c) \/ BotActs(c)
       \/ \E b \in Bots : CreateBot(c, b) \/ DeleteBot(c, b)
       \/ \E B \in SUBSET Bots : ReplaceScene(c, B)

\* Queued writes and the disposal of a deleted space go on by themselves.
Fairness ==
  /\ WF_vars(WriteSpace) /\ WF_vars(WriteMain)
  /\ WF_vars(RestoreDone)
  /\ \A s \in Spaces : WF_vars(RestoreKnown(s) \/ RestoreSpace(s)) /\ WF_vars(Dispose(s))

Spec     == Init /\ [][Next]_vars
FairSpec == Spec /\ Fairness

-----------------------------------------------------------------------------
(* Properties *)

SceneTypeOK ==
  /\ ctl \in [Spaces -> {"none", "live", "closing", "gone"}]
  /\ status \in [Spaces -> Statuses]
  /\ bots \in [Controls -> SUBSET Bots] /\ initial \in [Controls -> SUBSET Bots]
  /\ active \in [Controls -> BOOLEAN]
  /\ editing \subseteq Spaces
  /\ occupied \in BOOLEAN

RegistryTypeOK ==
  /\ runtime \in [Controls -> SUBSET Bots]
  /\ owner \in [Bots -> Controls \cup {Free, Orphan}]

QueueTypeOK == queue \in Seq(Writes) /\ mainQueue \in Seq(SceneRow)

LoadTypeOK ==
  /\ authoritative \in BOOLEAN
  /\ mainPhase \in {"loading", "normalizing", "ready"}
  /\ spacePhase \in {"loading", "fetched", "restoring", "ready"}
  /\ fetched \in [Spaces -> SpaceRow \cup {NoRow}]

DbTypeOK ==
  /\ rows \in [Spaces -> SpaceRow \cup {NoRow}]
  /\ mainRow \in SceneRow \cup {NoRow}

HistoryTypeOK ==
  /\ restarts \in 0..MaxRestarts /\ faults \in 0..MaxFaults
  /\ forgotten \subseteq Spaces
  /\ unsaved \subseteq Controls /\ torn \subseteq Controls

\* Every variable holds what the code can put in it.
TypeOK ==
  SceneTypeOK /\ RegistryTypeOK /\ QueueTypeOK /\ LoadTypeOK /\ DbTypeOK /\ HistoryTypeOK

\* A bot id has one runtime bot in the whole instance: no two controls, deleted and
\* disposed ones included, run a bot with the same id (docs/adr/0043).
OneRuntimePerBot ==
  \A c, d \in Controls : c # d => runtime[c] \cap runtime[d] = {}

\* The registry and the controls agree: a control owns exactly the bots it runs.  A
\* claim that outlives its bot makes the id unusable until the next restart.
RegistryAgrees ==
  \A c \in Controls, b \in Bots : owner[b] = c <=> b \in runtime[c]

\* A control starts without bots: no id a new or restored space gets is still running
\* bots, or still being edited, under an earlier control of the same id.
FreshRunsNothing ==
  \A s \in Spaces :
    ctl[s] = "none" \/ (spacePhase # "ready" /\ ctl[s] # "live") => runtime[s] = {} /\ s \notin editing

\* An active control runs the bots of its scene, unless a synchronisation threw half
\* way or is still to come.
ActiveRunsItsScene ==
  \A c \in Controls :
    active[c] /\ c \notin torn /\ (c = Main => mainPhase # "normalizing")
      => runtime[c] = bots[c]

\* A deleted space nothing wrote to after its deletion is never seen again: not in the
\* list, not in the table once the queue has drained, not after a restart.
ForgottenStaysForgotten ==
  \A s \in forgotten :
    /\ ~Live(s)
    /\ queue = <<>> => rows[s] = NoRow

\* Once the queue has drained, and if no write failed, a restart would bring every
\* space back as it is; only a reset and a half-done createBot are not written.
RowsCatchUp ==
  queue = <<>> /\ faults = 0 =>
    \A s \in Spaces \ unsaved : Live(s) => rows[s] = Stored(status[s], bots[s])

\* The same for the main scene.
MainRowCatchesUp ==
  mainPhase = "ready" /\ mainQueue = <<>> /\ faults = 0 /\ Main \notin unsaved
    => mainRow = [bots |-> bots[Main]]

\* What is stored is what runs, for every scene, and nothing of a deleted one: the last write
\* wins (persistenceQueue of both).
StoredScenesCatchUp == RowsCatchUp /\ MainRowCatchesUp /\ ForgottenStaysForgotten

\* isOccupied as the listeners last heard it is what it is now.
OccupationIsCurrent ==
  occupied = \E s \in Spaces : Live(s) /\ status[s] = "running"

\* After a database that could not be read, nothing overwrites what it holds until the
\* next restart, once the writes queued before have run.
UnreadIsNotOverwritten ==
  [][~authoritative /\ mainQueue = <<>> /\ restarts' = restarts
     => UNCHANGED <<mainRow, mainQueue, authoritative>>]_vars

\* The bot ids of a deleted space become free again.
DeletedSpaceFreesItsBots ==
  \A s \in Spaces : ctl[s] = "closing" ~> ctl[s] # "closing" /\ runtime[s] = {}

-----------------------------------------------------------------------------
(* What comments and decision records of the repository say and the code does not *)

\* A stored main scene is only overwritten by a process that has read it: persistence.ts
\* keeps a failed read apart from an empty database for that.
MainRowReadBeforeWritten ==
  [][mainRow' # mainRow => mainRow = NoRow \/ mainPhase # "loading"]_vars
=============================================================================
