# Formal models of the ChatLuna QQ sandbox

TLA+ models of the stateful core of `koishi-plugin-chatluna-sandbox`: a Koishi
plugin that simulates a QQ environment for ChatLuna, gives external test
controllers isolated test spaces through an MCP endpoint, and keeps evidence of
what the plugin under test did. Paths below are relative to the repository.

Run a model with `tlc -config <X>.cfg <MC module>.tla`, a proof with
`tlapm <Module>Proofs.tla`. `PROJECT.json` lists the runs, the mutants that show
each property can fail, the source lines of every definition, the findings, the
hazards and the theorems.

## 1. Inventory

Everything on the server runs in one Node.js process and one thread: a handler
runs without interruption until it awaits. The interleavings that matter are
therefore between *continuations*: a handler that has awaited something, a bot
that answers on its own time, a queued database write, a timer.

| Component | State it keeps | Operations | Hard behaviour |
|---|---|---|---|
| Test spaces (`src/test-spaces.ts`) | map of spaces with status and control, write queue, occupation | create, take over, return, terminate, complete, fail, reactivate, delete, restore | handlers that kept a control across an await; restore against live spaces; writes queued behind a delete |
| Scene and control service (`src/control-service.ts`) | the scene (participants, groups, conversations, messages, requests), its revision, runtime bots, initial scene, write queue | about 60 edits, all ending in `commitSceneMutation`; reset, replace, restore, dispose | half-done edits, the restore racing early edits, retention by count and bytes |
| Runtime bot registry (`SandboxRuntimeBotRegistry`) | owner of each bot id | claim, release, assertAvailable | uniqueness across the main environment and all spaces |
| Evidence record libraries (`src/record-store.ts`, `src/onebot-debug.ts`, `src/model-request.ts`, `src/persistence.ts`) | index, staged records, next sequence, summary, write queue; rows and scope row in the database | append, update, clear, query, recover, degrade | appends before recovery, failing writes, capacity reclaim, reads against queued writes |
| MCP endpoint (`src/mcp/*`) | credentials, quotas, concurrency counters, idempotency cache, confirmation tokens, epoch and event ring, waiters | call a tool, wait for events, prepare a destructive action, rotate the epoch | concurrent calls with one key, waits across an epoch, optimistic revisions with awaits in the middle |
| Inbound delivery (`src/inbound-delivery.ts`, `src/channel-assignee.ts`, `src/chatluna/character-context.ts`) | per bot the stack of the conversations it is handling, the channels it was made assignee of, the conversation last dispatched per contact; delivery records in the scene | deliver a message to every bot of its conversation, wait for the plugins, record | concurrent deliveries to one bot, awaits before the dispatch, timeouts, one bot failing among several |
| ChatLuna observation (`src/chatluna/*`) | per scope: who is thinking, since which session, the chats it is in, its requests, tokens and replies; the sessions whose lock release is awaited | events of two plugins: chat begins, ends, fails; turn collected, answered, released; usage | events in any overlap, errors without a session, a plugin reloaded in the middle |
| Conversations (`src/conversation-resolution.ts`) | roots, instances and fork points (in the scene) | resolve, create, branch, clear, prune, delete | inherited prefixes when the origin is pruned |
| Relationship rules (`src/relationship-actions.ts`, `src/message-capabilities.ts`) | none (operate on the scene) | friend and group actions, capability verdicts | a notice awaited between the check and the change |
| Model request collector (`src/model-request-collector.ts`) | the requests whose headers are still to be sent | intercept, headers, response, failure, end of the body | headers that do not say whose they are; a body that ends after its store was cleared or its space deleted |
| Record scopes (`src/scope-directory.ts`, `src/mcp/page-cursor.ts`) | none | federated read, page cursors | scopes that appear or vanish between pages, and records that are made, evicted or cleared; waits for bodies |
| Presets (`src/presets/*`) | files on disk, revision hashes; the presets of the turns that run | read, write, correlate with evidence | write against an outdated revision; a turn whose end is not told |
| OneBot facade (`src/bot.ts`, `src/onebot-*.ts`) | none of its own | translate OneBot actions to edits | wide, stateless translation |
| Console adapter (`src/console.ts`, `src/console-contract.ts`) | none | gate each call, then edit | the gate is checked before the awaits |
| Media storage (`src/media-storage.ts`) | files, pins | save, pin, reclaim | reclaim against a pending upload |
| Model evidence (`src/model-evidence/*`, `src/model-request-*.ts`) | none | pure projections of stored records | none (pure) |
| Client (`client/*`) | observed space, current operator, workspace, pages of history, panels | load, select, command, refresh, page, read trajectories | answers that arrive in another order or for another operator than now |

What makes each component correct:

- **Test spaces, registry, scene persistence.** A bot id is run by one control
  at a time, whoever is restored, reactivated, reset or deleted in between; the
  registry and the running bots agree; a space that has ended runs nothing; a
  deleted space frees its bots and never comes back; the stored rows follow the
  scenes through queues, failures and restarts; what has not been read is not
  overwritten.
- **Evidence libraries.** Records are numbered and stored in the order of the
  calls, each once; a failing write costs its own record and no other; the
  index mirrors the rows; only the oldest records are reclaimed, and only as
  far as needed; a read sees what was appended before it; a walk over the pages
  meets every record that stays, once.
- **MCP endpoint.** A retry changes nothing; an answer is replayed within its
  epoch and window; a revision or a confirmation token names the scene its
  caller has read; rate and concurrency limits hold; a wait from a cursor is
  given every later match, in order, or told that it cannot be.
- **Inbound delivery.** Each recipient's delivery ends; its conversation is on
  the stack exactly while its event is being handled, and its history and context
  are those of that conversation; a call that returns has delivered to all.
- **Relations.** Whatever is deleted or replaced while a notice is awaited, a
  scene never names what is gone, what is stored is what is shown, and a group
  keeps its owner.
- **Conversations and media.** Each conversation reads as one history, however
  conversations branch and whatever is cleared or evicted; history is lost from its
  beginning; a file that a scene or a pending upload refers to is not reclaimed.
- **ChatLuna observation.** Who is shown as thinking does think, and stops being
  shown; the end of one session touches no other's turn or replies; a preset is
  recorded only with requests of its own turn.
- **Model request collector.** Each intercepted request has one record, in the store
  of the scope it began in, which says what has become of it and nothing of another
  request; what was cleared does not come back.
- **Record scopes.** A walk over the pages of all scopes gives every record that is
  there throughout, once and in order; no page is waited for without end.
- **Client.** Once everything has arrived, a page shows the latest state of the
  space and operator it is set to; history has no gap; no old answer overwrites a
  newer one.

## 2. Plan

| # | Module | About | State |
|---|---|---|---|
| 1 | `TestSpaces` | spaces, bots, registry, scene rows, restarts | done, proved |
| 2 | `RecordStore`, `EvidenceLog` | evidence libraries, and the log they implement | done, proved |
| 3 | `CallQuota` | quotas and gates | done, proved |
| 4 | `CallReplay` | idempotency, confirmation, revisions | done, proved |
| 5 | `EventFeed` | event ring and waits | done, proved |
| 6 | `InboundDelivery` | delivery to bots, time limit, conversation stack, assignees, contexts | done, proved |
| 7 | `ThinkingTurns` | ChatLuna turns, their completion, attribution and presets | done, proved |
| 8 | `SceneMessages` | retention, branches and their inherited prefixes, forwards, media | done, proved |
| 9 | `SceneRelations` | participants, requests, friendships, group members | done, proved |
| 10 | `WorkspaceClient` | one browser page against the server | done, proved |
| 11 | `RequestCapture` | the collector over the stores of several scopes | done, proved, composes 7 |
| 12 | `FederatedRead` | pages over the stores of scopes that come and go | done, proved, composes 11 |

Abstract specifications: `EvidenceLog` (an append-only log that forgets from
its old end) for 2. Every safety and action property a run checks is proved
(section 6), but for the one that the code violates; the liveness properties are
checked only. Next: the avatars of
`applyEnvironmentChanges`, the test endpoint server and its call records, and the
environment edits of `mcp/tool-registry.ts` as one component.

## 3. Modules

Each component has a module that models it, an `MC` module with the instances
for TLC, and a `Proofs` module, which `CallQuota` and `CallReplay` share
(`CallProofs`), as do `SceneRelations` and `SceneMessages` (`SceneProofs`) and the
chain from `ThinkingTurns` to `FederatedRead` (`ThinkingTurnsProofs`). Where two modules
are extended by one, the second has names of its own (`QuotaInit`, `MessagesInit`,
`CaptureNext`, `ReadSpec`). Actions bear the names of the functions where
they have one; names in parentheses below are those of the code.

Conventions that all of them share: a variable named after a field of the code
is that field; a variable commented as *history* exists for a property and is
read by no action's guard; an action ends where the code awaits or returns;
`Max...` constants bound counters and queues by guards and stand for nothing in
the code.

### TestSpaces

State: for each space its control's life (`ctl`), status, the bots of its scene
and of the initial scene, whether its control is active; the owner of each bot
id and the bots each control runs; the two write queues and the rows; and how
far the main restore (`mainPhase`) and the restore of the spaces (`spacePhase`)
have come. Actions: one per method of `SandboxTestSpaceService`, the edits of
`SandboxControlService` that touch bots (`CreateBot`, `DeleteBot`,
`ReplaceScene`, `ResetScene`, and `Commit` for an edit that does not), the steps
of both restores, the writes, their failures, and `Restart`.

- `completed` and `failed` differ in nothing but their name: both are `ended`.
- A handler is two steps: `PassGate` (`resolveReadyControl`), then an edit by a
  space in `editing`, after any number of other steps. At most `MaxEdits`
  handlers are past their gate. A bot's own action (`BotActs`) has no gate.
- A deleted control lives on: `closing` until its stores have drained, `gone`
  afterwards, when the row may still be written by whoever holds it.
- The order of the participants of a scene is abstracted: `syncRuntimeBots`
  claims an arbitrary set of its bots before it meets a taken one.
- A plugin reload within one process is not modelled; a restart is.

### RecordStore and EvidenceLog

One module for both libraries: `onebot-debug.ts` appends and clears,
`model-request.ts` also updates. A record is an identity and a size. The tasks
of the serial queue are run step by step, from one await to the next
(`WriteAppend`, `SaveScope`, `Reclaim`, ...), each of which may fail
(`CallFails`); a failed database call has no effect. Reads are modelled with
their settle rounds (`Round`; `MaxRounds` is 1000 in the code and 2 in the run),
the cursor check and the query. `Degrade` is the failed first summary.
Not modelled: the drain at shutdown, an explicitly configured memory
persistence, filters and projections. The summary may be stale after a failed
clear, as in the code.

`EvidenceLog` is what the libraries promise: an append takes the next turn, a
stored record comes after all stored before it, and only the oldest are
forgotten. `RecordStore!ImplementsLog` is the refinement, checked by TLC and
proved.

### CallQuota

A timestamp of a rate window is the call that left it, so a window is a set of
calls with times. `window[0]`, from which a refusal computes its `retryAfter`, is
a timestamp no other is older than. Scopes, the ring of call records and a clock
that goes backwards are not modelled. A revocation empties the windows of its
credential and leaves its running calls alone, as the code does.

### CallReplay

A slot is a credential, a tool and an idempotency key. A scene is the set of the
changes that made it, with its revision, so that an overwritten change can be
seen. A call is `Begin` and then one of replay, conflict or run; sends and
environment edits await, and end (`Remember`, `Store`) at some later step. An
entry of the cache carries the number of its write; `expired` is the write up to
which entries are past their time, which is sound because all entries live
equally long. `Confirm` runs the destructive operation and `Rotate` begins the
new epoch behind the await of `withConfirmation`. The other reasons a token is
void for (time, another operation) are one action. One space; `Restart` assumes
that the scene had been saved (what happens when it was not is in `TestSpaces`).

### EventFeed

An event is a cursor and a kind, a wait looks for a set of kinds. `log` is the
history of what was appended in each epoch; `events` is the ring of the code.
A wait is `asked` when `waitFor` is about to look at its cursor, then refused,
answered at once or `waiting`; `Poll` is the 20 ms interval, `Timeout` the
timer, either of which may come at any moment. A settling wait is `asked` again
after each match, with other steps in between, since `await` gives way to other
calls of a batch. Cursors are any the server has given out, in this epoch or an
earlier one. `overrun` marks a wait that lost an event between two polls.

### InboundDelivery

A delivery is a message and a bot, and `phase` says which await of `deliverToBot`
it has come to; all deliveries run at once. `Send` is `sendMessage` up to its
await: the message is in the scene and every delivery has made its first
synchronous steps (`Begun`). Then come the row of the Koishi channel
(`AlignWritten`, `AlignFails`), the switch of the `chatluna-character` context
(`Follow`, `Cleared`, `ClearFails`), and the window in which the plugins handle
the event (`Dispatch` to `MiddlewareFinished`, `Timeout` or `DispatchFails`). A
conversation is an instance of a root (`Root`); plugins know roots only, and
`chatluna-character`, assumed installed, files messages under `SessionKey`, one
context for all bots. The channel table (`assignee`) and the plugin's contexts
(`context`) are external and modelled from how the code calls them. The scene
changes meanwhile: messages leave it, a bot is deleted, all bots are stopped.

`missed` and `mixed` record to what a promise does not extend: a delivery whose
own channel write failed; a key whose messages overlapped, went to several bots,
or whose clear failed. Whether the recipients see a message is an arbitrary
choice among those who may (`Recipients`). The building of a session is one step
that may fail.

### SceneRelations

The scene is its participants, groups with members and roles, friendships, pending
requests, and the root conversations that friendships and groups call for. `saved`
is the scene as of the last commit, which is what the revision names, what is
written, and what `Restart` brings back (that the write may be late or fail is in
`TestSpaces`). Actions are the calls of users, of the console and of bots over
OneBot. All of them run to their end, except three that await a notice between
their check and their change: `Leave` and `Kick` (ended by `RemovalEnds`) and the
end of a friendship with a bot (`UnfriendBot`, `UnfriendBotEnds`). Such a call holds
the group object it looked up: after an import, a reset or a deletion that object
is no longer the scene's (`live`), and what it removes from it changes nothing. The
notice may fail, and then the change is not made, or not committed. `Importable` is
what `replaceScene` demands; the scenes it is offered are the current one without
some participant, group or list.

A bot's `enabled` flag only takes behaviours away; announcements and names are
left out; muting, cards and titles are `OtherCommit`.

### SceneMessages

Messages and instances are numbered in the order of their creation, which stands
for the ids the code draws. An instance is blank or has a fork point: a source
conversation and a message of it. `ReadInstances` is `readRowMessageIds`, a
recursive function: what an instance inherits is read anew from its source each
time (`ReadWith`), up to the message it branches off at, or not at all when that
message is gone. A commit (`CommitWith`) evicts the oldest messages above the limit,
drops the forwards nothing refers to, and reclaims the files nothing refers to, as
`commitSceneMutation` does; every action that changes the scene ends in one. The media
directory (`files`), the pins and the uploads the endpoint remembers live beside the
scene. What is evicted leaves every list by one operator (`Remaining`), which keeps the
order of the rest. The forwards a message keeps are those in every set of forwards that
holds the one it carries and whatever is nested in its members (`Reachable`), which is
what the recursive walk of the code collects. Left out: avatars, reactions, replies, who
may do what, the limit in bytes, the cache of uploads, and importing a scene.

### ThinkingTurns

ChatLuna is the environment: a session chats with the core (`BeforeChat` to
`AfterChat` or `ChatFails`), has a turn of `chatluna-character` (`Collect`,
`UsePreset`, `Answer`, `Release`), or both in any overlap, each once. The sandbox
keeps `store` (`SandboxChatLunaStateStore`; the stores of all scopes in one record,
told apart by `ScopeOf`), the sessions whose lock release the wrapped method waits
for (`tracked`, per instance of the plugin's service), and the presets in use
(`PresetRuntimeSnapshotTracker`). `Reload` puts another service instance in use while
turns of the former still run. `Request` and `Usage` are attributed as the
collector and `resolveUsageKey` do, `Archived` puts the requests of a turn on its
replies (`archiveChatLunaResult`). A turn's number and the session it was begun for
(`begun`) are history. Left out: the deletion of a conversation in the middle of a
turn that later goes on, thought texts and durations, several chats of one session,
and the two guesses that link usage rows and errors to records (`chatluna/usage.ts`,
`chatluna/error.ts`).

### RequestCapture

Extends `ThinkingTurns`: a running session makes a request by `Intercept`, which is
`Request` with what `wrappedModelRequestFetch` does before it calls the original
fetch. The request is then in flight until `Respond` or `Reject`; a response may have
a body, which is read beside the requester until `BodyEnds`. `dispatched` is
`pendingDispatchedRequests`: undici tells the headers of whatever it sends (`Send`,
`StrangerSends`), and `HeadersSent` gives them to the first request that waits at that
address. `rows` are the records of each store in the order of their sequence. A write
takes effect when it is asked for, as every read lets the queue settle first; that
writes may be late or fail is in `RecordStore`. A completion writes some fields of its
row anew (`Amended`), if the row is still there. `CreateSpace`, `DeleteSpace` and
`SpaceGone` are what the collector and the readers see of a test space (`life`): it is
listed, its stores are cleared and it is listed no more, it is disposed of.

`mixed` and `tied` are history: an address where headers were told that belong to no
waiting request, or out of turn; a store with two records of one millisecond whose
ids are against their sequence. Left out: what is read from a request (provider,
model, variables), the presets stored with it (`ThinkingTurns` has them), the removal
of the wrapper, and the limit in bytes, which evicts as the one in records does.

### FederatedRead

Extends `RequestCapture` by one reader that walks over all pages, for
`list_model_request_records` and for the console. A page is listed (`Begin`,
`Continue`), waits for each scope (`Ready`: `waitForPersistence`, which waits for
bodies, too), is read from each store at a moment of its own (`Read`) and merged
(`Page`). The pages of one walk have the same order; the cursor is the time and id of
the last record given. Positions, that is, times and ids, are what pages are made of:
`PageOf` takes the first of a store by sequence, `Sorted` puts the merged set in the
order of its positions. `steady` is history: the records that have been there all the
time. Unattributed records are in no such walk, as in the code.

### WorkspaceClient

One page and the server it talks to. `calls` are what the server has not answered;
`line` is the socket, which keeps the order of answers and broadcasts. The server
side is reduced to what a page can tell apart: a revision, the live state (ChatLuna's,
which has no revision), the participants and the last message of each space. `First` is
the participant the server takes when a call names none: the one with the least `Place`,
users before bots. A call that names somebody who is not there fails, as does a page of
history for a conversation of another space (`Result`). The
page has `activeSpaceId` (`space`), the current operator, the workspace shown, and
the refresh task with its `pendingRefresh`. `ObserveSpace` and `SelectOperator` are
the two switches, `Send` and `DeleteOperator` the commands (the latter reads twice),
`LoadEarlier` the history pages, asked for from the list or to reveal a search hit.
The trajectory panel has a numbered read and no part in the rest. `tangled` and
`disturbed` are history: a switch, or the load that is repeated without an operator after
one was refused, overtook a call of another space or operator; the rows were replaced
under a page being read. Left out: which conversation is selected, deleted spaces, two
tabs that share their storage, record lists, loading flags, the composer and all
rendering.

## 4. Runs

Every passing run explores its instance completely. Each property of a passing
run has a mutant of the code's behaviour under which TLC finds it violated.

| Run | Bounds | Shows |
|---|---|---|
| `spaces_registry` | 2 spaces, 1 bot, default in all; 1 handler past its gate; queues of 1; no restart or failure | competition for an id: `RegistryAgrees`, `OccupationIsCurrent` |
| `spaces_storage` | 1 space, 1 bot, none by default; queues of 2, 1 restart, 1 failure | `ActiveRunsItsScene`, the last write wins (`StoredScenesCatchUp`), `UnreadIsNotOverwritten`, `DeletedSpaceFreesItsBots` |
| `records` | 3 records of 2 sizes, updates, clears, queue of 2, 1 failure; either 2 restarts or a reader in either direction | `NumbersAreKept`, `IndexMirrorsRows`, `AppendsSettle`, `ImplementsLog`, `ReadsAreSound`, `ReadTerminates` |
| `call_quota` | 1 credential, 5 calls, a window of 3, time to 6 | `LimitsHold`, `RetryAfterIsEnough` |
| `call_replay` | 2 calls, 3 keys, 2 payloads, a cache of 1, 2 tokens, a reset and a clear, 2 epochs | `AnswersAreKept`, `ReplayIsOfThisEpoch`, `ReviewedSceneOnly` |
| `event_waits` | 1 wait, 2 epochs of 4 events, a ring of 2 | `WaitIsComplete`, `VerdictIsRight` |
| `inbound` | 2 messages to 2 bots, 3 deliveries, in a group, an instance of it and a private chat; 1 failure or change of the scene | `WindowsAreRight`, `ContextIsOfConversation`, `SoleBotIsAssignee`, `OutcomesAreTold`, `EveryCallEnds` |
| `scene_relations` | 2 users, 1 bot, 1 group, 2 requests pending, 1 call in its notice | `SceneIsSound`, `UnsavedIsAnUnfriending`, `OwnerIsLostToOverlapOnly` |
| `scene_messages` | three instances: 4 messages (limit 3) and 3 branches of a group; 4 messages (limit 2), 2 forwards, a branch, a file and a recall in two roots; 3 messages (limit 2), 2 files, 1 pin | `MessagesAreWhole`, `LosesOldestFirst`, `MediaIsKept` |
| `turns_and_requests` | turns alone, five instances: two sessions of one bot with a reply, a reload or a cleared conversation; one session each of two bots that share a chat, or live in two scopes with a reload. With requests, three: two requests to one address from a bot in a space, failing, overtaken by each other and by a stranger, a clear, the space deleted or made; one request with character turns and a reload; a walk with pages of 1 over 3 earlier records in two stores (limit 2) while a fourth request is made and spaces come and go | `ThinkingIsTrue`, `ShownPresetIsInUse`, `SessionsKeepToThemselves`, `ThinkingEnds`, `EvidenceIsTrue`, `WalkIsWhole`, `WaitsEnd` |
| `client_views` | four instances: two spaces and 2 calls of the user; one space of 5 messages (windows of 2, pages of 1) with 2 calls and a change by others, or with 3 calls that delete nobody; 4 reads and clears of the panel | `PageCatchesUp`, `ViewFollowsOperator`, `TrajectoryMovesForward` |

`SceneMessages`, `ThinkingTurns` with the two modules above it, and `WorkspaceClient`
take their bounds from the initial state (`bounds \in Bounds`): one run explores several
instances, each deep in one direction, where their product would be out of reach.
`records` does the same with a `CONSTRAINT` (`Bounded` in `MCRecordStore`): records are
appended in the order of their names, since they are only compared, and a reader meets a
store that has not been restarted; restarts are explored without a reader. A constraint
cuts whole states off, so the liveness property of that run speaks of readers only,
whose behaviours it leaves complete up to the bounded queue.

Why the bounds are enough: a conflict over a bot id needs two claimants, and
the main environment is one beside the spaces. A lost write needs a queue of
two; a stale handler needs one handler past its gate. In the record run a page
boundary, a reclaim that takes more than one row and a record behind both need
three records. A rate window needs two windows of calls, that is, times up to
twice its length. A cache of one answer makes every second write an eviction.
Waits do not read one another's state, so one wait is all of them; a ring of two
under four events drops twice. Two messages are two windows on one stack and one
switch of a context; the third delivery is a second bot. A group without an owner
takes one call in its notice and a transfer under it. A branch of a branch of a
branch is the deepest chain whose middle can vanish with both ends left; four
messages over a limit of two or three are evicted twice. A turn is superseded by one
other session; what three would do is left to the proof, as is everything beyond
these numbers for the modules of section 6. A stale answer takes two calls and
one change, a second overtaking a third call. Headers go astray with two requests at
one address and one more sender; a page of 1 over two stores makes every merge a cut,
and the limit of 2 makes the fourth request an eviction under the walk.

### Disagreements: what the documents say and the code does not do

This run checks one property that a document states, and TLC finds it violated;
`PROJECT.json` quotes the lines.

| Run | Property | What happens |
|---|---|---|
| `spaces_early_write` | `MainRowReadBeforeWritten` | a bot's action before the restore overwrites the stored scene |

Other disagreements met while modelling. The models have the steps that lead to
them, no run is kept for them, and the properties above except them by name:

- Spaces: a handler or bot that still holds a deleted space's control saves the
  space again (`forgotten` excepts it); `createBot` after an await starts a bot
  in a space that has ended meanwhile; the constructor of a restored control may
  throw and leave claims nobody gives back (`torn`); a reset after a restart
  restores the stored scene, and the reset of a space is not written (`unsaved`).
- Records: a sequence is handed out again after a clear and a restart
  (`NumbersAreKept` speaks of one process), although a clear is said to keep the
  numbers.
- Calls: a retry that arrives during the first call runs again, although
  `docs/adr/0021` promises the first result; an environment edit overwrites what was
  committed while it awaited an avatar; after a reset, revisions name other scenes; a
  token passes between a reset and the rotation behind it.
- Waits: one that polls across a rotation may be answered with an event of the
  next epoch; a timeout may answer with a cursor past the event waited for, when
  it was appended after the last poll (`overrun` and the epoch except them).
- Deliveries: with two bots in a group the one written last is the assignee for
  good, although `src/channel-assignee.ts` says that an assignee does not drift; a
  failed clear is not tried again, so the contexts of two conversations stay
  mixed after that turn too (`mixed`); while one bot handles events of two
  conversations at once, its history is read from the newer. A bot deleted during
  the awaits of a delivery fails it without a record.
- Relations: leaving and kicking check before the notice they await, so whoever
  became owner meanwhile is removed and the group has none; a friendship with a bot
  is gone from the scene before the notice and from the store only after it.
- Messages: the comments of `readRowMessageIds` and of `clearConversationMessages` say
  that what a branch inherits outlives its source; when a conversation in the middle
  of a chain is cleared, everything it inherits disappears from those that branch off
  it. Files are named by their content, so a failing batch removes a file that
  messages already show; an upload that was sent and reclaimed may be sent again
  without its file. `deleteUser` leaves the messages of a user in groups, with an
  author that `replaceScene` then refuses.
- ChatLuna: `after-chat` names bot and conversation but not the turn, so a late one
  ends the turn of its successor. Where two bots use one chat, the end of one drops
  both from its entry, and an error of the other then leaves it thinking (all
  properties about chats except those: `Shared`); an error that is not clear keeps
  its preset until both turns are over. Tokens of a chat a scope does not know are
  given to the one bot that thinks there, although the comment at
  `src/chatluna/state.ts:317` says they are dropped where it is not clear whose they
  are. Two usage rows that arrive together may be linked to one record
  (`src/chatluna/usage.ts:57`), and an error falls back to a failed record of another
  conversation (`src/chatluna/error.ts:49`); neither is modelled.
- Requests: a fetch that fails before it is sent stays first in line for the headers
  of its address for good, so that every later record there is given those of the
  request after it; so does one that is overtaken, or a request that does not come
  from ChatLuna (`mixed`). A record whose process stops before its answer came is
  pending for ever.
- Pages over all scopes: `docs/adr/0083` calls time and id comparable across scopes, but
  a store cuts its page by sequence; of two records of one millisecond the one with
  the smaller id may be skipped (`tied`). These reads wait for the bodies that are
  being read (`waitForPersistence`), although the comment at
  `src/model-request.ts:276` says that a read must not wait for them.
- Client: a refresh asked for before a change of operator shows the former one's
  snapshot, and an answer of another space is compared by revision and shown
  (`tangled`), although `docs/adr/0039` has every view follow the operator; a history
  page is joined to rows that were replaced since (`disturbed`); when somebody else
  deletes the operator of a page, every refresh fails and it stays as it is, although
  `docs/adr/0012` has it fall back.

`CHECK_DEADLOCK FALSE`: the bounds end every behaviour, and a system without
callers is at rest. `scene_relations` and `scene_messages` never rest and are checked
for deadlock.

## 5. Fairness

Only `spaces_storage`, `records`, `inbound` and `turns_and_requests` assume fairness,
weak fairness of single steps. Of the process: the next task of a promise chain runs
once the one before has settled (`WriteSpace`, `WriteMain`, `Work`, `Recover`), a
pending read goes on (`Snapshot`, `Round`, `CheckCursor`, `Query`), a restore in
progress goes on, a disposal runs once its store has drained, and a delivery and
the call that waits for it go on (`Deliver`, which has the 15 s timer,
`Return`, `Throw`). Node.js runs every settled continuation and every due timer,
and a database call settles or fails; `Deliver` leaves out `MiddlewareFinished`,
since a plugin need never finish. No fairness is assumed of callers, bots, users,
failures, restarts or the clock of the quotas. Of the plugins, `turns_and_requests` assumes
that ChatLuna ends what it begins (`Ends`: a chat by its result or its error, a turn
by the release in the `finally` of `chatluna-character`), which is what
`src/chatluna/character-turn-completion.ts` relies on. It also assumes that a body
that is being read ends or breaks (`BodyEnds`); nothing is assumed of the response
itself, so `WaitsEnd` says that reads and disposals do not wait for one. The disposal
in `spaces_storage` presumes that the bodies of its space have ended.

The client needs none: its properties speak of the states in which nothing is
under way.

## 6. Proofs

Each `Proofs` module finds inductive invariants and proves that they hold in every
reachable state: `Init => Inv`, one lemma per action (or per action and part of the
invariant) for `Inv /\ [Next]_vars => Inv'`, and from that the theorems `PROJECT.json`
lists. They hold for every value of the constants that satisfies the assumptions of the
module, which TLC evaluates on the instances of the runs. These say what kind of thing a
constant is (limits are positive, sets of calls are finite, a sentinel is none of the
values it stands beside) and of the rows an earlier process left behind
(`CaptureAssumption`) that no id is used twice and that no record of a store is timed
before one stored earlier: in the code a record takes its time when it is appended, and
the clock is taken not to go backwards.
Bounds are constants like any other: a theorem does not depend on their values.

| Module | Why the invariant is needed | Theorems |
|---|---|---|
| `TestSpacesProofs` | the registry agrees with the running bots only because controls that are not live run nothing (`IInv`); a row catches up because the last write that is queued for it says what the scene says, or that there is none: for live spaces (`SavedOK`), the main scene (`MainOK`) and deleted spaces nobody holds (`ForgottenOK`), and because until the restore nobody writes to a space that is still to be restored (`LoadOK`) | types, `RegistryAlwaysAgrees`, `BotsAreUnique`, `OccupationHolds`, `ActiveHolds`, `UnreadIsKept`, `StoredScenesHold` |
| `RecordStoreProofs` | the task in progress (`StepOK`), staged and queued records (`OrderOK`, `QueueOK`) stand in the order of the calls and before every sequence to come, so the table stays in order (`TableOK`). A read adds what is due to it: no due append waits behind the position it settles for (`ReadInv`), the summary the cursor is checked against lacks only the newest rows (`SummaryOK`), and every row the walk counts on was given or lies beyond its cursor, where nothing that was given lies (`WalkOK`). For appends: no more of them are lost than calls have failed (`LossOK`); the row of the task in progress is stored by the time it saves or reclaims, and it reclaims only what does not fit (`HeadOK`) | types, `RowsAreOrdered`, `IndexIsExact`, `NothingOverwritten`, `NumbersHold`, `StoreImplementsLog`, `ReadsAreCurrent`, `ReadsHold`, `AppendsHold` |
| `CallProofs` | quotas: the code counts the window that ends now, the property every window: `WindowIsWhole` says that no counted call has been dropped early (`QuotaInv`). Replay: eviction takes the first written, so an answer within its window survives (`CacheOK`); revisions are not used twice within an epoch (`TokensOK`) | `QuotaTypesHold`, `RateHolds`, `GatesHold`, `ConcurrencyHolds`, `LimitsAlwaysHold`, `RetryAfterHolds`; types, `AnswersHold`, `ReplayHolds`, `ConfirmationHolds` |
| `EventFeedProofs` | the cursor check is made once; `RingIsAhead` says it stays true while the wait polls, unless it is overrun, and `CursorOK` that a wait only moves forward | types, `RingHolds`, `WaitsHold`, `VerdictHolds` |
| `InboundDeliveryProofs` | one invariant per promise: `WindowsInv` (the stack as a multiset), `CallInv` (records are those of ended deliveries, and a call's own message is new to it), `AssigneeInv` (what is remembered of a channel is in the table), `ContextInv` (under an unmixed key one delivery at a time is active, and the context is that of the last conversation unless it is being cleared) | types, `WindowsAlwaysRight`, `OutcomesHold`, `AssigneeHolds`, `ContextHolds` |
| `SceneProofs` | relations: `Good` of the scene and of what is saved, kept by every helper and so by every handler built from them; a call in its notice may hold anything, since it removes a member only. Messages: what every commit leaves behind (`Stored`): lists and rows agree (`RowsAndMessagesAgree`), an instance branches off an earlier one (`ForksAreEarlier`), so that reading ends, and every forward is reached from a message (`ForwardsAreReachable`), so that none that is kept nests one that was dropped. An eviction takes the oldest of all messages, hence a prefix of every history, the inherited ones included | types, `SoundnessHolds`, `UnsavedHolds`, `OwnersHold`; `MessagesStayWhole`, `MediaStayKept`, `HistoriesLoseOldestFirst` |
| `ThinkingTurnsProofs` | turns: the end of the session a turn was begun for will end it only because its chat has the bot in its entry or its character turn is the one the store has (`WillEnd`), every turn that runs is waited for (`TurnsAreTracked`), and a preset that outlives its chat stands beside one it cannot be told from (`CorePresetsRunOrAreUnclear`). Requests: a record says what has become of its fetch, and at an address that is not `mixed` those that wait for headers are those not sent yet, each once (`CaptureInv`). Walks: rows are in the order of time, and of ids within one unless `tied` (`RowsInTime`, `RowsInOrder`); whatever is steady is in the pages read, ahead of the cursor, or given (`NoneIsLeftOut`), as a page is cut off only behind what it gives (`PagesAreAhead`) | types, `ThinkingHolds`, `PresetsHold`, `SessionsHold`, `EvidenceHolds`, `WalksHold`, `ReadsKeepEvidence` |
| `WorkspaceClientProofs` | what is shown, on its way and on the server is in the order of time (`OrderInv`), a stale snapshot is followed by a broadcast (`ToldInv`), and a page that is behind will be told, or has asked and will ask again (`CatchUpInv`); one history page is under way over rows that stay (`HistoryInv`, `RowsInv`). For the operator, the calls under way are put in the order of their answers (`Items`): while none reads everything anew, each of them suits the operator of the page (`Suits`), so that the snapshot it brings is that operator's or the one the page falls back to as well (`SwitchInv`); and whoever a snapshot shows and the server does not know any more is being deleted by this page, which has yet to read so (`LostInv`) | `TypesHold`, `PageCatchesUpHolds`, `ViewFollowsHolds`, `TrajectoryHolds` |

Type correctness is proved in each of these modules and not repeated in the runs, except
where a property includes it.

The invariants were checked by TLC on the instances of section 4 before they were proved.
The proofs of the client also mended its model: a load that is refused and repeated
without an operator may itself overtake a call for another space, so it, too, tangles;
and the server's choice of a first participant needs an order among all ids, not a set
of users.

Induction over data is replaced by the least counterexample: what holds of every
instance or list (`ReadInstances`, `Remaining`) is proved by taking the smallest place
where it fails (`Smallest`, from the well-foundedness of the natural numbers) and
showing that it fails before. Recursion is written as recursive functions, whose defining
equation is proved in the same way.

Only model-checked: the five liveness properties (`DeletedSpaceFreesItsBots`,
`ReadTerminates`, `EveryCallEnds`, `ThinkingEnds`, `WaitsEnd`), since the prover does not
reason about fairness. Of the sum over sizes (`TotalBytes`) the proofs use only that the
empty one is zero.

## 7. Not modelled

- Of the collector, what it reads from a request and how a stream is parsed; of the
  record scopes, the look-ups and clears that visit one scope after another.
- The preset repository: it serialises its own writes per path and compares a
  revision hash; what remains is a file edited from outside between the last
  comparison and the rename or unlink, which no code here can prevent.
- The OneBot facade (but for the conversation a history action reads), the model
  evidence projections, the HTTP mapping and the verdict tables of
  `message-capabilities.ts`: stateless translations that unit tests cover better.
- Most of the browser client: rendering, the composer, record lists, the preset
  pages and the analysis views are functions of what `WorkspaceClient` shows to
  arrive in order, or local to one component.
- Edits of the scene are, for the modules that do not model them, one atomic change
  each, which is what they are in the code (no await between check and commit) where
  `CallReplay` and `SceneRelations` do not say otherwise.
- Files on disk other than media (the credential file, exported scenes), directories,
  names and formats.
