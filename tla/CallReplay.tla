----------------------------- MODULE CallReplay -----------------------------
(***************************************************************************)
(* Calls of the test control service that change the scene of an AI test   *)
(* space: the idempotency cache, expectedRevision, the confirmation tokens *)
(* of the destructive tools, and the epoch that bounds them all.           *)
(*                                                                         *)
(* Steps are what runs between two awaits.  A slot is one credential's     *)
(* idempotencyKey for one tool.  The scene is the set of changes it shows; *)
(* a change is a number, in the order of the commits.                      *)
(***************************************************************************)
EXTENDS Naturals, FiniteSets, Sequences

CONSTANTS
  Calls,       \* calls of the idempotent tools, retries among them
  Sends,       \* slots of tools that act at once, then await the bots
  Applies,     \* slots of apply_environment_changes
  Payloads,    \* arguments of the former
  Tokens,      \* confirmation tokens (random: issued once)
  Operations,  \* what a token is bound to: credential, tool and arguments
  Resets,      \* the operations that are reset_scene
  CacheLimit,  \* idempotencyLimit
  MaxChanges,  \* bound: changes of the scene
  MaxEpoch     \* bound: epochs

Slots == Sends \cup Applies

ASSUME ReplayAssumption ==
  /\ Resets \subseteq Operations /\ Sends \cap Applies = {}
  /\ Payloads \cap Nat = {}
  /\ CacheLimit \in Nat \ {0}
  /\ MaxChanges \in Nat /\ MaxEpoch \in Nat

NoKey == <<"none", 0>>
NoOperation == "none"

VARIABLES
  epoch,     \* the run epoch (randomUUID: never used twice)
  scene,     \* the changes the scene shows
  revision,  \* scene.revision
  changes,   \* how many changes were ever made
  cache,     \* idempotency: key, args, the call whose result it is, when it was written
  expired,   \* the write up to which entries are past their expiresAt
  writes,    \* history: the keys of all writes to the cache, in order
  phase,     \* call: "idle", "importing", "acted", "answered", "replayed", "refused", "lost"
  key,       \* its cacheKey, from when it began
  args,      \* its arguments
  base,      \* apply: the snapshot it edits
  began,     \* history: the epoch in which it was made
  source,    \* history: the call whose result it got (replayed)
  made,      \* history: the changes calls made: by which call
  seen,      \* apply slot: the revision its caller read last
  token,     \* confirmations: "none", "valid", "running" (a run awaits), "gone"
  issued     \* token: the operation, the revision and, as history, the scene it was issued for

callVars  == <<phase, key, args, base, began, source>>
sceneVars == <<scene, revision, changes>>
cacheVars == <<cache, expired, writes>>
tokenVars == <<token, issued>>
vars == <<epoch, sceneVars, cacheVars, callVars, made, seen, tokenVars>>

-----------------------------------------------------------------------------
Init ==
  /\ epoch = 1
  /\ scene = {} /\ revision = 0 /\ changes = 0
  /\ cache = {} /\ expired = 0 /\ writes = << >>
  /\ phase = [c \in Calls |-> "idle"]
  /\ key = [c \in Calls |-> NoKey]
  /\ args = [c \in Calls |-> 0]
  /\ base = [c \in Calls |-> {}]
  /\ began = [c \in Calls |-> 0]
  /\ source = [c \in Calls |-> c]
  /\ made = {}
  /\ seen = [s \in Applies |-> 0]
  /\ token = [t \in Tokens |-> "none"]
  /\ issued = [t \in Tokens |-> [operation |-> NoOperation, revision |-> 0, scene |-> {}]]

\* One more change, on top of what the scene shows or of a replacement for it.
Commit(shown) ==
  /\ changes < MaxChanges
  /\ changes' = changes + 1
  /\ scene' = shown \cup {changes + 1}
  /\ revision' = revision + 1

-----------------------------------------------------------------------------
(* Idempotent calls *)

\* Mutant of KeyOf: the key does not name the epoch.
KeyOfAnyEpoch(s) == <<s, 0>>

\* `${credentialId}:${epoch}:${tool}:${key}`
KeyOf(s) == <<s, epoch>>

\* The entry of a key, while it lasts, and what is left of the cache otherwise.
Hits(s)    == {e \in cache : e.key = KeyOf(s) /\ e.at > expired}
Without(s) == {e \in cache : e.key # KeyOf(s)}

\* The arguments a caller may send: apply_environment_changes sends the revision it read.
ArgsOf(s) == IF s \in Applies THEN {seen[s]} ELSE Payloads

\* get_scene_snapshot, before apply_environment_changes.
ReadScene(s) ==
  /\ seen' = [seen EXCEPT ![s] = revision]
  /\ UNCHANGED <<epoch, sceneVars, cacheVars, callVars, made, tokenVars>>

Begin(c, s, a) ==
  /\ phase[c] = "idle" /\ a \in ArgsOf(s)
  /\ key' = [key EXCEPT ![c] = KeyOf(s)]
  /\ args' = [args EXCEPT ![c] = a]
  /\ began' = [began EXCEPT ![c] = epoch]

\* The same call was answered before: its answer again.
Replay(c, s, a) ==
  /\ Begin(c, s, a)
  /\ \E e \in Hits(s) : e.args = a /\ source' = [source EXCEPT ![c] = e.by]
  /\ phase' = [phase EXCEPT ![c] = "replayed"]
  /\ UNCHANGED <<epoch, sceneVars, cacheVars, base, made, seen, tokenVars>>

\* idempotency_conflict
Conflict(c, s, a) ==
  /\ Begin(c, s, a)
  /\ \E e \in Hits(s) : e.args # a
  /\ phase' = [phase EXCEPT ![c] = "refused"]
  /\ UNCHANGED <<epoch, sceneVars, cacheVars, base, source, made, seen, tokenVars>>

\* No answer in the cache: the action runs, and an expired entry goes.
Run(c, s, a) ==
  /\ Begin(c, s, a) /\ Hits(s) = {}
  /\ cache' = Without(s)
  /\ UNCHANGED <<epoch, expired, writes, source, seen, tokenVars>>

\* send_message and its like: the change is made, then the bots are awaited.
Send(c, s, a) ==
  /\ s \in Sends /\ Run(c, s, a)
  /\ Commit(scene)
  /\ made' = made \cup {<<c, changes'>>}
  /\ phase' = [phase EXCEPT ![c] = "acted"]
  /\ UNCHANGED base

\* apply_environment_changes: assertRevision, a clone of the snapshot, then avatars.
Apply(c, s, a) ==
  /\ s \in Applies /\ Run(c, s, a)
  /\ a = revision
  /\ base' = [base EXCEPT ![c] = scene]
  /\ phase' = [phase EXCEPT ![c] = "importing"]
  /\ UNCHANGED <<sceneVars, made>>

\* revision_conflict, or a refusal before anything changed: nothing is remembered.
Refuse(c, s, a) ==
  /\ Run(c, s, a)
  /\ phase' = [phase EXCEPT ![c] = "refused"]
  /\ UNCHANGED <<sceneVars, base, made>>

\* replaceScene with the edited clone.
Replace(c) ==
  /\ phase[c] = "importing"
  /\ Commit(base[c])
  /\ made' = made \cup {<<c, changes'>>}
  /\ phase' = [phase EXCEPT ![c] = "acted"]
  /\ UNCHANGED <<epoch, cacheVars, key, args, base, began, source, seen, tokenVars>>

\* An avatar could not be fetched, or the scene is not valid.
Fail(c) ==
  /\ phase[c] = "importing"
  /\ phase' = [phase EXCEPT ![c] = "refused"]
  /\ UNCHANGED <<epoch, sceneVars, cacheVars, key, args, base, began, source, made, seen, tokenVars>>

\* Mutant of Store: the newest entry is evicted.
StoreEvictingNewest(kept) ==
  \/ Cardinality(kept) <= CacheLimit /\ cache' = kept
  \/ /\ Cardinality(kept) > CacheLimit
     /\ \E e \in kept : (\A f \in kept : e.at >= f.at) /\ cache' = kept \ {e}

\* One entry was added: at most one, the first written, has to go.
Store(kept) ==
  \/ Cardinality(kept) <= CacheLimit /\ cache' = kept
  \/ /\ Cardinality(kept) > CacheLimit
     /\ \E e \in kept : (\A f \in kept : e.at <= f.at) /\ cache' = kept \ {e}

NewEntry(c) == [key |-> key[c], args |-> args[c], by |-> c, at |-> Len(writes) + 1]

\* The action has returned: rememberIdempotentResult, under the key the call began with.
Remember(c) ==
  /\ phase[c] = "acted"
  /\ phase' = [phase EXCEPT ![c] = "answered"]
  /\ writes' = Append(writes, key[c])
  /\ Store({e \in cache : e.at > expired /\ e.key # key[c]} \cup {NewEntry(c)})
  /\ UNCHANGED <<epoch, sceneVars, expired, key, args, base, began, source, made, seen, tokenVars>>

\* Time passes: the oldest write expires (all last equally long).
Expire ==
  /\ expired < Len(writes)
  /\ expired' = expired + 1
  /\ UNCHANGED <<epoch, sceneVars, cache, writes, callVars, made, seen, tokenVars>>

\* Bots, users and other tools change the scene at any time.
OthersAct ==
  /\ Commit(scene)
  /\ UNCHANGED <<epoch, cacheVars, callVars, made, seen, tokenVars>>

-----------------------------------------------------------------------------
(* Destructive calls *)

\* prepare_destructive_action with the revision as it is.
Prepare(t, o) ==
  /\ token[t] = "none"
  /\ token' = [token EXCEPT ![t] = "valid"]
  /\ issued' = [issued EXCEPT ![t] = [operation |-> o, revision |-> revision, scene |-> scene]]
  /\ UNCHANGED <<epoch, sceneVars, cacheVars, callVars, made, seen>>

\* A minute has passed; it was used for something else or on another revision; or the
\* operation was refused: the token is deleted before it is looked at.
Void(t) ==
  /\ token[t] = "valid"
  /\ token' = [token EXCEPT ![t] = "gone"]
  /\ UNCHANGED <<epoch, sceneVars, cacheVars, callVars, made, seen, issued>>

\* withConfirmation: issued, not used, and the revision is as it was.
Confirmed(t) == token[t] = "valid" /\ issued[t].revision = revision

\* The initial scene, and its revision.
ResetScene ==
  /\ scene' = {} /\ revision' = 0
  /\ UNCHANGED changes

\* The token is spent and the operation runs; all but a reset replace the scene.
Confirm(t) ==
  /\ Confirmed(t)
  /\ token' = [token EXCEPT ![t] = "running"]
  /\ IF issued[t].operation \in Resets THEN ResetScene ELSE Commit({})
  /\ UNCHANGED <<epoch, cacheVars, callVars, made, seen, issued>>

\* Mutant of Forgotten: the tokens stay.
ForgottenNone == token

\* Who runs with a token does not look at it again.
Forgotten == [t \in Tokens |-> IF token[t] = "valid" THEN "gone" ELSE token[t]]

NewEpoch ==
  /\ epoch < MaxEpoch
  /\ epoch' = epoch + 1
  /\ cache' = {}

\* After the await of the run: rotateEpoch, which forgets the answers and the tokens.
Rotate(t) ==
  /\ token[t] = "running" /\ NewEpoch
  /\ token' = [Forgotten EXCEPT ![t] = "gone"]
  /\ UNCHANGED <<sceneVars, expired, writes, callVars, made, seen, issued>>

\* The plugin starts anew: the space and its scene were stored, nothing else was.
Restart ==
  /\ NewEpoch
  /\ phase' = [c \in Calls |-> IF phase[c] \in {"importing", "acted"} THEN "lost" ELSE phase[c]]
  /\ token' = [t \in Tokens |-> IF token[t] = "none" THEN "none" ELSE "gone"]
  /\ UNCHANGED <<sceneVars, expired, writes, key, args, base, began, source, made, seen, issued>>

-----------------------------------------------------------------------------
NextCall ==
  \E c \in Calls :
    \/ \E s \in Slots, a \in Payloads \cup 0 .. MaxChanges :
         Replay(c, s, a) \/ Conflict(c, s, a) \/ Refuse(c, s, a) \/ Send(c, s, a) \/ Apply(c, s, a)
    \/ Replace(c) \/ Fail(c) \/ Remember(c)
NextDestructive ==
  \E t \in Tokens : (\E o \in Operations : Prepare(t, o)) \/ Void(t) \/ Confirm(t) \/ Rotate(t)
Next ==
  \/ NextCall \/ NextDestructive
  \/ \E s \in Applies : ReadScene(s)
  \/ Expire \/ OthersAct \/ Restart
Spec == Init /\ [][Next]_vars

-----------------------------------------------------------------------------
(* Properties *)

Changes   == 1 .. changes
Scenes    == SUBSET Changes
Keys      == (Slots \X (1 .. epoch)) \cup {NoKey}
Arguments == Payloads \cup Nat
Entry     == [key : Keys, args : Arguments, by : Calls, at : 1 .. Len(writes)]

\* The cache is never larger than its limit.
TypeOK ==
  /\ epoch \in Nat \ {0}
  /\ changes \in Nat /\ revision \in Nat /\ scene \in Scenes
  /\ cache \subseteq Entry /\ Cardinality(cache) <= CacheLimit
  /\ writes \in Seq(Keys) /\ expired \in 0 .. Len(writes)
  /\ phase \in [Calls -> {"idle", "importing", "acted", "answered", "replayed", "refused", "lost"}]
  /\ key \in [Calls -> Keys]
  /\ args \in [Calls -> Arguments]
  /\ base \in [Calls -> Scenes]
  /\ began \in [Calls -> 0 .. epoch]
  /\ source \in [Calls -> Calls]
  /\ made \subseteq Calls \X Changes
  /\ seen \in [Applies -> Nat]
  /\ token \in [Tokens -> {"none", "valid", "running", "gone"}]
  /\ issued \in [Tokens -> [operation : Operations \cup {NoOperation}, revision : Nat, scene : Scenes]]

\* The window the tools declare: the i-th write has not expired, no later write has its
\* key, and fewer other keys than the cache holds were written since.
Promised(i) ==
  /\ i > expired
  /\ writes[i][2] = epoch
  /\ \A j \in i + 1 .. Len(writes) : writes[j] # writes[i]
  /\ Cardinality({writes[j] : j \in i + 1 .. Len(writes)}) < CacheLimit

\* Within the declared window an answer is there to be replayed, whatever else was
\* written, expired or purged meanwhile: a retry does not act again.
AnswersAreKept ==
  \A i \in 1 .. Len(writes) : Promised(i) => \E e \in cache : e.key = writes[i] /\ e.at = i

\* A replayed answer is that of a call of the same epoch, with the same arguments: the
\* answer of a call that was under way when the epoch was rotated is never given again.
ReplayIsOfThisEpoch ==
  \A c \in Calls : phase[c] = "replayed" => began[source[c]] = began[c] /\ args[source[c]] = args[c]

\* A destructive operation acts on the scene its token was issued on, unless another
\* one has acted whose rotation is still to come.
ReviewedSceneOnly ==
  [][\A t \in Tokens :
       token[t] = "valid" /\ token'[t] = "running" /\ (\A u \in Tokens : token[u] # "running")
         => scene = issued[t].scene]_vars

=============================================================================
