---------------------------- MODULE ThinkingTurns ----------------------------
(***************************************************************************)
(* How the sandbox follows what ChatLuna does for its bots: which bot is   *)
(* thinking in which conversation, which model requests, tokens and        *)
(* presets that takes, and on which replies it all ends up. It sees events *)
(* only: the core plugin announces a chat and its end, an error without    *)
(* saying for whom; chatluna-character announces a turn, perhaps its       *)
(* answer, and releases a lock at the end of every turn, which the sandbox *)
(* watches by wrapping the method of the service instance in use. Either   *)
(* plugin may run for a session, or both, in any overlap, and              *)
(* chatluna-character may be reloaded in the middle.                       *)
(*                                                                         *)
(* A key is a bot in a conversation; every scope (the main environment, a  *)
(* test space) keeps a store of the keys it has. ChatLuna is the           *)
(* environment: its sessions do what the events allow, once each.          *)
(***************************************************************************)
EXTENDS Naturals, Sequences, FiniteSets

CONSTANTS
  Keys,
  Sessions, KeyOf,     \* the key a session is for
  Chats,               \* ChatLuna's own conversation ids
  Scopes,
  None,
  Bounds               \* the instances to explore

ASSUME TurnsAssumption ==
  /\ KeyOf \in [Sessions -> Keys]
  /\ None \notin Keys \cup Sessions \cup Chats \cup {"done"} /\ "done" \notin Chats
  /\ IsFiniteSet(Keys)
  /\ \A b \in Bounds :
       /\ b.scopeOf \in [Keys -> Scopes]  \* the scope a key is in
       /\ b.users \in [Chats -> SUBSET Keys]  \* who may use a chat
       /\ b.sessions \subseteq Sessions   \* those that run
       /\ b.tokens \in BOOLEAN            \* whether token usage is announced
       /\ b.replies \in Nat               \* replies sent
       /\ b.reloads \in Nat               \* reloads of chatluna-character
       /\ b.forgets \in Nat               \* conversations cleared

VARIABLES
  bounds,    \* the bounds of this run, chosen once
  chat,      \* of each session: the core chat that runs for it (None), "done" after it
  turns,     \* service and session of the character turns that run
  answered,  \* sessions whose character turn announced its answer or is over
  service,   \* the instance of chatluna_character in use
  store,     \* SandboxChatLunaStateStore, of all scopes together
  tracked,   \* turns the wrapped method waits for (CompletionObserver)
  presets,   \* PresetRuntimeSnapshotTracker.active: kind, session and chat of the presets in use
  replies,   \* bot messages: key (None once deleted), turn of the key, turn whose requests it shows
  begun,     \* ghost: how many turns the store began for each key, and for whom the last
  forgotten  \* conversations cleared so far

vars == <<bounds, chat, turns, answered, service, store, tracked, presets, replies, begun,
          forgotten>>

----------------------------------------------------------------------------
(* The environment. *)

Services == 0..bounds.reloads
Chatting(s) == chat[s] \in Chats
InTurn(s) == \E v \in Services : <<v, s>> \in turns
Running(s) == Chatting(s) \/ InTurn(s)
ScopeOf(k) == bounds.scopeOf[k]
Shared == \E c \in Chats : Cardinality(bounds.users[c]) > 1

----------------------------------------------------------------------------
(* The store. *)

EmptyStore ==
  [state |-> [k \in Keys |-> "none"],       \* none, thinking, done (SandboxChatLunaState)
   usage |-> [k \in Keys |-> FALSE],        \* tokens were added up
   index |-> [c \in Chats |-> {}],          \* keys of a core chat (activeStateKeys)
   requests |-> [k \in Keys |-> FALSE],     \* model requests were made (modelRequests)
   captured |-> [k \in Keys |-> {}],        \* replies of the turn (replyMessageIds)
   keyOf |-> [s \in Sessions |-> None],     \* characterSessionStateKeys
   character |-> [k \in Keys |-> None],     \* activeCharacterSessions
   core |-> [k \in Keys |-> None]]          \* activeCoreSessions

Thinking(st) == {k \in Keys : st.state[k] = "thinking"}
InScope(keys, p) == {k \in keys : ScopeOf(k) = p}
Sole(set) == IF Cardinality(set) = 1 THEN set ELSE {}
Put(f, ks, value) == [k \in Keys |-> IF k \in ks THEN value ELSE f[k]]

Detach(st, ks) ==
  [st EXCEPT !.character = Put(@, ks, None), !.core = Put(@, ks, None),
             !.index = [c \in Chats |-> @[c] \ ks]]

\* The states are deleted with what was recorded for them.
Dropped(st, ks) ==
  [st EXCEPT !.state = Put(@, ks, "none"), !.usage = Put(@, ks, FALSE),
             !.requests = Put(@, ks, FALSE), !.captured = Put(@, ks, {})]

\* A turn of the key starts afresh.
Afresh(st, k) == [Dropped(Detach(st, {k}), {k}) EXCEPT !.state[k] = "thinking"]

\* Mutant of SameTurn: whoever thinks goes on.
SameTurnAny(st, s) == st.state[KeyOf[s]] = "thinking"

\* The character plugin reports a session again, or one the core began.
SameTurn(st, s) ==
  LET k == KeyOf[s] IN st.state[k] = "thinking" /\ s \in {st.character[k], st.core[k]}

\* Mutant of FinishesFor: a session that was superseded ends the turn all the same.
FinishesForAny(st, s) == st.keyOf[s] # None /\ st.state[st.keyOf[s]] = "thinking"

\* Whether a character session is the one the turn of its key is for.
FinishesFor(st, s) ==
  /\ st.keyOf[s] # None /\ st.character[st.keyOf[s]] = s
  /\ st.state[st.keyOf[s]] = "thinking"

\* The turns of these keys are over: what was recorded is dropped, except the tokens.
Finished(st, ks) ==
  LET known == {k \in ks : st.state[k] # "none"}
  IN  [Detach(st, known) EXCEPT
         !.state = Put(@, known, "done"), !.requests = Put(@, known, FALSE),
         !.captured = Put(@, known, {})]

Latest(k) ==
  LET own == {m \in DOMAIN replies : replies[m].key = k}
  IN  {m \in own : \A n \in own : n <= m}

\* The replies a turn's requests end up on: the captured ones or, where the caller allows
\* it, the bot's latest message in the conversation.
ShownOn(st, k, fallback) ==
  IF st.captured[k] # {} THEN st.captured[k] ELSE IF fallback THEN Latest(k) ELSE {}

Archived(st, ks, fallback) ==
  [m \in DOMAIN replies |->
     LET k == replies[m].key IN
     IF k \in ks /\ m \in ShownOn(st, k, fallback) /\ st.state[k] # "none" /\ st.requests[k]
       THEN [replies[m] EXCEPT !.of = begun[k].turn]
       ELSE replies[m]]

Begun(k, s) == begun' = [begun EXCEPT ![k] = [turn |-> @.turn + 1, by |-> s]]

----------------------------------------------------------------------------
(* The presets in use. *)

Preset(kind, s, c) == [kind |-> kind, session |-> s, chat |-> c]
PresetsOf(k) == {p \in presets : KeyOf[p.session] = k}

\* What a request of the key records: of each kind, the preset of the one turn there is.
ShownPresets(k) ==
  UNION {Sole({p \in PresetsOf(k) : p.kind = kind}) : kind \in {"core", "character"}}

\* Mutant of EndedCore: if it is not clear which one ended, it is one of them.
EndedCoreAny(c, ks) ==
  LET of == {p \in presets : p.kind = "core" /\ p.chat = c /\ KeyOf[p.session] \in ks}
  IN  IF of = {} THEN presets ELSE presets \ {CHOOSE p \in of : TRUE}

\* A core preset ends with its chat, if it is clear which one it is.
EndedCore(c, ks) ==
  presets \ Sole({p \in presets : p.kind = "core" /\ p.chat = c /\ KeyOf[p.session] \in ks})

EndedCharacter(s) == presets \ {Preset("character", s, None)}

----------------------------------------------------------------------------

Init ==
  /\ bounds \in Bounds
  /\ chat = [s \in Sessions |-> None] /\ turns = {} /\ answered = {} /\ service = 0
  /\ store = EmptyStore
  /\ tracked = {} /\ presets = {} /\ replies = <<>>
  /\ begun = [k \in Keys |-> [turn |-> 0, by |-> None]] /\ forgotten = 0

(* The core plugin. *)

\* chatluna/before-chat.
BeforeChat(s, c) ==
  LET k == KeyOf[s] IN
  /\ chat[s] = None /\ s \in bounds.sessions
  /\ k \in bounds.users[c]
  /\ chat' = [chat EXCEPT ![s] = c]
  /\ store' = [Afresh(store, k) EXCEPT !.index[c] = @ \cup {k}, !.core[k] = s]
  /\ presets' = presets \cup {Preset("core", s, c)}
  /\ Begun(k, s)
  /\ UNCHANGED <<bounds, turns, answered, service, tracked, replies, forgotten>>

\* What the end of a chat does to the stores. One that knows the session's key finishes it;
\* the others finish the chat's one key there, or drop the chat's keys if there are several,
\* as it is not known whose end it is.
ChatEnds(s, c, of) ==
  LET sole(p) == IF InScope(of, p) # {} THEN of ELSE Sole(InScope(store.index[c], p))
      over == UNION {sole(p) : p \in Scopes}
      unclear == {k \in store.index[c] : sole(ScopeOf(k)) = {}}
  IN
  /\ chat' = [chat EXCEPT ![s] = "done"]
  /\ replies' = Archived(store, over, TRUE)
  /\ store' = [Dropped(Finished(store, over), unclear) EXCEPT !.index[c] = {}]
  /\ UNCHANGED <<bounds, turns, answered, service, tracked, begun, forgotten>>

\* chatluna/after-chat names the session.
AfterChat(s) ==
  /\ Chatting(s)
  /\ ChatEnds(s, chat[s], {KeyOf[s]})
  /\ presets' = EndedCore(chat[s], {KeyOf[s]})

\* chatluna/after-chat-error names the chat only.
ChatFails(s) ==
  /\ Chatting(s)
  /\ ChatEnds(s, chat[s], {})
  /\ presets' = EndedCore(chat[s], Keys)

----------------------------------------------------------------------------
(* The character plugin. *)

\* Mutant of Tracked: only the service in use is watched.
TrackedNow(s) == {t \in tracked : t[1] = service} \cup {<<service, s>>}

\* The service in use is wrapped; an earlier instance stays so while it has turns to end.
Tracked(s) == tracked \cup {<<service, s>>}

\* chatluna_character/message_collect.
Collect(s) ==
  LET k == KeyOf[s]
      known == [store EXCEPT !.keyOf[s] = k]
  IN
  /\ s \notin answered /\ ~InTurn(s) /\ s \in bounds.sessions
  /\ turns' = turns \cup {<<service, s>>}
  /\ tracked' = Tracked(s)
  /\ IF SameTurn(store, s)
       THEN store' = [known EXCEPT !.character[k] = s] /\ UNCHANGED begun
       ELSE store' = [Afresh(known, k) EXCEPT !.character[k] = s] /\ Begun(k, s)
  /\ UNCHANGED <<bounds, chat, answered, service, presets, replies, forgotten>>

\* chatluna_character/before-chat: the turn has a preset.
UsePreset(s) ==
  /\ InTurn(s) /\ s \notin answered
  /\ presets' = presets \cup {Preset("character", s, None)}
  /\ UNCHANGED <<bounds, chat, turns, answered, service, store, tracked, replies, begun, forgotten>>

\* finishCharacterTurn of the stores: only the session the turn is for ends it, once.
FinishCharacterTurn(s, fallback) ==
  LET k == store.keyOf[s] IN
  /\ store' = [Finished(store, IF FinishesFor(store, s) THEN {k} ELSE {}) EXCEPT
                 !.keyOf[s] = None,
                 !.character = [j \in Keys |-> IF j = k /\ @[j] = s THEN None ELSE @[j]]]
  /\ replies' = IF FinishesFor(store, s) THEN Archived(store, {k}, fallback) ELSE replies

\* chatluna_character/after-chat, before the lock is released.
Answer(s) ==
  /\ s \notin answered /\ InTurn(s)
  /\ answered' = answered \cup {s}
  /\ FinishCharacterTurn(s, TRUE)
  /\ presets' = EndedCharacter(s)
  /\ UNCHANGED <<bounds, chat, turns, service, tracked, begun, forgotten>>

\* releaseResponseLock of the instance that runs the turn: answered, failed, or given up.
Release(v, s) ==
  /\ <<v, s>> \in turns
  /\ turns' = turns \ {<<v, s>>}
  /\ answered' = answered \cup {s}
  /\ tracked' = tracked \ {<<v, s>>}
  /\ IF <<v, s>> \in tracked
       THEN FinishCharacterTurn(s, FALSE) /\ presets' = EndedCharacter(s)
       ELSE UNCHANGED <<store, replies, presets>>
  /\ UNCHANGED <<bounds, chat, service, begun, forgotten>>

\* Another instance is in use from now on; turns of the former one still end there.
Reload ==
  /\ service < bounds.reloads
  /\ service' = service + 1
  /\ UNCHANGED <<bounds, chat, turns, answered, store, tracked, presets, replies, begun, forgotten>>

----------------------------------------------------------------------------
(* What happens in a turn. *)

\* A bot's message is captured by the turn of its key.
Reply(s) ==
  LET k == KeyOf[s]  m == Len(replies) + 1 IN
  /\ Running(s) /\ Len(replies) < bounds.replies
  /\ replies' = Append(replies, [key |-> k, turn |-> begun[k].turn, of |-> 0])
  /\ store' = IF store.state[k] = "thinking" THEN [store EXCEPT !.captured[k] = @ \cup {m}] ELSE store
  /\ UNCHANGED <<bounds, chat, turns, answered, service, tracked, presets, begun, forgotten>>

\* A model request belongs to the one key that thinks, anywhere; to none if several do.
\* (Of several keys of one scope it gets the scope only, and no reply.)
Request(s) ==
  /\ Running(s)
  /\ store' = [store EXCEPT !.requests = Put(@, Sole(Thinking(store)), TRUE)]
  /\ UNCHANGED <<bounds, chat, turns, answered, service, tracked, presets, replies, begun, forgotten>>

\* Whose tokens a scope takes them to be: of the chat's one key; if the scope does not know
\* the chat, of the one key that thinks there.
UsageKeys(c, p) ==
  LET of == IF c \in Chats THEN InScope(store.index[c], p) ELSE {}
  IN  Sole(IF of # {} THEN of ELSE InScope(Thinking(store), p))

\* chatluna/model-usage: with the chat, where it is the core's.
Usage(s) ==
  LET keys == UNION {UsageKeys(chat[s], p) : p \in Scopes} IN
  /\ Running(s) /\ bounds.tokens
  /\ store' = [store EXCEPT !.usage =
                 Put(@, {k \in keys : store.state[k] # "none"}, TRUE)]
  /\ UNCHANGED <<bounds, chat, turns, answered, service, tracked, presets, replies, begun, forgotten>>

\* The conversation is cleared: its messages go, and its states with all about them.
Forget(k) ==
  /\ forgotten < bounds.forgets /\ forgotten' = forgotten + 1
  /\ store' = IF store.state[k] = "none" THEN store ELSE Dropped(Detach(store, {k}), {k})
  /\ replies' = [m \in DOMAIN replies |->
                   IF replies[m].key = k THEN [replies[m] EXCEPT !.key = None] ELSE replies[m]]
  /\ UNCHANGED <<bounds, chat, turns, answered, service, tracked, presets, begun>>

----------------------------------------------------------------------------

Core == \E s \in Sessions : AfterChat(s) \/ ChatFails(s) \/ \E c \in Chats : BeforeChat(s, c)
Character ==
  \/ \E s \in Sessions : Collect(s) \/ UsePreset(s) \/ Answer(s) \/ \E v \in Services : Release(v, s)
  \/ Reload
Turn == \E s \in Sessions : Reply(s) \/ Request(s) \/ Usage(s)

Next == Core \/ Character \/ Turn \/ \E k \in Keys : Forget(k)

\* ChatLuna ends what it begins: a chat by its result or its error, a turn by its release.
Ends(s) == AfterChat(s) \/ ChatFails(s) \/ \E v \in Services : Release(v, s)
Fairness == \A s \in Sessions : WF_vars(Ends(s))

Spec == Init /\ [][Next]_vars /\ Fairness

----------------------------------------------------------------------------
(* Properties. *)

Stores ==
  [state : [Keys -> {"none", "thinking", "done"}],
   usage : [Keys -> BOOLEAN], requests : [Keys -> BOOLEAN],
   index : [Chats -> SUBSET Keys],
   captured : [Keys -> SUBSET Nat],
   keyOf : [Sessions -> Keys \cup {None}],
   character : [Keys -> Sessions \cup {None}],
   core : [Keys -> Sessions \cup {None}]]

TypeOK ==
  /\ bounds \in Bounds
  /\ chat \in [Sessions -> Chats \cup {None, "done"}]
  /\ turns \subseteq Services \X Sessions /\ tracked \subseteq Services \X Sessions
  /\ answered \subseteq Sessions /\ service \in Services
  /\ store \in Stores
  /\ presets \subseteq
       [kind : {"core", "character"}, session : Sessions, chat : Chats \cup {None}]
  /\ replies \in Seq([key : Keys \cup {None}, turn : Nat, of : Nat])
  /\ begun \in [Keys -> [turn : Nat, by : Sessions \cup {None}]]
  /\ forgotten \in Nat

\* A chat's entry holds bots that think, and a bot in a conversation is in one entry only:
\* an error, or tokens, of a chat are never given to a turn that is over or to another
\* chat's (activeStateKeys in begin, finish and finishState).
IndexIsOfThinking ==
  /\ \A c \in Chats : store.index[c] \subseteq Thinking(store)
  /\ \A c, d \in Chats : c # d => store.index[c] \cap store.index[d] = {}

\* While two bots do not use one chat, a bot that is shown as thinking has a session that
\* runs, the one its turn was begun for: however the two plugins overlap, fail, or are
\* reloaded, the end of that session ends it (observeCharacterTurnCompletion).
ThinkingHasAnOwner ==
  ~Shared => \A k \in Thinking(store) : begun[k].by # None /\ Running(begun[k].by)

\* Whoever is shown as thinking does think.
ThinkingIsTrue == IndexIsOfThinking /\ ThinkingHasAnOwner

\* A preset recorded with a request is that of a turn that runs (getActiveSnapshots): where
\* it is not clear which turn ended, none is shown.
ShownPresetIsInUse ==
  ~Shared => \A k \in Keys : \A p \in ShownPresets(k) : Running(p.session)

\* A character session whose turn was superseded by another one of the same bot and
\* conversation ends nothing when it answers or is released (finishCharacterTurn).
StaleSessionEndsNothing ==
  [][ \A s \in Sessions : (Answer(s) \/ \E v \in Services : Release(v, s))
        => \A k \in Thinking(store) \ Thinking(store)' : begun[k].by = s ]_vars

\* A turn that ends without an answer leaves its requests on its own replies only, never on
\* the last message of an earlier turn (finishState's allowReplyFallback).
ReleaseArchivesOwnReplies ==
  [][ \A s \in Sessions : (\E v \in Services : Release(v, s))
        => \A m \in DOMAIN replies : replies'[m].of # replies[m].of => replies'[m].of = replies[m].turn ]_vars

\* The end of a session concerns its own turn and its own replies.
SessionsKeepToThemselves == StaleSessionEndsNothing /\ ReleaseArchivesOwnReplies

\* While two bots do not use one chat, no bot thinks for ever: a session runs once, so there
\* comes a time when nobody thinks.
ThinkingEnds == (~Shared /\ Thinking(store) # {}) ~> Thinking(store) = {}
=============================================================================
