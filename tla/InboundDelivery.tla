--------------------------- MODULE InboundDelivery ---------------------------
(***************************************************************************)
(* Delivery of a message to the virtual bots of its conversation: the      *)
(* assignee of the Koishi channel, the context of chatluna-character, the  *)
(* window in which a bot handles the event, the delivery records, and the  *)
(* send_message call that waits for all of it.                             *)
(*                                                                         *)
(* All deliveries run concurrently; a step is what runs between two awaits.*)
(* A conversation is a root (a contact) or an instance of one; plugins know*)
(* contacts only.                                                          *)
(***************************************************************************)
EXTENDS Naturals, Sequences, FiniteSets

CONSTANTS
  Bots,
  Conversations,
  Root,           \* conversation -> the root it is an instance of, or itself
  SessionKey,     \* conversation -> the key chatluna-character files it under
  Groups,         \* the conversations of groups
  Peer,           \* the others -> the bot they are with
  NoConversation,
  Stranger,       \* an assignee of the channel table that is no bot of the scene
  MaxMessages,    \* bound: messages sent
  MaxDeliveries,  \* bound: deliveries begun
  MaxTroubles     \* bound: failures, and changes of the scene under way

ASSUME DeliveryAssumption ==
  /\ Root \in [Conversations -> Conversations]
  /\ \A c \in Conversations : Root[Root[c]] = Root[c]
  /\ DOMAIN SessionKey = Conversations
  /\ Groups \subseteq Conversations
  /\ Peer \in [Conversations \ Groups -> Bots]
  /\ NoConversation \notin Conversations /\ Stranger \notin Bots
  /\ MaxMessages \in Nat /\ MaxDeliveries \in Nat /\ MaxTroubles \in Nat

\* Messages are numbered as they are sent (random ids in the code).
Messages == 1 .. MaxMessages
Deliveries == Messages \X Bots
Roots == {Root[c] : c \in Conversations}
Keys == {SessionKey[c] : c \in Conversations}

VARIABLES
  stored,     \* messages in the scene
  profiles,   \* bots in the scene
  runtime,    \* runtimeBots
  conv,       \* the conversation of each message sent
  phase,      \* delivery: "none", "writing" (the channel row), "aligned", "clearing" (the
              \*   plugin), "ready", "handling" (in the window), "delivered", "failed"
  aligned,    \* SandboxChannelAssignee.aligned: bot and channel
  assignee,   \* the channel table of Koishi
  missed,     \* history: deliveries whose write of the channel failed
  last,       \* SandboxChatLunaCharacterContext.lastConversationIds
  context,    \* plugin, which is installed: the conversations whose messages a key holds
  mixed,      \* history: keys the promise about their context does not cover
  stack,      \* InboundEventConversations: the stack of a bot
  records,    \* botDeliveries
  errors,     \* error records in the OneBot debug log, of each delivery
  call,       \* send_message: "none", "waiting", "returned", "thrown"
  before,     \* its previousMessageIds
  announced,  \* deliveries whose event was appended
  troubles

sceneVars == <<stored, profiles, runtime>>
alignVars == <<aligned, assignee, missed>>
followVars == <<last, context, mixed>>
callVars == <<call, before, announced>>
vars == <<sceneVars, conv, phase, alignVars, followVars, stack, records, errors, callVars, troubles>>

Sent == {m \in Messages : conv[m] # NoConversation}

Init ==
  /\ stored = {}
  /\ profiles = Bots /\ runtime = Bots
  /\ conv = [m \in Messages |-> NoConversation]
  /\ phase = [d \in Deliveries |-> "none"]
  /\ aligned = {}
  /\ assignee = [c \in Groups |-> Stranger]
  /\ missed = {}
  /\ last = [k \in Bots \X Keys |-> NoConversation]
  /\ context = [k \in Keys |-> {}]
  /\ mixed = {}
  /\ stack = [b \in Bots |-> << >>]
  /\ records = {}
  /\ errors = [d \in Deliveries |-> 0]
  /\ call = [m \in Messages |-> "none"]
  /\ before = [m \in Messages |-> {}]
  /\ announced = {}
  /\ troubles = 0

-----------------------------------------------------------------------------
(* Sending *)

\* Something else goes wrong, or on, meanwhile.
Trouble == troubles < MaxTroubles /\ troubles' = troubles + 1

\* Where a delivery stands after its steps up to the first await: without a runtime bot it
\* fails, and the channel of a group is written unless it was written for this bot before.
Begun(b, c) ==
  IF b \notin runtime THEN "failed"
  ELSE IF c \in Groups /\ <<b, c>> \notin aligned THEN "writing" ELSE "aligned"

\* resolveRecipientBots: enabled members of the group but the author, or the enabled peer.
Recipients(c) == SUBSET (IF c \in Groups THEN profiles ELSE profiles \cap {Peer[c]})

\* The message is in the scene; deliverMessage begins all its deliveries.
Send(m, c) ==
  /\ m \notin Sent /\ 1 .. m - 1 \subseteq Sent
  /\ conv' = [conv EXCEPT ![m] = c]
  /\ before' = [before EXCEPT ![m] = stored]
  /\ stored' = stored \cup {m}
  /\ call' = [call EXCEPT ![m] = "waiting"]
  /\ \E R \in Recipients(c) :
       /\ Cardinality({d \in Deliveries : phase[d] # "none"}) + Cardinality(R) <= MaxDeliveries
       /\ phase' = [d \in Deliveries |->
                      IF d[1] = m /\ d[2] \in R THEN Begun(d[2], c) ELSE phase[d]]
       /\ errors' = [d \in Deliveries |->
                       IF d[1] = m /\ d[2] \in R \ runtime THEN 1 ELSE errors[d]]
  /\ UNCHANGED <<profiles, runtime, alignVars, followVars, stack, records, announced, troubles>>

\* Mutant of AllDelivered: one is enough.
OneDelivered(m) ==
  \/ \E b \in Bots : phase[<<m, b>>] = "delivered"
  \/ \A b \in Bots : phase[<<m, b>>] = "none"

\* Promise.all: every delivery has ended well.
AllDelivered(m) == \A b \in Bots : phase[<<m, b>>] \in {"none", "delivered"}

\* The deliveries of messages that were not in the scene when the call began.
NewRecords(m) == {d \in records : d[1] \in stored \ before[m]}

\* sendMessage goes on: an event for every delivery of a message that is new since.
Return(m) ==
  /\ call[m] = "waiting" /\ AllDelivered(m)
  /\ call' = [call EXCEPT ![m] = "returned"]
  /\ announced' = announced \cup NewRecords(m)
  /\ UNCHANGED <<sceneVars, conv, phase, alignVars, followVars, stack, records, errors, before,
                 troubles>>

\* The first delivery that fails ends the call; the others go on unobserved.
Throw(m) ==
  /\ call[m] = "waiting" /\ \E b \in Bots : phase[<<m, b>>] = "failed"
  /\ call' = [call EXCEPT ![m] = "thrown"]
  /\ UNCHANGED <<sceneVars, conv, phase, alignVars, followVars, stack, records, errors, before,
                 announced, troubles>>

-----------------------------------------------------------------------------
(* Before the event is dispatched *)

Move(d, from, to) == phase[d] = from /\ phase' = [phase EXCEPT ![d] = to]

\* The channel row is written, then remembered.
AlignWritten(m, b) ==
  /\ Move(<<m, b>>, "writing", "aligned")
  /\ assignee' = [assignee EXCEPT ![conv[m]] = b]
  /\ aligned' = aligned \cup {<<b, conv[m]>>}
  /\ UNCHANGED <<sceneVars, conv, missed, followVars, stack, records, errors, callVars, troubles>>

\* Mutant of AlignFails: the failed write is remembered as done.
AlignFailsRemembered(m, b) ==
  /\ Trouble
  /\ Move(<<m, b>>, "writing", "aligned")
  /\ aligned' = aligned \cup {<<b, conv[m]>>}
  /\ missed' = missed \cup {<<m, b>>}
  /\ UNCHANGED <<sceneVars, conv, assignee, followVars, stack, records, errors, callVars>>

\* The write fails, or there is no database: a line in the log, and the delivery goes on.
AlignFails(m, b) ==
  /\ Trouble
  /\ Move(<<m, b>>, "writing", "aligned")
  /\ missed' = missed \cup {<<m, b>>}
  /\ UNCHANGED <<sceneVars, conv, aligned, assignee, followVars, stack, records, errors, callVars>>

\* What ADR-0080 promises about the context of a key needs its messages to be handled one
\* at a time, and by one bot: chatluna-character keeps one context for all bots.
Shared(m, b) ==
  LET k == SessionKey[conv[m]]
  IN  \/ \E d \in Deliveries :
           /\ d # <<m, b>> /\ phase[d] \in {"clearing", "ready", "handling"}
           /\ SessionKey[conv[d[1]]] = k
      \/ \E other \in Bots \ {b} : last[<<other, k>>] # NoConversation

\* Mutant of Switches: coming back to the root does not count.
SwitchesToInstance(previous, c) == previous \notin {NoConversation, c} /\ Root[c] # c

\* The conversation is another one than at the last dispatch for this bot and contact.
Switches(previous, c) == previous \notin {NoConversation, c}

\* followInboundConversation up to its await: the conversation is remembered before the
\* plugin has been asked to clear the context.
Follow(m, b) ==
  LET c == conv[m]
      k == SessionKey[c]
  IN  /\ Move(<<m, b>>, "aligned", IF Switches(last[<<b, k>>], c) THEN "clearing" ELSE "ready")
      /\ last' = [last EXCEPT ![<<b, k>>] = c]
      /\ mixed' = IF Shared(m, b) THEN mixed \cup {k} ELSE mixed
      /\ UNCHANGED <<sceneVars, conv, alignVars, context, stack, records, errors, callVars,
                     troubles>>

\* chatContext.clear has run.
Cleared(m, b) ==
  /\ Move(<<m, b>>, "clearing", "ready")
  /\ context' = [context EXCEPT ![SessionKey[conv[m]]] = {}]
  /\ UNCHANGED <<sceneVars, conv, alignVars, last, mixed, stack, records, errors, callVars, troubles>>

\* It rejects: a line in the log.
ClearFails(m, b) ==
  /\ Trouble
  /\ Move(<<m, b>>, "clearing", "ready")
  /\ mixed' = mixed \cup {SessionKey[conv[m]]}
  /\ UNCHANGED <<sceneVars, conv, alignVars, last, context, stack, records, errors, callVars>>

\* The session cannot be built: recordPreDispatchFailure.
PrepareFails(m, b) ==
  /\ Trouble
  /\ Move(<<m, b>>, "ready", "failed")
  /\ errors' = [errors EXCEPT ![<<m, b>>] = @ + 1]
  /\ UNCHANGED <<sceneVars, conv, alignVars, followVars, stack, records, callVars>>

-----------------------------------------------------------------------------
(* The window *)

\* eventConversations.run and dispatchEvent: the plugins get the event.
Dispatch(m, b) ==
  /\ b \in profiles
  /\ Move(<<m, b>>, "ready", "handling")
  /\ stack' = [stack EXCEPT ![b] = Append(@, conv[m])]
  /\ context' = [context EXCEPT ![SessionKey[conv[m]]] = @ \cup {conv[m]}]
  /\ UNCHANGED <<sceneVars, conv, alignVars, last, mixed, records, errors, callVars, troubles>>

\* The bot was deleted meanwhile: dispatchEvent throws before its try, and dispatched is set.
DispatchUnknown(m, b) ==
  /\ b \notin profiles
  /\ Move(<<m, b>>, "ready", "failed")
  /\ UNCHANGED <<sceneVars, conv, alignVars, followVars, stack, records, errors, callVars, troubles>>

\* Mutant of Close: pop().
CloseNewest(b, c) ==
  stack' = [stack EXCEPT ![b] = SubSeq(@, 1, Len(@) - 1)]

\* The finally of run: the last entry of this conversation goes, wherever it is.
Close(b, c) ==
  \E i \in DOMAIN stack[b] :
    /\ stack[b][i] = c
    /\ \A j \in DOMAIN stack[b] : stack[b][j] = c => j <= i
    /\ stack' = [stack EXCEPT ![b] = SubSeq(@, 1, i - 1) \o SubSeq(@, i + 1, Len(@))]

\* bot.dispatch rejects: dispatchEvent records it, deliverToBot does not again.
DispatchFails(m, b) ==
  /\ Trouble
  /\ Move(<<m, b>>, "handling", "failed")
  /\ Close(b, conv[m])
  /\ errors' = [errors EXCEPT ![<<m, b>>] = @ + 1]
  /\ UNCHANGED <<sceneVars, conv, alignVars, followVars, records, callVars>>

\* The wait for the middleware is over: the window closes and the delivery is recorded,
\* whether or not its message is still in the scene.
EndWindow(m, b) ==
  /\ Move(<<m, b>>, "handling", "delivered")
  /\ Close(b, conv[m])
  /\ records' = records \cup {<<m, b>>}
  /\ UNCHANGED <<sceneVars, conv, alignVars, followVars, errors, callVars, troubles>>

\* The plugins are done with the session.
MiddlewareFinished(m, b) == EndWindow(m, b)

\* Mutant of Timeout: there is no timer.
TimeoutNever(m, b) == FALSE /\ EndWindow(m, b)

\* They are not within INBOUND_MIDDLEWARE_TIMEOUT_MS: the window closes nevertheless.
Timeout(m, b) == EndWindow(m, b)

\* What a history action of bot b reads that addresses the contact r.
HistoryConversation(b, r) ==
  LET source == stack[b][Len(stack[b])]
  IN  IF stack[b] # << >> /\ Root[source] = r THEN source ELSE r

-----------------------------------------------------------------------------
(* The scene changes meanwhile *)

Kept(gone) == {d \in records : d[1] \notin gone}

\* Messages are evicted, or go with a conversation or with the scene.
RemoveMessages(gone) ==
  /\ Trouble
  /\ gone # {}
  /\ stored' = stored \ gone
  /\ records' = Kept(gone)
  /\ UNCHANGED <<profiles, runtime, conv, phase, alignVars, followVars, stack, errors, callVars>>

\* deleteBot; what it does to conversations is RemoveMessages.
DeleteBot(b) ==
  /\ Trouble
  /\ b \in profiles
  /\ profiles' = profiles \ {b} /\ runtime' = runtime \ {b}
  /\ UNCHANGED <<stored, conv, phase, alignVars, followVars, stack, records, errors, callVars>>

\* setRuntimeActive(false)
StopBots ==
  /\ Trouble
  /\ runtime # {}
  /\ runtime' = {}
  /\ UNCHANGED <<stored, profiles, conv, phase, alignVars, followVars, stack, records, errors,
                 callVars>>

-----------------------------------------------------------------------------
Deliver(m, b) ==
  \/ AlignWritten(m, b) \/ AlignFails(m, b)
  \/ Follow(m, b)
  \/ Cleared(m, b) \/ ClearFails(m, b)
  \/ PrepareFails(m, b)
  \/ Dispatch(m, b) \/ DispatchUnknown(m, b) \/ DispatchFails(m, b)
  \/ Timeout(m, b)

Next ==
  \/ \E m \in Messages :
       \/ \E c \in Conversations : Send(m, c)
       \/ Return(m) \/ Throw(m)
       \/ \E b \in Bots : Deliver(m, b) \/ MiddlewareFinished(m, b)
  \/ \E gone \in SUBSET stored : RemoveMessages(gone)
  \/ \E b \in Bots : DeleteBot(b)
  \/ StopBots

Spec == Init /\ [][Next]_vars

\* The database and the plugin answer, or fail; the timer fires; promises are continued.
Fairness ==
  /\ \A m \in Messages : WF_vars(Return(m) \/ Throw(m))
  /\ \A d \in Deliveries : WF_vars(Deliver(d[1], d[2]))
FairSpec == Spec /\ Fairness

-----------------------------------------------------------------------------
Phases == {"none", "writing", "aligned", "clearing", "ready", "handling", "delivered", "failed"}
Window(b, c) == {m \in Messages : phase[<<m, b>>] = "handling" /\ conv[m] = c}

SceneTypes == stored \subseteq Sent /\ profiles \subseteq Bots /\ runtime \subseteq profiles
DeliveryTypes ==
  /\ conv \in [Messages -> Conversations \cup {NoConversation}]
  /\ phase \in [Deliveries -> Phases]
  /\ \A d \in Deliveries : phase[d] # "none" => d[1] \in Sent
  /\ errors \in [Deliveries -> {0, 1}]
  /\ records \subseteq Deliveries
FollowTypes ==
  /\ aligned \subseteq Bots \X Groups
  /\ assignee \in [Groups -> Bots \cup {Stranger}]
  /\ missed \subseteq Deliveries
  /\ last \in [Bots \X Keys -> Conversations \cup {NoConversation}]
  /\ context \in [Keys -> SUBSET Conversations]
  /\ mixed \subseteq Keys
  /\ stack \in [Bots -> Seq(Conversations)]
CallTypes ==
  /\ call \in [Messages -> {"none", "waiting", "returned", "thrown"}]
  /\ before \in [Messages -> SUBSET Messages]
  /\ announced \subseteq Deliveries
  /\ troubles \in 0 .. MaxTroubles

\* Types; among them: a failed delivery leaves no two error records.
TypeOK == SceneTypes /\ DeliveryTypes /\ FollowTypes /\ CallTypes

\* The stack of a bot holds a conversation as often as the bot is handling an event of it,
\* in whatever order the concurrent deliveries end, by a timeout or a failure too.
WindowsAreOpen ==
  \A b \in Bots, c \in Conversations :
    Cardinality({i \in DOMAIN stack[b] : stack[b][i] = c}) = Cardinality(Window(b, c))

\* ADR-0080: while all a bot is handling is of one conversation, its history queries for
\* the contact of that conversation are answered from it, those for others from the root.
HistoryFollowsEvent ==
  \A b \in Bots, c \in Conversations :
    Window(b, c) # {} /\ (\A other \in Conversations \ {c} : Window(b, other) = {})
      => \A r \in Roots : HistoryConversation(b, r) = IF r = Root[c] THEN c ELSE r

\* The window of a delivery is open exactly while its event is handled, for the stack and
\* for the plugin that asks for the history.
WindowsAreRight == WindowsAreOpen /\ HistoryFollowsEvent

\* ADR-0080: a bot handles a message with a context of that conversation only, however often
\* the user went from the root to an instance and back, unless messages of its key ever
\* overlapped or went to several bots, or a clear failed.
ContextIsOfConversation ==
  \A d \in Deliveries :
    phase[d] = "handling" /\ SessionKey[conv[d[1]]] \notin mixed
      => context[SessionKey[conv[d[1]]]] \subseteq {conv[d[1]]}

\* ADR-0093: when a group message reaches the only bot that ever got one there, Koishi has
\* that bot as the assignee, unless the write of this very delivery failed: an earlier
\* failure, or a stale row of another deployment, does not last.
SoleBotIsAssignee ==
  \A m \in Messages, b \in Bots :
    /\ phase[<<m, b>>] = "handling" /\ conv[m] \in Groups /\ <<m, b>> \notin missed
    /\ \A d \in Deliveries : d[2] # b /\ conv[d[1]] = conv[m] => phase[d] = "none"
    => assignee[conv[m]] = b

\* A send_message that has returned was delivered to all its bots, and each delivery has
\* its event, for the tools that wait for a bot.
ReturnedIsAnnounced ==
  \A m \in Messages :
    call[m] = "returned" =>
      \A b \in Bots :
        /\ phase[<<m, b>>] \in {"none", "delivered"}
        /\ m \in stored /\ phase[<<m, b>>] = "delivered" => <<m, b>> \in announced

\* A delivery that fails leaves one error record wherever it failed ("不留无痕失败" in
\* tests/inbound-delivery.test.ts), unless its bot was deleted meanwhile.
FailuresAreRecorded ==
  \A d \in Deliveries : phase[d] = "failed" => errors[d] = 1 \/ d[2] \notin profiles

\* Whoever observes a delivery through the feed or the debug log is told how it ended.
OutcomesAreTold == ReturnedIsAnnounced /\ FailuresAreRecorded

\* Every send_message ends: a plugin that never finishes holds a delivery only until the
\* timer fires.
EveryCallEnds == \A m \in Messages : call[m] = "waiting" ~> call[m] # "waiting"

=============================================================================
