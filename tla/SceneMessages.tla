---------------------------- MODULE SceneMessages ----------------------------
(***************************************************************************)
(* Messages of one scene. A root conversation belongs to a pair or to a    *)
(* group; conversation instances under it are blank, or branch off another *)
(* conversation at a message and then read that conversation up to there   *)
(* before their own messages: nothing is copied. Messages carry media and  *)
(* combined forwards; forwards carry media and other forwards. Above a     *)
(* limit the oldest messages of the scene are evicted, and media files     *)
(* that nothing refers to are deleted at every commit, except those pinned *)
(* because they were uploaded and are still to be sent.                    *)
(*                                                                         *)
(* Every operation runs to its end at once: what awaits the bots' plugins  *)
(* comes after the commit. Who acts is left out, as is what it may do by   *)
(* its role: any operation may be anyone's. Messages and instances are     *)
(* numbered in the order they are created, for the ids the code draws.     *)
(***************************************************************************)
EXTENDS Naturals, Sequences, FiniteSets

CONSTANTS
  Roots,       \* ids of root conversations: of pairs, and of groups
  Direct,      \* those of pairs, which can be hidden
  Media,
  None,
  MaxPinned,   \* MAX_PINNED_MEDIA
  MaxNodes,    \* bound: messages a forward is put together from
  Bounds       \* the instances to explore: each bounds what the scene may hold

Conversations == Roots \cup (Nat \ {0})

\* What is stored: instances, with the point they branch off at; messages; forwards, with the
\* forwards they nest.
Instance == [root : Roots, fork : [source : Conversations, message : Nat] \cup {None}]
MessageRow == [conversation : Conversations, kind : {"text", "event", "recalled"},
               media : SUBSET Media, forward : Nat \cup {None}]
Forward == [id : Nat, media : SUBSET Media, nested : SUBSET Nat]

ASSUME MessagesAssumption ==
  /\ Direct \subseteq Roots /\ Roots \cap Nat = {}
  /\ None \notin Roots \cup Media \cup Nat
  /\ None \notin Instance /\ None \notin MessageRow
  /\ None \notin [source : Conversations, message : Nat]
  /\ MaxPinned \in Nat \ {0} /\ MaxNodes \in Nat \ {0}
  /\ \A b \in Bounds :
       /\ b.roots \subseteq Roots /\ b.media \subseteq Media
       /\ b.limit \in Nat \ {0}      \* sceneMessageLimit
       /\ b.messages \in Nat /\ b.instances \in Nat
       /\ b.forwards \in Nat /\ b.recalls \in Nat

VARIABLES
  bounds,    \* the bounds of this run, chosen once
  chats,     \* conversations, messages, forwards
  files,     \* media on disk
  pinned,    \* uploads to be sent, the latest last (SandboxMediaStorage.pinned)
  uploads    \* uploads the test endpoint remembers (uploadedMedia)

messageVars == <<bounds, chats, files, pinned, uploads>>

EmptyScene ==
  [roots |-> {}, visible |-> {}, instances |-> <<>>, messages |-> <<>>,
   own |-> [c \in Roots |-> <<>>], forwards |-> {}]

MessagesInit ==
  /\ bounds \in Bounds
  /\ chats = EmptyScene
  /\ files = {} /\ pinned = <<>> /\ uploads = {}

----------------------------------------------------------------------------
(* Reading. *)

Items(seq) == {seq[k] : k \in DOMAIN seq}
InstanceIds(s) == {i \in DOMAIN s.instances : s.instances[i] # None}
ConversationIds(s) == s.roots \cup InstanceIds(s)
MessageIds(s) == {m \in DOMAIN s.messages : s.messages[m] # None}

\* An instance belongs to the root of the conversation it was made in.
RootOf(s, c) == IF c \in Roots THEN c ELSE s.instances[c].root
Visible(s, c) == c \in ConversationIds(s) /\ RootOf(s, c) \in s.visible

\* A list without some of its items.
Remaining(list, gone) ==
  LET Rest[k \in 0..Len(list)] ==
        IF k = 0 THEN <<>>
        ELSE IF list[k] \in gone THEN Rest[k - 1] ELSE Append(Rest[k - 1], list[k])
  IN  Rest[Len(list)]

\* Mutant of UpTo: inherited is what was sent by then, whether the fork point is there or not.
UpToWhen(list, item) == SelectSeq(list, LAMBDA m : m <= item)

\* A list up to and including an item; nothing if the item is not there.
UpTo(list, item) ==
  IF item \in Items(list)
    THEN SubSeq(list, 1, CHOOSE k \in DOMAIN list : list[k] = item)
    ELSE <<>>

\* What a conversation consists of: what it inherits, read anew from its source, and its
\* own messages. A source that is gone leaves the own ones.
ReadWith(s, read, i) ==
  LET fork == IF s.instances[i] = None THEN None ELSE s.instances[i].fork
  IN  IF fork = None \/ fork.source \notin ConversationIds(s) THEN s.own[i]
      ELSE UpTo(IF fork.source \in Roots THEN s.own[fork.source] ELSE read[fork.source],
                fork.message) \o s.own[i]

ReadInstances(s) == LET Read[i \in DOMAIN s.instances] == ReadWith(s, Read, i) IN Read

ReadMessages(s, c) == IF c \in Roots THEN s.own[c] ELSE ReadInstances(s)[c]

----------------------------------------------------------------------------
(* Commits: eviction, then media. *)

\* Mutant of Reachable: only what messages carry themselves.
CarriedDirectly(s, forwards) ==
  {f \in forwards : \E m \in MessageIds(s) : s.messages[m].forward = f.id}

\* Ids of forwards that a message carries, or one of some forwards nests.
Named(s, forwards) ==
  {s.messages[m].forward : m \in MessageIds(s)} \cup (UNION {f.nested : f \in forwards})

\* The forwards a reader can get to, from a message on: those in every set of forwards that
\* has whatever is named from it.
Reachable(s, forwards) ==
  {f \in forwards : \A kept \in SUBSET forwards :
                      (\A g \in forwards : g.id \in Named(s, kept) => g \in kept) => f \in kept}

\* Forwards go with the last message that leads to them.
PruneForwards(s) == [s EXCEPT !.forwards = Reachable(s, s.forwards)]

DropMessages(s, dropped) ==
  [s EXCEPT !.messages = [m \in DOMAIN @ |-> IF m \in dropped THEN None ELSE @[m]]]

Oldest(s, n) == {m \in MessageIds(s) : Cardinality({k \in MessageIds(s) : k < m}) < n}

PruneRows(s, dropped) ==
  [s EXCEPT !.own = [c \in DOMAIN @ |-> Remaining(@[c], dropped)]]

\* The limit on the scene's size in bytes evicts the oldest in the same way.
Evict(s) ==
  LET dropped == IF Cardinality(MessageIds(s)) <= bounds.limit THEN {}
                 ELSE Oldest(s, Cardinality(MessageIds(s)) - bounds.limit)
  IN  IF dropped = {} THEN s ELSE PruneForwards(PruneRows(DropMessages(s, dropped), dropped))

\* Mutant of MediaReferences: forwards are not looked into.
MessageMedia(s) == UNION {s.messages[m].media : m \in MessageIds(s)}

\* Avatars are left out.
MediaReferences(s) ==
  (UNION {s.messages[m].media : m \in MessageIds(s)}) \cup (UNION {f.media : f \in s.forwards})

\* What stays on disk.
Reclaimed(stored, pins, references) == {f \in stored : f \in references \/ f \in Items(pins)}

CommitWith(s, stored, pins) ==
  LET next == Evict(s)
      references == MediaReferences(next)
      rest == Remaining(pins, references)
  IN  /\ chats' = next
      /\ pinned' = rest
      /\ files' = Reclaimed(stored, rest, references)

CommitScene(s) == CommitWith(s, files, pinned)

----------------------------------------------------------------------------
(* Conversations. *)

\* Befriending, or founding a group: the root conversation is made, or shows again.
OpenRoot(r) ==
  /\ r \in bounds.roots /\ r \notin chats.visible
  /\ CommitScene([chats EXCEPT !.roots = @ \cup {r}, !.visible = @ \cup {r}])
  /\ UNCHANGED <<bounds, uploads>>

\* The end of a friendship hides the conversation and deletes nothing.
HideRoot(r) ==
  /\ r \in chats.visible /\ r \in Direct
  /\ CommitScene([chats EXCEPT !.visible = @ \ {r}])
  /\ UNCHANGED <<bounds, uploads>>

\* Conversations with their messages, and the forwards only these led to.
WithoutConversations(s, gone) ==
  PruneForwards(DropMessages(
    [s EXCEPT !.roots = @ \ gone, !.visible = @ \ gone,
              !.instances = [i \in DOMAIN @ |-> IF i \in gone THEN None ELSE @[i]],
              !.own = [c \in DOMAIN @ |-> IF c \in gone THEN <<>> ELSE @[c]]],
    {m \in MessageIds(s) : s.messages[m].conversation \in gone}))

\* A group is dissolved or a participant deleted: the root goes with its instances.
RemoveRoot(r) ==
  /\ r \in chats.roots
  /\ CommitScene(WithoutConversations(chats,
              {r} \cup {i \in InstanceIds(chats) : RootOf(chats, i) = r}))
  /\ UNCHANGED <<bounds, uploads>>

MakeInstance(c, fork) ==
  /\ Len(chats.instances) < bounds.instances
  /\ CommitScene([chats EXCEPT
       !.instances = Append(@, [root |-> RootOf(chats, c), fork |-> fork]),
       !.own = [d \in DOMAIN @ \cup {Len(chats.instances) + 1} |->
                  IF d \in DOMAIN @ THEN @[d] ELSE <<>>]])
  /\ UNCHANGED <<bounds, uploads>>

NewInstance(c) == Visible(chats, c) /\ MakeInstance(c, None)

\* A branch needs a message that can be read there; a recalled one will do, a notice not.
Branch(c, m) ==
  /\ Visible(chats, c)
  /\ m \in Items(ReadMessages(chats, c)) /\ chats.messages[m].kind # "event"
  /\ MakeInstance(c, [source |-> c, message |-> m])

DeleteInstance(i) ==
  /\ i \in InstanceIds(chats) /\ Visible(chats, i)
  /\ CommitScene(WithoutConversations(chats, {i}))
  /\ UNCHANGED <<bounds, uploads>>

\* Only its own messages go: a branch still reads what it inherits.
ClearConversation(c) ==
  /\ Visible(chats, c)
  /\ CommitScene(PruneForwards(DropMessages([chats EXCEPT !.own[c] = <<>>],
              {m \in MessageIds(chats) : chats.messages[m].conversation = c})))
  /\ UNCHANGED <<bounds, uploads>>

----------------------------------------------------------------------------
(* Messages. *)

Message(c, kind, media, forward) ==
  [conversation |-> c, kind |-> kind, media |-> media, forward |-> forward]

\* appendMessage without its commit; room for it is a bound.
Appended(s, message) ==
  [s EXCEPT !.messages = Append(@, message),
            !.own[message.conversation] = Append(@, Len(s.messages) + 1)]

Room == Len(chats.messages) < bounds.messages

\* A text, or a poke, whose notice was awaited before: the conversation may have gone.
Send(c, kind) ==
  /\ Room /\ Visible(chats, c)
  /\ CommitScene(Appended(chats, Message(c, kind, {}, None)))
  /\ UNCHANGED <<bounds, uploads>>

\* Pinning again makes an upload the latest; the earliest pins give way.
Pin(pins, f) ==
  LET all == Append(Remaining(pins, {f}), f)
  IN  IF Len(all) > MaxPinned THEN Tail(all) ELSE all

\* storeMedia: the id is the content's digest, so a file that is there is used again.
SendMedia(c, f) ==
  /\ f \in bounds.media
  /\ Room /\ Visible(chats, c)
  /\ CommitWith(Appended(chats, Message(c, "text", {f}, None)), files \cup {f}, Pin(pinned, f))
  /\ UNCHANGED <<bounds, uploads>>

\* A batch fails at a later file: those stored before are removed again, in use or not.
FailedBatch(f) ==
  /\ f \in bounds.media
  /\ files' = files \ {f}
  /\ pinned' = Remaining(Pin(pinned, f), {f})
  /\ UNCHANGED <<bounds, chats, uploads>>

\* upload_media: stored, pinned and remembered.
Upload(f) ==
  /\ f \in bounds.media
  /\ files' = files \cup {f}
  /\ pinned' = Pin(pinned, f)
  /\ uploads' = uploads \cup {f}
  /\ UNCHANGED <<bounds, chats>>

\* send_message with uploaded media: nobody looks whether the file is still there.
SendStored(c, f) ==
  /\ f \in uploads
  /\ Room /\ Visible(chats, c)
  /\ CommitScene(Appended(chats, Message(c, "text", {f}, None)))
  /\ UNCHANGED <<bounds, uploads>>

Forwardable(s, m) == s.messages[m].kind = "text" /\ Visible(s, s.messages[m].conversation)

\* Nodes made of messages, wherever these are, and of forwards named by their id.
SendForward(c, ids, named) ==
  LET nested == {chats.messages[m].forward : m \in ids} \ {None} IN
  /\ Room /\ Visible(chats, c) /\ Cardinality(chats.forwards) < bounds.forwards
  /\ \A m \in ids : m \in MessageIds(chats) /\ Forwardable(chats, m)
  /\ named \subseteq {f.id : f \in chats.forwards} /\ ids \cup named # {}
  /\ LET forward == [id |-> Len(chats.messages) + 1,
                     media |-> UNION {chats.messages[m].media : m \in ids},
                     nested |-> nested \cup named]
     IN  CommitScene(Appended([chats EXCEPT !.forwards = @ \cup {forward}],
                         Message(c, "text", {}, forward.id)))
  /\ UNCHANGED <<bounds, uploads>>

\* A recalled message keeps what it carries.
Recall(m) ==
  /\ m \in MessageIds(chats) /\ Forwardable(chats, m)
  /\ Cardinality({k \in MessageIds(chats) : chats.messages[k].kind = "recalled"}) < bounds.recalls
  /\ CommitScene([chats EXCEPT !.messages[m].kind = "recalled"])
  /\ UNCHANGED <<bounds, uploads>>

----------------------------------------------------------------------------

MessagesNext ==
  \/ \E r \in Roots : OpenRoot(r) \/ HideRoot(r) \/ RemoveRoot(r)
  \/ \E c \in ConversationIds(chats) :
       \/ NewInstance(c) \/ ClearConversation(c)
       \/ \E m \in MessageIds(chats) : Branch(c, m)
       \/ \E kind \in {"text", "event"} : Send(c, kind)
       \/ \E f \in Media : SendMedia(c, f) \/ SendStored(c, f)
       \/ \E ids \in SUBSET MessageIds(chats), named \in SUBSET {f.id : f \in chats.forwards} :
            Cardinality(ids) + Cardinality(named) <= MaxNodes /\ SendForward(c, ids, named)
  \/ \E i \in InstanceIds(chats) : DeleteInstance(i)
  \/ \E m \in MessageIds(chats) : Recall(m)
  \/ \E f \in Media : Upload(f) \/ FailedBatch(f)

MessagesSpec == MessagesInit /\ [][MessagesNext]_messageVars

----------------------------------------------------------------------------
(* Properties. *)

\* The variables have their types: a scene names messages and instances by number.
SceneTypeOK(s) ==
  /\ s = [roots |-> s.roots, visible |-> s.visible, instances |-> s.instances,
          messages |-> s.messages, own |-> s.own, forwards |-> s.forwards]
  /\ s.roots \subseteq Roots /\ s.visible \subseteq s.roots
  /\ s.instances \in Seq(Instance \cup {None})
  /\ s.messages \in Seq(MessageRow \cup {None})
  /\ s.own = [c \in Roots \cup DOMAIN s.instances |-> s.own[c]]
  /\ \A c \in DOMAIN s.own : s.own[c] \in Seq(Nat)
  /\ s.forwards \subseteq Forward
MessagesTypeOK ==
  /\ bounds \in Bounds /\ SceneTypeOK(chats)
  /\ files \subseteq Media /\ uploads \subseteq Media /\ pinned \in Seq(Media)

Ascending(seq) == \A j, k \in DOMAIN seq : j < k => seq[j] < seq[k]

\* Every message is in the list of the conversation it belongs to and in no other, in the
\* order of the messages; what a list names is there. Eviction, clearing and the removal of
\* conversations each take a message from both places (reclaimSceneMessages,
\* clearConversationMessages, cascadeRemovedConversations); replaceScene refuses a scene in
\* which they differ.
RowsAndMessagesAgree(s) ==
  /\ \A m \in MessageIds(s) : s.messages[m].conversation \in ConversationIds(s)
  /\ \A c \in DOMAIN s.own :
       /\ Ascending(s.own[c])
       /\ Items(s.own[c]) = {m \in MessageIds(s) : s.messages[m].conversation = c}
       /\ c \notin ConversationIds(s) => s.own[c] = <<>>

\* However conversations branch off each other, and whatever was cleared, evicted or deleted
\* of what they inherit, each reads as one history: messages there are, each once, in the
\* order they were sent (readRowMessageIds).
ReadIsChronological(s) ==
  \A c \in ConversationIds(s) :
    LET read == ReadMessages(s, c)
    IN  Ascending(read) /\ Items(read) \subseteq MessageIds(s)

\* A history is lost from its beginning: what a conversation no longer reads is older than
\* all it still reads, unless it was the one cleared. This holds too where a branch loses
\* what it inherits because some other conversation was cleared or deleted.
LosesOldestFirst ==
  [][\A c \in ConversationIds(chats) \cap ConversationIds(chats)' :
       LET before == ReadMessages(chats, c)
           after == ReadMessages(chats, c)'
       IN  \/ chats.own[c] # <<>> /\ chats'.own[c] = <<>>
           \/ \A m \in Items(before) \ Items(after), k \in Items(before) \cap Items(after) : m < k
    ]_messageVars

\* The forwards kept are those a reader can get to: a message carries each, or another
\* forward does, and none is missing that a message or a forward names. One kept too long
\* would hold its media for ever, one dropped too early cannot be opened
\* (pruneUnreferencedForwards).
ForwardsAreReachable(s) ==
  /\ Named(s, s.forwards) \ {None} \subseteq {f.id : f \in s.forwards}
  /\ \A f \in s.forwards : f.id \in Named(s, s.forwards)

\* A commit deletes no file that a message or a forward still shows: files go missing in
\* use only by a batch that fails, which touches no message, or because a message was sent
\* with an upload whose file had been deleted before (getMediaReferences,
\* reclaimUnreferenced).
MissingMedia ==
  {f \in Media \ files :
     \/ \E m \in MessageIds(chats) : f \in chats.messages[m].media
     \/ \E g \in chats.forwards : f \in g.media}
CommitKeepsMediaInUse ==
  [][\A f \in MissingMedia' \ MissingMedia : chats' = chats \/ f \in uploads \ files]_messageVars

\* What was uploaded and is still pinned is on disk, whatever was committed meanwhile, and
\* at most MaxPinned uploads are kept so (SandboxMediaStorage.pin).
UploadsSurviveCommits == Items(pinned) \subseteq files /\ Len(pinned) <= MaxPinned

\* What is stored of messages, forwards and files is whole after every call.
MessagesAreWhole ==
  /\ MessagesTypeOK /\ RowsAndMessagesAgree(chats)
  /\ ReadIsChronological(chats) /\ ForwardsAreReachable(chats)

\* No call takes a file away from those who still need it.
MediaIsKept == CommitKeepsMediaInUse /\ []UploadsSurviveCommits
=============================================================================
