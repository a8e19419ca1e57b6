------------------------- MODULE ThinkingTurnsProofs -------------------------
(* Proofs about the turns of ThinkingTurns, the requests of RequestCapture and the reads of
   FederatedRead. *)
EXTENDS FederatedRead, FiniteSetTheorems, WellFoundedInduction, TLAPS

-----------------------------------------------------------------------------
(* The invariant *)

\* Every turn that runs is waited for by the wrapped method of its service.
TurnsAreTracked == turns \subseteq tracked

\* Chats, entries and presets of a chat are of those who use it.
UsersOnly ==
  /\ \A s \in Sessions : Chatting(s) => KeyOf[s] \in bounds.users[chat[s]]
  /\ \A c \in Chats : store.index[c] \subseteq bounds.users[c]

\* The session a turn was begun for is the only one the store has for it.
OneSession ==
  \A k \in Keys :
    /\ begun[k].by # None => KeyOf[begun[k].by] = k
    /\ k \in Thinking(store) =>
         /\ begun[k].by # None
         /\ store.character[k] \in {None, begun[k].by}
         /\ store.core[k] \in {None, begun[k].by}

\* Why the end of the session a turn was begun for will end it: its chat knows the bot, or
\* its character turn will find the bot.
InChat(k) == Chatting(begun[k].by) /\ k \in store.index[chat[begun[k].by]]
\* Its character turn is the one the store has for the bot.
InItsTurn(k) ==
  LET s == begun[k].by IN
  InTurn(s) /\ s \notin answered /\ store.keyOf[s] = k /\ store.character[k] = s
\* So each turn shown will be ended, unless bots share a chat.
WillEnd == ~Shared => \A k \in Thinking(store) : InChat(k) \/ InItsTurn(k)

\* A preset of a character turn is of one that runs.
CharacterPresetsRun ==
  \A p \in presets : p.kind = "character" =>
    p.chat = None /\ InTurn(p.session) /\ p.session \notin answered

\* A preset of a chat that is over stays only next to another one it cannot be told from.
Alike(p, q) ==
  /\ p # q /\ q.kind = p.kind /\ q.chat = p.chat
  /\ KeyOf[q.session] = KeyOf[p.session]
\* A preset of a chat is in use, or unclear beside one that is alike.
CorePresetsRunOrAreUnclear ==
  /\ IsFiniteSet(presets)
  /\ \A p \in presets : p.kind = "core" =>
       /\ p.chat \in Chats /\ KeyOf[p.session] \in bounds.users[p.chat]
       /\ chat[p.session] \in {p.chat, "done"}
       /\ ~Shared /\ chat[p.session] = "done" => \E q \in presets : Alike(p, q)

\* The replies captured for a bot are those of its turn.
CapturedAreOwn ==
  \A k \in Keys : \A m \in store.captured[k] :
    m \in DOMAIN replies /\ replies[m].turn = begun[k].turn

\* Everything above.
IInv ==
  /\ TypeOK
  /\ TurnsAreTracked /\ UsersOnly /\ OneSession /\ IndexIsOfThinking /\ WillEnd
  /\ CharacterPresetsRun /\ CorePresetsRunOrAreUnclear /\ CapturedAreOwn

-----------------------------------------------------------------------------
(* The operators of the store *)

\* The fields of a store.
LEMMA StoreFields ==
  ASSUME NEW st \in Stores
  PROVE  /\ st.state \in [Keys -> {"none", "thinking", "done"}]
         /\ st.usage \in [Keys -> BOOLEAN] /\ st.requests \in [Keys -> BOOLEAN]
         /\ st.index \in [Chats -> SUBSET Keys] /\ st.captured \in [Keys -> SUBSET Nat]
         /\ st.keyOf \in [Sessions -> Keys \cup {None}]
         /\ st.character \in [Keys -> Sessions \cup {None}]
         /\ st.core \in [Keys -> Sessions \cup {None}]
  BY DEF Stores

\* What each operation of the store does to its fields.
LEMMA DetachFields ==
  ASSUME NEW st \in Stores, NEW ks
  PROVE  LET t == Detach(st, ks) IN
         /\ t \in Stores
         /\ t.state = st.state /\ t.captured = st.captured /\ t.keyOf = st.keyOf
         /\ \A k \in Keys : t.character[k] = IF k \in ks THEN None ELSE st.character[k]
         /\ \A k \in Keys : t.core[k] = IF k \in ks THEN None ELSE st.core[k]
         /\ \A c \in Chats : t.index[c] = st.index[c] \ ks
<1> DEFINE t == Detach(st, ks)
<1>1. t = [st EXCEPT !.character = Put(st.character, ks, None), !.core = Put(st.core, ks, None),
                     !.index = [c \in Chats |-> st.index[c] \ ks]]
  BY DEF Detach, Stores
<1>2. /\ Put(st.character, ks, None) \in [Keys -> Sessions \cup {None}]
      /\ Put(st.core, ks, None) \in [Keys -> Sessions \cup {None}]
      /\ [c \in Chats |-> st.index[c] \ ks] \in [Chats -> SUBSET Keys]
  BY StoreFields DEF Put
<1>3. /\ t \in Stores
      /\ t.state = st.state /\ t.captured = st.captured /\ t.keyOf = st.keyOf
      /\ t.character = Put(st.character, ks, None) /\ t.core = Put(st.core, ks, None)
      /\ t.index = [c \in Chats |-> st.index[c] \ ks]
  BY <1>1, <1>2 DEF Stores
<1> HIDE DEF t
<1> QED BY <1>3 DEF Put, t

LEMMA DroppedFields ==
  ASSUME NEW st \in Stores, NEW ks
  PROVE  LET t == Dropped(st, ks) IN
         /\ t \in Stores
         /\ t.character = st.character /\ t.core = st.core /\ t.keyOf = st.keyOf /\ t.index = st.index
         /\ \A k \in Keys : t.state[k] = IF k \in ks THEN "none" ELSE st.state[k]
         /\ \A k \in Keys : t.captured[k] = IF k \in ks THEN {} ELSE st.captured[k]
<1> DEFINE t == Dropped(st, ks)
<1>1. t = [st EXCEPT !.state = Put(st.state, ks, "none"), !.usage = Put(st.usage, ks, FALSE),
                     !.requests = Put(st.requests, ks, FALSE),
                     !.captured = Put(st.captured, ks, {})]
  BY DEF Dropped, Stores
<1>2. /\ Put(st.state, ks, "none") \in [Keys -> {"none", "thinking", "done"}]
      /\ Put(st.usage, ks, FALSE) \in [Keys -> BOOLEAN]
      /\ Put(st.requests, ks, FALSE) \in [Keys -> BOOLEAN]
      /\ Put(st.captured, ks, {}) \in [Keys -> SUBSET Nat]
  BY StoreFields DEF Put
<1>3. /\ t \in Stores
      /\ t.character = st.character /\ t.core = st.core /\ t.keyOf = st.keyOf /\ t.index = st.index
      /\ t.state = Put(st.state, ks, "none") /\ t.captured = Put(st.captured, ks, {})
  BY <1>1, <1>2 DEF Stores
<1> HIDE DEF t
<1> QED BY <1>3 DEF Put, t

LEMMA AfreshFields ==
  ASSUME NEW st \in Stores, NEW k \in Keys
  PROVE  LET t == Afresh(st, k) IN
         /\ t \in Stores
         /\ t.keyOf = st.keyOf
         /\ \A j \in Keys : t.state[j] = IF j = k THEN "thinking" ELSE st.state[j]
         /\ \A j \in Keys : t.captured[j] = IF j = k THEN {} ELSE st.captured[j]
         /\ \A j \in Keys : t.character[j] = IF j = k THEN None ELSE st.character[j]
         /\ \A j \in Keys : t.core[j] = IF j = k THEN None ELSE st.core[j]
         /\ \A c \in Chats : t.index[c] = st.index[c] \ {k}
<1> DEFINE u == Detach(st, {k})
           w == Dropped(u, {k})
<1>1. /\ u \in Stores
      /\ u.state = st.state /\ u.captured = st.captured /\ u.keyOf = st.keyOf
      /\ \A j \in Keys : u.character[j] = IF j = k THEN None ELSE st.character[j]
      /\ \A j \in Keys : u.core[j] = IF j = k THEN None ELSE st.core[j]
      /\ \A c \in Chats : u.index[c] = st.index[c] \ {k}
  BY DetachFields
<1> HIDE DEF u
<1>2. /\ w \in Stores
      /\ w.character = u.character /\ w.core = u.core /\ w.keyOf = u.keyOf /\ w.index = u.index
      /\ \A j \in Keys : w.state[j] = IF j = k THEN "none" ELSE u.state[j]
      /\ \A j \in Keys : w.captured[j] = IF j = k THEN {} ELSE u.captured[j]
  BY <1>1, DroppedFields
<1> HIDE DEF w
<1>3. Afresh(st, k) = [w EXCEPT !.state = [w.state EXCEPT ![k] = "thinking"]]
  BY <1>2 DEF Afresh, w, u, Stores
<1>4. [w.state EXCEPT ![k] = "thinking"] \in [Keys -> {"none", "thinking", "done"}]
  BY <1>2, StoreFields
<1>5. /\ Afresh(st, k) \in Stores
      /\ Afresh(st, k).state = [w.state EXCEPT ![k] = "thinking"]
      /\ Afresh(st, k).character = w.character /\ Afresh(st, k).core = w.core
      /\ Afresh(st, k).keyOf = w.keyOf /\ Afresh(st, k).index = w.index
      /\ Afresh(st, k).captured = w.captured
  BY <1>2, <1>3, <1>4 DEF Stores
<1>6. w.state \in [Keys -> {"none", "thinking", "done"}]
  BY <1>2, StoreFields
<1> QED BY <1>1, <1>2, <1>5, <1>6

LEMMA FinishedFields ==
  ASSUME NEW st \in Stores, NEW ks \in SUBSET Keys
  PROVE  LET t == Finished(st, ks)
             known == {k \in ks : st.state[k] # "none"}
         IN
         /\ t \in Stores
         /\ t.keyOf = st.keyOf
         /\ \A k \in Keys : t.state[k] = IF k \in known THEN "done" ELSE st.state[k]
         /\ \A k \in Keys : t.captured[k] = IF k \in known THEN {} ELSE st.captured[k]
         /\ \A k \in Keys : t.character[k] = IF k \in known THEN None ELSE st.character[k]
         /\ \A k \in Keys : t.core[k] = IF k \in known THEN None ELSE st.core[k]
         /\ \A c \in Chats : t.index[c] = st.index[c] \ known
<1> DEFINE known == {k \in ks : st.state[k] # "none"}
           u == Detach(st, known)
<1>1. Finished(st, ks) =
        [u EXCEPT !.state = Put(u.state, known, "done"), !.requests = Put(u.requests, known, FALSE),
                  !.captured = Put(u.captured, known, {})]
  BY DEF Finished, Detach, Stores
<1> HIDE DEF known
<1>2. /\ u \in Stores
      /\ u.state = st.state /\ u.captured = st.captured /\ u.keyOf = st.keyOf
      /\ \A k \in Keys : u.character[k] = IF k \in known THEN None ELSE st.character[k]
      /\ \A k \in Keys : u.core[k] = IF k \in known THEN None ELSE st.core[k]
      /\ \A c \in Chats : u.index[c] = st.index[c] \ known
  BY DetachFields
<1> HIDE DEF u
<1>3. /\ Put(u.state, known, "done") \in [Keys -> {"none", "thinking", "done"}]
      /\ Put(u.requests, known, FALSE) \in [Keys -> BOOLEAN]
      /\ Put(u.captured, known, {}) \in [Keys -> SUBSET Nat]
  BY <1>2, StoreFields DEF Put
<1>4. /\ Finished(st, ks) \in Stores
      /\ Finished(st, ks).state = Put(u.state, known, "done")
      /\ Finished(st, ks).captured = Put(u.captured, known, {})
      /\ Finished(st, ks).character = u.character /\ Finished(st, ks).core = u.core
      /\ Finished(st, ks).keyOf = u.keyOf /\ Finished(st, ks).index = u.index
  BY <1>1, <1>2, <1>3 DEF Stores
<1> QED BY <1>2, <1>4 DEF Put, known

-----------------------------------------------------------------------------
(* Sets with one member, and chats with one user *)

\* The sole element of a set, or none.
LEMMA SoleIsSame == ASSUME NEW S PROVE Sole(S) \in {S, {}}
  BY DEF Sole

LEMMA SoleOfOne == ASSUME NEW x PROVE Sole({x}) = {x}
  BY FS_Singleton DEF Sole

LEMMA SoleOfMore ==
  ASSUME NEW S, IsFiniteSet(S), NEW x \in S, NEW y \in S, x # y
  PROVE  Sole(S) = {}
  BY FS_Singleton DEF Sole

\* Two keys that use a chat which nobody shares are the same.
LEMMA OneUser ==
  ASSUME bounds \in Bounds, ~Shared, NEW c \in Chats,
         NEW j \in bounds.users[c], NEW k \in bounds.users[c]
  PROVE  j = k
<1> SUFFICES ASSUME j # k PROVE FALSE
  OBVIOUS
<1>1. bounds.users[c] \subseteq Keys /\ IsFiniteSet(Keys)
  BY TurnsAssumption
<1>2. IsFiniteSet(bounds.users[c])
  BY <1>1, FS_Subset
<1>3. Cardinality(bounds.users[c]) \in Nat
  BY <1>2, FS_CardinalityType
<1>4. Cardinality({j, k}) = 2 /\ IsFiniteSet({j, k})
  <2>1. IsFiniteSet({j}) /\ Cardinality({j}) = 1
    BY FS_Singleton
  <2>2. {j} \cup {k} = {j, k} /\ k \notin {j}
    OBVIOUS
  <2>3. IsFiniteSet({j} \cup {k}) /\ Cardinality({j} \cup {k}) = 1 + 1
    BY <2>1, <2>2, FS_AddElement
  <2> QED BY <2>2, <2>3
<1>5. Cardinality({j, k}) <= Cardinality(bounds.users[c])
  BY <1>2, FS_Subset
<1> QED BY <1>3, <1>4, <1>5 DEF Shared

-----------------------------------------------------------------------------
(* The core plugin *)

LEMMA BeforeChatKeeps ==
  ASSUME IInv, NEW s \in Sessions, NEW c \in Chats, BeforeChat(s, c)
  PROVE  IInv'
<1> DEFINE k == KeyOf[s]
           p == Preset("core", s, c)
           a == Afresh(store, k)
<1>1. /\ store \in Stores /\ k \in Keys /\ KeyOf \in [Sessions -> Keys]
      /\ begun \in [Keys -> [turn : Nat, by : Sessions \cup {None}]]
      /\ chat \in [Sessions -> Chats \cup {None, "done"}] /\ None \notin Sessions
      /\ None \notin Chats
  BY TurnsAssumption DEF IInv, TypeOK
<1>2. /\ chat[s] = None /\ k \in bounds.users[c] /\ chat' = [chat EXCEPT ![s] = c]
      /\ presets' = presets \cup {p} /\ Begun(k, s)
      /\ store' = [a EXCEPT !.index[c] = @ \cup {k}, !.core[k] = s]
      /\ UNCHANGED <<bounds, turns, answered, service, tracked, replies, forgotten>>
  BY DEF BeforeChat
<1>3. p \in [kind : {"core", "character"}, session : Sessions, chat : Chats \cup {None}]
      /\ p.kind = "core" /\ p.session = s /\ p.chat = c
  BY DEF Preset
<1>4. /\ begun' \in [Keys -> [turn : Nat, by : Sessions \cup {None}]]
      /\ begun'[k].by = s /\ \A j \in Keys \ {k} : begun'[j] = begun[j]
  BY <1>1, <1>2 DEF Begun
<1>5. /\ a \in Stores /\ a.keyOf = store.keyOf
      /\ \A j \in Keys : a.state[j] = IF j = k THEN "thinking" ELSE store.state[j]
      /\ \A j \in Keys : a.captured[j] = IF j = k THEN {} ELSE store.captured[j]
      /\ \A j \in Keys : a.character[j] = IF j = k THEN None ELSE store.character[j]
      /\ \A j \in Keys : a.core[j] = IF j = k THEN None ELSE store.core[j]
      /\ \A d \in Chats : a.index[d] = store.index[d] \ {k}
  BY <1>1, AfreshFields
<1>k. k = KeyOf[s]
  OBVIOUS
<1> HIDE DEF a, p, k
<1> DEFINE index == [a.index EXCEPT ![c] = @ \cup {k}]
           core == [a.core EXCEPT ![k] = s]
<1>i. /\ index \in [Chats -> SUBSET Keys]
      /\ \A d \in Chats : \A j : j \in index[d] <=> IF j = k THEN d = c ELSE j \in store.index[d]
  <2>1. a.index \in [Chats -> SUBSET Keys]
    BY <1>5, StoreFields
  <2> QED BY <1>1, <1>5, <2>1
<1>c. /\ core \in [Keys -> Sessions \cup {None}]
      /\ \A j \in Keys : core[j] = IF j = k THEN s ELSE store.core[j]
  BY <1>1, <1>5, StoreFields
<1>e. store' = [a EXCEPT !.index = index, !.core = core]
  BY <1>2, <1>5 DEF Stores
<1> HIDE DEF index, core
<1>6. /\ store' \in Stores /\ store'.keyOf = store.keyOf
      /\ store'.state = a.state /\ store'.captured = a.captured /\ store'.character = a.character
      /\ store'.core = core /\ store'.index = index
  BY <1>5, <1>i, <1>c, <1>e DEF Stores
<1>7. /\ \A j \in Keys : store'.state[j] = IF j = k THEN "thinking" ELSE store.state[j]
      /\ \A j \in Keys : store'.captured[j] = IF j = k THEN {} ELSE store.captured[j]
      /\ \A j \in Keys : store'.character[j] = IF j = k THEN None ELSE store.character[j]
      /\ \A j \in Keys : store'.core[j] = IF j = k THEN s ELSE store.core[j]
      /\ \A d \in Chats : \A j : j \in store'.index[d] <=> IF j = k THEN d = c ELSE j \in store.index[d]
  BY <1>5, <1>6, <1>i, <1>c
<1>8. /\ \A r \in Sessions : chat'[r] = IF r = s THEN c ELSE chat[r]
      /\ Thinking(store)' = Thinking(store) \cup {k}
      /\ \A r \in Sessions : InTurn(r)' <=> InTurn(r)
      /\ Shared' <=> Shared
  BY <1>1, <1>k, <1>2, <1>7 DEF Thinking, InTurn, Services, Shared
<1>9. TypeOK'
  BY <1>1, <1>k, <1>2, <1>3, <1>4, <1>6 DEF IInv, TypeOK, Services
<1>10. TurnsAreTracked' /\ UsersOnly'
  <2>1. TurnsAreTracked'
    BY <1>2 DEF IInv, TurnsAreTracked
  <2>2. ASSUME NEW r \in Sessions, chat'[r] \in Chats PROVE KeyOf[r] \in bounds'.users[chat'[r]]
    BY <1>k, <1>2, <1>8, <2>2 DEF IInv, UsersOnly, Chatting
  <2>3. ASSUME NEW d \in Chats PROVE store'.index[d] \subseteq bounds'.users[d]
    BY <1>2, <1>7 DEF IInv, UsersOnly
  <2> QED BY <2>1, <2>2, <2>3 DEF UsersOnly, Chatting
<1>11. OneSession'
  BY <1>1, <1>k, <1>4, <1>7, <1>8 DEF IInv, OneSession
<1>12. IndexIsOfThinking'
  <2>1. ASSUME NEW d \in Chats PROVE store'.index[d] \subseteq Thinking(store)'
    BY <1>7, <1>8 DEF IInv, IndexIsOfThinking
  <2>2. ASSUME NEW d \in Chats, NEW e \in Chats, d # e
        PROVE  store'.index[d] \cap store'.index[e] = {}
    BY <1>7, <2>2 DEF IInv, IndexIsOfThinking
  <2> QED BY <2>1, <2>2 DEF IndexIsOfThinking
<1>13. WillEnd'
  <2> SUFFICES ASSUME ~Shared, NEW j \in Thinking(store)' PROVE (InChat(j) \/ InItsTurn(j))'
    BY <1>8 DEF WillEnd
  <2>1. j \in Keys
    BY DEF Thinking
  <2>2. CASE j = k
    <3>1. begun'[j].by = s /\ chat'[s] = c /\ j \in store'.index[c]
      BY <1>4, <1>7, <1>8, <2>2
    <3> QED BY <3>1 DEF InChat, Chatting
  <2>3. CASE j # k
    <3>1. j \in Thinking(store) /\ begun'[j] = begun[j] /\ begun[j].by \in Sessions \ {s}
      BY <1>1, <1>k, <1>4, <1>8, <2>1, <2>3 DEF IInv, OneSession
    <3>2. InChat(j) => InChat(j)'
      <4>1. chat'[begun[j].by] = chat[begun[j].by]
        BY <1>8, <3>1
      <4>2. \A d \in Chats : j \in store.index[d] => j \in store'.index[d]
        BY <1>7, <2>3
      <4> QED BY <3>1, <4>1, <4>2 DEF InChat, Chatting
    <3>3. InItsTurn(j) => InItsTurn(j)'
      BY <1>2, <1>6, <1>7, <1>8, <2>1, <2>3, <3>1 DEF InItsTurn
    <3> QED BY <3>1, <3>2, <3>3 DEF IInv, WillEnd
  <2> QED BY <2>2, <2>3
<1>14. CharacterPresetsRun'
  BY <1>2, <1>3, <1>8 DEF IInv, TypeOK, CharacterPresetsRun
<1>15. CorePresetsRunOrAreUnclear'
  <2>1. IsFiniteSet(presets')
    BY <1>2, FS_AddElement DEF IInv, CorePresetsRunOrAreUnclear
  <2>2. \A q \in presets : q.kind = "core" => q.session \in Sessions \ {s}
    BY <1>1, <1>k, <1>2, TurnsAssumption DEF IInv, TypeOK, CorePresetsRunOrAreUnclear
  <2>3. c # "done"
    BY TurnsAssumption
  <2>4. /\ p.chat \in Chats /\ KeyOf[p.session] \in bounds'.users[p.chat]
        /\ chat'[p.session] = p.chat /\ chat'[p.session] # "done"
    <3>1. p.session = s /\ p.chat = c
      BY <1>3
    <3>2. KeyOf[s] \in bounds'.users[c]
      BY <1>k, <1>2
    <3>3. chat'[s] = c
      BY <1>8
    <3> QED BY <2>3, <3>1, <3>2, <3>3
  <2>5. ASSUME NEW q \in presets, q.kind = "core"
        PROVE  /\ q.chat \in Chats /\ KeyOf[q.session] \in bounds'.users[q.chat]
               /\ chat'[q.session] \in {q.chat, "done"}
               /\ ~Shared' /\ chat'[q.session] = "done" => \E x \in presets' : Alike(q, x)
    <3>1. chat'[q.session] = chat[q.session]
      BY <1>8, <2>2, <2>5
    <3> QED BY <1>2, <1>8, <2>5, <3>1 DEF IInv, CorePresetsRunOrAreUnclear
  <2> QED BY <1>2, <2>1, <2>4, <2>5 DEF CorePresetsRunOrAreUnclear, Alike
<1>16. CapturedAreOwn'
  BY <1>2, <1>4, <1>7 DEF IInv, CapturedAreOwn
<1> QED BY <1>9, <1>10, <1>11, <1>12, <1>13, <1>14, <1>15, <1>16 DEF IInv

\* A reply keeps its turn when requests are put on it, which are those of its bot's turn.
LEMMA ArchivedReply ==
  ASSUME TypeOK, NEW st, NEW ks \in SUBSET Keys, NEW fallback \in BOOLEAN,
         NEW r, r = Archived(st, ks, fallback), NEW m \in DOMAIN replies
  PROVE  /\ r[m] \in [key : Keys \cup {None}, turn : Nat, of : Nat]
         /\ r[m].turn = replies[m].turn
         /\ r[m].of # replies[m].of =>
              /\ replies[m].key \in ks /\ m \in ShownOn(st, replies[m].key, fallback)
              /\ r[m].of = begun[replies[m].key].turn
<1> DEFINE R == [key : Keys \cup {None}, turn : Nat, of : Nat]
           k == replies[m].key
           shown == k \in ks /\ m \in ShownOn(st, k, fallback) /\ st.state[k] # "none" /\ st.requests[k]
<1>1. r[m] = IF shown THEN [replies[m] EXCEPT !.of = begun[k].turn] ELSE replies[m]
  BY DEF Archived
<1>2. replies[m] \in R
  <2>1. replies \in Seq(R)
    BY DEF TypeOK
  <2> HIDE DEF R
  <2> QED BY <2>1
<1>3. CASE shown
  <2>1. k \in Keys /\ begun[k].turn \in Nat
    BY <1>3 DEF TypeOK
  <2>2. r[m] = [replies[m] EXCEPT !.of = begun[k].turn]
    BY <1>1, <1>3
  <2> QED BY <1>2, <1>3, <2>1, <2>2
<1>4. CASE ~shown
  BY <1>1, <1>2, <1>4
<1> QED BY <1>3, <1>4

LEMMA ArchivedFields ==
  ASSUME TypeOK, NEW st, NEW ks \in SUBSET Keys, NEW fallback \in BOOLEAN,
         NEW r, r = Archived(st, ks, fallback)
  PROVE  /\ r \in Seq([key : Keys \cup {None}, turn : Nat, of : Nat])
         /\ DOMAIN r = DOMAIN replies
<1>1. DOMAIN r = DOMAIN replies /\ DOMAIN replies = 1..Len(replies) /\ Len(replies) \in Nat
  BY DEF Archived, TypeOK
<1>2. r = [m \in 1..Len(replies) |-> r[m]]
  BY <1>1 DEF Archived
<1>3. \A m \in 1..Len(replies) : r[m] \in [key : Keys \cup {None}, turn : Nat, of : Nat]
  BY <1>1, ArchivedReply
<1> QED BY <1>1, <1>2, <1>3

\* What the end of a chat leaves, for a session that is named or not.
LEMMA ChatEndsKeep ==
  ASSUME IInv, NEW s \in Sessions, Chatting(s), NEW of, NEW ks,
         \/ of = {KeyOf[s]} /\ ks = {KeyOf[s]}
         \/ of = {} /\ ks = Keys,
         ChatEnds(s, chat[s], of), presets' = EndedCore(chat[s], ks)
  PROVE  IInv'
<1> DEFINE c == chat[s]
           sole(p) == IF InScope(of, p) # {} THEN of ELSE Sole(InScope(store.index[c], p))
           over == UNION {sole(p) : p \in Scopes}
           unclear == {k \in store.index[c] : sole(ScopeOf(k)) = {}}
           fin == Finished(store, over)
           drop == Dropped(fin, unclear)
<1>1. /\ TypeOK /\ store \in Stores /\ c \in Chats /\ bounds \in Bounds
      /\ KeyOf \in [Sessions -> Keys] /\ KeyOf[s] \in Keys
      /\ begun \in [Keys -> [turn : Nat, by : Sessions \cup {None}]]
      /\ chat \in [Sessions -> Chats \cup {None, "done"}] /\ "done" \notin Chats
      /\ store.index \in [Chats -> SUBSET Keys] /\ None \notin Sessions
      /\ \A k \in Keys : ScopeOf(k) \in Scopes
  BY TurnsAssumption, StoreFields DEF IInv, TypeOK, Chatting, ScopeOf
<1>2. /\ chat' = [chat EXCEPT ![s] = "done"]
      /\ replies' = Archived(store, over, TRUE)
      /\ store' = [drop EXCEPT !.index[c] = {}]
      /\ UNCHANGED <<bounds, turns, answered, service, tracked, begun, forgotten>>
  BY DEF ChatEnds
<1>d. chat[s] = c /\ unclear \subseteq store.index[c]
  OBVIOUS
<1>3. over \in SUBSET Keys /\ unclear \subseteq Keys
  <2>1. \A p : sole(p) \subseteq Keys
    BY <1>1, SoleIsSame DEF InScope
  <2> QED BY <1>1, <2>1
<1>o. of \subseteq over
  <2>1. CASE of = {KeyOf[s]}
    <3>1. KeyOf[s] \in InScope(of, ScopeOf(KeyOf[s]))
      BY <2>1 DEF InScope
    <3>2. sole(ScopeOf(KeyOf[s])) = of
      BY <3>1
    <3> QED BY <1>1, <3>2
  <2> QED BY <2>1
<1>4. ~Shared => \A k \in store.index[c] : k \in over \cup unclear
  <2> SUFFICES ASSUME ~Shared, NEW k \in store.index[c], sole(ScopeOf(k)) # {} PROVE k \in over
    OBVIOUS
  <2>1. k \in Keys /\ ScopeOf(k) \in Scopes /\ k \in InScope(store.index[c], ScopeOf(k))
    BY <1>1 DEF InScope
  <2>2. CASE InScope(of, ScopeOf(k)) = {}
    BY <2>1, <2>2, SoleIsSame
  <2>3. CASE InScope(of, ScopeOf(k)) # {}
    <3>1. of = {KeyOf[s]}
      BY <2>3 DEF InScope
    <3>2. k \in bounds.users[c] /\ KeyOf[s] \in bounds.users[c]
      BY <1>1 DEF IInv, UsersOnly
    <3>3. k = KeyOf[s]
      BY <1>1, <3>2, OneUser
    <3> QED BY <1>o, <3>1, <3>3
  <2> QED BY <2>2, <2>3
<1> HIDE DEF c, over, unclear
<1> DEFINE known == {k \in over : store.state[k] # "none"}
<1>5. /\ fin \in Stores /\ fin.keyOf = store.keyOf
      /\ \A k \in Keys : fin.state[k] = IF k \in known THEN "done" ELSE store.state[k]
      /\ \A k \in Keys : fin.captured[k] = IF k \in known THEN {} ELSE store.captured[k]
      /\ \A k \in Keys : fin.character[k] = IF k \in known THEN None ELSE store.character[k]
      /\ \A k \in Keys : fin.core[k] = IF k \in known THEN None ELSE store.core[k]
      /\ \A d \in Chats : fin.index[d] = store.index[d] \ known
  BY <1>1, <1>3, FinishedFields
<1> HIDE DEF fin
<1>6. /\ drop \in Stores
      /\ drop.character = fin.character /\ drop.core = fin.core /\ drop.keyOf = fin.keyOf
      /\ drop.index = fin.index
      /\ \A k \in Keys : drop.state[k] = IF k \in unclear THEN "none" ELSE fin.state[k]
      /\ \A k \in Keys : drop.captured[k] = IF k \in unclear THEN {} ELSE fin.captured[k]
  BY <1>5, DroppedFields
<1> HIDE DEF drop
<1> DEFINE index == [drop.index EXCEPT ![c] = {}]
<1>i. index \in [Chats -> SUBSET Keys] /\ \A d \in Chats : index[d] = IF d = c THEN {} ELSE fin.index[d]
  <2>1. drop.index \in [Chats -> SUBSET Keys]
    BY <1>6, StoreFields
  <2> QED BY <1>6, <2>1
<1>e. store' = [drop EXCEPT !.index = index]
  BY <1>2, <1>6 DEF Stores
<1> HIDE DEF index
<1>7. /\ store' \in Stores
      /\ store'.character = fin.character /\ store'.core = fin.core /\ store'.keyOf = store.keyOf
      /\ store'.index = index /\ store'.state = drop.state /\ store'.captured = drop.captured
  BY <1>5, <1>6, <1>i, <1>e DEF Stores
<1>8. /\ \A k \in Keys : k \in Thinking(store)' <=>
                           k \in Thinking(store) /\ k \notin over /\ k \notin unclear
      /\ Thinking(store)' \subseteq Keys
      /\ \A k \in Keys : store'.captured[k] \in {store.captured[k], {}}
      /\ \A k \in Keys : store'.character[k] \in {store.character[k], None}
      /\ \A k \in Keys : store'.core[k] \in {store.core[k], None}
      /\ \A k \in Keys : k \notin known => store'.character[k] = store.character[k]
      /\ \A d \in Chats, k \in Keys :
           k \in store'.index[d] <=> k \in store.index[d] /\ d # c /\ k \notin known
  BY <1>5, <1>6, <1>7, <1>i DEF Thinking
<1>9. /\ \A r \in Sessions : chat'[r] = IF r = s THEN "done" ELSE chat[r]
      /\ \A r \in Sessions : InTurn(r)' <=> InTurn(r)
      /\ Shared' <=> Shared
      /\ bounds' = bounds
  BY <1>1, <1>2 DEF InTurn, Services, Shared
<1>10. TypeOK'
  <2>1. replies' \in Seq([key : Keys \cup {None}, turn : Nat, of : Nat])
    BY <1>1, <1>2, <1>3, ArchivedFields
  <2>2. chat' \in [Sessions -> Chats \cup {None, "done"}]
    BY <1>1, <1>2
  <2>3. presets' \subseteq presets
    BY DEF EndedCore
  <2> QED BY <1>1, <1>2, <1>7, <2>1, <2>2, <2>3 DEF TypeOK, Services
<1>11. TurnsAreTracked' /\ UsersOnly'
  <2>1. TurnsAreTracked'
    BY <1>2 DEF IInv, TurnsAreTracked
  <2>2. ASSUME NEW r \in Sessions, chat'[r] \in Chats PROVE KeyOf[r] \in bounds'.users[chat'[r]]
    BY <1>1, <1>9, <2>2 DEF IInv, UsersOnly, Chatting
  <2>3. ASSUME NEW d \in Chats PROVE store'.index[d] \subseteq bounds'.users[d]
    <3>1. store'.index[d] \subseteq store.index[d]
      BY <1>1, <1>7, <1>8, StoreFields
    <3> QED BY <1>9, <3>1 DEF IInv, UsersOnly
  <2> QED BY <2>1, <2>2, <2>3 DEF UsersOnly, Chatting
<1>12. OneSession'
  BY <1>2, <1>8 DEF IInv, OneSession
<1>13. IndexIsOfThinking'
  <2>1. ASSUME NEW d \in Chats, NEW k \in store'.index[d]
        PROVE  k \in Keys /\ k \in store.index[d] /\ k \in Thinking(store)'
    <3>1. k \in Keys
      BY <1>7, StoreFields
    <3>2. k \in store.index[d] /\ d # c /\ k \notin known
      BY <1>8, <3>1
    <3>3. k \in Thinking(store) /\ k \notin store.index[c]
      BY <1>1, <3>2 DEF IInv, IndexIsOfThinking
    <3>4. k \notin over
      BY <3>2, <3>3 DEF Thinking
    <3> QED BY <1>d, <1>8, <3>1, <3>2, <3>3, <3>4
  <2> QED BY <2>1 DEF IInv, IndexIsOfThinking
<1>14. WillEnd'
  <2> SUFFICES ASSUME ~Shared, NEW j \in Thinking(store)' PROVE (InChat(j) \/ InItsTurn(j))'
    BY <1>9 DEF WillEnd
  <2>1. j \in Keys /\ j \in Thinking(store) /\ j \notin known /\ j \notin store.index[c]
    BY <1>4, <1>8
  <2>2. begun'[j] = begun[j] /\ begun[j].by \in Sessions
    BY <1>1, <1>2, <2>1 DEF IInv, OneSession
  <2>3. InChat(j) => InChat(j)'
    <3> SUFFICES ASSUME InChat(j) PROVE InChat(j)'
      OBVIOUS
    <3>1. chat[begun[j].by] \in Chats /\ j \in store.index[chat[begun[j].by]]
      BY DEF InChat, Chatting
    <3>2. chat[begun[j].by] # c
      BY <2>1, <3>1
    <3>3. chat'[begun[j].by] = chat[begun[j].by]
      BY <1>d, <1>9, <2>2, <3>2
    <3>4. j \in store'.index[chat[begun[j].by]]
      BY <1>8, <2>1, <3>1, <3>2
    <3> QED BY <2>2, <3>1, <3>3, <3>4 DEF InChat, Chatting
  <2>4. InItsTurn(j) => InItsTurn(j)'
    BY <1>2, <1>7, <1>8, <1>9, <2>1, <2>2 DEF InItsTurn
  <2> QED BY <2>1, <2>3, <2>4 DEF IInv, WillEnd
<1> DEFINE S == {p \in presets : p.kind = "core" /\ p.chat = c /\ KeyOf[p.session] \in ks}
<1>p. presets' = presets \ Sole(S) /\ KeyOf[s] \in ks /\ S \subseteq presets /\ IsFiniteSet(S)
  <2>1. presets' = presets \ Sole(S) /\ KeyOf[s] \in ks
    BY <1>1, <1>d DEF EndedCore
  <2> QED BY <2>1, FS_Subset DEF IInv, CorePresetsRunOrAreUnclear
<1>15. CharacterPresetsRun'
  BY <1>2, <1>9, <1>p DEF IInv, TypeOK, CharacterPresetsRun
<1>16. CorePresetsRunOrAreUnclear'
  <2>1. IsFiniteSet(presets')
    BY <1>p, FS_Subset DEF IInv, CorePresetsRunOrAreUnclear
  <2>2. ASSUME NEW p \in presets', p.kind = "core"
        PROVE  /\ p.chat \in Chats /\ KeyOf[p.session] \in bounds'.users[p.chat]
               /\ chat'[p.session] \in {p.chat, "done"}
               /\ ~Shared' /\ chat'[p.session] = "done" => \E q \in presets' : Alike(p, q)
    <3>1. /\ p \in presets /\ p \notin Sole(S) /\ p.session \in Sessions
          /\ p.chat \in Chats /\ KeyOf[p.session] \in bounds.users[p.chat]
          /\ chat[p.session] \in {p.chat, "done"}
          /\ ~Shared /\ chat[p.session] = "done" => \E q \in presets : Alike(p, q)
      BY <1>1, <1>p, <2>2 DEF IInv, TypeOK, CorePresetsRunOrAreUnclear
    <3>2. chat'[p.session] \in {p.chat, "done"}
      BY <1>9, <3>1
    <3>3. CASE p.session = s
      <4>1. p.chat = c /\ p \in S
        BY <1>1, <1>d, <1>p, <2>2, <3>1, <3>3
      <4>2. PICK q \in S : q # p
        <5>1. S # {p}
          BY <3>1, SoleOfOne
        <5> QED BY <4>1, <5>1
      <4>3. q \in presets'
        BY <1>p, <4>1, <4>2, SoleOfMore
      <4>4. q \in presets /\ q.kind = "core" /\ q.chat = c /\ KeyOf[q.session] \in ks
        BY <4>2
      <4>5. ~Shared => KeyOf[q.session] = KeyOf[p.session]
        <5>1. CASE ks = {KeyOf[s]}
          BY <3>3, <4>4, <5>1
        <5>2. CASE ~Shared
          <6>1. KeyOf[q.session] \in bounds.users[c] /\ KeyOf[p.session] \in bounds.users[c]
            BY <3>1, <4>1, <4>4 DEF IInv, CorePresetsRunOrAreUnclear
          <6> QED BY <1>1, <5>2, <6>1, OneUser
        <5> QED BY <5>2
      <4>6. ~Shared => Alike(p, q)
        BY <2>2, <4>1, <4>2, <4>4, <4>5 DEF Alike
      <4> QED BY <1>9, <3>1, <3>2, <4>3, <4>6
    <3>4. CASE p.session # s
      <4>1. chat'[p.session] = chat[p.session]
        BY <1>9, <3>1, <3>4
      <4>2. ASSUME NEW q \in presets, Alike(p, q) PROVE q \in presets'
        <5>1. q \in S => p \in S /\ p # q
          BY <3>1, <4>2 DEF Alike
        <5>2. q \in S => Sole(S) = {}
          BY <1>p, <5>1, SoleOfMore
        <5>3. Sole(S) \subseteq S
          BY SoleIsSame
        <5> QED BY <1>p, <5>2, <5>3
      <4> QED BY <1>9, <3>1, <4>1, <4>2
    <3> QED BY <3>3, <3>4
  <2> QED BY <2>1, <2>2 DEF CorePresetsRunOrAreUnclear
<1>17. CapturedAreOwn'
  <2>1. DOMAIN replies' = DOMAIN replies /\ \A m \in DOMAIN replies : replies'[m].turn = replies[m].turn
    <3> DEFINE allowed == TRUE
    <3>1. /\ replies' = Archived(store, over, allowed) /\ allowed \in BOOLEAN
          /\ over \in SUBSET Keys /\ TypeOK
      BY <1>1, <1>2, <1>3
    <3> HIDE DEF allowed
    <3>2. DOMAIN replies' = DOMAIN replies
      BY ONLY <3>1, ArchivedFields
    <3>3. ASSUME NEW m \in DOMAIN replies PROVE replies'[m].turn = replies[m].turn
      BY <3>1, ArchivedReply
    <3> QED BY <3>2, <3>3
  <2> QED BY <1>2, <1>8, <2>1 DEF IInv, CapturedAreOwn
<1> QED BY <1>10, <1>11, <1>12, <1>13, <1>14, <1>15, <1>16, <1>17 DEF IInv

LEMMA CoreKeeps ==
  ASSUME IInv, NEW s \in Sessions, AfterChat(s) \/ ChatFails(s)
  PROVE  IInv'
  BY ChatEndsKeep DEF AfterChat, ChatFails

-----------------------------------------------------------------------------
(* The character plugin *)

\* What the end of a character turn does to the store and to the replies.
LEMMA FinishFields ==
  ASSUME TypeOK, NEW s \in Sessions, NEW fallback \in BOOLEAN, FinishCharacterTurn(s, fallback),
         NEW k, k = store.keyOf[s], NEW ends \in BOOLEAN, ends = FinishesFor(store, s)
  PROVE  /\ store' \in Stores
         /\ \A j \in Keys : j \in Thinking(store)' <=> j \in Thinking(store) /\ ~(ends /\ j = k)
         /\ \A j \in Keys : store'.captured[j] \in {store.captured[j], {}}
         /\ \A j \in Keys : store'.character[j] =
                              IF j = k /\ store.character[j] = s THEN None ELSE store.character[j]
         /\ \A j \in Keys : store'.core[j] \in {store.core[j], None}
         /\ \A r \in Sessions : store'.keyOf[r] = IF r = s THEN None ELSE store.keyOf[r]
         /\ \A d \in Chats, j \in Keys :
              j \in store'.index[d] <=> j \in store.index[d] /\ ~(ends /\ j = k)
         /\ replies' \in Seq([key : Keys \cup {None}, turn : Nat, of : Nat])
         /\ DOMAIN replies' = DOMAIN replies
<1> DEFINE ks == IF ends THEN {k} ELSE {}
           known == {j \in ks : store.state[j] # "none"}
           fin == Finished(store, ks)
<1>1. store \in Stores /\ k \in Keys \cup {None}
  BY StoreFields DEF TypeOK
<1>2. /\ ends => k \in Keys /\ store.character[k] = s /\ store.state[k] = "thinking"
      /\ ks \in SUBSET Keys /\ known = ks
  BY <1>1 DEF FinishesFor
<1>f. /\ store' = [fin EXCEPT !.keyOf[s] = None,
                     !.character = [j \in Keys |-> IF j = k /\ @[j] = s THEN None ELSE @[j]]]
      /\ replies' = IF ends THEN Archived(store, {k}, fallback) ELSE replies
  BY DEF FinishCharacterTurn
<1>k. k = store.keyOf[s] /\ ks = (IF ends THEN {k} ELSE {})
  OBVIOUS
<1> HIDE DEF ks
<1>3. /\ fin \in Stores /\ fin.keyOf = store.keyOf
      /\ \A j \in Keys : fin.state[j] = IF j \in known THEN "done" ELSE store.state[j]
      /\ \A j \in Keys : fin.captured[j] = IF j \in known THEN {} ELSE store.captured[j]
      /\ \A j \in Keys : fin.character[j] = IF j \in known THEN None ELSE store.character[j]
      /\ \A j \in Keys : fin.core[j] = IF j \in known THEN None ELSE store.core[j]
      /\ \A d \in Chats : fin.index[d] = store.index[d] \ known
  BY <1>1, <1>2, FinishedFields
<1> HIDE DEF fin, known
<1> DEFINE keyOf == [fin.keyOf EXCEPT ![s] = None]
           character == [j \in Keys |-> IF j = k /\ fin.character[j] = s THEN None ELSE fin.character[j]]
<1>4. /\ fin.keyOf \in [Sessions -> Keys \cup {None}]
      /\ fin.character \in [Keys -> Sessions \cup {None}]
  BY <1>3, StoreFields
<1>5. /\ keyOf \in [Sessions -> Keys \cup {None}] /\ character \in [Keys -> Sessions \cup {None}]
      /\ \A r \in Sessions : keyOf[r] = IF r = s THEN None ELSE store.keyOf[r]
      /\ \A j \in Keys : character[j] =
                           IF j = k /\ store.character[j] = s THEN None ELSE store.character[j]
  BY <1>2, <1>k, <1>3, <1>4
<1>6. store' = [fin EXCEPT !.keyOf = keyOf, !.character = character]
  BY <1>f, <1>3 DEF Stores
<1> HIDE DEF keyOf, character
<1>7. /\ store' \in Stores /\ store'.keyOf = keyOf /\ store'.character = character
      /\ store'.state = fin.state /\ store'.captured = fin.captured /\ store'.core = fin.core
      /\ store'.index = fin.index
  BY <1>3, <1>5, <1>6 DEF Stores
<1>8. /\ \A j \in Keys : j \in Thinking(store)' <=> j \in Thinking(store) /\ ~(ends /\ j = k)
      /\ \A d \in Chats, j \in Keys :
           j \in store'.index[d] <=> j \in store.index[d] /\ ~(ends /\ j = k)
  BY <1>2, <1>k, <1>3, <1>7 DEF Thinking
<1>9. /\ \A j \in Keys : store'.captured[j] \in {store.captured[j], {}}
      /\ \A j \in Keys : store'.core[j] \in {store.core[j], None}
  BY <1>3, <1>7
<1>10. /\ replies' \in Seq([key : Keys \cup {None}, turn : Nat, of : Nat])
       /\ DOMAIN replies' = DOMAIN replies
  <2>1. CASE ~ends
    BY <1>f, <2>1 DEF TypeOK
  <2>2. CASE ends
    <3>1. {k} \in SUBSET Keys /\ replies' = Archived(store, {k}, fallback)
      BY <1>2, <1>f, <2>2
    <3> QED BY <3>1, ArchivedFields
  <2> QED BY <2>1, <2>2
<1> QED BY <1>5, <1>7, <1>8, <1>9, <1>10

\* A reply keeps its turn; requests are put on it by the turn of its own bot only.
LEMMA FinishedReply ==
  ASSUME TypeOK, NEW s \in Sessions, NEW fallback \in BOOLEAN, FinishCharacterTurn(s, fallback),
         NEW m \in DOMAIN replies
  PROVE  /\ replies'[m].turn = replies[m].turn
         /\ replies'[m].of # replies[m].of =>
              /\ FinishesFor(store, s) /\ replies[m].key = store.keyOf[s]
              /\ m \in ShownOn(store, replies[m].key, fallback)
              /\ replies'[m].of = begun[replies[m].key].turn
<1>1. CASE ~FinishesFor(store, s)
  BY <1>1 DEF FinishCharacterTurn
<1>2. CASE FinishesFor(store, s)
  <2> DEFINE k == store.keyOf[s]
  <2>1. k \in Keys
    BY <1>2, StoreFields DEF FinishesFor, TypeOK
  <2>2. {k} \in SUBSET Keys /\ replies' = Archived(store, {k}, fallback)
    BY <1>2, <2>1 DEF FinishCharacterTurn
  <2> HIDE DEF k
  <2>3. /\ replies'[m].turn = replies[m].turn
        /\ replies'[m].of # replies[m].of =>
             /\ replies[m].key \in {k} /\ m \in ShownOn(store, replies[m].key, fallback)
             /\ replies'[m].of = begun[replies[m].key].turn
    BY <2>2, ArchivedReply
  <2> QED BY <1>2, <2>3 DEF k
<1> QED BY <1>1, <1>2

\* The end of a turn, answered or released; what runs besides stays.
LEMMA TurnEndsKeep ==
  ASSUME IInv, NEW s \in Sessions, NEW fallback \in BOOLEAN, FinishCharacterTurn(s, fallback),
         presets' = EndedCharacter(s), answered' = answered \cup {s},
         turns' \subseteq turns, tracked' \subseteq tracked, turns' \subseteq tracked',
         \A v, r : r # s /\ <<v, r>> \in turns => <<v, r>> \in turns',
         UNCHANGED <<bounds, chat, service, begun, forgotten>>
  PROVE  IInv'
<1> DEFINE k == store.keyOf[s]
           ends == FinishesFor(store, s)
           gone == Preset("character", s, None)
<1>1. /\ TypeOK /\ store \in Stores /\ bounds \in Bounds /\ None \notin Sessions
      /\ begun \in [Keys -> [turn : Nat, by : Sessions \cup {None}]]
      /\ chat \in [Sessions -> Chats \cup {None, "done"}]
      /\ store.character \in [Keys -> Sessions \cup {None}]
      /\ k = store.keyOf[s] /\ presets' = presets \ {gone}
      /\ ends => store.character[k] = s /\ store.state[k] = "thinking"
  BY TurnsAssumption, StoreFields DEF IInv, TypeOK, EndedCharacter, FinishesFor
<1>2. /\ store' \in Stores
      /\ \A j \in Keys : j \in Thinking(store)' <=> j \in Thinking(store) /\ ~(ends /\ j = k)
      /\ \A j \in Keys : store'.captured[j] \in {store.captured[j], {}}
      /\ \A j \in Keys : store'.character[j] =
                           IF j = k /\ store.character[j] = s THEN None ELSE store.character[j]
      /\ \A j \in Keys : store'.core[j] \in {store.core[j], None}
      /\ \A r \in Sessions : store'.keyOf[r] = IF r = s THEN None ELSE store.keyOf[r]
      /\ \A d \in Chats, j \in Keys :
           j \in store'.index[d] <=> j \in store.index[d] /\ ~(ends /\ j = k)
      /\ replies' \in Seq([key : Keys \cup {None}, turn : Nat, of : Nat])
      /\ DOMAIN replies' = DOMAIN replies
  <2>1. k = store.keyOf[s] /\ ends = FinishesFor(store, s) /\ ends \in BOOLEAN
    BY DEF FinishesFor
  <2> HIDE DEF k, ends
  <2>2. store' \in Stores
    BY <1>1, <2>1, FinishFields
  <2>3. \A j \in Keys : j \in Thinking(store)' <=> j \in Thinking(store) /\ ~(ends /\ j = k)
    BY <1>1, <2>1, FinishFields
  <2>4. \A j \in Keys : store'.captured[j] \in {store.captured[j], {}}
    BY <1>1, <2>1, FinishFields
  <2>5. \A j \in Keys : store'.character[j] =
                           IF j = k /\ store.character[j] = s THEN None ELSE store.character[j]
    BY <1>1, <2>1, FinishFields
  <2>6. \A j \in Keys : store'.core[j] \in {store.core[j], None}
    BY <1>1, <2>1, FinishFields
  <2>7. \A r \in Sessions : store'.keyOf[r] = IF r = s THEN None ELSE store.keyOf[r]
    BY <1>1, <2>1, FinishFields
  <2>8. \A d \in Chats, j \in Keys :
           j \in store'.index[d] <=> j \in store.index[d] /\ ~(ends /\ j = k)
    BY <1>1, <2>1, FinishFields
  <2>9. /\ replies' \in Seq([key : Keys \cup {None}, turn : Nat, of : Nat])
        /\ DOMAIN replies' = DOMAIN replies
    BY <1>1, <2>1, FinishFields
  <2> QED BY <2>2, <2>3, <2>4, <2>5, <2>6, <2>7, <2>8, <2>9
<1>e. ends <=> k # None /\ store.character[k] = s /\ store.state[k] = "thinking"
  BY DEF FinishesFor
<1> HIDE DEF k, ends
<1>3. /\ \A r \in Sessions : Chatting(r)' <=> Chatting(r)
      /\ Shared' <=> Shared
      /\ \A r \in Sessions \ {s} : InTurn(r)' <=> InTurn(r)
      /\ \A d \in Chats : store'.index[d] \subseteq store.index[d] /\ store.index[d] \subseteq Keys
  <2>1. \A r \in Sessions \ {s} : InTurn(r)' <=> InTurn(r)
    BY DEF InTurn, Services
  <2> QED BY <1>1, <1>2, <2>1, StoreFields DEF Chatting, Shared
<1>4. TypeOK'
  <2>1. presets' \subseteq presets /\ answered' \subseteq Sessions
    BY <1>1 DEF TypeOK
  <2> QED BY <1>1, <1>2, <2>1 DEF TypeOK, Services
<1>5. TurnsAreTracked' /\ UsersOnly'
  <2>1. TurnsAreTracked'
    BY DEF TurnsAreTracked
  <2>2. UsersOnly'
    BY <1>3 DEF IInv, UsersOnly, Chatting
  <2> QED BY <2>1, <2>2
<1>6. OneSession'
  BY <1>2 DEF IInv, OneSession
<1>7. IndexIsOfThinking'
  <2>1. ASSUME NEW d \in Chats PROVE store'.index[d] \subseteq Thinking(store)'
    BY <1>2, <1>3 DEF IInv, IndexIsOfThinking
  <2> QED BY <1>3, <2>1 DEF IInv, IndexIsOfThinking
<1>8. WillEnd'
  <2> SUFFICES ASSUME ~Shared, NEW j \in Thinking(store)' PROVE (InChat(j) \/ InItsTurn(j))'
    BY <1>3 DEF WillEnd
  <2>1. j \in Keys /\ j \in Thinking(store) /\ ~(ends /\ j = k)
    BY <1>2 DEF Thinking
  <2>2. begun[j].by \in Sessions
    BY <1>1, <2>1 DEF IInv, OneSession
  <2>3. InChat(j) => InChat(j)'
    BY <1>2, <2>1 DEF InChat, Chatting
  <2>4. InItsTurn(j) => InItsTurn(j)'
    <3> SUFFICES ASSUME InItsTurn(j) PROVE InItsTurn(j)'
      OBVIOUS
    <3>1. /\ InTurn(begun[j].by) /\ begun[j].by \notin answered
          /\ store.keyOf[begun[j].by] = j /\ store.character[j] = begun[j].by
      BY DEF InItsTurn
    <3>2. begun[j].by # s
      <4> SUFFICES ASSUME begun[j].by = s PROVE FALSE
        OBVIOUS
      <4>1. j = k /\ store.character[k] = s /\ k # None
        BY <1>1, <2>1, <3>1, TurnsAssumption
      <4>2. store.state[k] = "thinking"
        BY <2>1, <4>1 DEF Thinking
      <4> QED BY <1>e, <2>1, <4>1, <4>2
    <3>3. store'.keyOf[begun[j].by] = j /\ store'.character[j] = begun[j].by
      BY <1>2, <2>1, <2>2, <3>1, <3>2
    <3>4. InTurn(begun[j].by)' /\ begun'[j].by \notin answered'
      BY <1>3, <2>2, <3>1, <3>2 DEF InTurn, Services
    <3> QED BY <3>3, <3>4 DEF InItsTurn, InTurn
  <2> QED BY <2>1, <2>3, <2>4 DEF IInv, WillEnd
<1>9. CharacterPresetsRun'
  <2> SUFFICES ASSUME NEW p \in presets', p.kind = "character"
               PROVE  p.chat = None /\ InTurn(p.session)' /\ p.session \notin answered'
    BY DEF CharacterPresetsRun, InTurn
  <2>1. /\ p \in presets /\ p # gone
        /\ p \in [kind : {"core", "character"}, session : Sessions, chat : Chats \cup {None}]
        /\ p.chat = None /\ InTurn(p.session) /\ p.session \notin answered
    BY <1>1 DEF IInv, TypeOK, CharacterPresetsRun
  <2>2. p.session # s
    BY <2>1 DEF Preset
  <2> QED BY <1>3, <2>1, <2>2
<1>10. CorePresetsRunOrAreUnclear'
  <2>1. IsFiniteSet(presets')
    BY <1>1, FS_Subset DEF IInv, CorePresetsRunOrAreUnclear
  <2>2. \A p \in presets : p.kind = "core" => p \in presets'
    BY <1>1 DEF Preset
  <2>3. \A p, q \in presets : p.kind = "core" /\ Alike(p, q) => q \in presets'
    BY <2>2 DEF Alike
  <2> QED BY <1>1, <1>3, <2>1, <2>3 DEF IInv, CorePresetsRunOrAreUnclear
<1>11. CapturedAreOwn'
  <2>1. ASSUME NEW m \in DOMAIN replies PROVE replies'[m].turn = replies[m].turn
    BY <1>1, FinishedReply
  <2> QED BY <1>2, <2>1 DEF IInv, CapturedAreOwn
<1> QED BY <1>4, <1>5, <1>6, <1>7, <1>8, <1>9, <1>10, <1>11 DEF IInv

LEMMA AnswerKeeps == ASSUME IInv, NEW s \in Sessions, Answer(s) PROVE IInv'
<1>1. turns' \subseteq tracked'
  BY DEF Answer, IInv, TurnsAreTracked
<1> QED BY <1>1, TurnEndsKeep DEF Answer

LEMMA ReleaseKeeps ==
  ASSUME IInv, NEW s \in Sessions, NEW v \in Services, Release(v, s)
  PROVE  IInv'
<1>1. <<v, s>> \in tracked
  BY DEF Release, IInv, TurnsAreTracked
<1>2. FinishCharacterTurn(s, FALSE) /\ presets' = EndedCharacter(s)
  BY <1>1 DEF Release
<1>3. turns' \subseteq tracked' /\ turns' \subseteq turns /\ tracked' \subseteq tracked
  BY DEF Release, IInv, TurnsAreTracked
<1>4. \A w, r : r # s /\ <<w, r>> \in turns => <<w, r>> \in turns'
  BY DEF Release
<1> QED BY <1>2, <1>3, <1>4, TurnEndsKeep DEF Release

\* A character session joins the turn that was begun for it, or begins one.
LEMMA CollectFields ==
  ASSUME IInv, NEW s \in Sessions, Collect(s), NEW k, k = KeyOf[s]
  PROVE  /\ store' \in Stores
         /\ begun' \in [Keys -> [turn : Nat, by : Sessions \cup {None}]]
         /\ begun'[k].by = s /\ k \in Thinking(store)'
         /\ \A j \in Keys \ {k} : begun'[j] = begun[j]
         /\ \A j \in Keys \ {k} : j \in Thinking(store)' <=> j \in Thinking(store)
         /\ store'.character[k] = s /\ store'.core[k] \in {None, s}
         /\ \A j \in Keys \ {k} : /\ store'.character[j] = store.character[j]
                                  /\ store'.core[j] = store.core[j]
         /\ store'.keyOf[s] = k /\ \A r \in Sessions \ {s} : store'.keyOf[r] = store.keyOf[r]
         /\ \A d \in Chats : store'.index[d] \subseteq store.index[d]
         /\ \A d \in Chats, j \in Keys \ {k} : j \in store.index[d] => j \in store'.index[d]
         /\ \A j \in Keys \ {k} : store'.captured[j] = store.captured[j]
         /\ store'.captured[k] = {} \/ (store'.captured[k] = store.captured[k] /\ begun' = begun)
<1>1. /\ store \in Stores /\ k \in Keys /\ None \notin Sessions
      /\ begun \in [Keys -> [turn : Nat, by : Sessions \cup {None}]]
  BY TurnsAssumption DEF IInv, TypeOK
<1> DEFINE keyOf == [store.keyOf EXCEPT ![s] = k]
           known == [store EXCEPT !.keyOf[s] = k]
<1>2. keyOf \in [Sessions -> Keys \cup {None}] /\ keyOf[s] = k
      /\ \A r \in Sessions \ {s} : keyOf[r] = store.keyOf[r]
  BY <1>1, StoreFields
<1>3. known = [store EXCEPT !.keyOf = keyOf]
  BY <1>1 DEF Stores
<1>c. IF SameTurn(store, s)
        THEN store' = [known EXCEPT !.character[k] = s] /\ begun' = begun
        ELSE store' = [Afresh(known, k) EXCEPT !.character[k] = s] /\ Begun(k, s)
  BY DEF Collect
<1> HIDE DEF keyOf, known
<1>4. /\ known \in Stores /\ known.keyOf = keyOf
      /\ known.state = store.state /\ known.index = store.index /\ known.captured = store.captured
      /\ known.character = store.character /\ known.core = store.core
  BY <1>1, <1>2, <1>3 DEF Stores
<1>5. CASE SameTurn(store, s)
  <2> DEFINE character == [store.character EXCEPT ![k] = s]
  <2>1. character \in [Keys -> Sessions \cup {None}] /\ character[k] = s
        /\ \A j \in Keys \ {k} : character[j] = store.character[j]
    BY <1>1, StoreFields
  <2>2. store' = [known EXCEPT !.character = character]
    BY <1>c, <1>4, <1>5 DEF Stores
  <2> HIDE DEF character
  <2>3. /\ store' \in Stores /\ store'.keyOf = keyOf /\ store'.character = character
        /\ store'.state = store.state /\ store'.index = store.index
        /\ store'.captured = store.captured /\ store'.core = store.core
    BY <1>4, <2>1, <2>2 DEF Stores
  <2>4. store.state[k] = "thinking" /\ s \in {store.character[k], store.core[k]}
    BY <1>1, <1>5 DEF SameTurn
  <2>5. k \in Thinking(store) /\ begun[k].by = s /\ store.core[k] \in {None, s}
    BY <1>1, <2>4 DEF IInv, OneSession, Thinking
  <2>6. Thinking(store)' = Thinking(store) /\ begun' = begun
    BY <1>c, <1>5, <2>3 DEF Thinking
  <2> QED BY <1>1, <1>2, <2>1, <2>3, <2>5, <2>6
<1>6. CASE ~SameTurn(store, s)
  <2> DEFINE a == Afresh(known, k)
             character == [a.character EXCEPT ![k] = s]
  <2>1. /\ a \in Stores /\ a.keyOf = keyOf
        /\ \A j \in Keys : a.state[j] = IF j = k THEN "thinking" ELSE store.state[j]
        /\ \A j \in Keys : a.captured[j] = IF j = k THEN {} ELSE store.captured[j]
        /\ \A j \in Keys : a.character[j] = IF j = k THEN None ELSE store.character[j]
        /\ \A j \in Keys : a.core[j] = IF j = k THEN None ELSE store.core[j]
        /\ \A d \in Chats : a.index[d] = store.index[d] \ {k}
    <3>k. known \in Stores /\ k \in Keys
      BY <1>1, <1>4
    <3>1. /\ a \in Stores /\ a.keyOf = known.keyOf
          /\ \A j \in Keys : a.state[j] = IF j = k THEN "thinking" ELSE known.state[j]
          /\ \A j \in Keys : a.captured[j] = IF j = k THEN {} ELSE known.captured[j]
          /\ \A j \in Keys : a.character[j] = IF j = k THEN None ELSE known.character[j]
          /\ \A j \in Keys : a.core[j] = IF j = k THEN None ELSE known.core[j]
          /\ \A d \in Chats : a.index[d] = known.index[d] \ {k}
      BY <3>k, AfreshFields
    <3> HIDE DEF a
    <3> QED BY <1>4, <3>1
  <2> HIDE DEF a
  <2>2. a.character \in [Keys -> Sessions \cup {None}]
    BY <2>1, StoreFields
  <2>3. character \in [Keys -> Sessions \cup {None}] /\ character[k] = s
        /\ \A j \in Keys \ {k} : character[j] = store.character[j]
    BY <1>1, <2>1, <2>2
  <2>4. store' = [a EXCEPT !.character = character]
    BY <1>c, <1>6, <2>1 DEF a, Stores
  <2> HIDE DEF character
  <2>5. /\ store' \in Stores /\ store'.keyOf = keyOf /\ store'.character = character
        /\ store'.state = a.state /\ store'.index = a.index
        /\ store'.captured = a.captured /\ store'.core = a.core
    BY <2>1, <2>3, <2>4 DEF Stores
  <2>6. /\ begun' \in [Keys -> [turn : Nat, by : Sessions \cup {None}]]
        /\ begun'[k].by = s /\ \A j \in Keys \ {k} : begun'[j] = begun[j]
    BY <1>1, <1>c, <1>6 DEF Begun
  <2>7. /\ k \in Thinking(store)'
        /\ \A j \in Keys \ {k} : j \in Thinking(store)' <=> j \in Thinking(store)
    BY <1>1, <2>1, <2>5 DEF Thinking
  <2>8. store'.core[k] = None /\ store'.captured[k] = {}
    BY <1>1, <2>1, <2>5
  <2>9. /\ \A j \in Keys \ {k} : store'.core[j] = store.core[j]
        /\ \A j \in Keys \ {k} : store'.captured[j] = store.captured[j]
        /\ \A d \in Chats : store'.index[d] = store.index[d] \ {k}
    BY <2>1, <2>5
  <2>10. store'.keyOf[s] = k /\ \A r \in Sessions \ {s} : store'.keyOf[r] = store.keyOf[r]
    BY <1>2, <2>5
  <2>11. /\ store'.character[k] = s
         /\ \A j \in Keys \ {k} : store'.character[j] = store.character[j]
    BY <2>3, <2>5
  <2>12. /\ \A d \in Chats : store'.index[d] \subseteq store.index[d]
         /\ \A d \in Chats, j \in Keys \ {k} : j \in store.index[d] => j \in store'.index[d]
    BY <2>9
  <2>13. store' \in Stores
    BY <2>5
  <2>14. store'.captured[k] = {} \/ (store'.captured[k] = store.captured[k] /\ begun' = begun)
    BY <2>8
  <2>15. store'.core[k] \in {None, s}
    BY <2>8
  <2>16. \A j \in Keys \ {k} : /\ store'.character[j] = store.character[j]
                               /\ store'.core[j] = store.core[j]
    BY <2>9, <2>11
  <2>17. \A j \in Keys \ {k} : store'.captured[j] = store.captured[j]
    BY <2>9
  <2> QED BY <2>6, <2>7, <2>10, <2>11, <2>12, <2>13, <2>14, <2>15, <2>16, <2>17, Zenon
<1> QED BY <1>5, <1>6

LEMMA CollectKeeps == ASSUME IInv, NEW s \in Sessions, Collect(s) PROVE IInv'
<1> DEFINE k == KeyOf[s]
<1>1. /\ k \in Keys /\ None \notin Sessions /\ service \in Services /\ k = KeyOf[s]
      /\ s \notin answered /\ turns' = turns \cup {<<service, s>>}
      /\ tracked' = tracked \cup {<<service, s>>}
      /\ UNCHANGED <<bounds, chat, answered, service, presets, replies, forgotten>>
  BY TurnsAssumption DEF IInv, TypeOK, Collect, Tracked
<1> HIDE DEF k
<1>2. /\ store' \in Stores
      /\ begun' \in [Keys -> [turn : Nat, by : Sessions \cup {None}]]
  BY <1>1, CollectFields
<1>3. /\ begun'[k].by = s /\ k \in Thinking(store)'
      /\ \A j \in Keys \ {k} : begun'[j] = begun[j]
      /\ \A j \in Keys \ {k} : j \in Thinking(store)' <=> j \in Thinking(store)
  BY <1>1, CollectFields
<1>4. /\ store'.character[k] = s /\ store'.core[k] \in {None, s}
      /\ \A j \in Keys \ {k} : /\ store'.character[j] = store.character[j]
                               /\ store'.core[j] = store.core[j]
  BY <1>1, CollectFields
<1>5. store'.keyOf[s] = k /\ \A r \in Sessions \ {s} : store'.keyOf[r] = store.keyOf[r]
  BY <1>1, CollectFields
<1>6. /\ \A d \in Chats : store'.index[d] \subseteq store.index[d]
      /\ \A d \in Chats, j \in Keys \ {k} : j \in store.index[d] => j \in store'.index[d]
  BY <1>1, CollectFields
<1>7. /\ \A j \in Keys \ {k} : store'.captured[j] = store.captured[j]
      /\ store'.captured[k] = {} \/ (store'.captured[k] = store.captured[k] /\ begun' = begun)
  BY <1>1, CollectFields
<1>8. /\ Shared' <=> Shared
      /\ \A r \in Sessions : InTurn(r) \/ r = s => InTurn(r)'
      /\ \A r \in Sessions : Chatting(r)' <=> Chatting(r)
  BY <1>1 DEF Shared, InTurn, Services, Chatting
<1>9. TypeOK'
  BY <1>1, <1>2 DEF IInv, TypeOK, Services
<1>10. TurnsAreTracked' /\ UsersOnly'
  BY <1>1, <1>6, <1>8 DEF IInv, TurnsAreTracked, UsersOnly, Chatting
<1>11. OneSession'
  BY <1>1, <1>3, <1>4 DEF IInv, OneSession
<1>12. IndexIsOfThinking'
  <2>1. ASSUME NEW d \in Chats PROVE store'.index[d] \subseteq Thinking(store)'
    <3>1. store'.index[d] \subseteq store.index[d] /\ store.index[d] \subseteq Thinking(store)
      BY <1>6 DEF IInv, IndexIsOfThinking
    <3> QED BY <1>3, <3>1 DEF Thinking
  <2> QED BY <1>6, <2>1 DEF IInv, IndexIsOfThinking
<1>13. WillEnd'
  <2> SUFFICES ASSUME ~Shared, NEW j \in Thinking(store)' PROVE (InChat(j) \/ InItsTurn(j))'
    BY <1>8 DEF WillEnd
  <2>1. CASE j = k
    <3>1. begun'[j].by = s /\ InTurn(s)' /\ s \notin answered'
          /\ store'.keyOf[s] = j /\ store'.character[j] = s
      BY <1>1, <1>3, <1>4, <1>5, <1>8, <2>1
    <3> QED BY <3>1 DEF InItsTurn, InTurn
  <2>2. CASE j # k
    <3>1. j \in Keys \ {k} /\ j \in Thinking(store) /\ begun'[j] = begun[j]
      BY <1>3, <2>2 DEF Thinking
    <3>2. begun[j].by \in Sessions \ {s}
      BY <1>1, <2>2, <3>1 DEF IInv, TypeOK, OneSession
    <3>3. InChat(j) => InChat(j)'
      BY <1>1, <1>6, <3>1 DEF InChat, Chatting
    <3>4. InItsTurn(j) => InItsTurn(j)'
      BY <1>1, <1>4, <1>5, <1>8, <3>1, <3>2 DEF InItsTurn
    <3> QED BY <3>1, <3>3, <3>4 DEF IInv, WillEnd
  <2> QED BY <2>1, <2>2
<1>14. CharacterPresetsRun'
  BY <1>1, <1>8 DEF IInv, TypeOK, CharacterPresetsRun
<1>15. CorePresetsRunOrAreUnclear'
  BY <1>1, <1>8 DEF IInv, CorePresetsRunOrAreUnclear
<1>16. CapturedAreOwn'
  BY <1>1, <1>3, <1>7 DEF IInv, CapturedAreOwn
<1> QED BY <1>9, <1>10, <1>11, <1>12, <1>13, <1>14, <1>15, <1>16 DEF IInv

LEMMA UsePresetKeeps == ASSUME IInv, NEW s \in Sessions, UsePreset(s) PROVE IInv'
<1> DEFINE p == Preset("character", s, None)
<1>1. /\ InTurn(s) /\ s \notin answered /\ presets' = presets \cup {p}
      /\ UNCHANGED <<bounds, chat, turns, answered, service, store, tracked, replies, begun, forgotten>>
  BY DEF UsePreset
<1>2. p \in [kind : {"core", "character"}, session : Sessions, chat : Chats \cup {None}]
      /\ p.kind = "character" /\ p.session = s /\ p.chat = None
  BY DEF Preset
<1> HIDE DEF p
<1>3. /\ \A r \in Sessions : Chatting(r)' <=> Chatting(r)
      /\ \A r \in Sessions : InTurn(r)' <=> InTurn(r)
      /\ Shared' <=> Shared /\ Thinking(store)' = Thinking(store)
  BY <1>1 DEF Chatting, InTurn, Services, Shared, Thinking
<1>4. TypeOK'
  BY <1>1, <1>2 DEF IInv, TypeOK, Services
<1>5. TurnsAreTracked' /\ UsersOnly' /\ OneSession' /\ IndexIsOfThinking' /\ CapturedAreOwn'
  BY <1>1, <1>3 DEF IInv, TurnsAreTracked, UsersOnly, Chatting, OneSession, IndexIsOfThinking,
     CapturedAreOwn
<1>6. WillEnd'
  BY <1>1, <1>3 DEF IInv, WillEnd, InChat, InItsTurn, Chatting, InTurn, Services
<1>7. CharacterPresetsRun'
  BY <1>1, <1>2, <1>3 DEF IInv, TypeOK, CharacterPresetsRun
<1>8. CorePresetsRunOrAreUnclear'
  <2>1. IsFiniteSet(presets')
    BY <1>1, FS_AddElement DEF IInv, CorePresetsRunOrAreUnclear
  <2> QED BY <1>1, <1>2, <1>3, <2>1 DEF IInv, CorePresetsRunOrAreUnclear
<1> QED BY <1>4, <1>5, <1>6, <1>7, <1>8 DEF IInv

-----------------------------------------------------------------------------
(* What happens in a turn *)

\* A step that only records what a turn does leaves whose turn it is alone.
LEMMA RecordsKeep ==
  ASSUME IInv, TypeOK', CapturedAreOwn',
         store'.state = store.state, store'.index = store.index, store'.keyOf = store.keyOf,
         store'.character = store.character, store'.core = store.core,
         UNCHANGED <<bounds, chat, turns, answered, tracked, presets, begun>>
  PROVE  IInv'
<1>1. /\ \A r \in Sessions : Chatting(r)' <=> Chatting(r)
      /\ \A r \in Sessions : InTurn(r)' <=> InTurn(r)
      /\ Shared' <=> Shared
      /\ \A k : k \in Thinking(store)' <=> k \in Thinking(store)
  BY DEF Chatting, InTurn, Services, Shared, Thinking
<1>2. TurnsAreTracked' /\ UsersOnly' /\ OneSession' /\ IndexIsOfThinking'
  <2>1. TurnsAreTracked' /\ UsersOnly'
    BY <1>1 DEF IInv, TurnsAreTracked, UsersOnly, Chatting
  <2>2. OneSession'
    BY <1>1 DEF IInv, OneSession
  <2>3. IndexIsOfThinking'
    BY <1>1 DEF IInv, IndexIsOfThinking
  <2> QED BY <2>1, <2>2, <2>3
<1>3. WillEnd'
  <2> SUFFICES ASSUME ~Shared, NEW j \in Thinking(store) PROVE (InChat(j) \/ InItsTurn(j))'
    BY <1>1 DEF WillEnd
  <2>1. InChat(j) => InChat(j)'
    BY DEF InChat, Chatting
  <2>2. InItsTurn(j) => InItsTurn(j)'
    <3>1. Services' = Services
      BY DEF Services
    <3> QED BY <3>1 DEF InItsTurn, InTurn
  <2> QED BY <2>1, <2>2 DEF IInv, WillEnd
<1>4. CharacterPresetsRun'
  BY <1>1 DEF IInv, TypeOK, CharacterPresetsRun
<1>5. CorePresetsRunOrAreUnclear'
  BY <1>1 DEF IInv, CorePresetsRunOrAreUnclear, Alike
<1> QED BY <1>2, <1>3, <1>4, <1>5 DEF IInv

LEMMA ReloadKeeps == ASSUME IInv, Reload PROVE IInv'
<1>1. /\ service < bounds.reloads /\ service' = service + 1
      /\ UNCHANGED <<bounds, chat, turns, answered, store, tracked, presets, replies, begun,
                     forgotten>>
  BY DEF Reload
<1>2. service' \in Services'
  BY <1>1, TurnsAssumption DEF IInv, TypeOK, Services
<1>3. TypeOK'
  BY <1>1, <1>2 DEF IInv, TypeOK, Services
<1>4. CapturedAreOwn'
  BY <1>1 DEF IInv, CapturedAreOwn
<1> QED BY <1>1, <1>3, <1>4, RecordsKeep

LEMMA RequestKeeps == ASSUME IInv, NEW s \in Sessions, Request(s) PROVE IInv'
<1> DEFINE requests == Put(store.requests, Sole(Thinking(store)), TRUE)
<1>1. store \in Stores
  BY DEF IInv, TypeOK
<1>2. requests \in [Keys -> BOOLEAN]
  BY <1>1, StoreFields DEF Put
<1>3. store' = [store EXCEPT !.requests = requests]
      /\ UNCHANGED <<bounds, chat, turns, answered, service, tracked, presets, replies, begun,
                     forgotten>>
  BY DEF Request
<1> HIDE DEF requests
<1>4. /\ store' \in Stores
      /\ store'.state = store.state /\ store'.index = store.index /\ store'.keyOf = store.keyOf
      /\ store'.character = store.character /\ store'.core = store.core
      /\ store'.captured = store.captured
  BY <1>1, <1>2, <1>3 DEF Stores
<1>5. TypeOK' /\ CapturedAreOwn'
  BY <1>3, <1>4 DEF IInv, TypeOK, Services, CapturedAreOwn
<1> QED BY <1>3, <1>4, <1>5, RecordsKeep

LEMMA UsageKeeps == ASSUME IInv, NEW s \in Sessions, Usage(s) PROVE IInv'
<1> DEFINE ks == {k \in UNION {UsageKeys(chat[s], p) : p \in Scopes} : store.state[k] # "none"}
           usage == Put(store.usage, ks, TRUE)
<1>1. store \in Stores
  BY DEF IInv, TypeOK
<1>2. store' = [store EXCEPT !.usage = usage]
      /\ UNCHANGED <<bounds, chat, turns, answered, service, tracked, presets, replies, begun,
                     forgotten>>
  BY <1>1 DEF Usage, Stores
<1> HIDE DEF ks
<1>3. usage \in [Keys -> BOOLEAN]
  BY <1>1, StoreFields DEF Put
<1> HIDE DEF usage
<1>4. /\ store' \in Stores
      /\ store'.state = store.state /\ store'.index = store.index /\ store'.keyOf = store.keyOf
      /\ store'.character = store.character /\ store'.core = store.core
      /\ store'.captured = store.captured
  BY <1>1, <1>2, <1>3 DEF Stores
<1>5. TypeOK' /\ CapturedAreOwn'
  BY <1>2, <1>4 DEF IInv, TypeOK, Services, CapturedAreOwn
<1> QED BY <1>2, <1>4, <1>5, RecordsKeep

LEMMA ReplyKeeps == ASSUME IInv, NEW s \in Sessions, Reply(s) PROVE IInv'
<1> DEFINE R == [key : Keys \cup {None}, turn : Nat, of : Nat]
           k == KeyOf[s]
           m == Len(replies) + 1
           reply == [key |-> k, turn |-> begun[k].turn, of |-> 0]
           captured == [store.captured EXCEPT ![k] = @ \cup {m}]
<1>1. /\ store \in Stores /\ k \in Keys /\ replies \in Seq(R) /\ begun[k].turn \in Nat
      /\ store.captured \in [Keys -> SUBSET Nat]
  BY TurnsAssumption, StoreFields DEF IInv, TypeOK
<1>2. /\ replies' = Append(replies, reply)
      /\ store' = IF store.state[k] = "thinking" THEN [store EXCEPT !.captured = captured] ELSE store
      /\ UNCHANGED <<bounds, chat, turns, answered, service, tracked, presets, begun, forgotten>>
  BY <1>1 DEF Reply, Stores
<1>3. /\ reply \in R /\ reply.turn = begun[k].turn /\ m \in Nat
      /\ captured \in [Keys -> SUBSET Nat]
      /\ captured[k] = store.captured[k] \cup {m}
      /\ \A j \in Keys \ {k} : captured[j] = store.captured[j]
  BY <1>1
<1> HIDE DEF R, reply, captured
<1>4. /\ replies' \in Seq(R) /\ replies'[m] = reply /\ m \in DOMAIN replies'
      /\ \A n \in DOMAIN replies : n \in DOMAIN replies' /\ replies'[n] = replies[n]
  BY <1>1, <1>2, <1>3
<1> HIDE DEF m, k
<1>5. /\ store' \in Stores
      /\ store'.state = store.state /\ store'.index = store.index /\ store'.keyOf = store.keyOf
      /\ store'.character = store.character /\ store'.core = store.core
      /\ store'.captured \in {store.captured, captured}
  BY <1>1, <1>2, <1>3 DEF Stores
<1>6. TypeOK'
  BY <1>2, <1>4, <1>5 DEF IInv, TypeOK, Services, R
<1>7. CapturedAreOwn'
  <2> SUFFICES ASSUME NEW j \in Keys, NEW n \in store'.captured[j]
               PROVE  n \in DOMAIN replies' /\ replies'[n].turn = begun'[j].turn
    BY DEF CapturedAreOwn
  <2>1. n \in store.captured[j] \/ (j = k /\ n = m)
    BY <1>3, <1>5
  <2>2. CASE n \in store.captured[j]
    BY <1>2, <1>4, <2>2 DEF IInv, CapturedAreOwn
  <2>3. CASE j = k /\ n = m
    BY <1>2, <1>3, <1>4, <2>3
  <2> QED BY <2>1, <2>2, <2>3
<1> QED BY <1>2, <1>5, <1>6, <1>7, RecordsKeep

LEMMA ForgetKeeps == ASSUME IInv, NEW k \in Keys, Forget(k) PROVE IInv'
<1> DEFINE R == [key : Keys \cup {None}, turn : Nat, of : Nat]
           u == Detach(store, {k})
           w == Dropped(u, {k})
<1>1. /\ store \in Stores /\ replies \in Seq(R) /\ forgotten' = forgotten + 1 /\ forgotten \in Nat
      /\ store' = IF store.state[k] = "none" THEN store ELSE w
      /\ replies' = [m \in DOMAIN replies |->
                       IF replies[m].key = k THEN [replies[m] EXCEPT !.key = None] ELSE replies[m]]
      /\ UNCHANGED <<bounds, chat, turns, answered, service, tracked, presets, begun>>
  BY DEF IInv, TypeOK, Forget
<1>2. /\ u \in Stores
      /\ u.state = store.state /\ u.captured = store.captured /\ u.keyOf = store.keyOf
      /\ \A j \in Keys : u.character[j] = IF j \in {k} THEN None ELSE store.character[j]
      /\ \A j \in Keys : u.core[j] = IF j \in {k} THEN None ELSE store.core[j]
      /\ \A c \in Chats : u.index[c] = store.index[c] \ {k}
  BY <1>1, DetachFields
<1> HIDE DEF u
<1>3. /\ w \in Stores
      /\ w.character = u.character /\ w.core = u.core /\ w.keyOf = u.keyOf /\ w.index = u.index
      /\ \A j \in Keys : w.state[j] = IF j \in {k} THEN "none" ELSE u.state[j]
      /\ \A j \in Keys : w.captured[j] = IF j \in {k} THEN {} ELSE u.captured[j]
  BY <1>2, DroppedFields
<1> HIDE DEF w
<1>4. /\ store' \in Stores /\ store'.keyOf = store.keyOf
      /\ Thinking(store)' = Thinking(store) \ {k}
  BY <1>1, <1>2, <1>3 DEF Thinking
<1>5. /\ \A j \in Keys \ {k} : store'.character[j] = store.character[j]
      /\ \A j \in Keys \ {k} : store'.core[j] = store.core[j]
      /\ \A j \in Keys : store'.captured[j] \in {store.captured[j], {}}
  BY <1>1, <1>2, <1>3
<1>6. /\ \A c \in Chats : store'.index[c] \subseteq store.index[c]
      /\ \A c \in Chats, j \in Keys \ {k} : j \in store.index[c] => j \in store'.index[c]
      /\ \A c \in Chats : k \notin store'.index[c]
  BY <1>1, <1>2, <1>3 DEF IInv, IndexIsOfThinking, Thinking
<1>7. DOMAIN replies' = DOMAIN replies /\ replies' \in Seq(R)
  <2>0. \A m \in DOMAIN replies : replies[m] \in R
    <3>1. replies \in Seq(R)
      BY <1>1
    <3> HIDE DEF R
    <3> QED BY <3>1
  <2>1. ASSUME NEW m \in DOMAIN replies PROVE replies'[m] \in R
    BY <1>1, <2>0
  <2>2. DOMAIN replies = 1..Len(replies) /\ Len(replies) \in Nat
    BY <1>1
  <2> HIDE DEF R
  <2> QED BY <1>1, <2>1, <2>2
<1>8. ASSUME NEW m \in DOMAIN replies PROVE replies'[m].turn = replies[m].turn
  <2>1. replies[m] \in R
    <3>1. replies \in Seq(R)
      BY <1>1
    <3> HIDE DEF R
    <3> QED BY <3>1
  <2> QED BY <1>1, <2>1
<1>9. /\ \A r \in Sessions : Chatting(r)' <=> Chatting(r)
      /\ \A r \in Sessions : InTurn(r)' <=> InTurn(r)
      /\ Shared' <=> Shared
  BY <1>1 DEF Chatting, InTurn, Services, Shared
<1>10. TypeOK'
  BY <1>1, <1>4, <1>7 DEF IInv, TypeOK, Services, R
<1>11. TurnsAreTracked' /\ UsersOnly'
  BY <1>1, <1>6, <1>9 DEF IInv, TurnsAreTracked, UsersOnly, Chatting
<1>12. OneSession'
  BY <1>1, <1>4, <1>5 DEF IInv, OneSession
<1>13. IndexIsOfThinking'
  <2>1. ASSUME NEW c \in Chats PROVE store'.index[c] \subseteq Thinking(store)'
    BY <1>4, <1>6 DEF IInv, IndexIsOfThinking
  <2> QED BY <1>6, <2>1 DEF IInv, IndexIsOfThinking
<1>14. WillEnd'
  <2> SUFFICES ASSUME ~Shared, NEW j \in Thinking(store)' PROVE (InChat(j) \/ InItsTurn(j))'
    BY <1>9 DEF WillEnd
  <2>1. j \in Keys \ {k} /\ j \in Thinking(store) /\ begun' = begun
    BY <1>1, <1>4 DEF Thinking
  <2>2. begun[j].by \in Sessions
    BY <2>1, TurnsAssumption DEF IInv, TypeOK, OneSession
  <2>3. InChat(j) => InChat(j)'
    BY <1>1, <1>6, <2>1 DEF InChat, Chatting
  <2>4. InItsTurn(j) => InItsTurn(j)'
    BY <1>1, <1>4, <1>5, <1>9, <2>1, <2>2 DEF InItsTurn
  <2> QED BY <2>1, <2>3, <2>4 DEF IInv, WillEnd
<1>15. CharacterPresetsRun'
  BY <1>1, <1>9 DEF IInv, TypeOK, CharacterPresetsRun
<1>16. CorePresetsRunOrAreUnclear'
  BY <1>1, <1>9 DEF IInv, CorePresetsRunOrAreUnclear
<1>17. CapturedAreOwn'
  BY <1>1, <1>5, <1>7, <1>8 DEF IInv, CapturedAreOwn
<1> QED BY <1>10, <1>11, <1>12, <1>13, <1>14, <1>15, <1>16, <1>17 DEF IInv

-----------------------------------------------------------------------------
(* The invariant holds *)

LEMMA Initially == Init => IInv
<1> SUFFICES ASSUME Init PROVE IInv
  OBVIOUS
<1>1. /\ bounds \in Bounds /\ bounds.reloads \in Nat
      /\ chat = [s \in Sessions |-> None] /\ turns = {} /\ answered = {} /\ service = 0
      /\ store = EmptyStore /\ tracked = {} /\ presets = {} /\ replies = <<>>
      /\ begun = [k \in Keys |-> [turn |-> 0, by |-> None]] /\ forgotten = 0
      /\ None \notin Chats
  BY TurnsAssumption DEF Init
<1>2. store \in Stores
  BY <1>1 DEF EmptyStore, Stores
<1>3. /\ \A k \in Keys : store.state[k] = "none" /\ store.captured[k] = {}
      /\ \A c \in Chats : store.index[c] = {}
      /\ \A k : k \notin Thinking(store)
  BY <1>1 DEF EmptyStore, Thinking
<1>4. TypeOK
  <2>1. chat \in [Sessions -> Chats \cup {None, "done"}]
    BY <1>1
  <2>2. begun \in [Keys -> [turn : Nat, by : Sessions \cup {None}]]
    BY <1>1
  <2>3. service \in Services /\ replies \in Seq([key : Keys \cup {None}, turn : Nat, of : Nat])
    BY <1>1 DEF Services
  <2> QED BY <1>1, <1>2, <2>1, <2>2, <2>3 DEF TypeOK
<1>5. TurnsAreTracked /\ UsersOnly
  BY <1>1, <1>3 DEF TurnsAreTracked, UsersOnly, Chatting
<1>6. OneSession /\ IndexIsOfThinking /\ WillEnd /\ CapturedAreOwn
  BY <1>1, <1>3 DEF OneSession, IndexIsOfThinking, WillEnd, CapturedAreOwn
<1>7. CharacterPresetsRun /\ CorePresetsRunOrAreUnclear
  BY <1>1, FS_EmptySet DEF CharacterPresetsRun, CorePresetsRunOrAreUnclear
<1> QED BY <1>4, <1>5, <1>6, <1>7 DEF IInv

LEMMA Inductive == IInv /\ [Next]_vars => IInv'
<1> SUFFICES ASSUME IInv, [Next]_vars PROVE IInv'
  OBVIOUS
<1>1. CASE Core
  <2> SUFFICES ASSUME NEW s \in Sessions,
                      AfterChat(s) \/ ChatFails(s) \/ \E c \in Chats : BeforeChat(s, c)
               PROVE  IInv'
    BY <1>1 DEF Core
  <2> QED BY CoreKeeps, BeforeChatKeeps
<1>2. CASE Character
  <2>1. CASE Reload
    BY <2>1, ReloadKeeps
  <2>2. ASSUME NEW s \in Sessions,
               Collect(s) \/ UsePreset(s) \/ Answer(s) \/ \E v \in Services : Release(v, s)
        PROVE  IInv'
    BY <2>2, CollectKeeps, UsePresetKeeps, AnswerKeeps, ReleaseKeeps
  <2> QED BY <1>2, <2>1, <2>2 DEF Character
<1>3. CASE Turn
  <2> SUFFICES ASSUME NEW s \in Sessions, Reply(s) \/ Request(s) \/ Usage(s) PROVE IInv'
    BY <1>3 DEF Turn
  <2> QED BY ReplyKeeps, RequestKeeps, UsageKeeps
<1>4. CASE \E k \in Keys : Forget(k)
  BY <1>4, ForgetKeeps
<1>5. CASE UNCHANGED vars
  <2>1. TypeOK' /\ CapturedAreOwn'
    BY <1>5 DEF IInv, TypeOK, Services, CapturedAreOwn, vars
  <2> QED BY <1>5, <2>1, RecordsKeep DEF vars
<1> QED BY <1>1, <1>2, <1>3, <1>4, <1>5 DEF Next

LEMMA Invariant == Spec => []IInv
<1> QED BY Initially, Inductive, PTL DEF Spec

\* What the store, the presets and the replies hold, in every state.
THEOREM TypeCorrect == Spec => []TypeOK
<1>1. IInv => TypeOK
  BY DEF IInv
<1> QED BY <1>1, Invariant, PTL

-----------------------------------------------------------------------------
(* Who is shown as thinking *)

LEMMA ThinkingShown == IInv => ThinkingIsTrue
<1> SUFFICES ASSUME IInv, ~Shared, NEW k \in Thinking(store)
             PROVE  begun[k].by # None /\ Running(begun[k].by)
  BY DEF IInv, ThinkingIsTrue, ThinkingHasAnOwner
<1>1. k \in Keys
  BY DEF Thinking
<1>2. InChat(k) \/ InItsTurn(k)
  BY DEF IInv, WillEnd
<1>3. Running(begun[k].by)
  BY <1>2 DEF InChat, InItsTurn, Running
<1> QED BY <1>1, <1>3 DEF IInv, OneSession

\* Whoever is shown as thinking has a session that runs, and errors and tokens of a chat find
\* the bots that think on it only (begin, finish, finishState and the wrapped lock release).
THEOREM ThinkingHolds == Spec => []ThinkingIsTrue
<1> QED BY Invariant, ThinkingShown, PTL

-----------------------------------------------------------------------------
(* Which presets are recorded *)

LEMMA PresetsShown == IInv => ShownPresetIsInUse
<1> SUFFICES ASSUME IInv, ~Shared, NEW k \in Keys, NEW p \in ShownPresets(k)
             PROVE  Running(p.session)
  BY DEF ShownPresetIsInUse
<1>1. PICK kind \in {"core", "character"} : p \in Sole({q \in PresetsOf(k) : q.kind = kind})
  BY DEF ShownPresets
<1> DEFINE S == {q \in PresetsOf(k) : q.kind = kind}
<1>2. /\ p \in S /\ p \in presets /\ KeyOf[p.session] = k /\ p.kind = kind
      /\ S \subseteq presets
  BY <1>1, SoleIsSame DEF PresetsOf
<1>3. p.session \in Sessions
  BY <1>2 DEF IInv, TypeOK
<1>4. CASE kind = "character"
  BY <1>2, <1>4 DEF IInv, CharacterPresetsRun, Running
<1>5. CASE kind = "core"
  <2>1. IsFiniteSet(S)
    BY <1>2, FS_Subset DEF IInv, CorePresetsRunOrAreUnclear
  <2>2. ASSUME NEW q \in presets, Alike(p, q) PROVE FALSE
    <3>1. q \in S /\ p # q
      BY <1>2, <2>2 DEF Alike, PresetsOf
    <3>2. p \in S /\ IsFiniteSet(S) /\ p \in Sole(S)
      BY <1>1, <1>2, <2>1
    <3> HIDE DEF S
    <3> QED BY <3>1, <3>2, SoleOfMore
  <2>3. chat[p.session] = p.chat /\ p.chat \in Chats
    BY <1>2, <1>5, <2>2 DEF IInv, CorePresetsRunOrAreUnclear
  <2> QED BY <2>3 DEF Running, Chatting
<1> QED BY <1>4, <1>5

\* A preset recorded with a request is that of a turn that runs (getActiveSnapshots).
THEOREM PresetsHold == Spec => []ShownPresetIsInUse
<1> QED BY Invariant, PresetsShown, PTL

-----------------------------------------------------------------------------
(* What the end of a session concerns *)

LEMMA EndsItsOwn ==
  ASSUME IInv, NEW s \in Sessions, NEW fallback \in BOOLEAN, FinishCharacterTurn(s, fallback),
         NEW k \in Thinking(store) \ Thinking(store)'
  PROVE  begun[k].by = s
<1> DEFINE of == store.keyOf[s]
           ends == FinishesFor(store, s)
<1>1. k \in Keys /\ TypeOK /\ ends \in BOOLEAN /\ None \notin Sessions
      /\ of = store.keyOf[s] /\ ends = FinishesFor(store, s)
      /\ (ends => store.character[of] = s)
  BY TurnsAssumption DEF Thinking, IInv, FinishesFor
<1> HIDE DEF of, ends
<1>2. k \in Thinking(store)' <=> k \in Thinking(store) /\ ~(ends /\ k = of)
  BY <1>1, FinishFields
<1>3. store.character[k] = s
  BY <1>1, <1>2
<1> QED BY <1>1, <1>3 DEF IInv, OneSession

LEMMA ReleaseEnds ==
  ASSUME IInv, NEW s \in Sessions, NEW v \in Services, Release(v, s)
  PROVE  FinishCharacterTurn(s, FALSE)
  BY DEF Release, IInv, TurnsAreTracked

LEMMA StaleEndsNothing ==
  ASSUME IInv, NEW s \in Sessions, Answer(s) \/ \E v \in Services : Release(v, s),
         NEW k \in Thinking(store) \ Thinking(store)'
  PROVE  begun[k].by = s
<1>1. FinishCharacterTurn(s, TRUE) \/ FinishCharacterTurn(s, FALSE)
  BY ReleaseEnds DEF Answer
<1> QED BY <1>1, EndsItsOwn

LEMMA ReleaseArchivesOwn ==
  ASSUME IInv, NEW s \in Sessions, NEW v \in Services, Release(v, s),
         NEW m \in DOMAIN replies, replies'[m].of # replies[m].of
  PROVE  replies'[m].of = replies[m].turn
<1> DEFINE fallback == FALSE
           k == replies[m].key
<1>1. FinishCharacterTurn(s, fallback) /\ fallback \in BOOLEAN /\ fallback = FALSE
  BY ReleaseEnds
<1> HIDE DEF fallback
<1>2. /\ FinishesFor(store, s) /\ k = store.keyOf[s] /\ m \in ShownOn(store, k, fallback)
      /\ replies'[m].of = begun[k].turn
  BY <1>1, FinishedReply DEF IInv
<1>3. k \in Keys
  BY <1>2, StoreFields DEF IInv, TypeOK, FinishesFor
<1>4. m \in store.captured[k]
  BY <1>1, <1>2 DEF ShownOn
<1> QED BY <1>2, <1>3, <1>4 DEF IInv, CapturedAreOwn

\* The end of a session concerns its own turn and its own replies (finishCharacterTurn,
\* finishState).
THEOREM SessionsHold == Spec => SessionsKeepToThemselves
<1>1. IInv => \A s \in Sessions : (Answer(s) \/ \E v \in Services : Release(v, s))
                => \A k \in Thinking(store) \ Thinking(store)' : begun[k].by = s
  BY StaleEndsNothing
<1>2. IInv => \A s \in Sessions : (\E v \in Services : Release(v, s))
                => \A m \in DOMAIN replies : replies'[m].of # replies[m].of => replies'[m].of = replies[m].turn
  BY ReleaseArchivesOwn
<1>3. Spec => StaleSessionEndsNothing
  BY <1>1, Invariant, PTL DEF StaleSessionEndsNothing
<1>4. Spec => ReleaseArchivesOwnReplies
  BY <1>2, Invariant, PTL DEF ReleaseArchivesOwnReplies
<1> QED BY <1>3, <1>4 DEF SessionsKeepToThemselves

-----------------------------------------------------------------------------
(* What is recorded of model requests, for any fetches, addresses and stores. *)

\* What is stored of a request.
Record == [id : Requests, time : Nat, headers : Requests \cup {None, Stranger},
           status : {"pending", "success", "error"},
           body : {"pending", "complete", "unavailable", "error"}]

\* What a record of a store says is the case for its fetch.
TrueOf(record, call, p, unclear) ==
  /\ call.store = p /\ call.phase # "none"
  /\ record.status = "pending" <=> call.phase = "flying"
  /\ record.body = "pending" <=> call.phase \in {"flying", "body"}
  /\ call.url \notin unclear => record.headers = IF call.sent THEN record.id ELSE None

\* Every record is true of its fetch, and each fetch has one at most.
RecordsAreTrue ==
  \A p \in Records :
    /\ \A k \in DOMAIN rows[p] : TrueOf(rows[p][k], calls[rows[p][k].id], p, mixed)
    /\ \A k, j \in DOMAIN rows[p] : rows[p][k].id = rows[p][j].id => k = j

\* A fetch that was made has its store, and its address while it is under way.
FetchesArePlaced ==
  \A r \in Requests :
    /\ calls[r].phase # "none" => calls[r].store \in Records
    /\ calls[r].phase \in {"flying", "body"} => calls[r].url \in Urls

\* Who waits for headers: where the order is clear, the fetches that were not sent, and each
\* waits once.
WaitingAreUnsent ==
  /\ \A j, k \in DOMAIN dispatched : dispatched[j] = dispatched[k] => j = k
  /\ \A k \in DOMAIN dispatched :
       LET call == calls[dispatched[k]] IN
       /\ call.phase # "none" /\ call.url \in Urls
       /\ call.url \notin mixed => call.phase = "flying" /\ ~call.sent
  /\ \A r \in Requests :
       calls[r].phase = "flying" /\ ~calls[r].sent /\ calls[r].url \notin mixed =>
         \E k \in DOMAIN dispatched : dispatched[k] = r

\* What holds of fetches, headers and records together.
CaptureInv ==
  /\ bounds \in Bounds /\ now \in Nat /\ CaptureTypeOK
  /\ RecordsAreTrue /\ FetchesArePlaced /\ WaitingAreUnsent

\* A sequence without one of its elements.
LEMMA OneRemoved ==
  ASSUME NEW T, NEW s \in Seq(T), NEW i \in DOMAIN s
  PROVE  /\ RemoveAt(s, i) \in Seq(T) /\ DOMAIN RemoveAt(s, i) = 1..(Len(s) - 1)
         /\ \A k \in 1..(Len(s) - 1) : RemoveAt(s, i)[k] = IF k < i THEN s[k] ELSE s[k + 1]
<1>1. i \in 1..Len(s) /\ Len(s) \in Nat
  OBVIOUS
<1>2. /\ SubSeq(s, 1, i - 1) \in Seq(T) /\ Len(SubSeq(s, 1, i - 1)) = i - 1
      /\ \A k \in 1..(i - 1) : SubSeq(s, 1, i - 1)[k] = s[k]
  BY <1>1
<1>3. /\ SubSeq(s, i + 1, Len(s)) \in Seq(T) /\ Len(SubSeq(s, i + 1, Len(s))) = Len(s) - i
      /\ \A k \in 1..(Len(s) - i) : SubSeq(s, i + 1, Len(s))[k] = s[i + k]
  BY <1>1
<1> DEFINE a == SubSeq(s, 1, i - 1)
           b == SubSeq(s, i + 1, Len(s))
<1>4. RemoveAt(s, i) = a \o b
  BY DEF RemoveAt
<1>5. a \in Seq(T) /\ Len(a) = i - 1 /\ b \in Seq(T) /\ Len(b) = Len(s) - i
  BY <1>2, <1>3
<1>6. /\ \A k \in 1..(i - 1) : a[k] = s[k]
      /\ \A k \in 1..(Len(s) - i) : b[k] = s[i + k]
  BY <1>2, <1>3
<1> HIDE DEF a, b
<1>7. a \o b \in Seq(T) /\ Len(a \o b) = Len(s) - 1
  BY <1>1, <1>5
<1>8. ASSUME NEW k \in 1..(Len(s) - 1) PROVE (a \o b)[k] = IF k < i THEN s[k] ELSE s[k + 1]
  <2>1. CASE k < i
    BY <1>1, <1>5, <1>6, <2>1
  <2>2. CASE ~(k < i)
    <3>1. k - (i - 1) \in 1..(Len(s) - i) /\ i + (k - (i - 1)) = k + 1
      BY <1>1, <2>2
    <3>2. (a \o b)[k] = b[k - (i - 1)]
      BY <1>1, <1>5, <2>2
    <3> QED BY <1>6, <2>2, <3>1, <3>2
  <2> QED BY <2>1, <2>2
<1> QED BY <1>4, <1>7, <1>8

\* What of an update can be seen in the rows.
LEMMA UpdatedRows ==
  ASSUME CaptureTypeOK, NEW r \in Requests, NEW change,
         \A x \in Record : x.id = r => Amended(x, change) \in Record
  PROVE  /\ Updated(r, change) \in [Records -> Seq(Record)]
         /\ \A p \in Records :
              /\ DOMAIN Updated(r, change)[p] = DOMAIN rows[p]
              /\ \A k \in DOMAIN rows[p] :
                   Updated(r, change)[p][k] =
                     IF p = calls[r].store /\ rows[p][k].id = r THEN Amended(rows[p][k], change)
                     ELSE rows[p][k]
<1> DEFINE New(p) == [k \in DOMAIN rows[p] |-> IF rows[p][k].id = r THEN Amended(rows[p][k], change)
                                               ELSE rows[p][k]]
<1>1. rows \in [Records -> Seq(Record)]
  BY DEF CaptureTypeOK, Record
<1>2. ASSUME NEW p \in Records
      PROVE  /\ New(p) \in Seq(Record) /\ DOMAIN New(p) = DOMAIN rows[p]
             /\ Updated(r, change)[p] = IF p = calls[r].store THEN New(p) ELSE rows[p]
  <2>1. rows[p] \in Seq(Record) /\ DOMAIN rows[p] = 1..Len(rows[p]) /\ Len(rows[p]) \in Nat
    BY <1>1
  <2>2. \A k \in 1..Len(rows[p]) : New(p)[k] \in Record
    BY <2>1
  <2>3. New(p) \in [1..Len(rows[p]) -> Record]
    BY <2>1, <2>2
  <2>4. New(p) \in Seq(Record)
    BY <2>1, <2>3
  <2> QED BY <1>1, <2>1, <2>4 DEF Updated
<1>3. DOMAIN Updated(r, change) = Records
  BY <1>1 DEF Updated
<1>4. Updated(r, change) \in [Records -> Seq(Record)]
  <2>1. \A p \in Records : Updated(r, change)[p] \in Seq(Record)
    BY <1>1, <1>2
  <2>2. Updated(r, change) = [p \in Records |-> Updated(r, change)[p]]
    BY <1>1 DEF Updated
  <2> QED BY <2>1, <2>2
<1> QED BY <1>2, <1>4

\* Records stay true if those of one fetch are written anew as the fetch goes on.
LEMMA UpdateTells ==
  ASSUME CaptureInv, NEW r \in Requests, NEW change, rows' = Updated(r, change),
         \A p \in Records, x \in Record :
           x.id # r /\ TrueOf(x, calls[x.id], p, mixed) => TrueOf(x, calls'[x.id], p, mixed'),
         \A x \in Record : x.id = r => Amended(x, change) \in Record /\ Amended(x, change).id = r,
         \A p \in Records, x \in Record :
           x.id = r /\ TrueOf(x, calls[r], p, mixed) => TrueOf(Amended(x, change), calls'[r], p, mixed')
  PROVE  rows' \in [Records -> Seq(Record)] /\ RecordsAreTrue'
<1>1. /\ rows' \in [Records -> Seq(Record)]
      /\ \A p \in Records :
           /\ DOMAIN rows'[p] = DOMAIN rows[p]
           /\ \A k \in DOMAIN rows[p] :
                rows'[p][k] = IF p = calls[r].store /\ rows[p][k].id = r THEN Amended(rows[p][k], change)
                              ELSE rows[p][k]
  BY UpdatedRows DEF CaptureInv
<1>2. ASSUME NEW p \in Records, NEW k \in DOMAIN rows[p]
      PROVE  /\ rows[p][k] \in Record /\ TrueOf(rows[p][k], calls[rows[p][k].id], p, mixed)
             /\ rows'[p][k] = IF rows[p][k].id = r THEN Amended(rows[p][k], change) ELSE rows[p][k]
             /\ rows'[p][k].id = rows[p][k].id
  <2>1. rows[p][k] \in Record
    <3>1. rows[p] \in Seq(Record)
      BY DEF CaptureInv, CaptureTypeOK, Record
    <3> QED BY <3>1
  <2>2. TrueOf(rows[p][k], calls[rows[p][k].id], p, mixed)
    BY DEF CaptureInv, RecordsAreTrue
  <2>3. rows[p][k].id = r => p = calls[r].store
    BY <2>2 DEF TrueOf
  <2> QED BY <1>1, <2>1, <2>2, <2>3
<1>3. ASSUME NEW p \in Records, NEW k \in DOMAIN rows[p]
      PROVE  TrueOf(rows'[p][k], calls'[rows'[p][k].id], p, mixed')
  <2>1. CASE rows[p][k].id = r
    BY <1>2, <2>1
  <2>2. CASE rows[p][k].id # r
    BY <1>2, <2>2
  <2> QED BY <2>1, <2>2
<1>4. \A p \in Records : \A k, j \in DOMAIN rows'[p] : rows'[p][k].id = rows'[p][j].id => k = j
  BY <1>1, <1>2 DEF CaptureInv, RecordsAreTrue
<1> QED BY <1>1, <1>3, <1>4 DEF RecordsAreTrue

\* A set of numbers that is not empty has a smallest one.
LEMMA MinOf == ASSUME NEW S \in SUBSET Nat, S # {} PROVE Min(S) \in S /\ \A y \in S : Min(S) <= y
<1>1. PICK x \in S : \A y \in S : ~(<<y, x>> \in OpToRel(<, Nat))
  BY NatLessThanWellFounded, WFMin
<1>2. ASSUME NEW y \in S PROVE x <= y
  <2>1. <<y, x>> \in Nat \X Nat /\ <<y, x>>[1] = y /\ <<y, x>>[2] = x
    OBVIOUS
  <2>2. ~(y < x)
    BY <1>1, <2>1, Zenon DEF OpToRel
  <2> QED BY <2>2
<1> QED BY <1>2 DEF Min

\* Those who wait for headers are still the fetches not sent, after a step of one fetch that
\* leaves the list alone.
LEMMA ListStays ==
  ASSUME CaptureInv, NEW r \in Requests, dispatched' = dispatched, mixed \subseteq mixed',
         \A q \in Requests : q # r => calls'[q] = calls[q],
         calls'[r].url = calls[r].url, calls[r].phase # "none" => calls'[r].phase # "none",
         \/ calls[r].url \in mixed'
         \/ calls'[r].phase = "flying" /\ ~calls'[r].sent <=> calls[r].phase = "flying" /\ ~calls[r].sent
  PROVE  WaitingAreUnsent'
<1>1. WaitingAreUnsent
  BY DEF CaptureInv
<1>2. \A k \in DOMAIN dispatched : dispatched[k] \in Requests
  BY DEF CaptureInv, CaptureTypeOK
<1>3. ASSUME NEW k \in DOMAIN dispatched
      PROVE  /\ calls'[dispatched[k]].phase # "none" /\ calls'[dispatched[k]].url \in Urls
             /\ calls'[dispatched[k]].url \notin mixed' =>
                  calls'[dispatched[k]].phase = "flying" /\ ~calls'[dispatched[k]].sent
  <2>1. CASE dispatched[k] = r
    BY <1>1, <2>1 DEF WaitingAreUnsent
  <2>2. CASE dispatched[k] # r
    BY <1>1, <1>2, <2>2 DEF WaitingAreUnsent
  <2> QED BY <2>1, <2>2
<1>4. ASSUME NEW q \in Requests, calls'[q].phase = "flying", ~calls'[q].sent, calls'[q].url \notin mixed'
      PROVE  \E k \in DOMAIN dispatched : dispatched[k] = q
  BY <1>1, <1>4 DEF WaitingAreUnsent
<1> QED BY <1>1, <1>3, <1>4 DEF WaitingAreUnsent

\* The same after a step that takes the sent fetch off the list, or where the order of the
\* address is not clear any more, another one of the address.
LEMMA ListShrinks ==
  ASSUME CaptureInv, NEW r \in Requests, NEW i \in DOMAIN dispatched,
         dispatched' = RemoveAt(dispatched, i), mixed \subseteq mixed',
         \A q \in Requests : q # r => calls'[q] = calls[q],
         calls'[r].url = calls[r].url, calls'[r].phase = calls[r].phase,
         calls[r].sent => calls'[r].sent,
         calls'[r].sent # calls[r].sent =>
           calls[r].url = calls[dispatched[i]].url,
         \/ calls[dispatched[i]].url \in mixed'
         \/ dispatched[i] = r /\ calls'[r].sent
  PROVE  WaitingAreUnsent'
<1>1. WaitingAreUnsent
  BY DEF CaptureInv
<1>2. dispatched \in Seq(Requests) /\ \A k \in DOMAIN dispatched : dispatched[k] \in Requests
  BY DEF CaptureInv, CaptureTypeOK
<1>3. /\ DOMAIN dispatched' = 1..(Len(dispatched) - 1) /\ DOMAIN dispatched = 1..Len(dispatched)
      /\ Len(dispatched) \in Nat /\ i \in 1..Len(dispatched)
      /\ \A k \in 1..(Len(dispatched) - 1) :
           dispatched'[k] = IF k < i THEN dispatched[k] ELSE dispatched[k + 1]
  BY <1>2, OneRemoved
<1>4. ASSUME NEW k \in DOMAIN dispatched'
      PROVE  \E j \in DOMAIN dispatched :
               j # i /\ dispatched'[k] = dispatched[j] /\ j = IF k < i THEN k ELSE k + 1
  BY <1>3
<1>5. ASSUME NEW j \in DOMAIN dispatched, j # i
      PROVE  \E k \in DOMAIN dispatched' : dispatched'[k] = dispatched[j]
  <2>1. CASE j < i
    <3>1. j \in DOMAIN dispatched' /\ dispatched'[j] = dispatched[j]
      BY <1>3, <2>1
    <3> QED BY <3>1
  <2>2. CASE j > i
    <3>1. j - 1 \in DOMAIN dispatched' /\ dispatched'[j - 1] = dispatched[j]
      BY <1>3, <2>2
    <3> QED BY <3>1
  <2> QED BY <1>3, <1>5, <2>1, <2>2
<1>6. \A j, k \in DOMAIN dispatched' : dispatched'[j] = dispatched'[k] => j = k
  <2> SUFFICES ASSUME NEW j \in DOMAIN dispatched', NEW k \in DOMAIN dispatched', dispatched'[j] = dispatched'[k]
               PROVE  j = k
    OBVIOUS
  <2>1. (IF j < i THEN j ELSE j + 1) = (IF k < i THEN k ELSE k + 1)
    BY <1>1, <1>4 DEF WaitingAreUnsent
  <2> QED BY <1>3, <2>1
<1>7. ASSUME NEW k \in DOMAIN dispatched'
      PROVE  LET call == calls'[dispatched'[k]] IN
             /\ call.phase # "none" /\ call.url \in Urls
             /\ call.url \notin mixed' => call.phase = "flying" /\ ~call.sent
  <2>1. PICK j \in DOMAIN dispatched : j # i /\ dispatched'[k] = dispatched[j]
    BY <1>4
  <2>2. /\ calls[dispatched[j]].phase # "none" /\ calls[dispatched[j]].url \in Urls
        /\ calls[dispatched[j]].url \notin mixed => calls[dispatched[j]].phase = "flying" /\ ~calls[dispatched[j]].sent
    BY <1>1 DEF WaitingAreUnsent
  <2>3. CASE dispatched[j] # r
    BY <1>2, <2>1, <2>2, <2>3
  <2>4. CASE dispatched[j] = r
    <3>1. dispatched[i] # r
      BY <1>1, <2>1, <2>4 DEF WaitingAreUnsent
    <3> QED BY <2>1, <2>2, <2>4, <3>1
  <2> QED BY <2>3, <2>4
<1>8. ASSUME NEW q \in Requests, calls'[q].phase = "flying", ~calls'[q].sent, calls'[q].url \notin mixed'
      PROVE  \E k \in DOMAIN dispatched' : dispatched'[k] = q
  <2>1. calls[q].phase = "flying" /\ ~calls[q].sent /\ calls[q].url = calls'[q].url
    BY <1>8
  <2>2. PICK j \in DOMAIN dispatched : dispatched[j] = q
    BY <1>1, <1>8, <2>1 DEF WaitingAreUnsent
  <2>3. j # i
    BY <1>8, <2>1, <2>2
  <2> QED BY <1>5, <2>2, <2>3
<1> QED BY <1>6, <1>7, <1>8 DEF WaitingAreUnsent

\* Records that are left alone stay true.
LEMMA RowsStay ==
  ASSUME CaptureInv, rows' = rows,
         \A p \in Records, x \in Record :
           TrueOf(x, calls[x.id], p, mixed) => TrueOf(x, calls'[x.id], p, mixed')
  PROVE  RecordsAreTrue'
<1>1. \A p \in Records : \A k \in DOMAIN rows[p] : rows[p][k] \in Record
  <2>1. \A p \in Records : rows[p] \in Seq(Record)
    BY DEF CaptureInv, CaptureTypeOK, Record
  <2> QED BY <2>1
<1> QED BY <1>1 DEF CaptureInv, RecordsAreTrue

\* The first that waits at an address.
LEMMA FirstWaits ==
  ASSUME CaptureInv, NEW u, WaitingFor(u) # {}
  PROVE  /\ Min(WaitingFor(u)) \in DOMAIN dispatched /\ u \in Urls
         /\ dispatched[Min(WaitingFor(u))] \in Requests
         /\ calls[dispatched[Min(WaitingFor(u))]].url = u
         /\ \A k \in WaitingFor(u) : Min(WaitingFor(u)) <= k
<1>1. dispatched \in Seq(Requests)
  BY DEF CaptureInv, CaptureTypeOK
<1>2. WaitingFor(u) \in SUBSET Nat
  BY <1>1 DEF WaitingFor
<1>3. Min(WaitingFor(u)) \in WaitingFor(u) /\ \A k \in WaitingFor(u) : Min(WaitingFor(u)) <= k
  BY <1>2, MinOf
<1>4. \A k \in DOMAIN dispatched : dispatched[k] \in Requests /\ calls[dispatched[k]].url \in Urls
  BY <1>1 DEF CaptureInv, WaitingAreUnsent
<1> QED BY <1>3, <1>4 DEF WaitingFor

\* The parts of the invariant that only the types of what a step assigns can disturb.
LEMMA PartsStay ==
  ASSUME CaptureInv, bounds' = bounds, now' \in Nat,
         calls' \in [Requests -> [phase : {"none", "flying", "body", "over"}, url : Urls \cup {None},
                                  store : Records \cup {None}, sent : BOOLEAN]],
         rows' \in [Records -> Seq(Record)], dispatched' \in Seq(Requests), mixed' \subseteq Urls,
         life' \in [Scopes -> {"none", "live", "closing", "gone"}],
         RecordsAreTrue', FetchesArePlaced', WaitingAreUnsent'
  PROVE  CaptureInv'
BY DEF CaptureInv, CaptureTypeOK, Record

\* Headers are sent for a fetch.
LEMMA SendKeeps == ASSUME CaptureInv, NEW r \in Requests, Send(r) PROVE CaptureInv'
<1> DEFINE u == calls[r].url
           i == Min(WaitingFor(u))
           overtakes == \E k \in WaitingFor(u) :
                          dispatched[k] # r /\ \A j \in WaitingFor(u) : dispatched[j] = r => k < j
<1>1. /\ calls[r].phase = "flying" /\ ~calls[r].sent
      /\ calls' = [calls EXCEPT ![r].sent = TRUE]
      /\ HeadersSent(u, r)
      /\ mixed' = IF overtakes THEN mixed \cup {u} ELSE mixed
      /\ bounds' = bounds /\ now' = now /\ life' = life
  BY DEF Send, vars
<1>2. /\ calls \in [Requests -> [phase : {"none", "flying", "body", "over"}, url : Urls \cup {None},
                                 store : Records \cup {None}, sent : BOOLEAN]]
      /\ now \in Nat /\ life \in [Scopes -> {"none", "live", "closing", "gone"}]
      /\ dispatched \in Seq(Requests) /\ mixed \subseteq Urls /\ rows \in [Records -> Seq(Record)]
  BY DEF CaptureInv, CaptureTypeOK, Record
<1>3. /\ \A q \in Requests : q # r => calls'[q] = calls[q]
      /\ calls'[r].url = u /\ calls'[r].phase = "flying" /\ calls'[r].store = calls[r].store
      /\ calls'[r].sent
  BY <1>1, <1>2
<1>4. calls' \in [Requests -> [phase : {"none", "flying", "body", "over"}, url : Urls \cup {None},
                               store : Records \cup {None}, sent : BOOLEAN]]
  BY <1>1, <1>2
<1>5. FetchesArePlaced' /\ u \in Urls
  BY <1>1, <1>3 DEF CaptureInv, FetchesArePlaced
<1>6. mixed' \subseteq Urls /\ mixed \subseteq mixed'
  BY <1>1, <1>2, <1>5
<1> HIDE DEF u, i, overtakes
<1>7. CASE WaitingFor(u) = {}
  <2>1. rows' = rows /\ dispatched' = dispatched
    BY <1>1, <1>7 DEF HeadersSent
  <2>2. u \in mixed
    BY <1>1, <1>7 DEF CaptureInv, WaitingAreUnsent, WaitingFor, u
  <2>3. RecordsAreTrue'
    <3>1. ASSUME NEW p \in Records, NEW x \in Record, TrueOf(x, calls[x.id], p, mixed)
          PROVE  TrueOf(x, calls'[x.id], p, mixed')
      <4>1. CASE x.id = r
        BY <1>1, <1>3, <1>6, <2>2, <3>1, <4>1 DEF TrueOf, u
      <4>2. CASE x.id # r
        BY <1>3, <1>6, <3>1, <4>2 DEF TrueOf, Record
      <4> QED BY <4>1, <4>2
    <3> QED BY <2>1, <3>1, RowsStay
  <2>4. WaitingAreUnsent'
    BY <1>1, <1>3, <1>6, <2>1, <2>2, ListStays DEF u
  <2> QED BY <1>1, <1>2, <1>4, <1>5, <1>6, <2>1, <2>3, <2>4, PartsStay
<1>8. CASE WaitingFor(u) # {}
  <2> DEFINE q == dispatched[i]
  <2>1. rows' = Updated(q, [headers |-> r]) /\ dispatched' = RemoveAt(dispatched, i)
    BY <1>1, <1>8 DEF HeadersSent, i
  <2>2. /\ i \in DOMAIN dispatched /\ q \in Requests /\ calls[q].url = u
        /\ \A k \in WaitingFor(u) : i <= k
    BY <1>8, FirstWaits DEF i
  <2>3. q # r => u \in mixed'
    <3> SUFFICES ASSUME q # r PROVE overtakes
      BY <1>1
    <3>1. i \in WaitingFor(u)
      BY <2>2 DEF WaitingFor
    <3>2. ASSUME NEW j \in WaitingFor(u), dispatched[j] = r PROVE i < j
      <4>1. i <= j /\ i # j
        BY <2>2, <3>2
      <4>2. i \in Nat /\ j \in Nat
        BY <1>2, <2>2 DEF WaitingFor
      <4> QED BY <4>1, <4>2
    <3> QED BY <3>1, <3>2 DEF overtakes
  <2> HIDE DEF q
  <2>4. rows' \in [Records -> Seq(Record)] /\ RecordsAreTrue'
    <3> DEFINE change == [headers |-> r]
    <3>1. ASSUME NEW p \in Records, NEW x \in Record, x.id # q, TrueOf(x, calls[x.id], p, mixed)
          PROVE  TrueOf(x, calls'[x.id], p, mixed')
      <4>1. CASE x.id = r
        BY <1>1, <1>3, <2>3, <3>1, <4>1 DEF TrueOf, u
      <4>2. CASE x.id # r
        BY <1>3, <1>6, <3>1, <4>2 DEF TrueOf, Record
      <4> QED BY <4>1, <4>2
    <3>2. ASSUME NEW x \in Record, x.id = q
          PROVE  /\ Amended(x, change) \in Record /\ Amended(x, change).id = q
                 /\ Amended(x, change).status = x.status /\ Amended(x, change).body = x.body
                 /\ Amended(x, change).headers = r
      BY <3>2 DEF Amended, Record
    <3>3. ASSUME NEW p \in Records, NEW x \in Record, x.id = q, TrueOf(x, calls[q], p, mixed)
          PROVE  TrueOf(Amended(x, change), calls'[q], p, mixed')
      <4>1. CASE q = r
        BY <1>1, <1>3, <1>6, <3>2, <3>3, <4>1 DEF TrueOf
      <4>2. CASE q # r
        BY <1>3, <1>6, <2>2, <2>3, <3>2, <3>3, <4>2 DEF TrueOf
      <4> QED BY <4>1, <4>2
    <3> HIDE DEF change
    <3>4. rows' = Updated(q, change)
      BY <2>1 DEF change
    <3> QED BY <2>2, <3>1, <3>2, <3>3, <3>4, UpdateTells
  <2>5. WaitingAreUnsent'
    BY <1>1, <1>3, <1>6, <2>1, <2>2, <2>3, ListShrinks DEF u, q
  <2>6. dispatched' \in Seq(Requests)
    BY <1>2, <2>1, <2>2, OneRemoved
  <2> QED BY <1>1, <1>2, <1>4, <1>5, <1>6, <2>4, <2>5, <2>6, PartsStay
<1> QED BY <1>7, <1>8

\* Headers are sent for something else.
LEMMA StrangerKeeps == ASSUME CaptureInv, NEW u, StrangerSends(u) PROVE CaptureInv'
<1>1. /\ HeadersSent(u, Stranger)
      /\ mixed' = IF WaitingFor(u) # {} THEN mixed \cup {u} ELSE mixed
      /\ bounds' = bounds /\ now' = now /\ life' = life /\ calls' = calls
  BY DEF StrangerSends, vars
<1>2. /\ calls \in [Requests -> [phase : {"none", "flying", "body", "over"}, url : Urls \cup {None},
                                 store : Records \cup {None}, sent : BOOLEAN]]
      /\ now \in Nat /\ life \in [Scopes -> {"none", "live", "closing", "gone"}]
      /\ dispatched \in Seq(Requests) /\ mixed \subseteq Urls /\ rows \in [Records -> Seq(Record)]
  BY DEF CaptureInv, CaptureTypeOK, Record
<1>3. FetchesArePlaced'
  BY <1>1 DEF CaptureInv, FetchesArePlaced
<1>4. CASE WaitingFor(u) = {}
  <2>1. rows' = rows /\ dispatched' = dispatched /\ mixed' = mixed
    BY <1>1, <1>4 DEF HeadersSent
  <2>2. RecordsAreTrue'
    BY <1>1, <2>1, RowsStay
  <2>3. WaitingAreUnsent'
    BY <1>1, <2>1 DEF CaptureInv, WaitingAreUnsent
  <2> QED BY <1>1, <1>2, <1>3, <2>1, <2>2, <2>3, PartsStay
<1>5. CASE WaitingFor(u) # {}
  <2> DEFINE i == Min(WaitingFor(u))
             q == dispatched[i]
             change == [headers |-> Stranger]
  <2>1. rows' = Updated(q, change) /\ dispatched' = RemoveAt(dispatched, i)
    BY <1>1, <1>5 DEF HeadersSent
  <2>2. i \in DOMAIN dispatched /\ q \in Requests /\ calls[q].url = u /\ u \in Urls
    BY <1>5, FirstWaits
  <2>3. mixed' = mixed \cup {u}
    BY <1>1, <1>5
  <2> HIDE DEF q, i
  <2>4. \A p \in Records, x \in Record :
          TrueOf(x, calls[x.id], p, mixed) => TrueOf(x, calls'[x.id], p, mixed')
    BY <1>1, <2>3 DEF TrueOf
  <2>5. ASSUME NEW x \in Record, x.id = q
        PROVE  /\ Amended(x, change) \in Record /\ Amended(x, change).id = q
               /\ Amended(x, change).status = x.status /\ Amended(x, change).body = x.body
    BY <2>5 DEF Amended, Record
  <2> HIDE DEF change
  <2>6. \A p \in Records, x \in Record :
          x.id = q /\ TrueOf(x, calls[q], p, mixed) => TrueOf(Amended(x, change), calls'[q], p, mixed')
    BY <1>1, <2>2, <2>3, <2>5 DEF TrueOf
  <2>7. rows' \in [Records -> Seq(Record)] /\ RecordsAreTrue'
    BY <2>1, <2>2, <2>4, <2>5, <2>6, UpdateTells
  <2>8. WaitingAreUnsent'
    BY <1>1, <2>1, <2>2, <2>3, ListShrinks DEF q
  <2>9. dispatched' \in Seq(Requests) /\ mixed' \subseteq Urls
    BY <1>2, <2>1, <2>2, <2>3, OneRemoved
  <2> QED BY <1>1, <1>2, <1>3, <2>7, <2>8, <2>9, PartsStay
<1> QED BY <1>4, <1>5

\* A step of a fetch that was sent, or whose address is not clear any more; its record is
\* written anew.
GoesOn(r, phase, change) ==
  /\ calls[r].phase \in {"flying", "body"} /\ phase \in {"body", "over"}
  /\ calls[r].phase = "flying" => calls[r].sent \/ calls[r].url \in mixed'
  /\ calls' = [calls EXCEPT ![r].phase = phase] /\ rows' = Updated(r, change)
  /\ bounds' = bounds /\ UNCHANGED <<dispatched, life, now>>
  /\ mixed \subseteq mixed' /\ mixed' \subseteq Urls
  /\ \A x \in Record : x.id = r =>
       /\ Amended(x, change) \in Record /\ Amended(x, change).id = r
       /\ Amended(x, change).headers = x.headers
       /\ Amended(x, change).body = "pending" <=> phase = "body"
       /\ \/ Amended(x, change).status # "pending"
          \/ Amended(x, change).status = x.status /\ calls[r].phase = "body"

\* Its record stays true.
LEMMA FetchGoesOn ==
  ASSUME CaptureInv, NEW r \in Requests, NEW phase, NEW change, GoesOn(r, phase, change)
  PROVE  CaptureInv'
<1> USE DEF GoesOn
<1>1. /\ calls \in [Requests -> [phase : {"none", "flying", "body", "over"}, url : Urls \cup {None},
                                 store : Records \cup {None}, sent : BOOLEAN]]
      /\ now \in Nat /\ life \in [Scopes -> {"none", "live", "closing", "gone"}]
      /\ dispatched \in Seq(Requests) /\ mixed \subseteq Urls
  BY DEF CaptureInv, CaptureTypeOK, Record
<1>2. /\ \A q \in Requests : q # r => calls'[q] = calls[q]
      /\ calls'[r].url = calls[r].url /\ calls'[r].phase = phase /\ calls'[r].store = calls[r].store
      /\ calls'[r].sent = calls[r].sent
  BY <1>1
<1>3. calls' \in [Requests -> [phase : {"none", "flying", "body", "over"}, url : Urls \cup {None},
                               store : Records \cup {None}, sent : BOOLEAN]]
  BY <1>1
<1>4. FetchesArePlaced'
  BY <1>2 DEF CaptureInv, FetchesArePlaced
<1>5. rows' \in [Records -> Seq(Record)] /\ RecordsAreTrue'
  <2>1. \A p \in Records, x \in Record :
          x.id # r /\ TrueOf(x, calls[x.id], p, mixed) => TrueOf(x, calls'[x.id], p, mixed')
    BY <1>2 DEF TrueOf, Record
  <2>2. ASSUME NEW p \in Records, NEW x \in Record, x.id = r, TrueOf(x, calls[r], p, mixed)
        PROVE  TrueOf(Amended(x, change), calls'[r], p, mixed')
    <3>1. Amended(x, change).status # "pending"
      BY <2>2 DEF TrueOf
    <3> QED BY <1>2, <2>2, <3>1 DEF TrueOf
  <2> QED BY <2>1, <2>2, UpdateTells
<1>6. WaitingAreUnsent'
  BY <1>2, ListStays
<1> QED BY <1>1, <1>3, <1>4, <1>5, <1>6, PartsStay

\* The response comes, the fetch fails, or the body ends.
LEMMA OutcomesKeep ==
  ASSUME CaptureInv, NEW r \in Requests,
         \/ \E outcome \in bounds.outcomes : Respond(r, outcome[1], outcome[2])
         \/ Reject(r) \/ BodyEnds(r)
  PROVE  CaptureInv'
<1>1. ASSUME NEW o \in bounds.outcomes PROVE o[1] \in {"success", "error"} /\ o[2] \in BOOLEAN
  <2>1. bounds \in Bounds
    BY DEF CaptureInv
  <2>2. bounds.outcomes \subseteq {"success", "error"} \X BOOLEAN
    BY <2>1, CaptureAssumption
  <2>3. o \in {"success", "error"} \X BOOLEAN
    BY <2>2
  <2> QED BY <2>3
<1>2. ASSUME NEW o \in bounds.outcomes, Respond(r, o[1], o[2]) PROVE CaptureInv'
  <2> DEFINE change == [status |-> o[1], body |-> IF o[2] THEN "pending" ELSE "unavailable"]
             phase == IF o[2] THEN "body" ELSE "over"
  <2>1. /\ calls[r].phase = "flying" /\ calls[r].sent
        /\ calls' = [calls EXCEPT ![r].phase = phase] /\ rows' = Updated(r, change)
        /\ bounds' = bounds /\ UNCHANGED <<dispatched, life, now, mixed>>
    BY <1>2 DEF Respond, vars
  <2>2. \A x \in Record : x.id = r =>
          /\ Amended(x, change) \in Record /\ Amended(x, change).id = r
          /\ Amended(x, change).headers = x.headers
          /\ Amended(x, change).body = "pending" <=> phase = "body"
          /\ \/ Amended(x, change).status # "pending"
             \/ Amended(x, change).status = x.status /\ calls[r].phase = "body"
    BY <1>1 DEF Amended, Record
  <2>3. phase \in {"body", "over"} /\ mixed \subseteq Urls
    BY DEF CaptureInv, CaptureTypeOK
  <2> HIDE DEF change, phase
  <2>4. GoesOn(r, phase, change)
    BY <2>1, <2>2, <2>3 DEF GoesOn
  <2> QED BY <2>4, FetchGoesOn
<1>3. ASSUME Reject(r) PROVE CaptureInv'
  <2> DEFINE change == [status |-> "error", body |-> "unavailable"]
  <2>1. /\ calls[r].phase = "flying"
        /\ calls' = [calls EXCEPT ![r].phase = "over"] /\ rows' = Updated(r, change)
        /\ mixed' = IF calls[r].sent THEN mixed ELSE mixed \cup {calls[r].url}
        /\ bounds' = bounds /\ UNCHANGED <<dispatched, life, now>>
    BY <1>3 DEF Reject, vars
  <2>2. \A x \in Record : x.id = r =>
          /\ Amended(x, change) \in Record /\ Amended(x, change).id = r
          /\ Amended(x, change).headers = x.headers
          /\ Amended(x, change).body = "pending" <=> "over" = "body"
          /\ \/ Amended(x, change).status # "pending"
             \/ Amended(x, change).status = x.status /\ calls[r].phase = "body"
    BY DEF Amended, Record
  <2>3. mixed \subseteq mixed' /\ mixed' \subseteq Urls
    BY <2>1 DEF CaptureInv, CaptureTypeOK, FetchesArePlaced
  <2> HIDE DEF change
  <2>4. GoesOn(r, "over", change)
    BY <2>1, <2>2, <2>3 DEF GoesOn
  <2> QED BY <2>4, FetchGoesOn
<1>4. ASSUME BodyEnds(r) PROVE CaptureInv'
  <2>1. PICK body \in {"complete", "error"} : rows' = Updated(r, [body |-> body])
    BY <1>4 DEF BodyEnds
  <2> DEFINE change == [body |-> body]
  <2>2. /\ calls[r].phase = "body"
        /\ calls' = [calls EXCEPT ![r].phase = "over"] /\ rows' = Updated(r, change)
        /\ bounds' = bounds /\ UNCHANGED <<dispatched, life, now, mixed>>
    BY <1>4, <2>1 DEF BodyEnds, vars
  <2>3. \A x \in Record : x.id = r =>
          /\ Amended(x, change) \in Record /\ Amended(x, change).id = r
          /\ Amended(x, change).headers = x.headers
          /\ Amended(x, change).body = "pending" <=> "over" = "body"
          /\ \/ Amended(x, change).status # "pending"
             \/ Amended(x, change).status = x.status /\ calls[r].phase = "body"
    BY <2>2 DEF Amended, Record
  <2>4. mixed \subseteq Urls
    BY DEF CaptureInv, CaptureTypeOK
  <2> HIDE DEF change
  <2>5. GoesOn(r, "over", change)
    BY <2>2, <2>3, <2>4 DEF GoesOn
  <2> QED BY <2>5, FetchGoesOn
<1> QED BY <1>2, <1>3, <1>4

\* A request is of a scope, or of none.
LEMMA AttributedToOne == ASSUME bounds \in Bounds PROVE Attributed \in Records
<1> DEFINE active == {ScopeOf(k) : k \in Thinking(store)}
<1>1. active \subseteq Scopes
  BY TurnsAssumption DEF ScopeOf, Thinking
<1>2. CASE Cardinality(active) = 1
  <2>1. active # {}
    BY <1>2, FS_EmptySet
  <2>2. (CHOOSE p \in active : TRUE) \in Scopes
    BY <1>1, <2>1
  <2> QED BY <1>2, <2>2 DEF Attributed, Records
<1>3. CASE Cardinality(active) # 1
  BY <1>3 DEF Attributed, Records
<1> QED BY <1>2, <1>3

\* A store with a further record: it comes last, and the first one may be gone.
LEMMA StoredShift ==
  ASSUME CaptureInv, NEW p \in Records, NEW x \in Record
  PROVE  /\ Stored(p, x) \in [Records -> Seq(Record)]
         /\ \A q \in Records : q # p => Stored(p, x)[q] = rows[q]
         /\ Len(rows[p]) \in Nat /\ DOMAIN rows[p] = 1..Len(rows[p])
         /\ \E d \in {0, 1} :
              /\ Len(Stored(p, x)[p]) = Len(rows[p]) + 1 - d
              /\ DOMAIN Stored(p, x)[p] = 1..(Len(rows[p]) + 1 - d)
              /\ \A k \in DOMAIN Stored(p, x)[p] :
                   Stored(p, x)[p][k] = IF k + d = Len(rows[p]) + 1 THEN x ELSE rows[p][k + d]
<1> DEFINE seq == rows[p]
           all == Append(seq, x)
           new == IF Len(all) > MaxRows THEN Tail(all) ELSE all
<1>1. rows \in [Records -> Seq(Record)]
  BY DEF CaptureInv, CaptureTypeOK, Record
<1>2. seq \in Seq(Record) /\ Len(seq) \in Nat /\ DOMAIN seq = 1..Len(seq)
  BY <1>1
<1>3. /\ all \in Seq(Record) /\ Len(all) = Len(seq) + 1
      /\ \A k \in 1..(Len(seq) + 1) : all[k] = IF k = Len(seq) + 1 THEN x ELSE seq[k]
  BY <1>2
<1>4. /\ Stored(p, x)[p] = new /\ \A q \in Records : q # p => Stored(p, x)[q] = rows[q]
      /\ DOMAIN Stored(p, x) = Records
  BY <1>1 DEF Stored
<1> HIDE DEF seq, all
<1>5. /\ new \in Seq(Record)
      /\ \E d \in {0, 1} :
           /\ Len(new) = Len(seq) + 1 - d /\ DOMAIN new = 1..(Len(seq) + 1 - d)
           /\ \A k \in DOMAIN new : new[k] = IF k + d = Len(seq) + 1 THEN x ELSE seq[k + d]
  <2>1. CASE Len(all) > MaxRows
    <3>1. all # <<>>
      BY <1>2, <1>3
    <3>2. Tail(all) \in Seq(Record) /\ DOMAIN Tail(all) = 1..Len(seq) /\ Len(Tail(all)) = Len(seq)
          /\ \A k \in 1..Len(seq) : Tail(all)[k] = all[k + 1]
      BY <1>2, <1>3, <3>1
    <3>3. \A k \in DOMAIN Tail(all) : Tail(all)[k] = IF k + 1 = Len(seq) + 1 THEN x ELSE seq[k + 1]
      BY <1>2, <1>3, <3>2
    <3> QED BY <1>2, <2>1, <3>2, <3>3
  <2>2. CASE ~(Len(all) > MaxRows)
    <3>1. DOMAIN all = 1..(Len(seq) + 1)
      BY <1>3
    <3>2. new = all /\ Len(new) = Len(seq) + 1 - 0
      BY <1>2, <1>3, <2>2
    <3>3. \A k \in DOMAIN all : all[k] = IF k + 0 = Len(seq) + 1 THEN x ELSE seq[k + 0]
      BY <1>2, <1>3, <3>1
    <3>4. DOMAIN all = 1..(Len(seq) + 1 - 0) /\ 0 \in {0, 1} /\ all \in Seq(Record)
      BY <1>2, <1>3, <3>1
    <3> HIDE DEF new
    <3> QED BY <3>2, <3>3, <3>4
  <2> QED BY <2>1, <2>2
<1> HIDE DEF new
<1>6. Stored(p, x) \in [Records -> Seq(Record)]
  <2>1. \A q \in Records : Stored(p, x)[q] \in Seq(Record)
    BY <1>1, <1>4, <1>5
  <2>2. Stored(p, x) = [q \in Records |-> Stored(p, x)[q]]
    BY <1>1 DEF Stored
  <2> QED BY <2>1, <2>2
<1> QED BY <1>2, <1>4, <1>5, <1>6 DEF seq

\* It holds that one and records it held, none twice.
LEMMA StoredRows ==
  ASSUME CaptureInv, NEW p \in Records, NEW x \in Record
  PROVE  /\ Stored(p, x) \in [Records -> Seq(Record)]
         /\ \A q \in Records : q # p => Stored(p, x)[q] = rows[q]
         /\ \A k \in DOMAIN Stored(p, x)[p] :
              \/ Stored(p, x)[p][k] = x
              \/ \E j \in DOMAIN rows[p] : Stored(p, x)[p][k] = rows[p][j]
         /\ (\A j \in DOMAIN rows[p] : rows[p][j].id # x.id) =>
              \A k, j \in DOMAIN Stored(p, x)[p] :
                Stored(p, x)[p][k].id = Stored(p, x)[p][j].id => k = j
<1> DEFINE seq == rows[p]
           new == Stored(p, x)[p]
           n == Len(seq)
<1>1. n \in Nat /\ DOMAIN seq = 1..n
  BY StoredShift
<1>2. PICK d \in {0, 1} :
        /\ DOMAIN new = 1..(n + 1 - d)
        /\ \A k \in DOMAIN new : new[k] = IF k + d = n + 1 THEN x ELSE seq[k + d]
  BY StoredShift
<1>3. \A k, j \in DOMAIN seq : seq[k].id = seq[j].id => k = j
  BY DEF CaptureInv, RecordsAreTrue
<1> HIDE DEF seq, new, n
<1>4. \A k \in DOMAIN new : k \in Nat /\ (k + d = n + 1 \/ k + d \in DOMAIN seq)
  BY <1>1, <1>2
<1>5. ASSUME \A j \in DOMAIN seq : seq[j].id # x.id,
             NEW k \in DOMAIN new, NEW j \in DOMAIN new, new[k].id = new[j].id
      PROVE  k = j
  <2>1. k + d = n + 1 <=> j + d = n + 1
    BY <1>2, <1>4, <1>5
  <2>2. k + d = j + d
    BY <1>2, <1>3, <1>4, <1>5, <2>1
  <2> QED BY <1>4, <2>2
<1>6. \A k \in DOMAIN new : new[k] = x \/ \E j \in DOMAIN seq : new[k] = seq[j]
  BY <1>2, <1>4
<1> QED BY <1>5, <1>6, StoredShift DEF seq, new

\* A fetch begins.
LEMMA InterceptKeeps ==
  ASSUME CaptureInv, NEW s \in Sessions, NEW r \in Requests, NEW u \in Urls, Intercept(s, r, u)
  PROVE  CaptureInv'
<1> DEFINE p == Attributed
           x == [id |-> r, time |-> now', status |-> "pending", body |-> "pending", headers |-> None]
<1>1. /\ calls[r].phase = "none" /\ bounds' = bounds
      /\ calls' = [calls EXCEPT ![r] = [phase |-> "flying", url |-> u, store |-> p, sent |-> FALSE]]
      /\ now' \in now..bounds.until
      /\ rows' = Stored(p, x) /\ dispatched' = Append(dispatched, r)
      /\ life' = life /\ mixed' = mixed
  BY DEF Intercept, Request
<1>2. /\ calls \in [Requests -> [phase : {"none", "flying", "body", "over"}, url : Urls \cup {None},
                                 store : Records \cup {None}, sent : BOOLEAN]]
      /\ now \in Nat /\ life \in [Scopes -> {"none", "live", "closing", "gone"}]
      /\ dispatched \in Seq(Requests) /\ mixed \subseteq Urls /\ rows \in [Records -> Seq(Record)]
  BY DEF CaptureInv, CaptureTypeOK, Record
<1>3. p \in Records
  BY AttributedToOne DEF CaptureInv
<1>4. now' \in Nat
  <2>1. bounds.until \in Nat
    BY CaptureAssumption DEF CaptureInv
  <2> QED BY <1>1, <1>2, <2>1
<1>5. x \in Record
  BY <1>4 DEF Record
<1> HIDE DEF p
<1>6. /\ \A q \in Requests : q # r => calls'[q] = calls[q]
      /\ calls'[r] = [phase |-> "flying", url |-> u, store |-> p, sent |-> FALSE]
  BY <1>1, <1>2
<1>7. calls' \in [Requests -> [phase : {"none", "flying", "body", "over"}, url : Urls \cup {None},
                               store : Records \cup {None}, sent : BOOLEAN]]
  BY <1>1, <1>2, <1>3
<1>8. FetchesArePlaced'
  BY <1>3, <1>6 DEF CaptureInv, FetchesArePlaced
<1>9. \A q \in Records : \A k \in DOMAIN rows[q] : rows[q][k] \in Record /\ rows[q][k].id # r
  <2>1. \A q \in Records : rows[q] \in Seq(Record)
    BY <1>2
  <2> QED BY <1>1, <2>1 DEF CaptureInv, RecordsAreTrue, TrueOf
<1>10. /\ rows' \in [Records -> Seq(Record)] /\ \A q \in Records : q # p => rows'[q] = rows[q]
       /\ \A k \in DOMAIN rows'[p] : rows'[p][k] = x \/ \E j \in DOMAIN rows[p] : rows'[p][k] = rows[p][j]
       /\ \A k, j \in DOMAIN rows'[p] : rows'[p][k].id = rows'[p][j].id => k = j
  <2>1. \A j \in DOMAIN rows[p] : rows[p][j].id # x.id
    BY <1>3, <1>9
  <2>2. rows' = Stored(p, x)
    BY <1>1
  <2> HIDE DEF x
  <2> QED BY <1>3, <1>5, <2>1, <2>2, StoredRows
<1>11. RecordsAreTrue'
  <2>1. ASSUME NEW q \in Records, NEW j \in DOMAIN rows[q]
        PROVE  TrueOf(rows[q][j], calls'[rows[q][j].id], q, mixed')
    <3>1. calls'[rows[q][j].id] = calls[rows[q][j].id]
      BY <1>6, <1>9 DEF Record
    <3> QED BY <1>1, <3>1 DEF CaptureInv, RecordsAreTrue
  <2>2. TrueOf(x, calls'[x.id], p, mixed')
    BY <1>6 DEF TrueOf
  <2>3. ASSUME NEW q \in Records, NEW k \in DOMAIN rows'[q]
        PROVE  TrueOf(rows'[q][k], calls'[rows'[q][k].id], q, mixed')
    <3> HIDE DEF x
    <3>1. CASE q = p
      BY <1>10, <2>1, <2>2, <2>3, <3>1
    <3>2. CASE q # p
      BY <1>10, <2>1, <2>3, <3>2
    <3> QED BY <3>1, <3>2
  <2>4. \A q \in Records : \A k, j \in DOMAIN rows'[q] : rows'[q][k].id = rows'[q][j].id => k = j
    BY <1>10 DEF CaptureInv, RecordsAreTrue
  <2> QED BY <2>3, <2>4 DEF RecordsAreTrue
<1>12. /\ DOMAIN dispatched' = 1..(Len(dispatched) + 1) /\ DOMAIN dispatched = 1..Len(dispatched)
       /\ Len(dispatched) \in Nat /\ dispatched'[Len(dispatched) + 1] = r
       /\ \A k \in DOMAIN dispatched : dispatched'[k] = dispatched[k] /\ dispatched[k] \in Requests
       /\ dispatched' \in Seq(Requests)
  BY <1>1, <1>2
<1>13. WaitingAreUnsent'
  <2>1. WaitingAreUnsent
    BY DEF CaptureInv
  <2>2. \A k \in DOMAIN dispatched : dispatched[k] # r
    BY <1>1, <2>1 DEF WaitingAreUnsent
  <2>3. \A j, k \in DOMAIN dispatched' : dispatched'[j] = dispatched'[k] => j = k
    <3> SUFFICES ASSUME NEW j \in DOMAIN dispatched', NEW k \in DOMAIN dispatched', dispatched'[j] = dispatched'[k]
                 PROVE  j = k
      OBVIOUS
    <3>1. j \in DOMAIN dispatched <=> k \in DOMAIN dispatched
      BY <1>12, <2>2
    <3> QED BY <1>12, <2>1, <3>1 DEF WaitingAreUnsent
  <2>4. ASSUME NEW k \in DOMAIN dispatched'
        PROVE  LET call == calls'[dispatched'[k]] IN
               /\ call.phase # "none" /\ call.url \in Urls
               /\ call.url \notin mixed' => call.phase = "flying" /\ ~call.sent
    <3>1. CASE k \in DOMAIN dispatched
      BY <1>1, <1>6, <1>12, <2>1, <2>2, <3>1 DEF WaitingAreUnsent
    <3>2. CASE k \notin DOMAIN dispatched
      BY <1>6, <1>12, <3>2
    <3> QED BY <3>1, <3>2
  <2>5. ASSUME NEW q \in Requests, calls'[q].phase = "flying", ~calls'[q].sent, calls'[q].url \notin mixed'
        PROVE  \E k \in DOMAIN dispatched' : dispatched'[k] = q
    <3>1. CASE q = r
      BY <1>12, <3>1
    <3>2. CASE q # r
      <4>1. PICK k \in DOMAIN dispatched : dispatched[k] = q
        BY <1>1, <1>6, <2>1, <2>5, <3>2 DEF WaitingAreUnsent
      <4> QED BY <1>12, <4>1
    <3> QED BY <3>1, <3>2
  <2> QED BY <2>3, <2>4, <2>5 DEF WaitingAreUnsent
<1> QED BY <1>1, <1>2, <1>4, <1>7, <1>8, <1>10, <1>11, <1>12, <1>13, PartsStay

\* Clearing a store, and deleting a space with its store.
LEMMA EmptyingKeeps ==
  ASSUME CaptureInv, NEW p \in Records, rows' = [rows EXCEPT ![p] = <<>>],
         bounds' = bounds, UNCHANGED <<calls, dispatched, now, mixed>>,
         life' \in [Scopes -> {"none", "live", "closing", "gone"}]
  PROVE  CaptureInv'
<1>1. /\ rows \in [Records -> Seq(Record)] /\ mixed \subseteq Urls /\ now \in Nat
      /\ dispatched \in Seq(Requests)
      /\ calls \in [Requests -> [phase : {"none", "flying", "body", "over"}, url : Urls \cup {None},
                                 store : Records \cup {None}, sent : BOOLEAN]]
  BY DEF CaptureInv, CaptureTypeOK, Record
<1>2. rows' \in [Records -> Seq(Record)]
  BY <1>1
<1>3. \A q \in Records : rows'[q] = IF q = p THEN <<>> ELSE rows[q]
  BY <1>1
<1>4. RecordsAreTrue'
  BY <1>3 DEF CaptureInv, RecordsAreTrue
<1>5. FetchesArePlaced' /\ WaitingAreUnsent'
  BY DEF CaptureInv, FetchesArePlaced, WaitingAreUnsent
<1> QED BY <1>1, <1>2, <1>4, <1>5, PartsStay

\* A step that makes, sends or records no request.
LEMMA OthersKeep ==
  ASSUME CaptureInv, bounds' = bounds, UNCHANGED <<calls, rows, dispatched, now, mixed>>,
         life' \in [Scopes -> {"none", "live", "closing", "gone"}]
  PROVE  CaptureInv'
<1>1. /\ rows \in [Records -> Seq(Record)] /\ mixed \subseteq Urls /\ now \in Nat
      /\ dispatched \in Seq(Requests)
      /\ calls \in [Requests -> [phase : {"none", "flying", "body", "over"}, url : Urls \cup {None},
                                 store : Records \cup {None}, sent : BOOLEAN]]
  BY DEF CaptureInv, CaptureTypeOK, Record
<1>2. RecordsAreTrue' /\ FetchesArePlaced' /\ WaitingAreUnsent'
  BY DEF CaptureInv, RecordsAreTrue, FetchesArePlaced, WaitingAreUnsent
<1> QED BY <1>1, <1>2, PartsStay

\* The bounds of a run are chosen once.
LEMMA BoundsStay == [Next]_vars => bounds' = bounds
BY DEF vars, Next, Core, Character, Turn, BeforeChat, AfterChat, ChatFails, ChatEnds, Collect, UsePreset,
       Answer, Release, Reload, Reply, Request, Usage, Forget

\* Every step of turns, fetches and scopes keeps what is recorded true.
LEMMA CaptureInductive == CaptureInv /\ [CaptureNext]_allCaptureVars => CaptureInv'
<1> SUFFICES ASSUME CaptureInv, [CaptureNext]_allCaptureVars PROVE CaptureInv'
  OBVIOUS
<1>1. /\ bounds \in Bounds /\ life \in [Scopes -> {"none", "live", "closing", "gone"}]
      /\ bounds.requests \subseteq Requests /\ Main \in Scopes
  <2>1. bounds \in Bounds /\ life \in [Scopes -> {"none", "live", "closing", "gone"}]
    BY DEF CaptureInv, CaptureTypeOK
  <2> QED BY <2>1, CaptureAssumption
<1>2. CASE UNCHANGED allCaptureVars
  BY <1>1, <1>2, OthersKeep DEF allCaptureVars, vars, captureVars
<1>3. CASE Next /\ UNCHANGED captureVars
  BY <1>1, <1>3, BoundsStay, OthersKeep DEF captureVars
<1>4. CASE Turning
  <2>1. Next /\ UNCHANGED captureVars
    BY <1>4 DEF Turning, Next
  <2> QED BY <1>3, <2>1
<1>5. CASE Fetching
  <2>1. PICK r \in bounds.requests :
          \/ \E s \in Sessions, u \in Urls : Intercept(s, r, u)
          \/ Send(r) \/ Reject(r) \/ BodyEnds(r)
          \/ \E outcome \in bounds.outcomes : Respond(r, outcome[1], outcome[2])
          \/ StrangerSends(calls[r].url)
    BY <1>5 DEF Fetching
  <2>2. r \in Requests
    BY <1>1
  <2> QED BY <2>1, <2>2, InterceptKeeps, SendKeeps, OutcomesKeep, StrangerKeeps
<1>6. CASE \E p \in Records : Clear(p)
  BY <1>1, <1>6, EmptyingKeeps DEF Clear, vars
<1>7. ASSUME NEW p \in Scopes, CreateSpace(p) \/ SpaceGone(p) PROVE CaptureInv'
  BY <1>1, <1>7, OthersKeep DEF CreateSpace, SpaceGone, vars
<1>8. ASSUME NEW p \in Scopes, DeleteSpace(p) PROVE CaptureInv'
  BY <1>1, <1>8, EmptyingKeeps DEF DeleteSpace, Records
<1> QED BY <1>2, <1>3, <1>4, <1>5, <1>6, <1>7, <1>8 DEF CaptureNext, Managing

\* What earlier processes left in the stores is of requests that are over.
LEMMA CaptureInitially == CaptureInit => CaptureInv
<1> SUFFICES ASSUME CaptureInit PROVE CaptureInv
  OBVIOUS
<1>1. bounds \in Bounds
  BY DEF CaptureInit, Init
<1>2. PICK given \in bounds.stored :
        /\ rows = [p \in Records |->
                     [k \in DOMAIN given[p] |-> PastRecord(given[p][k][1], given[p][k][2])]]
        /\ calls = [r \in Requests |->
                      IF \E p \in Records : \E k \in DOMAIN given[p] : given[p][k][1] = r
                        THEN PastCall(CHOOSE p \in Records : \E k \in DOMAIN given[p] : given[p][k][1] = r)
                        ELSE NoCall]
  BY DEF CaptureInit
<1>3. /\ given \in [Records -> Seq(Requests \X (0..bounds.started))]
      /\ \A p, q \in Records : \A j \in DOMAIN given[p], k \in DOMAIN given[q] :
           /\ given[p][j][1] = given[q][k][1] => p = q /\ j = k
           /\ p = q /\ j < k => given[p][j][2] <= given[q][k][2]
      /\ bounds.started \in Nat /\ bounds.spaces \subseteq Scopes
  BY <1>1, CaptureAssumption
<1>4. ASSUME NEW p \in Records
      PROVE  /\ rows[p] \in Seq(Record) /\ DOMAIN rows[p] = DOMAIN given[p]
             /\ \A k \in DOMAIN given[p] :
                  /\ given[p][k][1] \in Requests
                  /\ rows[p][k] = PastRecord(given[p][k][1], given[p][k][2])
  <2>1. given[p] \in Seq(Requests \X (0..bounds.started)) /\ Len(given[p]) \in Nat
        /\ DOMAIN given[p] = 1..Len(given[p])
    BY <1>3
  <2>2. ASSUME NEW k \in DOMAIN given[p]
        PROVE  given[p][k][1] \in Requests /\ PastRecord(given[p][k][1], given[p][k][2]) \in Record
    <3>1. given[p][k] \in Requests \X (0..bounds.started)
      BY <2>1
    <3>2. given[p][k][1] \in Requests /\ given[p][k][2] \in Nat
      BY <1>3, <3>1
    <3> QED BY <3>2 DEF PastRecord, Record
  <2>3. rows[p] = [k \in DOMAIN given[p] |-> PastRecord(given[p][k][1], given[p][k][2])]
    BY <1>2
  <2>4. rows[p] \in [1..Len(given[p]) -> Record]
    BY <2>1, <2>2, <2>3
  <2>5. rows[p] \in Seq(Record)
    <3> DEFINE n == Len(given[p])
               seq == rows[p]
    <3>1. n \in Nat /\ seq \in [1..n -> Record]
      BY <2>1, <2>4
    <3> HIDE DEF n, seq
    <3>2. seq \in Seq(Record)
      BY <3>1
    <3> QED BY <3>2 DEF seq
  <2> QED BY <2>1, <2>2, <2>3, <2>5
<1>5. ASSUME NEW r \in Requests
      PROVE  \/ /\ calls[r] = NoCall
                /\ \A p \in Records : \A k \in DOMAIN given[p] : given[p][k][1] # r
             \/ \E p \in Records : /\ calls[r] = PastCall(p)
                                   /\ \E k \in DOMAIN given[p] : given[p][k][1] = r
  <2>1. CASE \E p \in Records : \E k \in DOMAIN given[p] : given[p][k][1] = r
    <3> DEFINE p == CHOOSE p \in Records : \E k \in DOMAIN given[p] : given[p][k][1] = r
    <3>1. p \in Records /\ \E k \in DOMAIN given[p] : given[p][k][1] = r
      BY <2>1
    <3>2. calls[r] = PastCall(p)
      BY <1>2, <2>1
    <3> HIDE DEF p
    <3> QED BY <3>1, <3>2
  <2>2. CASE ~ \E p \in Records : \E k \in DOMAIN given[p] : given[p][k][1] = r
    BY <1>2, <2>2
  <2> QED BY <2>1, <2>2
<1>6. rows \in [Records -> Seq(Record)]
  <2>1. rows = [p \in Records |-> rows[p]]
    BY <1>2
  <2> QED BY <1>4, <2>1
<1>7. calls \in [Requests -> [phase : {"none", "flying", "body", "over"}, url : Urls \cup {None},
                              store : Records \cup {None}, sent : BOOLEAN]]
  <2>1. ASSUME NEW r \in Requests
        PROVE  calls[r] \in [phase : {"none", "flying", "body", "over"}, url : Urls \cup {None},
                             store : Records \cup {None}, sent : BOOLEAN]
    <3>1. CASE calls[r] = NoCall
      BY <3>1 DEF NoCall
    <3>2. CASE \E p \in Records : calls[r] = PastCall(p)
      BY <3>2 DEF PastCall
    <3> QED BY <1>5, <3>1, <3>2
  <2>2. calls = [r \in Requests |-> calls[r]]
    BY <1>2
  <2> QED BY <2>1, <2>2
<1>8. /\ life \in [Scopes -> {"none", "live", "closing", "gone"}] /\ now \in Nat
      /\ dispatched = <<>> /\ mixed = {} /\ dispatched \in Seq(Requests)
  BY <1>3 DEF CaptureInit
<1>9. RecordsAreTrue
  <2>1. ASSUME NEW p \in Records, NEW k \in DOMAIN rows[p]
        PROVE  TrueOf(rows[p][k], calls[rows[p][k].id], p, mixed)
    <3> DEFINE r == given[p][k][1]
    <3>1. k \in DOMAIN given[p] /\ rows[p][k] = PastRecord(r, given[p][k][2]) /\ r \in Requests
      BY <1>4, <2>1
    <3> HIDE DEF r
    <3>2. PICK q \in Records : calls[r] = PastCall(q) /\ \E j \in DOMAIN given[q] : given[q][j][1] = r
      BY <1>5, <3>1 DEF r
    <3>3. q = p
      BY <1>3, <3>1, <3>2 DEF r
    <3> QED BY <3>1, <3>2, <3>3 DEF TrueOf, PastRecord, PastCall
  <2>2. ASSUME NEW p \in Records, NEW k \in DOMAIN rows[p], NEW j \in DOMAIN rows[p],
               rows[p][k].id = rows[p][j].id
        PROVE  k = j
    <3>1. ASSUME NEW i \in DOMAIN rows[p] PROVE i \in DOMAIN given[p] /\ rows[p][i].id = given[p][i][1]
      <4>1. i \in DOMAIN given[p] /\ rows[p][i] = PastRecord(given[p][i][1], given[p][i][2])
        BY <1>4
      <4> QED BY <4>1 DEF PastRecord
    <3>2. given[p][k][1] = given[p][j][1] /\ k \in DOMAIN given[p] /\ j \in DOMAIN given[p]
      BY <2>2, <3>1
    <3> QED BY <1>3, <3>2
  <2> QED BY <2>1, <2>2 DEF RecordsAreTrue
<1>10. FetchesArePlaced
  <2>1. ASSUME NEW r \in Requests
        PROVE  /\ calls[r].phase # "none" => calls[r].store \in Records
               /\ calls[r].phase \notin {"flying", "body"}
    <3>1. CASE calls[r] = NoCall
      BY <3>1 DEF NoCall
    <3>2. CASE \E p \in Records : calls[r] = PastCall(p)
      BY <3>2 DEF PastCall
    <3> QED BY <1>5, <3>1, <3>2
  <2> QED BY <2>1 DEF FetchesArePlaced
<1>11. WaitingAreUnsent
  <2>1. ASSUME NEW r \in Requests PROVE calls[r].phase # "flying"
    <3>1. CASE calls[r] = NoCall
      BY <3>1 DEF NoCall
    <3>2. CASE \E p \in Records : calls[r] = PastCall(p)
      BY <3>2 DEF PastCall
    <3> QED BY <1>5, <3>1, <3>2
  <2> QED BY <1>8, <2>1 DEF WaitingAreUnsent
<1> QED BY <1>1, <1>6, <1>7, <1>8, <1>9, <1>10, <1>11 DEF CaptureInv, CaptureTypeOK, Record

\* The records of a store stay where they are, or all go.
RowsKept ==
  \A p \in Records :
    \/ rows'[p] = <<>>
    \/ /\ DOMAIN rows'[p] = DOMAIN rows[p]
       /\ \A k \in DOMAIN rows[p] : rows'[p][k].id = rows[p][k].id /\ rows'[p][k].time = rows[p][k].time

\* A record is written anew.
LEMMA UpdateKeepsRows ==
  ASSUME CaptureInv, NEW q \in Requests, NEW change, rows' = Updated(q, change),
         \A x \in Record : /\ Amended(x, change) \in Record
                           /\ Amended(x, change).id = x.id /\ Amended(x, change).time = x.time
  PROVE  RowsKept
<1>1. rows \in [Records -> Seq(Record)] /\ CaptureTypeOK
  BY DEF CaptureInv, CaptureTypeOK, Record
<1> SUFFICES ASSUME NEW p \in Records
             PROVE  /\ DOMAIN rows'[p] = DOMAIN rows[p]
                    /\ \A k \in DOMAIN rows[p] :
                         rows'[p][k].id = rows[p][k].id /\ rows'[p][k].time = rows[p][k].time
  BY DEF RowsKept
<1>2. /\ DOMAIN rows'[p] = DOMAIN rows[p]
      /\ \A k \in DOMAIN rows[p] :
           rows'[p][k] = IF p = calls[q].store /\ rows[p][k].id = q THEN Amended(rows[p][k], change)
                         ELSE rows[p][k]
  BY <1>1, UpdatedRows
<1>3. \A k \in DOMAIN rows[p] : rows[p][k] \in Record
  <2>1. rows[p] \in Seq(Record)
    BY <1>1
  <2> QED BY <2>1
<1> QED BY <1>2, <1>3

\* A store gets a further record, now, of a fetch that begins.
Begins(r, x) ==
  /\ calls[r].phase = "none" /\ x.id = r
  /\ x.time = now' /\ now' \in Nat /\ now <= now'
  /\ Attributed \in Records /\ rows' = Stored(Attributed, x)
  /\ tied' = (tied \/ Tied(rows'[Attributed]))

\* How the stores change.
LEMMA RowsChange ==
  ASSUME CaptureInv, [CaptureNext]_allCaptureVars
  PROVE  \/ RowsKept /\ now' = now /\ tied' = tied
         \/ \E r \in Requests, x \in Record : Begins(r, x)
<1>1. rows \in [Records -> Seq(Record)] /\ bounds \in Bounds /\ now \in Nat
      /\ bounds.requests \subseteq Requests /\ bounds.until \in Nat
  BY CaptureAssumption DEF CaptureInv, CaptureTypeOK, Record
<1>2. CASE rows' = rows /\ now' = now /\ tied' = tied
  BY <1>2 DEF RowsKept
<1>3. ASSUME NEW q, rows' = [rows EXCEPT ![q] = <<>>] PROVE RowsKept
  <2>1. \A p \in Records : rows'[p] = rows[p] \/ rows'[p] = <<>>
    BY <1>1, <1>3
  <2> QED BY <2>1 DEF RowsKept
<1>4. ASSUME NEW u, NEW h \in Requests \cup {Stranger}, HeadersSent(u, h) PROVE RowsKept
  <2>1. CASE WaitingFor(u) = {}
    BY <1>4, <2>1 DEF HeadersSent, RowsKept
  <2>2. CASE WaitingFor(u) # {}
    <3> DEFINE q == dispatched[Min(WaitingFor(u))]
               change == [headers |-> h]
    <3>1. rows' = Updated(q, change) /\ q \in Requests
      BY <1>4, <2>2, FirstWaits DEF HeadersSent
    <3>2. \A x \in Record : /\ Amended(x, change) \in Record
                            /\ Amended(x, change).id = x.id /\ Amended(x, change).time = x.time
      BY DEF Amended, Record
    <3> HIDE DEF q, change
    <3> QED BY <3>1, <3>2, UpdateKeepsRows
  <2> QED BY <2>1, <2>2
<1>5. CASE Fetching
  <2>1. PICK q \in bounds.requests :
          \/ \E s \in Sessions, u \in Urls : Intercept(s, q, u)
          \/ Send(q) \/ Reject(q) \/ BodyEnds(q)
          \/ \E outcome \in bounds.outcomes : Respond(q, outcome[1], outcome[2])
          \/ StrangerSends(calls[q].url)
    BY <1>5 DEF Fetching
  <2>2. q \in Requests
    BY <1>1
  <2>3. ASSUME Send(q) \/ StrangerSends(calls[q].url) PROVE RowsKept /\ now' = now /\ tied' = tied
    BY <1>4, <2>2, <2>3 DEF Send, StrangerSends
  <2>4. ASSUME NEW outcome \in bounds.outcomes, Respond(q, outcome[1], outcome[2])
        PROVE  RowsKept /\ now' = now /\ tied' = tied
    <3>1. outcome[1] \in {"success", "error"}
      <4>1. bounds.outcomes \subseteq {"success", "error"} \X BOOLEAN
        BY <1>1, CaptureAssumption
      <4>2. outcome \in {"success", "error"} \X BOOLEAN
        BY <4>1
      <4> QED BY <4>2
    <3> DEFINE change == [status |-> outcome[1], body |-> IF outcome[2] THEN "pending" ELSE "unavailable"]
    <3>2. \A x \in Record : /\ Amended(x, change) \in Record
                            /\ Amended(x, change).id = x.id /\ Amended(x, change).time = x.time
      BY <3>1 DEF Amended, Record
    <3>3. rows' = Updated(q, change) /\ now' = now /\ tied' = tied
      BY <2>4 DEF Respond
    <3> HIDE DEF change
    <3> QED BY <2>2, <3>2, <3>3, UpdateKeepsRows
  <2>5. ASSUME Reject(q) PROVE RowsKept /\ now' = now /\ tied' = tied
    <3> DEFINE change == [status |-> "error", body |-> "unavailable"]
    <3>1. \A x \in Record : /\ Amended(x, change) \in Record
                            /\ Amended(x, change).id = x.id /\ Amended(x, change).time = x.time
      BY DEF Amended, Record
    <3>2. rows' = Updated(q, change) /\ now' = now /\ tied' = tied
      BY <2>5 DEF Reject
    <3> HIDE DEF change
    <3> QED BY <2>2, <3>1, <3>2, UpdateKeepsRows
  <2>6. ASSUME BodyEnds(q) PROVE RowsKept /\ now' = now /\ tied' = tied
    <3>1. PICK body \in {"complete", "error"} : rows' = Updated(q, [body |-> body])
      BY <2>6 DEF BodyEnds
    <3> DEFINE change == [body |-> body]
    <3>2. \A x \in Record : /\ Amended(x, change) \in Record
                            /\ Amended(x, change).id = x.id /\ Amended(x, change).time = x.time
      BY DEF Amended, Record
    <3>3. rows' = Updated(q, change) /\ now' = now /\ tied' = tied
      BY <2>6, <3>1 DEF BodyEnds
    <3> HIDE DEF change
    <3> QED BY <2>2, <3>2, <3>3, UpdateKeepsRows
  <2>7. ASSUME NEW s \in Sessions, NEW u \in Urls, Intercept(s, q, u)
        PROVE  \E r \in Requests, x \in Record : Begins(r, x)
    <3> DEFINE x == [id |-> q, time |-> now', status |-> "pending", body |-> "pending", headers |-> None]
    <3>1. /\ rows' = Stored(Attributed, x) /\ calls[q].phase = "none"
          /\ now' \in now..bounds.until /\ tied' = (tied \/ Tied(rows'[Attributed]))
      BY <2>7 DEF Intercept
    <3>2. now' \in Nat /\ now <= now'
      BY <1>1, <3>1
    <3>3. x \in Record /\ x.id = q /\ x.time = now'
      BY <2>2, <3>2 DEF Record
    <3> HIDE DEF x
    <3>4. Begins(q, x)
      BY <1>1, <3>1, <3>2, <3>3, AttributedToOne DEF Begins
    <3> QED BY <2>2, <3>3, <3>4
  <2> QED BY <2>1, <2>3, <2>4, <2>5, <2>6, <2>7
<1>6. CASE Managing
  BY <1>2, <1>3, <1>6 DEF Managing, Clear, CreateSpace, DeleteSpace, SpaceGone
<1> QED BY <1>2, <1>5, <1>6 DEF CaptureNext, allCaptureVars, captureVars, Turning

\* Only a fetch that begins puts a record into a store.
LEMMA OnlyFetchesRecord ==
  ASSUME CaptureInv, [CaptureNext]_allCaptureVars, NEW p \in Records, NEW r \in Ids(rows'[p]) \ Ids(rows[p])
  PROVE  calls[r].phase = "none"
<1>1. ~RowsKept
  <2> SUFFICES ASSUME RowsKept PROVE FALSE
    OBVIOUS
  <2>1. PICK k \in DOMAIN rows'[p] : rows'[p][k].id = r
    BY DEF Ids
  <2>2. DOMAIN rows'[p] = DOMAIN rows[p] /\ \A j \in DOMAIN rows[p] : rows'[p][j].id = rows[p][j].id
    BY <2>1 DEF RowsKept
  <2> QED BY <2>1, <2>2 DEF Ids
<1>2. PICK q \in Requests, x \in Record : Begins(q, x)
  BY <1>1, RowsChange
<1>3. rows' = Stored(Attributed, x) /\ calls[q].phase = "none" /\ Attributed \in Records /\ x.id = q
  BY <1>2 DEF Begins
<1>4. p = Attributed
  BY <1>3, StoredRows
<1>5. PICK k \in DOMAIN rows'[p] : rows'[p][k].id = r
  BY DEF Ids
<1>6. rows'[p][k] = x
  <2>1. rows'[p][k] = x \/ \E j \in DOMAIN rows[p] : rows'[p][k] = rows[p][j]
    BY <1>3, <1>4, StoredRows
  <2>2. \A j \in DOMAIN rows[p] : rows[p][j].id # r
    BY DEF Ids
  <2> QED BY <1>5, <2>1, <2>2
<1> QED BY <1>3, <1>5, <1>6

\* Whatever fetches overtake each other, fail, end late, or lose their records meanwhile: what is
\* recorded of them is true, and no record comes back.
THEOREM EvidenceHolds == CaptureSpec => EvidenceIsTrue
<1>1. CaptureInv => CaptureTypeOK /\ RecordsFollowFetches
  BY DEF CaptureInv, RecordsAreTrue, RecordsFollowFetches, TrueOf
<1>2. CaptureInv /\ [CaptureNext]_allCaptureVars =>
        [\A p \in Records : \A r \in Ids(rows'[p]) \ Ids(rows[p]) : calls[r].phase = "none"]_allCaptureVars
  BY OnlyFetchesRecord
<1> QED BY <1>1, <1>2, CaptureInitially, CaptureInductive, PTL
        DEF CaptureSpec, EvidenceIsTrue, ClearedStaysCleared

-----------------------------------------------------------------------------
(* Finite sets in an order. *)

\* R puts the elements of S in a strict order.
Orders(R, S) ==
  /\ \A x, y \in S : x # y => <<x, y>> \in R \/ <<y, x>> \in R
  /\ \A x, y \in S : ~(<<x, y>> \in R /\ <<y, x>> \in R)
  /\ \A x, y, z \in S : <<x, y>> \in R /\ <<y, z>> \in R => <<x, z>> \in R
\* The elements of S before x, and how many they are.
Below(R, S, x) == {y \in S : <<y, x>> \in R}
Rank(R, S, x) == Cardinality(Below(R, S, x))

\* The elements of an ordered set have the ranks 0, 1, ..., in the order.
LEMMA Ranks ==
  ASSUME NEW R, NEW S, IsFiniteSet(S), Orders(R, S)
  PROVE  /\ Cardinality(S) \in Nat
         /\ \A x \in S : Rank(R, S, x) \in 0..(Cardinality(S) - 1)
         /\ \A x, y \in S : <<x, y>> \in R <=> Rank(R, S, x) < Rank(R, S, y)
         /\ \A x, y \in S : Rank(R, S, x) = Rank(R, S, y) => x = y
         /\ \A i \in 0..(Cardinality(S) - 1) : \E x \in S : Rank(R, S, x) = i
<1> DEFINE n == Cardinality(S)
<1>1. n \in Nat
  BY FS_CardinalityType
<1>2. ASSUME NEW x \in S PROVE Rank(R, S, x) \in 0..(n - 1)
  <2>1. Below(R, S, x) \in SUBSET (S \ {x})
    BY DEF Below, Orders
  <2>2. IsFiniteSet(S \ {x}) /\ Cardinality(S \ {x}) = n - 1
    BY FS_RemoveElement
  <2>3. IsFiniteSet(Below(R, S, x)) /\ Rank(R, S, x) <= n - 1
    BY <2>1, <2>2, FS_Subset DEF Rank
  <2>4. Rank(R, S, x) \in Nat
    BY <2>3, FS_CardinalityType DEF Rank
  <2> QED BY <1>1, <2>3, <2>4
<1>3. ASSUME NEW x \in S, NEW y \in S, <<x, y>> \in R PROVE Rank(R, S, x) < Rank(R, S, y)
  <2>1. Below(R, S, x) \cup {x} \in SUBSET Below(R, S, y)
    BY <1>3 DEF Below, Orders
  <2>2. x \notin Below(R, S, x)
    BY DEF Below, Orders
  <2>3. IsFiniteSet(Below(R, S, x)) /\ IsFiniteSet(Below(R, S, y))
    BY FS_Subset DEF Below
  <2>4. Cardinality(Below(R, S, x) \cup {x}) = Rank(R, S, x) + 1
    BY <2>2, <2>3, FS_AddElement DEF Rank
  <2>5. Cardinality(Below(R, S, x) \cup {x}) <= Rank(R, S, y)
    BY <2>1, <2>3, FS_Subset DEF Rank
  <2> HIDE DEF n
  <2>6. Rank(R, S, x) \in Nat /\ Rank(R, S, y) \in Nat
    BY <1>1, <1>2
  <2> QED BY <2>4, <2>5, <2>6
<1>4. ASSUME NEW x \in S, NEW y \in S, Rank(R, S, x) < Rank(R, S, y) PROVE <<x, y>> \in R
  <2>1. Rank(R, S, x) \in Nat /\ Rank(R, S, y) \in Nat
    BY <1>1, <1>2
  <2>2. x # y /\ ~(<<y, x>> \in R)
    BY <1>3, <1>4, <2>1
  <2> QED BY <2>2 DEF Orders
<1>5. ASSUME NEW x \in S, NEW y \in S, Rank(R, S, x) = Rank(R, S, y) PROVE x = y
  <2>1. Rank(R, S, x) \in Nat /\ Rank(R, S, y) \in Nat
    BY <1>1, <1>2
  <2>2. ~(<<x, y>> \in R) /\ ~(<<y, x>> \in R)
    BY <1>3, <1>5, <2>1
  <2> QED BY <2>2 DEF Orders
<1>6. ASSUME NEW i \in 0..(n - 1) PROVE \E x \in S : Rank(R, S, x) = i
  <2> DEFINE f == [x \in S |-> Rank(R, S, x)]
  <2>1. f \in [S -> 0..(n - 1)]
    BY <1>2
  <2>2. f \in Injection(S, 0..(n - 1))
    BY <1>5, <2>1 DEF Injection, IsInjective
  <2>3. IsFiniteSet(0..(n - 1)) /\ Cardinality(0..(n - 1)) = n
    BY <1>1, FS_Interval
  <2>4. f \in Surjection(S, 0..(n - 1))
    BY <2>2, <2>3, FS_Injection
  <2> QED BY <2>4 DEF Surjection
<1> QED BY <1>1, <1>2, <1>3, <1>4, <1>5, <1>6

\* As many of them as there are have the first ranks.
LEMMA FirstRanks ==
  ASSUME NEW R, NEW S, IsFiniteSet(S), Orders(R, S), NEW m \in Nat, m <= Cardinality(S)
  PROVE  /\ IsFiniteSet({x \in S : Rank(R, S, x) < m})
         /\ Cardinality({x \in S : Rank(R, S, x) < m}) = m
<1> DEFINE T == {x \in S : Rank(R, S, x) < m}
           f == [x \in T |-> Rank(R, S, x)]
<1>1. IsFiniteSet(T)
  BY FS_Subset
<1>2. f \in [T -> 0..(m - 1)]
  BY Ranks
<1>3. f \in Injection(T, 0..(m - 1))
  BY <1>2, Ranks DEF Injection, IsInjective
<1>4. f \in Surjection(T, 0..(m - 1))
  <2>1. \A i \in 0..(m - 1) : \E x \in T : Rank(R, S, x) = i
    <3> SUFFICES ASSUME NEW i \in 0..(m - 1) PROVE \E x \in S : Rank(R, S, x) = i
      OBVIOUS
    <3>1. i \in 0..(Cardinality(S) - 1)
      BY Ranks
    <3> QED BY <3>1, Ranks
  <2> QED BY <1>2, <2>1 DEF Surjection
<1>5. IsFiniteSet(0..(m - 1)) /\ Cardinality(0..(m - 1)) = m
  BY FS_Interval
<1>6. Cardinality(T) <= m /\ m <= Cardinality(T)
  BY <1>1, <1>3, <1>4, <1>5, FS_Injection, FS_Surjection
<1>7. Cardinality(T) \in Nat
  BY <1>1, FS_CardinalityType
<1> HIDE DEF T
<1>8. Cardinality(T) = m
  BY <1>6, <1>7
<1> QED BY <1>1, <1>8 DEF T

-----------------------------------------------------------------------------
(* Reading the records of all scopes, for any number of scopes, records and pages. *)

\* Records come as time goes by, and without a tie in the order of time and id.
RowsInTime ==
  \A p \in Records :
    /\ \A k \in DOMAIN rows[p] : rows[p][k].time <= now
    /\ \A j, k \in DOMAIN rows[p] : j < k => rows[p][j].time <= rows[p][k].time
\* Unless two of one millisecond are the other way round.
RowsInOrder ==
  ~tied => \A p \in Records : \A j, k \in DOMAIN rows[p] :
             j < k => Earlier(Position(rows[p][j]), Position(rows[p][k]))

\* Where a record stands, in the store p and in the order of time and id.
Stands(r, p, x) == \E k \in DOMAIN rows[p] : rows[p][k].id = r /\ x = Position(rows[p][k])

\* What was stored all the time is of scopes that live.
SteadyIsLive == \A r \in steady : \E p \in LiveScopes : r \in Ids(rows[p])

\* Records are given in the order of the walk.
GivenInOrder == \A j, k \in DOMAIN got : j < k => InOrder(got[j], got[k])

\* The next page begins after the last record given.
Ahead(x) == walk.cursor = None \/ InOrder(walk.cursor, x)
\* The cursor is the last record given, once one was given.
CursorIsLast ==
  /\ walk.cursor # None => got # <<>> /\ walk.cursor = got[Len(got)]
  /\ walk.phase = "none" \/ (walk.phase = "waiting" /\ walk.cursor = None) => got = <<>>
  /\ walk.phase = "paused" => walk.cursor # None
  /\ walk.phase = "none" => steady = {}

\* What the scopes have returned is ahead of the cursor, and a page's length where there is more.
PagesAreAhead ==
  /\ IsFiniteSet(walk.pages) /\ (walk.phase # "waiting" => walk.pages = {})
  /\ \A page \in walk.pages :
       /\ IsFiniteSet(page.records)
       /\ \A x \in page.records : Ahead(x)
       /\ page.more => Cardinality(page.records) >= PageLimit

\* A record that was stored all the time has been given or is still to come: its scope is to
\* be read, or has returned it, or has returned a page that ends before it.
Returned(x) ==
  \E page \in walk.pages :
    x \in page.records \/ (page.more /\ \A y \in page.records : InOrder(y, x))
\* Unless records are tied, none that was there all the time is passed over.
NoneIsLeftOut ==
  ~tied => \A r \in steady, p \in Scopes, x \in Nat \X Requests : Stands(r, p, x) =>
    \/ \E k \in DOMAIN got : got[k] = x
    \/ /\ walk.phase \in {"waiting", "paused"} /\ Ahead(x)
       /\ walk.phase = "waiting" => p \in walk.unread \/ Returned(x)

\* The types of a walk.
WalkTypeOK ==
  walk \in [phase : {"none", "waiting", "paused", "over"}, order : {"asc", "desc"},
            cursor : (Nat \X Requests) \cup {None}, unready : SUBSET Scopes, unread : SUBSET Scopes,
            pages : SUBSET [records : SUBSET (Nat \X Requests), more : BOOLEAN]]

\* Everything about reading and the records that are read.
ReadInv ==
  /\ CaptureInv /\ WalkTypeOK /\ ReadTypeOK /\ RowsInTime /\ RowsInOrder
  /\ SteadyIsLive /\ GivenInOrder /\ CursorIsLast /\ PagesAreAhead /\ NoneIsLeftOut

-----------------------------------------------------------------------------
(* The order of the records. *)

\* Times and ids put positions in an order.
LEMMA EarlierOrders ==
  ASSUME NEW x \in Nat \X Requests, NEW y \in Nat \X Requests, NEW z \in Nat \X Requests
  PROVE  /\ x # y => Earlier(x, y) \/ Earlier(y, x)
         /\ ~(Earlier(x, y) /\ Earlier(y, x))
         /\ Earlier(x, y) /\ Earlier(y, z) => Earlier(x, z)
<1>1. /\ x[1] \in Nat /\ x[2] \in Nat /\ x = <<x[1], x[2]>>
      /\ y[1] \in Nat /\ y[2] \in Nat /\ y = <<y[1], y[2]>>
      /\ z[1] \in Nat /\ z[2] \in Nat
  <2>1. Requests \subseteq Nat
    BY CaptureAssumption
  <2>2. ASSUME NEW v \in Nat \X Requests PROVE v[1] \in Nat /\ v[2] \in Nat /\ v = <<v[1], v[2]>>
    <3>1. PICK a \in Nat, b \in Requests : v = <<a, b>>
      OBVIOUS
    <3>2. v[1] = a /\ v[2] = b
      BY <3>1
    <3> QED BY <2>1, <3>1, <3>2
  <2> QED BY <2>2
<1>2. x # y => x[1] # y[1] \/ x[2] # y[2]
  BY <1>1
<1> QED BY <1>1, <1>2 DEF Earlier

\* So does either direction of a walk.
LEMMA InOrderOrders ==
  ASSUME NEW x \in Nat \X Requests, NEW y \in Nat \X Requests, NEW z \in Nat \X Requests
  PROVE  /\ x # y => InOrder(x, y) \/ InOrder(y, x)
         /\ ~(InOrder(x, y) /\ InOrder(y, x))
         /\ InOrder(x, y) /\ InOrder(y, z) => InOrder(x, z)
<1>1. CASE walk.order = "asc"
  BY <1>1, EarlierOrders DEF InOrder
<1>2. CASE walk.order # "asc"
  BY <1>2, EarlierOrders DEF InOrder
<1> QED BY <1>1, <1>2

\* Records are rows with a position.
LEMMA RowTypes ==
  ASSUME CaptureInv, NEW p \in Records
  PROVE  /\ Len(rows[p]) \in Nat /\ DOMAIN rows[p] = 1..Len(rows[p])
         /\ \A k \in DOMAIN rows[p] :
              /\ rows[p][k] \in Record /\ rows[p][k].time \in Nat /\ rows[p][k].id \in Requests
              /\ rows[p][k].id \in Nat
              /\ Position(rows[p][k]) \in Nat \X Requests
              /\ Position(rows[p][k])[1] = rows[p][k].time /\ Position(rows[p][k])[2] = rows[p][k].id
<1>1. rows[p] \in Seq(Record)
  BY DEF CaptureInv, CaptureTypeOK, Record
<1>2. \A k \in DOMAIN rows[p] : rows[p][k] \in Record
  BY <1>1
<1> QED BY <1>1, <1>2, CaptureAssumption DEF Record, Position

\* Records that come keep the order.
LEMMA OrderStays ==
  ASSUME CaptureInv, RowsInTime, RowsInOrder, [CaptureNext]_allCaptureVars
  PROVE  RowsInTime' /\ RowsInOrder'
<1>1. CASE RowsKept /\ now' = now /\ tied' = tied
  <2>1. ASSUME NEW p \in Records, NEW k \in DOMAIN rows'[p]
        PROVE  /\ DOMAIN rows'[p] = DOMAIN rows[p]
               /\ \A j \in DOMAIN rows[p] :
                    rows'[p][j].time = rows[p][j].time /\ Position(rows'[p][j]) = Position(rows[p][j])
    BY <1>1, <2>1 DEF RowsKept, Position
  <2>2. RowsInTime'
    BY <1>1, <2>1 DEF RowsInTime
  <2>3. RowsInOrder'
    BY <1>1, <2>1 DEF RowsInOrder, Earlier, Position
  <2> QED BY <2>2, <2>3
<1>2. ASSUME NEW r \in Requests, NEW x \in Record, Begins(r, x) PROVE RowsInTime' /\ RowsInOrder'
  <2> DEFINE a == Attributed
             n == Len(rows[a])
             seq == rows[a]
             new == rows'[a]
  <2>1. /\ a \in Records /\ calls[r].phase = "none" /\ x.id = r /\ x.time = now'
        /\ now' \in Nat /\ now <= now' /\ rows' = Stored(a, x) /\ tied' = (tied \/ Tied(new))
    BY <1>2 DEF Begins
  <2> HIDE DEF a
  <2>2. \A q \in Records : q # a => rows'[q] = rows[q]
    BY <2>1, StoredShift
  <2>3. n \in Nat /\ DOMAIN seq = 1..n
    BY <2>1, StoredShift
  <2>4. PICK d \in {0, 1} :
          /\ Len(new) = n + 1 - d /\ DOMAIN new = 1..(n + 1 - d)
          /\ \A k \in DOMAIN new : new[k] = IF k + d = n + 1 THEN x ELSE seq[k + d]
    BY <2>1, StoredShift
  <2>5. /\ now \in Nat
        /\ \A q \in Records : \A k \in DOMAIN rows[q] :
             rows[q][k].time \in Nat /\ rows[q][k].time <= now /\ rows[q][k].id # r
    BY <2>1, RowTypes DEF CaptureInv, RowsInTime, RecordsAreTrue, TrueOf
  <2>6. /\ \A j, k \in DOMAIN seq : j < k => seq[j].time <= seq[k].time
        /\ ~tied => \A j, k \in DOMAIN seq : j < k => Earlier(Position(seq[j]), Position(seq[k]))
        /\ \A k \in DOMAIN seq : seq[k].time \in Nat /\ seq[k].time <= now'
             /\ seq[k].id \in Nat /\ seq[k].id # r /\ Position(seq[k]) = <<seq[k].time, seq[k].id>>
             /\ Position(seq[k]) \in Nat \X Requests
    <3>1. \A j, k \in DOMAIN seq : j < k => seq[j].time <= seq[k].time
      BY <2>1 DEF RowsInTime
    <3>2. ~tied => \A j, k \in DOMAIN seq : j < k => Earlier(Position(seq[j]), Position(seq[k]))
      BY <2>1 DEF RowsInOrder
    <3>3. ASSUME NEW k \in DOMAIN seq
          PROVE  /\ seq[k].time \in Nat /\ seq[k].time <= now /\ seq[k].id # r /\ seq[k].id \in Nat
                 /\ Position(seq[k]) \in Nat \X Requests
      BY <2>1, <2>5, RowTypes
    <3>4. \A t \in Nat : t <= now => t <= now'
      BY <2>1, <2>5
    <3> QED BY <3>1, <3>2, <3>3, <3>4 DEF Position
  <2>7. x.time \in Nat /\ r \in Nat /\ Position(x) = <<x.time, r>> /\ Position(x) \in Nat \X Requests
    BY <2>1, CaptureAssumption DEF Position
  <2> HIDE DEF n, seq, new
  <2>8. \A k \in DOMAIN new :
          /\ k \in Nat
          /\ \/ k + d = n + 1 /\ new[k] = x
             \/ k + d \in DOMAIN seq /\ new[k] = seq[k + d]
    BY <2>3, <2>4
  <2>9. ASSUME NEW j \in DOMAIN new, NEW k \in DOMAIN new, j < k
        PROVE  new[j].time <= new[k].time /\ j + d \in DOMAIN seq /\ new[j] = seq[j + d]
    <3>1. j + d \in DOMAIN seq /\ new[j] = seq[j + d]
      BY <2>3, <2>4, <2>8, <2>9
    <3>2. CASE new[k] = x
      BY <2>1, <2>6, <3>1, <3>2
    <3>3. CASE k + d \in DOMAIN seq /\ new[k] = seq[k + d]
      BY <2>6, <2>8, <2>9, <3>1, <3>3
    <3> QED BY <2>8, <3>1, <3>2, <3>3
  <2>10. RowsInTime'
    <3>1. \A k \in DOMAIN new : new[k].time <= now'
      BY <2>1, <2>6, <2>8
    <3>2. ASSUME NEW q \in Records, q # a
          PROVE  /\ \A k \in DOMAIN rows'[q] : rows'[q][k].time <= now'
                 /\ \A j, k \in DOMAIN rows'[q] : j < k => rows'[q][j].time <= rows'[q][k].time
      BY <2>1, <2>2, <2>5, <3>2 DEF RowsInTime
    <3> QED BY <2>9, <3>1, <3>2 DEF RowsInTime, new
  <2>11. ASSUME ~tied' PROVE RowsInOrder'
    <3>1. ~tied /\ ~Tied(new)
      BY <2>1, <2>11
    <3>2. ASSUME NEW k \in DOMAIN new, NEW j \in DOMAIN new, j < k
          PROVE  Earlier(Position(new[j]), Position(new[k]))
      <4>1. CASE k + d \in DOMAIN seq /\ new[k] = seq[k + d]
        BY <2>6, <2>8, <2>9, <3>1, <3>2, <4>1
      <4>2. CASE k + d = n + 1 /\ new[k] = x
        <5> DEFINE l == k - 1
        <5>1. l \in DOMAIN new /\ l < k /\ l \in 1..(Len(new) - 1) /\ l + 1 = k /\ l + d \in DOMAIN seq
          BY <2>3, <2>4, <2>8, <3>2, <4>2
        <5> HIDE DEF l
        <5>2. new[l] = seq[l + d] /\ new[l].time <= x.time
          BY <2>9, <4>2, <5>1
        <5>3. ~(new[l].time = x.time /\ new[l].id > x.id)
          BY <3>1, <4>2, <5>1 DEF Tied
        <5>4. new[l].time < x.time \/ (new[l].time = x.time /\ new[l].id < r)
          BY <2>1, <2>6, <2>7, <5>1, <5>2, <5>3
        <5>5. Earlier(Position(new[l]), Position(x)) /\ Position(new[l]) \in Nat \X Requests
          BY <2>6, <2>7, <5>1, <5>2, <5>4 DEF Earlier
        <5>6. CASE j = l
          BY <4>2, <5>5, <5>6
        <5>7. CASE j # l
          <6>1. j < l
            BY <2>8, <3>2, <5>1, <5>7
          <6>2. j + d < l + d /\ j + d \in DOMAIN seq /\ new[j] = seq[j + d]
            BY <2>8, <2>9, <3>2, <5>1, <6>1
          <6>3. Earlier(Position(new[j]), Position(new[l])) /\ Position(new[j]) \in Nat \X Requests
            BY <2>6, <3>1, <5>1, <5>2, <6>2
          <6> QED BY <2>7, <4>2, <5>5, <6>3, EarlierOrders
        <5> QED BY <5>6, <5>7
      <4> QED BY <2>8, <4>1, <4>2
    <3>3. ASSUME NEW q \in Records, q # a
          PROVE  \A j, k \in DOMAIN rows'[q] : j < k => Earlier(Position(rows'[q][j]), Position(rows'[q][k]))
      BY <2>2, <3>1, <3>3 DEF RowsInOrder
    <3> QED BY <3>2, <3>3 DEF RowsInOrder, new, Earlier, Position
  <2> QED BY <2>10, <2>11 DEF RowsInOrder
<1> QED BY <1>1, <1>2, RowsChange

\* So do the records of an earlier process.
LEMMA OrderInitially == CaptureInit => RowsInTime /\ RowsInOrder
<1> SUFFICES ASSUME CaptureInit PROVE RowsInTime /\ RowsInOrder
  OBVIOUS
<1>1. bounds \in Bounds /\ CaptureInv /\ now = bounds.started /\ bounds.started \in Nat
  BY CaptureInitially, CaptureAssumption DEF CaptureInit, CaptureInv
<1>2. PICK given \in bounds.stored :
        rows = [p \in Records |->
                  [k \in DOMAIN given[p] |-> PastRecord(given[p][k][1], given[p][k][2])]]
  BY DEF CaptureInit
<1>3. /\ given \in [Records -> Seq(Requests \X (0..bounds.started))]
      /\ \A p, q \in Records : \A j \in DOMAIN given[p], k \in DOMAIN given[q] :
           /\ given[p][j][1] = given[q][k][1] => p = q /\ j = k
           /\ p = q /\ j < k => given[p][j][2] <= given[q][k][2]
  BY <1>1, <1>2, CaptureAssumption
<1>4. ASSUME NEW p \in Records
      PROVE  /\ DOMAIN rows[p] = DOMAIN given[p]
             /\ \A k \in DOMAIN given[p] :
                  /\ given[p][k][2] \in 0..bounds.started
                  /\ rows[p][k].time = given[p][k][2] /\ rows[p][k].id = given[p][k][1]
  <2>1. given[p] \in Seq(Requests \X (0..bounds.started))
    BY <1>3
  <2>2. \A k \in DOMAIN given[p] : given[p][k] \in Requests \X (0..bounds.started)
    BY <2>1
  <2>3. \A k \in DOMAIN given[p] : given[p][k][2] \in 0..bounds.started
    BY <2>2
  <2>4. rows[p] = [k \in DOMAIN given[p] |-> PastRecord(given[p][k][1], given[p][k][2])]
    BY <1>2
  <2> QED BY <2>3, <2>4 DEF PastRecord
<1>5. RowsInTime
  <2>1. \A p \in Records : \A k \in DOMAIN rows[p] : rows[p][k].time <= now
    BY <1>1, <1>4
  <2>2. ASSUME NEW p \in Records, NEW j \in DOMAIN rows[p], NEW k \in DOMAIN rows[p], j < k
        PROVE  rows[p][j].time <= rows[p][k].time
    BY <1>3, <1>4, <2>2
  <2> QED BY <2>1, <2>2 DEF RowsInTime
<1>6. RowsInOrder
  <2> SUFFICES ASSUME ~tied, NEW p \in Records
               PROVE  \A j, k \in DOMAIN rows[p] : j < k => Earlier(Position(rows[p][j]), Position(rows[p][k]))
    BY DEF RowsInOrder
  <2> DEFINE seq == rows[p]
             before(k) == \A j \in DOMAIN seq : j < k => Earlier(Position(seq[j]), Position(seq[k]))
             wrong == {k \in DOMAIN seq : ~before(k)}
  <2>1. /\ Len(seq) \in Nat /\ DOMAIN seq = 1..Len(seq)
        /\ \A k \in DOMAIN seq : seq[k].time \in Nat /\ seq[k].id \in Nat
             /\ Position(seq[k]) = <<seq[k].time, seq[k].id>> /\ Position(seq[k]) \in Nat \X Requests
    BY <1>1, RowTypes DEF Position
  <2>2. \A j, k \in DOMAIN seq : (j < k => seq[j].time <= seq[k].time) /\ (seq[j].id = seq[k].id => j = k)
    BY <1>1, <1>5 DEF RowsInTime, CaptureInv, RecordsAreTrue
  <2>3. ~Tied(seq)
    BY DEF CaptureInit
  <2> SUFFICES ASSUME wrong # {} PROVE FALSE
    OBVIOUS
  <2> HIDE DEF seq
  <2>4. PICK k \in wrong : \A i \in wrong : k <= i
    <3>1. wrong \in SUBSET Nat
      BY <2>1
    <3> HIDE DEF wrong
    <3> QED BY <3>1, MinOf
  <2>5. PICK j \in DOMAIN seq : j < k /\ ~Earlier(Position(seq[j]), Position(seq[k]))
    OBVIOUS
  <2> DEFINE l == k - 1
  <2>6. l \in DOMAIN seq /\ l < k /\ l \in 1..(Len(seq) - 1) /\ l + 1 = k /\ k \in DOMAIN seq
    BY <2>1, <2>5
  <2> HIDE DEF l
  <2>7. seq[l].time < seq[k].time \/ (seq[l].time = seq[k].time /\ seq[l].id < seq[k].id)
    <3>1. ~(seq[l].time = seq[k].time /\ seq[l].id > seq[k].id)
      BY <2>3, <2>6 DEF Tied
    <3>2. seq[l].time <= seq[k].time /\ seq[l].id # seq[k].id
      BY <2>1, <2>2, <2>6
    <3>3. seq[l].time \in Nat /\ seq[k].time \in Nat /\ seq[l].id \in Nat /\ seq[k].id \in Nat
      BY <2>1, <2>6
    <3> QED BY <3>1, <3>2, <3>3
  <2>8. Earlier(Position(seq[l]), Position(seq[k]))
    <3>1. /\ Position(seq[l]) = <<seq[l].time, seq[l].id>>
          /\ Position(seq[k]) = <<seq[k].time, seq[k].id>>
      BY <2>1, <2>6
    <3> QED BY <2>7, <3>1 DEF Earlier
  <2>9. j # l /\ j < l
    BY <2>1, <2>5, <2>6, <2>8
  <2>10. before(l)
    <3>1. ~(k <= l)
      BY <2>1, <2>6
    <3>2. l \notin wrong
      BY <2>4, <3>1
    <3> QED BY <2>6, <3>2
  <2>11. Earlier(Position(seq[j]), Position(seq[l]))
    BY <2>9, <2>10
  <2> QED BY <2>1, <2>5, <2>6, <2>8, <2>11, EarlierOrders
<1> QED BY <1>5, <1>6

-----------------------------------------------------------------------------
(* What is read and merged. *)

\* Positions in order: each once, and before it no more than come before it.
LEMMA SortedSet ==
  ASSUME NEW set \in SUBSET (Nat \X Requests), IsFiniteSet(set)
  PROVE  /\ Cardinality(set) \in Nat
         /\ Sorted(set) \in Seq(Nat \X Requests) /\ Len(Sorted(set)) = Cardinality(set)
         /\ \A k \in 1..Cardinality(set) : Sorted(set)[k] \in set
         /\ \A j, k \in 1..Cardinality(set) : j < k => InOrder(Sorted(set)[j], Sorted(set)[k])
         /\ \A x \in set : \E k \in 1..Cardinality(set) : Sorted(set)[k] = x
         /\ \A k \in 1..Cardinality(set), T \in SUBSET set :
              (\A y \in T : InOrder(y, Sorted(set)[k])) => Cardinality(T) < k
<1> DEFINE R == {e \in set \X set : InOrder(e[1], e[2])}
           n == Cardinality(set)
           s == Sorted(set)
<1>1. \A x, y \in set : <<x, y>> \in R <=> InOrder(x, y)
  OBVIOUS
<1>2. Orders(R, set)
  <2>1. ASSUME NEW x \in set, NEW y \in set
        PROVE  /\ x # y => <<x, y>> \in R \/ <<y, x>> \in R
               /\ ~(<<x, y>> \in R /\ <<y, x>> \in R)
    BY <1>1, InOrderOrders
  <2>2. ASSUME NEW x \in set, NEW y \in set, NEW z \in set, <<x, y>> \in R, <<y, z>> \in R
        PROVE  <<x, z>> \in R
    BY <1>1, <2>2, InOrderOrders
  <2> QED BY <2>1, <2>2 DEF Orders
<1>3. \A x \in set : {y \in set : InOrder(y, x)} = Below(R, set, x)
  BY <1>1 DEF Below
<1>4. \A x \in set : Cardinality({y \in set : InOrder(y, x)}) = Rank(R, set, x)
  BY <1>3 DEF Rank
<1> HIDE DEF R
<1>5. n \in Nat
  BY FS_CardinalityType
<1>6. ASSUME NEW k \in 1..n PROVE s[k] \in set /\ Rank(R, set, s[k]) = k - 1
  <2>1. k - 1 \in 0..(n - 1)
    BY <1>5
  <2>2. \E x \in set : Cardinality({y \in set : InOrder(y, x)}) = k - 1
    BY <1>2, <1>4, <2>1, Ranks
  <2>3. s[k] = CHOOSE x \in set : Cardinality({y \in set : InOrder(y, x)}) = k - 1
    BY DEF Sorted
  <2>4. s[k] \in set /\ Cardinality({y \in set : InOrder(y, s[k])}) = k - 1
    BY <2>2, <2>3
  <2> QED BY <1>4, <2>4
<1>7. s \in Seq(Nat \X Requests) /\ Len(s) = n
  <2>1. s \in [1..n -> Nat \X Requests]
    BY <1>6 DEF Sorted
  <2> HIDE DEF n, s
  <2> QED BY <1>5, <2>1
<1> HIDE DEF s
<1>8. ASSUME NEW j \in 1..n, NEW k \in 1..n, j < k PROVE InOrder(s[j], s[k])
  <2>1. Rank(R, set, s[j]) < Rank(R, set, s[k])
    BY <1>5, <1>6, <1>8
  <2> QED BY <1>1, <1>2, <1>6, <2>1, Ranks
<1>9. ASSUME NEW x \in set PROVE \E k \in 1..n : s[k] = x
  <2>1. Rank(R, set, x) \in 0..(n - 1)
    BY <1>2, Ranks
  <2>2. Rank(R, set, x) + 1 \in 1..n /\ (Rank(R, set, x) + 1) - 1 = Rank(R, set, x)
    BY <1>5, <2>1
  <2>3. s[Rank(R, set, x) + 1] = x
    BY <1>2, <1>6, <2>2, Ranks
  <2> QED BY <2>2, <2>3
<1>10. ASSUME NEW k \in 1..n, NEW T \in SUBSET set, \A y \in T : InOrder(y, s[k]) PROVE Cardinality(T) < k
  <2>1. T \in SUBSET Below(R, set, s[k])
    BY <1>1, <1>6, <1>10 DEF Below
  <2>2. IsFiniteSet(Below(R, set, s[k]))
    BY FS_Subset DEF Below
  <2>3. IsFiniteSet(T) /\ Cardinality(T) <= k - 1
    BY <1>6, <2>1, <2>2, FS_Subset DEF Rank
  <2>4. Cardinality(T) \in Nat
    BY <2>3, FS_CardinalityType
  <2> QED BY <1>5, <2>3, <2>4
<1> QED BY <1>5, <1>6, <1>7, <1>8, <1>9, <1>10 DEF s

\* What a store returns is ahead of the cursor, a full page if there is more, and without a tie
\* leaves out only what comes after all of it.
LEMMA PageReturns ==
  ASSUME CaptureInv, RowsInOrder, NEW p \in Records
  PROVE  /\ PageOf(p) \in [records : SUBSET (Nat \X Requests), more : BOOLEAN]
         /\ IsFiniteSet(PageOf(p).records)
         /\ \A x \in PageOf(p).records : Ahead(x)
         /\ PageOf(p).more => Cardinality(PageOf(p).records) >= PageLimit
         /\ ~tied => \A r, x : Stands(r, p, x) /\ Ahead(x) =>
              \/ x \in PageOf(p).records
              \/ PageOf(p).more /\ \A y \in PageOf(p).records : InOrder(y, x)
<1> DEFINE seq == rows[p]
           rest == {k \in DOMAIN seq : After(seq[k])}
           R == {e \in rest \X rest : IF walk.order = "asc" THEN e[1] < e[2] ELSE e[2] < e[1]}
           chosen == {k \in rest : Rank(R, rest, k) < PageLimit}
           T == {Position(seq[k]) : k \in chosen}
<1>1. /\ Len(seq) \in Nat /\ DOMAIN seq = 1..Len(seq)
      /\ \A k \in DOMAIN seq : Position(seq[k]) \in Nat \X Requests /\ Position(seq[k])[2] = seq[k].id
  BY RowTypes
<1>2. \A j, k \in DOMAIN seq : seq[j].id = seq[k].id => j = k
  BY DEF CaptureInv, RecordsAreTrue
<1>3. \A j, k \in rest : <<j, k>> \in R <=> IF walk.order = "asc" THEN j < k ELSE k < j
  OBVIOUS
<1>4. PageOf(p) = [records |-> T, more |-> Cardinality(rest) > PageLimit]
  <2>1. \A k \in rest : {j \in rest : IF walk.order = "asc" THEN j < k ELSE k < j} = Below(R, rest, k)
    BY <1>3 DEF Below
  <2>2. \A k \in rest :
          Cardinality({j \in rest : IF walk.order = "asc" THEN j < k ELSE k < j}) = Rank(R, rest, k)
    BY <2>1 DEF Rank
  <2>3. {k \in rest : Cardinality({j \in rest : IF walk.order = "asc" THEN j < k ELSE k < j}) < PageLimit}
          = chosen
    BY <2>2
  <2> HIDE DEF R, chosen
  <2> QED BY <2>3 DEF PageOf
<1>5. \A k \in rest : k \in Nat /\ k \in DOMAIN seq
  BY <1>1
<1>6. Orders(R, rest)
  <2> HIDE DEF R, rest
  <2> QED BY <1>3, <1>5 DEF Orders
<1>7. IsFiniteSet(rest)
  <2>1. IsFiniteSet(1..Len(seq))
    BY <1>1, FS_Interval
  <2> QED BY <1>1, <2>1, FS_Subset
<1>8. Cardinality(rest) \in Nat /\ PageLimit \in Nat
  BY <1>7, FS_CardinalityType, ReadAssumption
<1>9. IsFiniteSet(chosen)
  BY <1>7, FS_Subset
<1>10. \A k \in rest : Ahead(Position(seq[k]))
  BY DEF After, Ahead
<1> HIDE DEF seq, rest, R
<1>11. IsFiniteSet(T) /\ Cardinality(T) = Cardinality(chosen)
  <2> DEFINE f == [k \in chosen |-> Position(seq[k])]
  <2>1. f \in Surjection(chosen, T)
    BY DEF Surjection
  <2>2. f \in Injection(chosen, T)
    BY <1>1, <1>2, <1>5 DEF Injection, IsInjective
  <2> HIDE DEF f, chosen, T
  <2> QED BY <1>9, <2>1, <2>2, FS_Surjection
<1>12. Cardinality(rest) > PageLimit => Cardinality(T) = PageLimit
  BY <1>6, <1>7, <1>8, <1>11, FirstRanks
<1>13. ASSUME ~tied, NEW r, NEW x, Stands(r, p, x), Ahead(x), x \notin T
       PROVE  Cardinality(rest) > PageLimit /\ \A y \in T : InOrder(y, x)
  <2>1. PICK k \in rest : x = Position(seq[k])
    BY <1>13 DEF Stands, rest, seq, After, Ahead
  <2>2. ~(Rank(R, rest, k) < PageLimit)
    BY <1>13, <2>1
  <2>3. Rank(R, rest, k) \in 0..(Cardinality(rest) - 1)
    BY <1>6, <1>7, Ranks
  <2>4. Cardinality(rest) > PageLimit
    BY <1>8, <2>2, <2>3
  <2>5. ASSUME NEW j \in chosen PROVE InOrder(Position(seq[j]), x)
    <3>1. Rank(R, rest, j) \in Nat /\ Rank(R, rest, j) < PageLimit
      BY <1>6, <1>7, Ranks
    <3>2. Rank(R, rest, j) < Rank(R, rest, k)
      BY <1>8, <2>2, <2>3, <3>1
    <3>3. <<j, k>> \in R
      BY <1>6, <1>7, <3>2, Ranks
    <3>4. \A i, l \in DOMAIN seq : i < l => Earlier(Position(seq[i]), Position(seq[l]))
      BY <1>13 DEF RowsInOrder, seq
    <3>5. j \in DOMAIN seq /\ k \in DOMAIN seq
      BY <1>5
    <3>6. IF walk.order = "asc" THEN j < k ELSE k < j
      BY <1>3, <3>3
    <3> QED BY <2>1, <3>4, <3>5, <3>6 DEF InOrder
  <2> QED BY <2>4, <2>5
<1>14. T \in SUBSET (Nat \X Requests) /\ \A x \in T : Ahead(x)
  BY <1>1, <1>5, <1>10
<1> HIDE DEF T
<1>15. PageOf(p).records = T /\ PageOf(p).more = (Cardinality(rest) > PageLimit)
       /\ PageOf(p) \in [records : SUBSET (Nat \X Requests), more : BOOLEAN]
  BY <1>4, <1>14
<1>16. (Cardinality(rest) > PageLimit) => Cardinality(T) >= PageLimit
  BY <1>8, <1>12
<1> QED BY <1>11, <1>13, <1>14, <1>15, <1>16

-----------------------------------------------------------------------------
(* The steps of a walk. *)

\* A record is of one store, that of its fetch, which was made.
LEMMA OneStore ==
  ASSUME CaptureInv, NEW p \in Records, NEW r \in Ids(rows[p])
  PROVE  r \in Requests /\ calls[r].store = p /\ calls[r].phase # "none"
BY RowTypes DEF Ids, CaptureInv, RecordsAreTrue, TrueOf

\* A record that is there before and after a step stands where it stood.
LEMMA StandsStill ==
  ASSUME CaptureInv, [CaptureNext]_allCaptureVars, NEW r, NEW p \in Records, NEW x,
         calls[r].phase # "none", Stands(r, p, x)'
  PROVE  Stands(r, p, x)
<1>1. PICK k \in DOMAIN rows'[p] : rows'[p][k].id = r /\ x = Position(rows'[p][k])
  BY DEF Stands, Position
<1>2. CASE RowsKept
  <2>1. /\ k \in DOMAIN rows[p]
        /\ rows'[p][k].id = rows[p][k].id /\ rows'[p][k].time = rows[p][k].time
    BY <1>1, <1>2 DEF RowsKept
  <2> QED BY <1>1, <2>1 DEF Stands, Position
<1>3. ASSUME NEW q \in Requests, NEW z \in Record, Begins(q, z) PROVE Stands(r, p, x)
  <2>1. calls[q].phase = "none" /\ z.id = q /\ rows' = Stored(Attributed, z) /\ Attributed \in Records
    BY <1>3 DEF Begins
  <2>2. rows'[p][k] # z
    BY <1>1, <2>1
  <2>3. \E j \in DOMAIN rows[p] : rows'[p][k] = rows[p][j]
    <3>1. CASE p = Attributed
      <4>1. \A i \in DOMAIN rows'[p] : rows'[p][i] = z \/ \E j \in DOMAIN rows[p] : rows'[p][i] = rows[p][j]
        BY <2>1, <3>1, StoredRows
      <4> QED BY <1>1, <2>2, <4>1
    <3>2. CASE p # Attributed
      <4>1. rows'[p] = rows[p]
        BY <2>1, <3>2, StoredRows
      <4> QED BY <1>1, <4>1
    <3> QED BY <3>1, <3>2
  <2> QED BY <1>1, <2>3 DEF Stands
<1> QED BY <1>2, <1>3, RowsChange

\* A scope stops to live when its records go.
LEMMA LivesOn ==
  ASSUME CaptureInv, [CaptureNext]_allCaptureVars, NEW p \in Scopes, life[p] = "live", rows'[p] # <<>>
  PROVE  life'[p] = "live"
<1>1. life \in [Scopes -> {"none", "live", "closing", "gone"}] /\ rows \in [Records -> Seq(Record)]
  BY DEF CaptureInv, CaptureTypeOK, Record
<1>2. CASE UNCHANGED life
  BY <1>2
<1>3. ASSUME NEW q \in Scopes, CreateSpace(q) \/ SpaceGone(q) PROVE life'[p] = "live"
  BY <1>1, <1>3 DEF CreateSpace, SpaceGone
<1>4. ASSUME NEW q \in Scopes, DeleteSpace(q) PROVE life'[p] = "live"
  <2>1. life' = [life EXCEPT ![q] = "closing"] /\ rows' = [rows EXCEPT ![q] = <<>>] /\ q \in Records
    BY <1>4 DEF DeleteSpace, Records
  <2>2. q # p
    BY <1>1, <2>1
  <2> QED BY <1>1, <2>1, <2>2
<1>5. CASE Fetching
  <2>1. UNCHANGED life
    BY <1>5 DEF Fetching, Intercept, Send, Reject, BodyEnds, Respond, StrangerSends
  <2> QED BY <2>1
<1>6. CASE Turning \/ \E q \in Records : Clear(q)
  BY <1>6 DEF Turning, captureVars, Clear
<1> QED BY <1>2, <1>3, <1>4, <1>5, <1>6 DEF CaptureNext, Managing, allCaptureVars, captureVars

\* What is recorded, cleared and deleted meanwhile leaves nothing out.
LEMMA CaptureKeepsReads ==
  ASSUME ReadInv, CaptureNext, steady' = steady \cap UNION {Ids(rows'[p]) : p \in Scopes},
         UNCHANGED <<walk, got>>
  PROVE  ReadInv'
<1>1. /\ CaptureInv /\ WalkTypeOK /\ ReadTypeOK /\ RowsInTime /\ RowsInOrder
      /\ SteadyIsLive /\ GivenInOrder /\ CursorIsLast /\ PagesAreAhead /\ NoneIsLeftOut
  BY DEF ReadInv
<1>2. CaptureInv' /\ RowsInTime' /\ RowsInOrder'
  BY <1>1, CaptureInductive, OrderStays
<1>3. WalkTypeOK' /\ ReadTypeOK' /\ GivenInOrder' /\ CursorIsLast' /\ PagesAreAhead'
  BY <1>1 DEF WalkTypeOK, ReadTypeOK, GivenInOrder, CursorIsLast, PagesAreAhead, InOrder, Ahead
<1>4. ASSUME NEW r \in steady', NEW q \in Scopes, r \in Ids(rows'[q])
      PROVE  /\ r \in steady /\ q \in LiveScopes /\ q \in LiveScopes' /\ calls[r].phase # "none"
             /\ r \in Ids(rows[q])
  <2>1. PICK p \in LiveScopes : r \in Ids(rows[p])
    BY <1>1 DEF SteadyIsLive
  <2>2. p \in Records /\ q \in Records /\ p \in Scopes /\ life[p] = "live"
    BY <2>1 DEF LiveScopes, Records
  <2>3. calls[r].phase # "none" /\ calls[r].store = p
    BY <1>1, <2>1, <2>2, OneStore
  <2>4. r \in Ids(rows[q])
    BY <1>1, <1>4, <2>2, <2>3, OnlyFetchesRecord
  <2>5. q = p
    BY <1>1, <2>2, <2>3, <2>4, OneStore
  <2>6. rows'[p] # <<>>
    BY <1>4, <2>5 DEF Ids
  <2>7. life'[p] = "live"
    BY <1>1, <2>2, <2>6, LivesOn
  <2> QED BY <2>1, <2>3, <2>4, <2>5, <2>7 DEF LiveScopes
<1>5. SteadyIsLive'
  <2> SUFFICES ASSUME NEW r \in steady' PROVE \E p \in LiveScopes' : r \in Ids(rows'[p])
    BY DEF SteadyIsLive, Ids
  <2>1. PICK q \in Scopes : r \in Ids(rows'[q])
    OBVIOUS
  <2> QED BY <1>4, <2>1
<1>6. NoneIsLeftOut'
  <2> SUFFICES ASSUME ~tied', NEW r \in steady', NEW p \in Scopes, NEW x \in Nat \X Requests, Stands(r, p, x)'
               PROVE  \/ \E k \in DOMAIN got : got[k] = x
                      \/ /\ walk.phase \in {"waiting", "paused"} /\ Ahead(x)
                         /\ walk.phase = "waiting" => p \in walk.unread \/ Returned(x)
    BY DEF NoneIsLeftOut, Ahead, Returned, InOrder
  <2>1. ~tied
    BY <1>1, RowsChange DEF Begins
  <2>2. r \in Ids(rows'[p])
    BY DEF Stands, Ids
  <2>3. r \in steady /\ calls[r].phase # "none"
    BY <1>4, <2>2
  <2>4. Stands(r, p, x)
    BY <1>1, <2>3, StandsStill DEF Records
  <2> QED BY <1>1, <2>1, <2>3, <2>4 DEF NoneIsLeftOut
<1> QED BY <1>2, <1>3, <1>5, <1>6 DEF ReadInv

\* A step of the reader changes no record.
LEMMA ReaderLeaves == ASSUME CaptureInv, RowsInTime, RowsInOrder, UNCHANGED <<vars, captureVars>>
                      PROVE  CaptureInv' /\ RowsInTime' /\ RowsInOrder'
<1>1. /\ bounds' = bounds /\ UNCHANGED <<calls, rows, dispatched, now, mixed>>
      /\ life' = life /\ tied' = tied
  BY DEF vars, captureVars
<1>2. life \in [Scopes -> {"none", "live", "closing", "gone"}]
  BY DEF CaptureInv, CaptureTypeOK
<1>3. CaptureInv'
  BY <1>1, <1>2, OthersKeep
<1>4. RowsInTime'
  BY <1>1 DEF RowsInTime
<1>5. RowsInOrder'
  BY <1>1 DEF RowsInOrder, Earlier, Position
<1> QED BY <1>3, <1>4, <1>5

\* What stands somewhere, in a scope that lives, is asked for.
LEMMA StandsAndLives ==
  ASSUME CaptureInv, SteadyIsLive, NEW r \in steady, NEW p \in Scopes, NEW x, Stands(r, p, x)
  PROVE  p \in LiveScopes
<1>1. PICK q \in LiveScopes : r \in Ids(rows[q])
  BY DEF SteadyIsLive
<1>2. p \in Records /\ q \in Records /\ r \in Ids(rows[p])
  BY DEF LiveScopes, Records, Stands, Ids
<1> QED BY <1>1, <1>2, OneStore

\* A page is asked for.
LEMMA AskKeeps ==
  ASSUME ReadInv, NEW order \in {"asc", "desc"}, Begin(order) \/ Continue
  PROVE  ReadInv'
<1>1. /\ CaptureInv /\ WalkTypeOK /\ ReadTypeOK /\ RowsInTime /\ RowsInOrder
      /\ SteadyIsLive /\ GivenInOrder /\ CursorIsLast /\ PagesAreAhead /\ NoneIsLeftOut
  BY DEF ReadInv
<1>2. UNCHANGED <<vars, captureVars>> /\ got' = got
  BY DEF Begin, Continue
<1>3. CaptureInv' /\ RowsInTime' /\ RowsInOrder'
  BY <1>1, <1>2, ReaderLeaves
<1>4. /\ rows' = rows /\ life' = life /\ tied' = tied
      /\ LiveScopes' = LiveScopes /\ LiveScopes \subseteq Scopes
  BY <1>2 DEF captureVars, LiveScopes
<1>5. /\ walk'.phase = "waiting" /\ walk'.pages = {}
      /\ walk'.unready = LiveScopes /\ walk'.unread = LiveScopes
      /\ \/ walk.phase = "none" /\ walk'.order = order /\ walk'.cursor = None
            /\ steady' = UNION {Ids(rows[p]) : p \in LiveScopes}
         \/ walk.phase = "paused" /\ walk'.order = walk.order /\ walk'.cursor = walk.cursor
            /\ steady' = steady
      /\ walk' = [phase |-> "waiting", order |-> walk'.order, cursor |-> walk'.cursor,
                  unready |-> LiveScopes, unread |-> LiveScopes, pages |-> {}]
  BY DEF Begin, Continue, Asked
<1>6. WalkTypeOK' /\ PagesAreAhead'
  <2>1. walk'.order \in {"asc", "desc"} /\ walk'.cursor \in (Nat \X Requests) \cup {None}
    BY <1>1, <1>5 DEF WalkTypeOK
  <2> QED BY <1>4, <1>5, <2>1, FS_EmptySet DEF WalkTypeOK, PagesAreAhead
<1>7. SteadyIsLive' /\ steady' \subseteq Requests
  <2>1. CASE walk.phase = "none" /\ steady' = UNION {Ids(rows[p]) : p \in LiveScopes}
    <3>1. \A r \in steady' : \E p \in LiveScopes : r \in Ids(rows[p])
      BY <2>1
    <3>2. \A r \in steady' : r \in Requests
      BY <1>1, <3>1, OneStore DEF LiveScopes, Records
    <3> QED BY <1>4, <3>1, <3>2 DEF SteadyIsLive, Ids
  <2>2. CASE steady' = steady
    BY <1>1, <1>4, <2>2 DEF SteadyIsLive, Ids, ReadTypeOK
  <2> QED BY <1>5, <2>1, <2>2
<1>8. GivenInOrder' /\ CursorIsLast'
  <2>1. CASE walk.phase = "none" /\ walk'.cursor = None
    <3>1. got = <<>>
      BY <1>1, <2>1 DEF CursorIsLast
    <3> QED BY <1>2, <1>5, <2>1, <3>1 DEF GivenInOrder, CursorIsLast
  <2>2. CASE walk.phase = "paused" /\ walk'.order = walk.order /\ walk'.cursor = walk.cursor
    BY <1>1, <1>2, <1>5, <2>2 DEF GivenInOrder, CursorIsLast, InOrder
  <2> QED BY <1>5, <2>1, <2>2
<1>9. ReadTypeOK'
  BY <1>1, <1>2, <1>4, <1>5, <1>6, <1>7 DEF ReadTypeOK, WalkTypeOK
<1>10. NoneIsLeftOut'
  <2> SUFFICES ASSUME ~tied', NEW r \in steady', NEW p \in Scopes, NEW x \in Nat \X Requests, Stands(r, p, x)'
               PROVE  \/ \E k \in DOMAIN got' : got'[k] = x
                      \/ Ahead(x)' /\ p \in walk'.unread
    BY <1>5 DEF NoneIsLeftOut
  <2>1. Stands(r, p, x) /\ ~tied
    BY <1>4 DEF Stands, Position
  <2>2. p \in LiveScopes'
    <3>1. PICK q \in LiveScopes : r \in Ids(rows[q])
      BY <1>4, <1>7 DEF SteadyIsLive, Ids
    <3>2. p \in Records /\ q \in Records /\ r \in Ids(rows[p])
      BY <1>4, <2>1, <3>1 DEF Records, Stands, Ids
    <3>3. p = q
      BY <1>1, <3>1, <3>2, OneStore
    <3> QED BY <1>4, <3>1, <3>3
  <2>3. CASE walk.phase = "none" /\ walk'.cursor = None
    BY <1>4, <1>5, <2>2, <2>3 DEF Ahead
  <2>4. CASE walk.phase = "paused" /\ walk'.order = walk.order /\ walk'.cursor = walk.cursor /\ steady' = steady
    <3>1. (\E k \in DOMAIN got : got[k] = x) \/ Ahead(x)
      BY <1>1, <2>1, <2>4 DEF NoneIsLeftOut
    <3> QED BY <1>2, <1>4, <1>5, <2>2, <2>4, <3>1 DEF Ahead, InOrder
  <2> QED BY <1>5, <2>3, <2>4
<1> QED BY <1>3, <1>6, <1>7, <1>8, <1>9, <1>10 DEF ReadInv

\* While a page is waited for, a scope that is read no more has returned what was asked of it.
LEMMA WaitingKeeps ==
  ASSUME ReadInv, UNCHANGED <<vars, captureVars, got, steady>>, WalkTypeOK', PagesAreAhead',
         walk.phase = "waiting", walk'.phase = "waiting",
         walk'.order = walk.order, walk'.cursor = walk.cursor,
         walk'.unready \subseteq walk'.unread,
         \A x : Returned(x) => Returned(x)',
         ~tied => \A p \in walk.unread \ walk'.unread : \A r, x :
                    Stands(r, p, x) /\ Ahead(x) => Returned(x)'
  PROVE  ReadInv'
<1>1. /\ CaptureInv /\ WalkTypeOK /\ ReadTypeOK /\ RowsInTime /\ RowsInOrder
      /\ SteadyIsLive /\ GivenInOrder /\ CursorIsLast /\ PagesAreAhead /\ NoneIsLeftOut
  BY DEF ReadInv
<1>2. CaptureInv' /\ RowsInTime' /\ RowsInOrder'
  BY <1>1, ReaderLeaves
<1>3. rows' = rows /\ life' = life /\ tied' = tied
  BY DEF captureVars
<1>4. SteadyIsLive'
  BY <1>1, <1>3 DEF SteadyIsLive, LiveScopes, Ids
<1>5. GivenInOrder' /\ CursorIsLast'
  BY <1>1 DEF GivenInOrder, CursorIsLast, InOrder
<1>6. ReadTypeOK'
  BY <1>1 DEF ReadTypeOK, WalkTypeOK
<1>7. NoneIsLeftOut'
  <2> SUFFICES ASSUME ~tied', NEW r \in steady', NEW p \in Scopes, NEW x \in Nat \X Requests, Stands(r, p, x)'
               PROVE  \/ \E k \in DOMAIN got : got[k] = x
                      \/ Ahead(x)' /\ (p \in walk'.unread \/ Returned(x)')
    BY DEF NoneIsLeftOut, Ahead, Returned, InOrder
  <2>1. Stands(r, p, x) /\ ~tied /\ r \in steady
    BY <1>3 DEF Stands, Position
  <2>2. \/ \E k \in DOMAIN got : got[k] = x
        \/ Ahead(x) /\ (p \in walk.unread \/ Returned(x))
    BY <1>1, <2>1 DEF NoneIsLeftOut
  <2>3. Ahead(x) => Ahead(x)'
    BY DEF Ahead, InOrder
  <2> QED BY <2>1, <2>2, <2>3
<1> QED BY <1>2, <1>4, <1>5, <1>6, <1>7, <1>1 DEF ReadInv

\* No body is read for a scope.
LEMMA ReadyKeeps == ASSUME ReadInv, NEW p \in Scopes, Ready(p) PROVE ReadInv'
<1>1. WalkTypeOK /\ ReadTypeOK /\ PagesAreAhead
  BY DEF ReadInv
<1>2. /\ walk'.phase = "waiting" /\ walk.phase = "waiting"
      /\ walk'.order = walk.order /\ walk'.cursor = walk.cursor
      /\ walk'.unready = walk.unready \ {p} /\ walk'.unread = walk.unread /\ walk'.pages = walk.pages
      /\ WalkTypeOK' /\ UNCHANGED <<vars, captureVars, got, steady>>
  BY <1>1 DEF Ready, WalkTypeOK
<1>3. PagesAreAhead'
  BY <1>1, <1>2 DEF PagesAreAhead, Ahead, InOrder
<1>4. \A x : Returned(x) => Returned(x)'
  BY <1>2 DEF Returned, InOrder
<1> QED BY <1>1, <1>2, <1>3, <1>4, WaitingKeeps DEF ReadTypeOK

\* A scope is read.
LEMMA ReadKeeps == ASSUME ReadInv, NEW p \in Scopes, Read(p) PROVE ReadInv'
<1>1. WalkTypeOK /\ ReadTypeOK /\ PagesAreAhead /\ CaptureInv /\ RowsInOrder /\ p \in Records
  BY DEF ReadInv, Records
<1>2. /\ PageOf(p) \in [records : SUBSET (Nat \X Requests), more : BOOLEAN]
      /\ IsFiniteSet(PageOf(p).records)
      /\ \A x \in PageOf(p).records : Ahead(x)
      /\ PageOf(p).more => Cardinality(PageOf(p).records) >= PageLimit
      /\ ~tied => \A r, x : Stands(r, p, x) /\ Ahead(x) =>
           \/ x \in PageOf(p).records
           \/ PageOf(p).more /\ \A y \in PageOf(p).records : InOrder(y, x)
  BY <1>1, PageReturns
<1> DEFINE page == PageOf(p)
<1>3. /\ walk.phase = "waiting" /\ walk.unready = {} /\ UNCHANGED <<vars, captureVars, got, steady>>
      /\ walk' = [walk EXCEPT !.unread = @ \ {p}, !.pages = @ \cup {page}]
  BY DEF Read
<1> HIDE DEF page
<1>4. /\ walk'.phase = "waiting"
      /\ walk'.order = walk.order /\ walk'.cursor = walk.cursor
      /\ walk'.unready = {} /\ walk'.unread = walk.unread \ {p} /\ walk'.pages = walk.pages \cup {page}
      /\ WalkTypeOK'
  BY <1>1, <1>2, <1>3 DEF WalkTypeOK, page
<1>5. PagesAreAhead'
  <2>1. IsFiniteSet(walk'.pages)
    BY <1>1, <1>4, FS_AddElement DEF PagesAreAhead
  <2>2. ASSUME NEW each \in walk'.pages
        PROVE  /\ IsFiniteSet(each.records)
               /\ \A x \in each.records : Ahead(x)'
               /\ each.more => Cardinality(each.records) >= PageLimit
    <3>1. \A x : Ahead(x) => Ahead(x)'
      BY <1>4 DEF Ahead, InOrder
    <3>2. each \in walk.pages \/ each = page
      BY <1>4
    <3> QED BY <1>1, <1>2, <3>1, <3>2 DEF PagesAreAhead, page
  <2> QED BY <1>4, <2>1, <2>2 DEF PagesAreAhead, Ahead, InOrder
<1>6. \A x : Returned(x) => Returned(x)'
  BY <1>4 DEF Returned, InOrder
<1>7. ASSUME ~tied, NEW q \in walk.unread \ walk'.unread, NEW r, NEW x, Stands(r, q, x), Ahead(x)
      PROVE  Returned(x)'
  <2>1. q = p
    BY <1>4, <1>7
  <2>2. x \in page.records \/ (page.more /\ \A y \in page.records : InOrder(y, x))
    BY <1>2, <1>7, <2>1 DEF page
  <2>3. page \in walk'.pages
    BY <1>4
  <2> QED BY <1>4, <2>2, <2>3 DEF Returned, InOrder
<1> QED BY <1>3, <1>4, <1>5, <1>6, <1>7, WaitingKeeps

\* The pages of the scopes merged: in order, ahead of the cursor, and what a scope returned or
\* has still to return is in them or comes after the last of them.
LEMMA MergedPages ==
  ASSUME WalkTypeOK, PagesAreAhead
  PROVE  LET seq == Merged(walk.pages).records  more == Merged(walk.pages).more IN
         /\ seq \in Seq(Nat \X Requests) /\ more \in BOOLEAN /\ (more => seq # <<>>)
         /\ \A k \in DOMAIN seq : Ahead(seq[k])
         /\ \A j, k \in DOMAIN seq : j < k => InOrder(seq[j], seq[k])
         /\ \A x \in Nat \X Requests : Returned(x) =>
              (\E k \in DOMAIN seq : seq[k] = x) \/ (more /\ InOrder(seq[Len(seq)], x))
<1> DEFINE all == UNION {page.records : page \in walk.pages}
           n == Cardinality(all)
           s == Sorted(all)
           m == Min({PageLimit, n})
           seq == SubSeq(s, 1, m)
           more == n > PageLimit \/ \E page \in walk.pages : page.more
<1>1. Merged(walk.pages).records = seq /\ Merged(walk.pages).more = more
  BY DEF Merged
<1>2. /\ all \in SUBSET (Nat \X Requests)
      /\ \A page \in walk.pages : page.records \in SUBSET all
      /\ \A page \in walk.pages : page.more \in BOOLEAN
  <2>1. \A page \in walk.pages : page \in [records : SUBSET (Nat \X Requests), more : BOOLEAN]
    BY DEF WalkTypeOK
  <2>2. \A page \in walk.pages : page.records \in SUBSET (Nat \X Requests) /\ page.more \in BOOLEAN
    BY <2>1
  <2> QED BY <2>2
<1>3. IsFiniteSet(all)
  <2> DEFINE parts == {page.records : page \in walk.pages}
             f == [page \in walk.pages |-> page.records]
  <2>1. f \in Surjection(walk.pages, parts)
    BY DEF Surjection
  <2>2. IsFiniteSet(parts)
    <3> HIDE DEF f, parts
    <3> QED BY <2>1, FS_Surjection DEF PagesAreAhead
  <2>3. \A part \in parts : IsFiniteSet(part)
    BY DEF PagesAreAhead
  <2> HIDE DEF parts
  <2>4. IsFiniteSet(UNION parts)
    BY <2>2, <2>3, FS_UNION
  <2> QED BY <2>4 DEF parts
<1>4. \A x \in all : Ahead(x)
  BY DEF PagesAreAhead
<1>5. \A page \in walk.pages : page.more => Cardinality(page.records) >= PageLimit
  BY DEF PagesAreAhead
<1>6. \A x : Returned(x) => \E page \in walk.pages :
                             x \in page.records \/ (page.more /\ \A y \in page.records : InOrder(y, x))
  BY DEF Returned
<1> HIDE DEF all
<1>7. /\ n \in Nat
      /\ s \in Seq(Nat \X Requests) /\ Len(s) = n
      /\ \A k \in 1..n : s[k] \in all
      /\ \A j, k \in 1..n : j < k => InOrder(s[j], s[k])
      /\ \A x \in all : \E k \in 1..n : s[k] = x
      /\ \A k \in 1..n, T \in SUBSET all : (\A y \in T : InOrder(y, s[k])) => Cardinality(T) < k
  BY <1>2, <1>3, SortedSet
<1> HIDE DEF s, n
<1>8. /\ PageLimit \in Nat \ {0} /\ m \in Nat /\ m <= n /\ m <= PageLimit
      /\ m = n \/ m = PageLimit
  <2>1. {PageLimit, n} \in SUBSET Nat /\ {PageLimit, n} # {}
    BY <1>7, ReadAssumption
  <2>2. m \in {PageLimit, n} /\ \A y \in {PageLimit, n} : m <= y
    BY <2>1, MinOf
  <2> QED BY <1>7, <2>2, ReadAssumption
<1> HIDE DEF m
<1>9. /\ seq \in Seq(Nat \X Requests) /\ Len(seq) = m /\ DOMAIN seq = 1..m
      /\ \A k \in 1..m : k \in 1..n /\ seq[k] = s[k]
  BY <1>7, <1>8
<1> HIDE DEF seq
<1>10. more => n >= PageLimit /\ m = PageLimit /\ m \in 1..m
  <2>1. CASE n > PageLimit
    BY <1>7, <1>8, <2>1
  <2>2. ASSUME NEW page \in walk.pages, page.more PROVE n >= PageLimit
    <3>1. Cardinality(page.records) <= n /\ IsFiniteSet(page.records)
      BY <1>2, <1>3, FS_Subset DEF n
    <3>2. Cardinality(page.records) \in Nat
      BY <3>1, FS_CardinalityType
    <3> QED BY <1>5, <1>7, <1>8, <2>2, <3>1, <3>2
  <2> QED BY <1>7, <1>8, <2>1, <2>2
<1>11. ASSUME NEW x \in Nat \X Requests, Returned(x)
       PROVE  (\E k \in DOMAIN seq : seq[k] = x) \/ (more /\ InOrder(seq[Len(seq)], x))
  <2>1. PICK page \in walk.pages :
          x \in page.records \/ (page.more /\ \A y \in page.records : InOrder(y, x))
    BY <1>6, <1>11
  <2>2. CASE x \in page.records
    <3>1. PICK i \in 1..n : s[i] = x
      BY <1>2, <1>7, <2>2
    <3>2. CASE i <= m
      BY <1>9, <3>1, <3>2
    <3>3. CASE m < i
      <4>1. n > PageLimit /\ m = PageLimit /\ m \in 1..m /\ m \in 1..n
        BY <1>7, <1>8, <3>3
      <4> QED BY <1>7, <1>9, <3>1, <3>3, <4>1
    <3> QED BY <1>8, <3>2, <3>3
  <2>3. CASE page.more /\ \A y \in page.records : InOrder(y, x)
    <3>1. more /\ m = PageLimit /\ m \in 1..m /\ m \in 1..n /\ seq[Len(seq)] = s[m]
      BY <1>9, <1>10, <2>3
    <3>2. PICK y \in page.records : ~InOrder(y, s[m])
      <4>1. page.records \in SUBSET all
        BY <1>2
      <4>2. Cardinality(page.records) \in Nat
        BY <1>3, <4>1, FS_Subset, FS_CardinalityType
      <4>3. ~(Cardinality(page.records) < m)
        BY <1>5, <1>8, <2>3, <3>1, <4>2
      <4> QED BY <1>7, <3>1, <4>1, <4>3
    <3>3. PICK i \in 1..n : s[i] = y
      BY <1>2, <1>7
    <3>4. m <= i
      BY <1>7, <3>1, <3>2, <3>3
    <3>5. InOrder(s[m], x)
      <4>1. CASE m = i
        BY <2>3, <3>3, <4>1
      <4>2. CASE m # i
        <5>1. InOrder(s[m], y)
          BY <1>7, <3>1, <3>3, <3>4, <4>2
        <5>2. y \in Nat \X Requests /\ s[m] \in Nat \X Requests
          BY <1>2, <1>7, <3>1
        <5> QED BY <1>11, <2>3, <5>1, <5>2, InOrderOrders
      <4> QED BY <4>1, <4>2
    <3> QED BY <3>1, <3>5
  <2> QED BY <2>1, <2>2, <2>3
<1>12. \A k \in DOMAIN seq : Ahead(seq[k])
  BY <1>4, <1>7, <1>9
<1>13. \A j, k \in DOMAIN seq : j < k => InOrder(seq[j], seq[k])
  BY <1>7, <1>9
<1>14. more \in BOOLEAN /\ (more => seq # <<>>)
  <2>1. more => Len(seq) # 0
    BY <1>9, <1>10
  <2> QED BY <2>1
<1> QED BY <1>1, <1>9, <1>11, <1>12, <1>13, <1>14

\* A page is given.
LEMMA PageKeeps == ASSUME ReadInv, Page PROVE ReadInv'
<1> DEFINE seq == Merged(walk.pages).records
           more == Merged(walk.pages).more
<1>1. /\ CaptureInv /\ WalkTypeOK /\ ReadTypeOK /\ RowsInTime /\ RowsInOrder
      /\ SteadyIsLive /\ GivenInOrder /\ CursorIsLast /\ PagesAreAhead /\ NoneIsLeftOut
  BY DEF ReadInv
<1>2. /\ seq \in Seq(Nat \X Requests) /\ more \in BOOLEAN /\ (more => seq # <<>>)
      /\ \A k \in DOMAIN seq : Ahead(seq[k])
      /\ \A j, k \in DOMAIN seq : j < k => InOrder(seq[j], seq[k])
      /\ \A x \in Nat \X Requests : Returned(x) =>
           (\E k \in DOMAIN seq : seq[k] = x) \/ (more /\ InOrder(seq[Len(seq)], x))
  BY <1>1, MergedPages
<1>3. /\ walk.phase = "waiting" /\ walk.unready = {} /\ walk.unread = {}
      /\ got' = got \o seq /\ UNCHANGED <<vars, captureVars, steady>>
      /\ walk' = [walk EXCEPT !.phase = IF more THEN "paused" ELSE "over", !.pages = {},
                              !.cursor = IF more THEN Last(seq) ELSE None]
  BY DEF Page
<1> HIDE DEF seq, more
<1>4. CaptureInv' /\ RowsInTime' /\ RowsInOrder'
  BY <1>1, <1>3, ReaderLeaves
<1>5. /\ rows' = rows /\ life' = life /\ tied' = tied /\ steady' = steady
  BY <1>3 DEF captureVars
<1>6. /\ got \in Seq(Nat \X Requests) /\ DOMAIN got = 1..Len(got) /\ Len(got) \in Nat
      /\ DOMAIN seq = 1..Len(seq) /\ Len(seq) \in Nat
      /\ got' \in Seq(Nat \X Requests) /\ Len(got') = Len(got) + Len(seq)
      /\ DOMAIN got' = 1..Len(got')
      /\ \A k \in DOMAIN got : k \in DOMAIN got' /\ got'[k] = got[k]
      /\ \A k \in DOMAIN seq : k + Len(got) \in DOMAIN got' /\ got'[k + Len(got)] = seq[k]
      /\ \A k \in DOMAIN got' : k \in DOMAIN got \/ k - Len(got) \in DOMAIN seq
  <2>1. got \in Seq(Nat \X Requests)
    BY <1>1 DEF ReadTypeOK
  <2> QED BY <1>2, <1>3, <2>1
<1>7. more => /\ Len(seq) \in DOMAIN seq /\ Last(seq) = seq[Len(seq)]
              /\ Last(seq) \in Nat \X Requests /\ Last(seq) # None
              /\ got' # <<>> /\ Last(seq) = got'[Len(got')]
  <2> SUFFICES ASSUME more PROVE /\ Len(seq) \in DOMAIN seq /\ Last(seq) = seq[Len(seq)]
                                 /\ Last(seq) \in Nat \X Requests /\ Last(seq) # None
                                 /\ got' # <<>> /\ Last(seq) = got'[Len(got')]
    OBVIOUS
  <2>1. Len(seq) \in DOMAIN seq /\ Last(seq) = seq[Len(seq)]
    BY <1>2 DEF Last
  <2>2. Last(seq) \in Nat \X Requests
    BY <1>2, <2>1
  <2>3. Len(seq) + Len(got) \in DOMAIN got' /\ got'[Len(seq) + Len(got)] = seq[Len(seq)]
    BY <1>6, <2>1
  <2>4. Len(got') = Len(seq) + Len(got)
    BY <1>6
  <2>5. got' # <<>>
    BY <2>3
  <2> QED BY <2>1, <2>2, <2>3, <2>4, <2>5, ReadAssumption
<1>8. /\ walk'.phase = IF more THEN "paused" ELSE "over"
      /\ walk'.order = walk.order /\ walk'.cursor = IF more THEN Last(seq) ELSE None
      /\ walk'.unready = {} /\ walk'.unread = {} /\ walk'.pages = {}
      /\ WalkTypeOK'
  BY <1>1, <1>3, <1>7 DEF WalkTypeOK
<1>9. ReadTypeOK'
  BY <1>1, <1>5, <1>6, <1>8 DEF ReadTypeOK, WalkTypeOK
<1>10. SteadyIsLive'
  BY <1>1, <1>5 DEF SteadyIsLive, LiveScopes, Ids
<1>11. CursorIsLast' /\ PagesAreAhead'
  BY <1>7, <1>8, FS_EmptySet DEF CursorIsLast, PagesAreAhead
<1>12. ASSUME NEW j \in DOMAIN got, NEW k \in DOMAIN seq PROVE InOrder(got[j], seq[k])
  <2>1. walk.cursor # None /\ walk.cursor = got[Len(got)] /\ InOrder(walk.cursor, seq[k])
    BY <1>1, <1>2, <1>3, <1>6, <1>12 DEF CursorIsLast, Ahead
  <2>2. Len(got) \in DOMAIN got /\ got[Len(got)] \in Nat \X Requests
    BY <1>6, <1>12
  <2>3. CASE j = Len(got)
    BY <2>1, <2>3
  <2>4. CASE j # Len(got)
    <3>1. j < Len(got)
      BY <1>6, <1>12, <2>4
    <3>2. InOrder(got[j], walk.cursor)
      BY <1>1, <1>12, <2>1, <2>2, <3>1 DEF GivenInOrder
    <3>3. got[j] \in Nat \X Requests /\ seq[k] \in Nat \X Requests
      BY <1>2, <1>6, <1>12
    <3> QED BY <2>1, <2>2, <3>2, <3>3, InOrderOrders
  <2> QED BY <2>3, <2>4
<1>13. GivenInOrder'
  <2> SUFFICES ASSUME NEW j \in DOMAIN got', NEW k \in DOMAIN got', j < k PROVE InOrder(got'[j], got'[k])
    BY <1>8 DEF GivenInOrder, InOrder
  <2>1. CASE k \in DOMAIN got
    <3>1. j \in DOMAIN got
      BY <1>6, <2>1
    <3> QED BY <1>1, <1>6, <2>1, <3>1 DEF GivenInOrder
  <2>2. CASE k \notin DOMAIN got
    <3>1. k - Len(got) \in DOMAIN seq /\ got'[k] = seq[k - Len(got)]
      <4>1. k - Len(got) \in DOMAIN seq
        BY <1>6, <2>2
      <4>2. (k - Len(got)) + Len(got) = k
        BY <1>6
      <4> QED BY <1>6, <4>1, <4>2
    <3>2. CASE j \in DOMAIN got
      BY <1>6, <1>12, <3>1, <3>2
    <3>3. CASE j \notin DOMAIN got
      <4>1. j - Len(got) \in DOMAIN seq
        BY <1>6, <3>3
      <4>2. (j - Len(got)) + Len(got) = j /\ j - Len(got) < k - Len(got)
        BY <1>6
      <4>3. got'[j] = seq[j - Len(got)]
        BY <1>6, <4>1, <4>2
      <4> QED BY <1>2, <3>1, <4>1, <4>2, <4>3
    <3> QED BY <3>2, <3>3
  <2> QED BY <2>1, <2>2
<1>14. NoneIsLeftOut'
  <2> SUFFICES ASSUME ~tied', NEW r \in steady', NEW p \in Scopes, NEW x \in Nat \X Requests, Stands(r, p, x)'
               PROVE  \/ \E k \in DOMAIN got' : got'[k] = x
                      \/ more /\ InOrder(Last(seq), x)
    BY <1>8 DEF NoneIsLeftOut, Ahead, InOrder
  <2>1. Stands(r, p, x) /\ ~tied /\ r \in steady
    BY <1>5 DEF Stands, Position
  <2>2. (\E k \in DOMAIN got : got[k] = x) \/ Returned(x)
    BY <1>1, <1>3, <2>1 DEF NoneIsLeftOut
  <2>3. CASE \E k \in DOMAIN got : got[k] = x
    BY <1>6, <2>3
  <2>4. CASE Returned(x)
    <3>1. (\E k \in DOMAIN seq : seq[k] = x) \/ (more /\ InOrder(seq[Len(seq)], x))
      BY <1>2, <2>4
    <3> QED BY <1>6, <1>7, <3>1
  <2> QED BY <2>2, <2>3, <2>4
<1> QED BY <1>4, <1>8, <1>9, <1>10, <1>11, <1>13, <1>14 DEF ReadInv

\* Before the walk begins nothing is asked for.
LEMMA ReadInitially == ReadInit => ReadInv
<1> SUFFICES ASSUME ReadInit PROVE ReadInv
  OBVIOUS
<1>1. CaptureInv /\ RowsInTime /\ RowsInOrder
  BY CaptureInitially, OrderInitially DEF ReadInit
<1>2. walk = NoWalk /\ got = <<>> /\ steady = {}
  BY DEF ReadInit
<1>3. WalkTypeOK /\ ReadTypeOK
  BY <1>2 DEF WalkTypeOK, ReadTypeOK, NoWalk
<1>4. SteadyIsLive /\ GivenInOrder /\ CursorIsLast /\ PagesAreAhead /\ NoneIsLeftOut
  BY <1>2, FS_EmptySet DEF SteadyIsLive, GivenInOrder, CursorIsLast, PagesAreAhead, NoneIsLeftOut, NoWalk
<1> QED BY <1>1, <1>3, <1>4 DEF ReadInv

\* Every step of the reader, and of what it reads, keeps the walk whole.
LEMMA ReadInductive == ReadInv /\ [ReadNext]_allVars => ReadInv'
<1> SUFFICES ASSUME ReadInv, [ReadNext]_allVars PROVE ReadInv'
  OBVIOUS
<1>1. CASE /\ CaptureNext /\ steady' = steady \cap UNION {Ids(rows'[p]) : p \in Scopes}
           /\ UNCHANGED <<walk, got>>
  BY <1>1, CaptureKeepsReads
<1>2. ASSUME NEW order \in {"asc", "desc"}, Begin(order) \/ Continue PROVE ReadInv'
  BY <1>2, AskKeeps
<1>3. ASSUME NEW p \in Scopes, Ready(p) \/ Read(p) PROVE ReadInv'
  BY <1>3, ReadyKeeps, ReadKeeps
<1>4. CASE Page
  BY <1>4, PageKeeps
<1>5. CASE UNCHANGED allVars
  <2>1. UNCHANGED <<vars, captureVars>> /\ UNCHANGED <<walk, got, steady>> /\ rows' = rows /\ life' = life
        /\ tied' = tied
    BY <1>5 DEF allVars, readVars, captureVars
  <2>2. CaptureInv' /\ RowsInTime' /\ RowsInOrder'
    BY <2>1, ReaderLeaves DEF ReadInv
  <2>3. WalkTypeOK' /\ ReadTypeOK' /\ SteadyIsLive' /\ GivenInOrder' /\ CursorIsLast' /\ PagesAreAhead'
    BY <2>1 DEF ReadInv, WalkTypeOK, ReadTypeOK, SteadyIsLive, LiveScopes, Ids, GivenInOrder,
                CursorIsLast, PagesAreAhead, InOrder, Ahead
  <2>4. NoneIsLeftOut'
    BY <2>1 DEF ReadInv, NoneIsLeftOut, Stands, Position, Returned, Ahead, InOrder
  <2> QED BY <2>2, <2>3, <2>4 DEF ReadInv
<1> QED BY <1>1, <1>2, <1>3, <1>4, <1>5 DEF ReadNext, Reader

\* What was stored all the time has been given when the walk is over.
LEMMA WalkShown == ReadInv => WalkIsWhole
<1> SUFFICES ASSUME ReadInv, walk.phase = "over", ~tied, NEW r \in steady
             PROVE  \E k \in DOMAIN got : got[k][2] = r
  BY DEF WalkIsWhole, ReadInv, GivenInOrder
<1>1. PICK p \in LiveScopes : r \in Ids(rows[p])
  BY DEF ReadInv, SteadyIsLive
<1>2. p \in Scopes /\ p \in Records /\ CaptureInv
  BY <1>1 DEF LiveScopes, Records, ReadInv
<1>3. PICK i \in DOMAIN rows[p] : rows[p][i].id = r
  BY <1>1 DEF Ids
<1>4. Position(rows[p][i]) \in Nat \X Requests /\ Position(rows[p][i])[2] = r
  BY <1>2, <1>3, RowTypes
<1>5. Stands(r, p, Position(rows[p][i]))
  BY <1>3 DEF Stands
<1>6. \E k \in DOMAIN got : got[k] = Position(rows[p][i])
  BY <1>2, <1>4, <1>5 DEF ReadInv, NoneIsLeftOut
<1> QED BY <1>4, <1>6

\* A walk over the pages of all scopes gives each record once and in order, and leaves none out
\* that was stored all the time, for any number of scopes, records and length of a page.
THEOREM WalksHold == ReadSpec => []WalkIsWhole
BY ReadInitially, ReadInductive, WalkShown, PTL DEF ReadSpec

\* Reading changes nothing of what is recorded: evidence is true while it is read, too.
THEOREM ReadsKeepEvidence == ReadSpec => EvidenceIsTrue
<1>1. ReadInit => CaptureInit
  BY DEF ReadInit
<1>2. [ReadNext]_allVars => [CaptureNext]_allCaptureVars
  BY DEF ReadNext, Reader, Begin, Continue, Ready, Read, Page, allVars, allCaptureVars
<1>3. ReadSpec => CaptureSpec
  BY <1>1, <1>2, PTL DEF ReadSpec, CaptureSpec
<1> QED BY <1>3, EvidenceHolds
=============================================================================
