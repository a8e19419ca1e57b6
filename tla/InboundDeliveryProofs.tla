------------------------ MODULE InboundDeliveryProofs ------------------------
(* What holds of every delivery, for any bots, conversations, bounds. *)
EXTENDS InboundDelivery, FunctionTheorems, FiniteSetTheorems, SequenceTheorems, TLAPS

(***************************************************************************)
(* Types.  An error record belongs to a delivery that has failed, so none  *)
(* fails with one already written.                                         *)
(***************************************************************************)
ErrorsOfFailures == \A d \in Deliveries : errors[d] = 1 => phase[d] = "failed"

\* Only the channel of a group is written.
WritesAreOfGroups ==
  \A d \in Deliveries : phase[d] = "writing" => conv[d[1]] \in Groups

\* Types, with what the two lines above add to them.
TypeInv == TypeOK /\ ErrorsOfFailures /\ WritesAreOfGroups

USE DeliveryAssumption

\* Removing one element leaves a sequence.
LEMMA RemovalTypes ==
  ASSUME NEW S, NEW s \in Seq(S), NEW i \in DOMAIN s
  PROVE  SubSeq(s, 1, i - 1) \o SubSeq(s, i + 1, Len(s)) \in Seq(S)
<1>1. i \in 1 .. Len(s) OBVIOUS
<1>2. SubSeq(s, 1, i - 1) \in Seq(S) BY <1>1
<1>3. SubSeq(s, i + 1, Len(s)) \in Seq(S) BY <1>1
<1> QED BY <1>2, <1>3

\* Closing a window leaves the stacks what they are.
LEMMA CloseTypes ==
  ASSUME stack \in [Bots -> Seq(Conversations)], NEW b \in Bots, NEW c, Close(b, c)
  PROVE  stack' \in [Bots -> Seq(Conversations)]
<1>1. PICK i \in DOMAIN stack[b] :
        stack' = [stack EXCEPT ![b] = SubSeq(@, 1, i - 1) \o SubSeq(@, i + 1, Len(@))]
  BY DEF Close
<1>2. SubSeq(stack[b], 1, i - 1) \o SubSeq(stack[b], i + 1, Len(stack[b])) \in Seq(Conversations)
  BY RemovalTypes
<1> QED BY <1>1, <1>2

LEMMA TypesInit == Init => TypeInv
<1> SUFFICES ASSUME Init PROVE TypeInv OBVIOUS
<1>1. SceneTypes BY DEF Init, SceneTypes, Sent
<1>2. DeliveryTypes BY DEF Init, DeliveryTypes, Phases
<1>3. FollowTypes BY DEF Init, FollowTypes
<1>4. CallTypes BY DEF Init, CallTypes
<1>5. ErrorsOfFailures BY DEF Init, ErrorsOfFailures
<1>6. WritesAreOfGroups BY DEF Init, WritesAreOfGroups
<1> QED BY <1>1, <1>2, <1>3, <1>4, <1>5, <1>6 DEF TypeInv, TypeOK

LEMMA TypesSend ==
  ASSUME TypeInv, NEW m \in Messages, NEW c \in Conversations, Send(m, c)
  PROVE  TypeInv'
<1> USE DEF TypeInv, TypeOK
<1>1. PICK R \in Recipients(c) :
        /\ phase' = [d \in Deliveries |->
                       IF d[1] = m /\ d[2] \in R THEN Begun(d[2], c) ELSE phase[d]]
        /\ errors' = [d \in Deliveries |->
                        IF d[1] = m /\ d[2] \in R \ runtime THEN 1 ELSE errors[d]]
  BY DEF Send
<1>2. \A b \in R : Begun(b, c) \in {"failed", "writing", "aligned"} BY DEF Begun
<1>3. /\ conv' = [conv EXCEPT ![m] = c]
      /\ stored' = stored \cup {m}
      /\ before' = [before EXCEPT ![m] = stored]
      /\ call' = [call EXCEPT ![m] = "waiting"]
      /\ UNCHANGED <<profiles, runtime, alignVars, followVars, stack, records, announced, troubles>>
  BY DEF Send
<1>4. Sent' = Sent \cup {m}
  <2>1. m \in Messages /\ c # NoConversation OBVIOUS
  <2> QED BY <2>1, <1>3 DEF Sent, DeliveryTypes
<1>5. SceneTypes' BY <1>3, <1>4 DEF SceneTypes
<1>6. DeliveryTypes'
  <2>1. conv' \in [Messages -> Conversations \cup {NoConversation}] BY <1>3 DEF DeliveryTypes
  <2>2. phase' \in [Deliveries -> Phases]
    BY <1>1, <1>2 DEF DeliveryTypes, Phases
  <2>3. \A d \in Deliveries : phase'[d] # "none" => d[1] \in Sent'
    BY <1>1, <1>4 DEF DeliveryTypes
  <2>4. errors' \in [Deliveries -> {0, 1}] BY <1>1 DEF DeliveryTypes
  <2>5. records' \subseteq Deliveries BY <1>3 DEF DeliveryTypes
  <2> QED BY <2>1, <2>2, <2>3, <2>4, <2>5 DEF DeliveryTypes, Sent, Phases
<1>7. FollowTypes' BY <1>3 DEF FollowTypes, alignVars, followVars
<1>8. CallTypes' BY <1>3 DEF CallTypes, SceneTypes, Sent
<1>9. ErrorsOfFailures'
  <2> SUFFICES ASSUME NEW d \in Deliveries, errors'[d] = 1 PROVE phase'[d] = "failed"
    BY DEF ErrorsOfFailures
  <2>1. CASE d[1] = m /\ d[2] \in R \ runtime BY <2>1, <1>1 DEF Begun
  <2>2. CASE ~(d[1] = m /\ d[2] \in R \ runtime)
    <3>1. errors[d] = 1 /\ phase[d] = "failed" BY <2>2, <1>1 DEF ErrorsOfFailures
    <3>2. d[1] \in Sent BY <3>1 DEF DeliveryTypes
    <3>3. d[1] # m BY <3>2 DEF Send
    <3> QED BY <3>1, <3>3, <1>1
  <2> QED BY <2>1, <2>2
<1>10. WritesAreOfGroups'
  <2> SUFFICES ASSUME NEW d \in Deliveries, phase'[d] = "writing" PROVE conv'[d[1]] \in Groups
    BY DEF WritesAreOfGroups
  <2>1. CASE d[1] = m /\ d[2] \in R BY <2>1, <1>1, <1>3 DEF Begun, DeliveryTypes
  <2>2. CASE ~(d[1] = m /\ d[2] \in R)
    <3>1. phase[d] = "writing" BY <2>2, <1>1
    <3>2. d[1] \in Sent /\ conv[d[1]] \in Groups
      BY <3>1 DEF DeliveryTypes, WritesAreOfGroups
    <3>3. d[1] # m BY <3>2 DEF Send
    <3> QED BY <3>2, <3>3, <1>3 DEF DeliveryTypes, Deliveries
  <2> QED BY <2>1, <2>2
<1> QED BY <1>5, <1>6, <1>7, <1>8, <1>9, <1>10

\* A step that moves one delivery on: what is left to show of the types.
LEMMA TypesMove ==
  ASSUME TypeInv, NEW m \in Messages, NEW b \in Bots, NEW from \in Phases, from \notin {"none", "failed"},
         NEW to \in Phases, to # "writing",
         Move(<<m, b>>, from, to),
         (errors' = errors) \/ (to = "failed" /\ errors' = [errors EXCEPT ![<<m, b>>] = @ + 1]),
         records' \subseteq Deliveries,
         FollowTypes',
         (UNCHANGED <<sceneVars, conv, callVars>>),
         troubles' \in 0 .. MaxTroubles
  PROVE  TypeInv'
<1> USE DEF TypeInv, TypeOK
<1>1. <<m, b>> \in Deliveries BY DEF Deliveries
<1>2. /\ phase[<<m, b>>] = from
      /\ phase' = [phase EXCEPT ![<<m, b>>] = to]
  BY DEF Move
<1>3. errors[<<m, b>>] = 0 BY <1>1, <1>2 DEF DeliveryTypes, ErrorsOfFailures
<1>4. errors' \in [Deliveries -> {0, 1}] BY <1>1, <1>3 DEF DeliveryTypes
<1>5. SceneTypes' BY DEF SceneTypes, Sent, sceneVars
<1>6. DeliveryTypes'
  BY <1>1, <1>2, <1>4 DEF DeliveryTypes, Sent, Phases
<1>7. CallTypes' BY DEF CallTypes, callVars
<1>8. ErrorsOfFailures' BY <1>1, <1>2, <1>3 DEF ErrorsOfFailures, DeliveryTypes
<1>9. WritesAreOfGroups' BY <1>1, <1>2 DEF WritesAreOfGroups, DeliveryTypes
<1> QED BY <1>5, <1>6, <1>7, <1>8, <1>9

LEMMA TroubleTypes == CallTypes /\ Trouble => troubles' \in 0 .. MaxTroubles
  BY DEF CallTypes, Trouble

LEMMA TypesDeliver ==
  ASSUME TypeInv, NEW m \in Messages, NEW b \in Bots, Deliver(m, b) \/ MiddlewareFinished(m, b)
  PROVE  TypeInv'
<1> DEFINE c == conv[m]
           k == SessionKey[c]
<1>1. FollowTypes /\ CallTypes /\ records \subseteq Deliveries /\ troubles \in 0 .. MaxTroubles
  BY DEF TypeInv, TypeOK, DeliveryTypes, CallTypes
<1>2. ASSUME NEW from \in Phases, from \notin {"none", "failed"}, NEW to, Move(<<m, b>>, from, to)
      PROVE  c \in Conversations /\ k \in Keys
  <2>1. phase[<<m, b>>] = from /\ <<m, b>> \in Deliveries BY <1>2 DEF Move, Deliveries
  <2>2. phase[<<m, b>>] # "none" BY <1>2, <2>1
  <2>3. m \in Sent BY <2>1, <2>2 DEF TypeInv, TypeOK, DeliveryTypes
  <2>4. c \in Conversations BY <2>3 DEF TypeInv, TypeOK, DeliveryTypes, Sent
  <2> QED BY <2>4 DEF Keys
<1>3. CASE AlignWritten(m, b)
  <2>1. c \in Groups
    BY <1>3 DEF AlignWritten, Move, TypeInv, WritesAreOfGroups, Deliveries
  <2>2. FollowTypes'
    BY <1>1, <1>3, <2>1 DEF AlignWritten, FollowTypes, followVars
  <2> QED BY <1>1, <1>3, <2>2, TypesMove DEF AlignWritten, Phases
<1>4. CASE AlignFails(m, b)
  <2>1. FollowTypes' BY <1>1, <1>4 DEF AlignFails, FollowTypes, followVars, Deliveries
  <2> QED BY <1>1, <1>4, <2>1, TypesMove, TroubleTypes DEF AlignFails, Phases
<1>5. CASE Follow(m, b)
  <2>1. c \in Conversations /\ k \in Keys BY <1>2, <1>5 DEF Follow, Phases
  <2>2. FollowTypes' BY <1>1, <1>5, <2>1 DEF Follow, FollowTypes, alignVars
  <2> QED BY <1>1, <1>5, <2>2, TypesMove DEF Follow, Phases
<1>6. CASE Cleared(m, b)
  <2>1. FollowTypes' BY <1>1, <1>6 DEF Cleared, FollowTypes, alignVars
  <2> QED BY <1>1, <1>6, <2>1, TypesMove DEF Cleared, Phases
<1>7. CASE ClearFails(m, b)
  <2>1. c \in Conversations /\ k \in Keys BY <1>2, <1>7 DEF ClearFails, Phases
  <2>2. FollowTypes' BY <1>1, <1>7, <2>1 DEF ClearFails, FollowTypes, alignVars
  <2> QED BY <1>1, <1>7, <2>2, TypesMove, TroubleTypes DEF ClearFails, Phases
<1>8. CASE PrepareFails(m, b)
  <2>1. FollowTypes' BY <1>1, <1>8 DEF PrepareFails, FollowTypes, alignVars, followVars
  <2> QED BY <1>1, <1>8, <2>1, TypesMove, TroubleTypes DEF PrepareFails, Phases
<1>9. CASE Dispatch(m, b)
  <2>1. c \in Conversations /\ k \in Keys BY <1>2, <1>9 DEF Dispatch, Phases
  <2>2. Append(stack[b], c) \in Seq(Conversations) BY <1>1, <2>1 DEF FollowTypes
  <2>3. FollowTypes' BY <1>1, <1>9, <2>1, <2>2 DEF Dispatch, FollowTypes, alignVars
  <2> QED BY <1>1, <1>9, <2>3, TypesMove DEF Dispatch, Phases
<1>10. CASE DispatchUnknown(m, b)
  <2>1. FollowTypes' BY <1>1, <1>10 DEF DispatchUnknown, FollowTypes, alignVars, followVars
  <2> QED BY <1>1, <1>10, <2>1, TypesMove DEF DispatchUnknown, Phases
<1>11. CASE DispatchFails(m, b)
  <2>1. stack' \in [Bots -> Seq(Conversations)]
    BY <1>1, <1>11, CloseTypes DEF DispatchFails, FollowTypes
  <2>2. FollowTypes' BY <1>1, <1>11, <2>1 DEF DispatchFails, FollowTypes, alignVars, followVars
  <2> QED BY <1>1, <1>11, <2>2, TypesMove, TroubleTypes DEF DispatchFails, Phases
<1>12. CASE EndWindow(m, b)
  <2>1. stack' \in [Bots -> Seq(Conversations)]
    BY <1>1, <1>12, CloseTypes DEF EndWindow, FollowTypes
  <2>2. FollowTypes' BY <1>1, <1>12, <2>1 DEF EndWindow, FollowTypes, alignVars, followVars
  <2> QED BY <1>1, <1>12, <2>2, TypesMove DEF EndWindow, Phases, Deliveries
<1> QED BY <1>3, <1>4, <1>5, <1>6, <1>7, <1>8, <1>9, <1>10, <1>11, <1>12
        DEF Deliver, Timeout, MiddlewareFinished

LEMMA TypesNext == TypeInv /\ [Next]_vars => TypeInv'
<1> SUFFICES ASSUME TypeInv, [Next]_vars PROVE TypeInv' OBVIOUS
<1> USE DEF TypeInv, TypeOK, SceneTypes, DeliveryTypes, FollowTypes, CallTypes, ErrorsOfFailures,
        WritesAreOfGroups, Sent
<1>1. CASE \E m \in Messages, c \in Conversations : Send(m, c)
  BY <1>1, TypesSend DEF TypeInv
<1>2. ASSUME NEW m \in Messages, NEW b \in Bots, Deliver(m, b) \/ MiddlewareFinished(m, b)
      PROVE  TypeInv'
  BY <1>2, TypesDeliver
<1>3. ASSUME NEW m \in Messages, Return(m) PROVE TypeInv'
  BY <1>3 DEF Return, NewRecords, sceneVars, alignVars, followVars
<1>4. ASSUME NEW m \in Messages, Throw(m) PROVE TypeInv'
  BY <1>4 DEF Throw, sceneVars, alignVars, followVars
<1>5. ASSUME NEW gone \in SUBSET stored, RemoveMessages(gone) PROVE TypeInv'
  BY <1>5, TroubleTypes DEF RemoveMessages, Kept, alignVars, followVars, callVars
<1>6. ASSUME NEW b \in Bots, DeleteBot(b) PROVE TypeInv'
  BY <1>6, TroubleTypes DEF DeleteBot, alignVars, followVars, callVars
<1>7. CASE StopBots
  BY <1>7, TroubleTypes DEF StopBots, alignVars, followVars, callVars
<1>8. CASE UNCHANGED vars
  BY <1>8 DEF vars, sceneVars, alignVars, followVars, callVars
<1> QED BY <1>1, <1>2, <1>3, <1>4, <1>5, <1>6, <1>7, <1>8 DEF Next

\* TypeOK, TypeCorrect: the stacks, the tables and the records stay what they are, and no
\* failure of a delivery is recorded twice.
THEOREM TypeCorrect == Spec => []TypeOK
<1>1. TypeInv => TypeOK BY DEF TypeInv
<1> QED BY <1>1, TypesInit, TypesNext, PTL DEF Spec

-----------------------------------------------------------------------------
(***************************************************************************)
(* The windows.  The stack of a bot is a multiset of the conversations it  *)
(* is handling: what is counted is where a conversation stands in it.      *)
(***************************************************************************)
Places(s, c) == {i \in DOMAIN s : s[i] = c}

LEMMA PlacesAreFinite ==
  ASSUME NEW S, NEW s \in Seq(S), NEW c
  PROVE  IsFiniteSet(Places(s, c)) /\ Cardinality(Places(s, c)) \in Nat
<1>1. IsFiniteSet(1 .. Len(s)) BY FS_Interval
<1>2. Places(s, c) \subseteq 1 .. Len(s) BY DEF Places
<1> QED BY <1>1, <1>2, FS_Subset, FS_CardinalityType

\* Pushing counts one more of what is pushed.
LEMMA PushCount ==
  ASSUME NEW S, NEW s \in Seq(S), NEW c \in S, NEW x
  PROVE  Cardinality(Places(Append(s, c), x)) =
           IF x = c THEN Cardinality(Places(s, x)) + 1 ELSE Cardinality(Places(s, x))
<1>1. Places(Append(s, c), x) = IF x = c THEN Places(s, x) \cup {Len(s) + 1} ELSE Places(s, x)
  BY DEF Places
<1>2. Len(s) + 1 \notin Places(s, x) BY DEF Places
<1> QED BY <1>1, <1>2, PlacesAreFinite, FS_AddElement

\* Removing one element, wherever it is, counts one less of what was there.
LEMMA RemovalCount ==
  ASSUME NEW S, NEW s \in Seq(S), NEW i \in DOMAIN s, NEW x
  PROVE  Cardinality(Places(SubSeq(s, 1, i - 1) \o SubSeq(s, i + 1, Len(s)), x)) =
           IF s[i] = x THEN Cardinality(Places(s, x)) - 1 ELSE Cardinality(Places(s, x))
<1> DEFINE t == SubSeq(s, 1, i - 1) \o SubSeq(s, i + 1, Len(s))
           From == Places(s, x) \ {i}
           F == [j \in From |-> IF j < i THEN j ELSE j - 1]
<1>1. i \in 1 .. Len(s) /\ Len(s) \in Nat OBVIOUS
<1>2. /\ Len(t) = Len(s) - 1 /\ DOMAIN t = 1 .. Len(s) - 1
      /\ \A j \in 1 .. Len(s) - 1 : t[j] = IF j < i THEN s[j] ELSE s[j + 1]
  <2> DEFINE a == SubSeq(s, 1, i - 1)
             z == SubSeq(s, i + 1, Len(s))
  <2>1. a \in Seq(S) /\ Len(a) = i - 1 /\ \A j \in 1 .. i - 1 : a[j] = s[j]
    BY <1>1
  <2>2. z \in Seq(S) /\ Len(z) = Len(s) - i /\ \A j \in 1 .. Len(s) - i : z[j] = s[i + j]
    BY <1>1
  <2>3. t = a \o z OBVIOUS
  <2> HIDE DEF a, z, t
  <2>4. Len(t) = Len(s) - 1 /\ DOMAIN t = 1 .. Len(s) - 1 BY <1>1, <2>1, <2>2, <2>3
  <2>5. ASSUME NEW j \in 1 .. Len(s) - 1, j < i PROVE t[j] = s[j]
    BY <1>1, <2>1, <2>2, <2>3, <2>5
  <2>6. ASSUME NEW j \in 1 .. Len(s) - 1, ~(j < i) PROVE t[j] = s[j + 1]
    <3>1. t[j] = z[j - Len(a)]
      <4>1. j \in 1 .. Len(a) + Len(z) /\ Len(a) < j BY <1>1, <2>1, <2>2, <2>6
      <4>2. a \in Seq(S) /\ z \in Seq(S) BY <2>1, <2>2
      <4>3. (a \o z)[j] = IF j <= Len(a) THEN a[j] ELSE z[j - Len(a)]
        BY <4>1, <4>2, ConcatProperties
      <4>4. Len(a) \in Nat /\ j \in Nat BY <4>1, <4>2
      <4>5. ~(j <= Len(a)) BY <4>1, <4>4
      <4> QED BY <4>3, <4>5, <2>3
    <3>2. j - Len(a) \in 1 .. Len(s) - i /\ i + (j - Len(a)) = j + 1 BY <1>1, <2>1, <2>6
    <3>3. z[j - Len(a)] = s[i + (j - Len(a))] BY <3>2, <2>2
    <3> QED BY <3>1, <3>2, <3>3
  <2> QED BY <2>4, <2>5, <2>6
<1>3. Places(t, x) \subseteq 1 .. Len(s) - 1 /\ From \subseteq 1 .. Len(s) BY <1>2 DEF Places
<1> HIDE DEF t
<1>4. F \in [From -> Places(t, x)]
  <2> SUFFICES ASSUME NEW j \in From PROVE (IF j < i THEN j ELSE j - 1) \in Places(t, x)
    OBVIOUS
  <2>1. j \in 1 .. Len(s) /\ j # i /\ s[j] = x BY DEF Places
  <2>2. CASE j < i BY <2>1, <2>2, <1>1, <1>2 DEF Places
  <2>3. CASE i < j
    <3>1. j - 1 \in 1 .. Len(s) - 1 /\ ~(j - 1 < i) /\ j - 1 + 1 = j BY <2>1, <2>3, <1>1
    <3> QED BY <3>1, <2>1, <2>3, <1>1, <1>2 DEF Places
  <2> QED BY <2>1, <2>2, <2>3, <1>1
<1>5. \A j, k \in From : F[j] = F[k] => j = k
  BY <1>1, <1>3 DEF Places
<1>6. \A y \in Places(t, x) : \E j \in From : F[j] = y
  <2> SUFFICES ASSUME NEW y \in Places(t, x) PROVE \E j \in From : F[j] = y
    OBVIOUS
  <2>1. y \in 1 .. Len(s) - 1 /\ t[y] = x BY <1>2 DEF Places
  <2>2. CASE y < i
    <3>1. y \in From BY <2>1, <2>2, <1>1, <1>2 DEF Places
    <3> QED BY <3>1, <2>2
  <2>3. CASE ~(y < i)
    <3>1. y + 1 \in From BY <2>1, <2>3, <1>1, <1>2 DEF Places
    <3>2. F[y + 1] = y BY <2>1, <2>3, <3>1, <1>1
    <3> QED BY <3>1, <3>2
  <2> QED BY <2>2, <2>3
<1>7. ExistsBijection(From, Places(t, x))
  <2> HIDE DEF F, From
  <2>1. F \in Bijection(From, Places(t, x)) BY <1>4, <1>5, <1>6, Fun_IsBij
  <2> QED BY <2>1, Fun_ExistsBij
<1>8. IsFiniteSet(From) /\ Cardinality(From) =
        IF i \in Places(s, x) THEN Cardinality(Places(s, x)) - 1 ELSE Cardinality(Places(s, x))
  BY PlacesAreFinite, FS_RemoveElement
<1>9. Cardinality(Places(t, x)) = Cardinality(From) BY <1>7, <1>8, FS_Bijection
<1>10. i \in Places(s, x) <=> s[i] = x BY DEF Places
<1> QED BY <1>8, <1>9, <1>10 DEF t

\* Closing counts one less of the conversation that is closed.
LEMMA CloseCount ==
  ASSUME stack \in [Bots -> Seq(Conversations)], NEW b \in Bots, NEW c, Close(b, c), NEW x
  PROVE  /\ stack' \in [Bots -> Seq(Conversations)]
         /\ \A o \in Bots \ {b} : stack'[o] = stack[o]
         /\ Cardinality(Places(stack'[b], x)) =
              IF x = c THEN Cardinality(Places(stack[b], x)) - 1
              ELSE Cardinality(Places(stack[b], x))
<1>1. PICK i \in DOMAIN stack[b] :
        /\ stack[b][i] = c
        /\ stack' = [stack EXCEPT ![b] = SubSeq(@, 1, i - 1) \o SubSeq(@, i + 1, Len(@))]
  BY DEF Close
<1>2. stack'[b] = SubSeq(stack[b], 1, i - 1) \o SubSeq(stack[b], i + 1, Len(stack[b]))
  BY <1>1
<1>3. stack[b] \in Seq(Conversations) OBVIOUS
<1>4. Cardinality(Places(stack'[b], x)) =
        IF stack[b][i] = x THEN Cardinality(Places(stack[b], x)) - 1
        ELSE Cardinality(Places(stack[b], x))
  BY <1>2, <1>3, RemovalCount
<1>5. \A o \in Bots \ {b} : stack'[o] = stack[o] BY <1>1
<1> QED BY <1>1, <1>4, <1>5, CloseTypes

\* The stack of a bot holds each conversation as often as its windows are open.
WindowsInv == TypeInv /\ WindowsAreOpen

LEMMA WindowsAreFinite ==
  ASSUME NEW b, NEW c
  PROVE  IsFiniteSet(Window(b, c)) /\ Cardinality(Window(b, c)) \in Nat
<1>1. IsFiniteSet(Messages) BY FS_Interval DEF Messages
<1>2. Window(b, c) \subseteq Messages BY DEF Window
<1> QED BY <1>1, <1>2, FS_Subset, FS_CardinalityType

\* Steps that open and close no window.
LEMMA WindowsStay ==
  ASSUME WindowsInv, stack' = stack,
         \A m \in Messages, b \in Bots :
           /\ phase'[<<m, b>>] = "handling" <=> phase[<<m, b>>] = "handling"
           /\ phase[<<m, b>>] = "handling" => conv'[m] = conv[m]
  PROVE  WindowsAreOpen'
<1>1. \A b \in Bots, c \in Conversations : Window(b, c)' = Window(b, c) BY DEF Window
<1> QED BY <1>1 DEF WindowsInv, WindowsAreOpen

\* A window opens.
LEMMA WindowOpens ==
  ASSUME WindowsInv, NEW m \in Messages, NEW b \in Bots, Dispatch(m, b)
  PROVE  WindowsAreOpen'
<1>1. /\ phase[<<m, b>>] = "ready" /\ phase' = [phase EXCEPT ![<<m, b>>] = "handling"]
      /\ stack' = [stack EXCEPT ![b] = Append(@, conv[m])] /\ conv' = conv
      /\ <<m, b>> \in Deliveries
  BY DEF Dispatch, Move, Deliveries
<1>2. /\ stack \in [Bots -> Seq(Conversations)] /\ phase \in [Deliveries -> Phases]
      /\ conv[m] \in Conversations
  BY <1>1 DEF WindowsInv, TypeInv, TypeOK, FollowTypes, DeliveryTypes, Sent
<1> SUFFICES ASSUME NEW o \in Bots, NEW x \in Conversations
             PROVE  Cardinality(Places(stack'[o], x)) = Cardinality(Window(o, x)')
  BY DEF WindowsAreOpen, Places
<1>3. Cardinality(Places(stack[o], x)) = Cardinality(Window(o, x))
  BY DEF WindowsInv, WindowsAreOpen, Places
<1>4. CASE o = b /\ x = conv[m]
  <2>1. Window(o, x)' = Window(o, x) \cup {m} /\ m \notin Window(o, x)
    BY <1>1, <1>2, <1>4 DEF Window, Deliveries
  <2>2. Cardinality(Window(o, x)') = Cardinality(Window(o, x)) + 1
    BY <2>1, WindowsAreFinite, FS_AddElement
  <2> QED BY <1>1, <1>2, <1>3, <1>4, <2>2, PushCount
<1>5. CASE ~(o = b /\ x = conv[m])
  <2>1. Window(o, x)' = Window(o, x) BY <1>1, <1>2, <1>5 DEF Window, Deliveries
  <2>2. Cardinality(Places(stack'[o], x)) = Cardinality(Places(stack[o], x))
    BY <1>1, <1>2, <1>5, PushCount
  <2> QED BY <1>3, <2>1, <2>2
<1> QED BY <1>4, <1>5

\* A window closes, at the end of its delivery or with its failure.
LEMMA WindowCloses ==
  ASSUME WindowsInv, NEW m \in Messages, NEW b \in Bots, NEW to \in {"delivered", "failed"},
         Move(<<m, b>>, "handling", to), Close(b, conv[m]), conv' = conv
  PROVE  WindowsAreOpen'
<1>1. /\ phase[<<m, b>>] = "handling" /\ phase' = [phase EXCEPT ![<<m, b>>] = to]
      /\ <<m, b>> \in Deliveries
  BY DEF Move, Deliveries
<1>2. /\ stack \in [Bots -> Seq(Conversations)] /\ phase \in [Deliveries -> Phases]
  BY <1>1 DEF WindowsInv, TypeInv, TypeOK, FollowTypes, DeliveryTypes
<1> SUFFICES ASSUME NEW o \in Bots, NEW x \in Conversations
             PROVE  Cardinality(Places(stack'[o], x)) = Cardinality(Window(o, x)')
  BY DEF WindowsAreOpen, Places
<1>3. Cardinality(Places(stack[o], x)) = Cardinality(Window(o, x))
  BY DEF WindowsInv, WindowsAreOpen, Places
<1>4. CASE o = b /\ x = conv[m]
  <2>1. Window(o, x)' = Window(o, x) \ {m} /\ m \in Window(o, x)
    BY <1>1, <1>2, <1>4 DEF Window, Deliveries
  <2>2. Cardinality(Window(o, x)') = Cardinality(Window(o, x)) - 1
    BY <2>1, WindowsAreFinite, FS_RemoveElement
  <2> QED BY <1>2, <1>3, <1>4, <2>2, CloseCount
<1>5. CASE ~(o = b /\ x = conv[m])
  <2>1. Window(o, x)' = Window(o, x) BY <1>1, <1>2, <1>5 DEF Window, Deliveries
  <2>2. Cardinality(Places(stack'[o], x)) = Cardinality(Places(stack[o], x))
    <3>1. CASE o # b BY <1>2, <3>1, CloseCount
    <3>2. CASE o = b BY <1>2, <1>5, <3>2, CloseCount
    <3> QED BY <3>1, <3>2
  <2> QED BY <1>3, <2>1, <2>2
<1> QED BY <1>4, <1>5

\* What sending a message leaves alone: it is new, so no delivery of it had begun.
LEMMA SendFrame ==
  ASSUME TypeInv, NEW m \in Messages, NEW c \in Conversations, Send(m, c)
  PROVE  /\ m \notin Sent /\ m \notin stored
         /\ \A n \in Messages \ {m} : conv'[n] = conv[n]
         /\ conv'[m] = c
         /\ \A d \in Deliveries : d[1] # m => phase'[d] = phase[d]
         /\ \A d \in Deliveries :
              d[1] = m => phase[d] = "none" /\ phase'[d] \in {"none", "failed", "writing", "aligned"}
         /\ \A d \in Deliveries :
              d[1] = m /\ phase'[d] = "aligned" /\ c \in Groups => <<d[2], c>> \in aligned
<1> USE DEF TypeInv, TypeOK, DeliveryTypes
<1>1. PICK R \in Recipients(c) :
        phase' = [d \in Deliveries |->
                    IF d[1] = m /\ d[2] \in R THEN Begun(d[2], c) ELSE phase[d]]
  BY DEF Send
<1>2. m \notin Sent /\ conv' = [conv EXCEPT ![m] = c] BY DEF Send
<1>3. m \notin stored BY <1>2 DEF SceneTypes
<1>4. \A d \in Deliveries : d[1] = m => phase[d] = "none" BY <1>2
<1>5. \A b \in R : Begun(b, c) \in {"failed", "writing", "aligned"} BY DEF Begun
<1>6. \A b \in R : Begun(b, c) = "aligned" /\ c \in Groups => <<b, c>> \in aligned BY DEF Begun
<1> QED BY <1>1, <1>2, <1>3, <1>4, <1>5, <1>6

LEMMA WindowsNext == WindowsInv /\ [Next]_vars => WindowsAreOpen'
<1> SUFFICES ASSUME WindowsInv, [Next]_vars PROVE WindowsAreOpen' OBVIOUS
<1>1. ASSUME NEW m \in Messages, NEW c \in Conversations, Send(m, c) PROVE WindowsAreOpen'
  <2>1. stack' = stack BY <1>1 DEF Send
  <2>2. \A n \in Messages, b \in Bots :
          /\ phase'[<<n, b>>] = "handling" <=> phase[<<n, b>>] = "handling"
          /\ phase[<<n, b>>] = "handling" => conv'[n] = conv[n]
    BY <1>1, SendFrame DEF WindowsInv, Deliveries
  <2> QED BY <2>1, <2>2, WindowsStay
<1>2. ASSUME NEW m \in Messages, NEW b \in Bots, NEW from, NEW to, Move(<<m, b>>, from, to),
             from # "handling", to # "handling", stack' = stack, conv' = conv
      PROVE  WindowsAreOpen'
  <2>1. \A n \in Messages, o \in Bots :
          phase'[<<n, o>>] = "handling" <=> phase[<<n, o>>] = "handling"
    BY <1>2 DEF Move, WindowsInv, TypeInv, TypeOK, DeliveryTypes, Deliveries
  <2> QED BY <1>2, <2>1, WindowsStay
<1>3. ASSUME NEW m \in Messages, NEW b \in Bots,
             AlignWritten(m, b) \/ AlignFails(m, b) \/ Follow(m, b) \/ Cleared(m, b)
               \/ ClearFails(m, b) \/ PrepareFails(m, b) \/ DispatchUnknown(m, b)
      PROVE  WindowsAreOpen'
  BY <1>2, <1>3 DEF AlignWritten, AlignFails, Follow, Cleared, ClearFails, PrepareFails, DispatchUnknown
<1>4. ASSUME NEW m \in Messages, NEW b \in Bots, DispatchFails(m, b) \/ EndWindow(m, b)
      PROVE  WindowsAreOpen'
  BY <1>4, WindowCloses DEF DispatchFails, EndWindow
<1>5. CASE \/ \E m \in Messages : Return(m) \/ Throw(m)
           \/ \E gone \in SUBSET stored : RemoveMessages(gone)
           \/ \E b \in Bots : DeleteBot(b)
           \/ StopBots \/ UNCHANGED vars
  <2>1. stack' = stack /\ phase' = phase /\ conv' = conv
    BY <1>5 DEF Return, Throw, RemoveMessages, DeleteBot, StopBots, vars
  <2> QED BY <2>1, WindowsStay
<1> QED BY <1>1, <1>3, <1>4, <1>5, WindowOpens DEF Next, Deliver, Timeout, MiddlewareFinished

LEMMA WindowsHold == Spec => []WindowsInv
<1>1. Init => WindowsAreOpen
  <2> SUFFICES ASSUME Init, NEW b \in Bots, NEW c \in Conversations
               PROVE  Cardinality(Places(stack[b], c)) = Cardinality(Window(b, c))
    BY DEF WindowsAreOpen, Places
  <2>1. Places(stack[b], c) = {} /\ Window(b, c) = {} BY DEF Init, Places, Window, Deliveries
  <2> QED BY <2>1
<1>2. WindowsInv /\ [Next]_vars => WindowsInv' BY WindowsNext, TypesNext DEF WindowsInv
<1>3. Init => WindowsInv BY <1>1, TypesInit DEF WindowsInv
<1> QED BY <1>2, <1>3, PTL DEF Spec

\* WindowsAreOpen: whichever of the concurrent deliveries of a bot ends first, and however,
\* the stack holds what the bot is still handling.
THEOREM WindowsMatch == Spec => []WindowsAreOpen
  BY WindowsHold, PTL DEF WindowsInv

\* HistoryFollowsEvent: the history a bot reads is that of the conversation it handles.
THEOREM HistoryMatches == Spec => []HistoryFollowsEvent
<1>1. ASSUME WindowsInv PROVE HistoryFollowsEvent
  <2> SUFFICES ASSUME NEW b \in Bots, NEW c \in Conversations, Window(b, c) # {},
                      \A other \in Conversations \ {c} : Window(b, other) = {},
                      NEW r \in Roots
               PROVE  HistoryConversation(b, r) = IF r = Root[c] THEN c ELSE r
    BY DEF HistoryFollowsEvent
  <2>1. stack[b] \in Seq(Conversations)
    BY <1>1 DEF WindowsInv, TypeInv, TypeOK, FollowTypes
  <2>2. \A x \in Conversations : Places(stack[b], x) = {} <=> Window(b, x) = {}
    <3> SUFFICES ASSUME NEW x \in Conversations
                 PROVE  Places(stack[b], x) = {} <=> Window(b, x) = {}
      OBVIOUS
    <3>1. Cardinality(Places(stack[b], x)) = Cardinality(Window(b, x))
      BY <1>1 DEF WindowsInv, WindowsAreOpen, Places
    <3> QED BY <2>1, <3>1, PlacesAreFinite, WindowsAreFinite, FS_EmptySet
  <2>3. Len(stack[b]) \in DOMAIN stack[b] /\ stack[b] # << >> BY <2>1, <2>2 DEF Places
  <2>4. stack[b][Len(stack[b])] \in Conversations BY <2>1, <2>3
  <2>5. stack[b][Len(stack[b])] = c BY <2>2, <2>3, <2>4 DEF Places
  <2> QED BY <2>3, <2>5 DEF HistoryConversation
<1> QED BY <1>1, WindowsHold, PTL

\* Stack and history follow the events a bot is handling.
THEOREM WindowsAlwaysRight == Spec => []WindowsAreRight
<1>1. WindowsAreOpen /\ HistoryFollowsEvent => WindowsAreRight BY DEF WindowsAreRight
<1> QED BY <1>1, WindowsMatch, HistoryMatches, PTL

-----------------------------------------------------------------------------
(***************************************************************************)
(* The call that waits.  A message new since a call began is one that was  *)
(* not in the scene then; its own message is, and stays, one of them.      *)
(***************************************************************************)
RecordsAreDeliveries ==
  /\ \A d \in records : phase[d] = "delivered"
  /\ \A d \in Deliveries : d[1] \in stored /\ phase[d] = "delivered" => d \in records
\* A call is of a message sent, which was not in the scene when it began.
CallsOfSent ==
  /\ \A m \in Messages : call[m] # "none" => m \in Sent
  /\ \A m \in Messages : m \notin before[m]

\* So what is new since a call began includes its own message.
CallInv == TypeInv /\ RecordsAreDeliveries /\ CallsOfSent /\ ReturnedIsAnnounced

LEMMA CallsSend ==
  ASSUME CallInv, NEW m \in Messages, NEW c \in Conversations, Send(m, c)
  PROVE  RecordsAreDeliveries' /\ CallsOfSent' /\ ReturnedIsAnnounced'
<1>1. /\ records' = records /\ stored' = stored \cup {m} /\ announced' = announced
      /\ call' = [call EXCEPT ![m] = "waiting"] /\ before' = [before EXCEPT ![m] = stored]
  BY DEF Send
<1>2. /\ call \in [Messages -> {"none", "waiting", "returned", "thrown"}]
      /\ before \in [Messages -> SUBSET Messages] /\ records \subseteq Deliveries
  BY DEF CallInv, TypeInv, TypeOK, CallTypes, DeliveryTypes
<1>3. /\ m \notin Sent /\ m \notin stored
      /\ \A n \in Messages \ {m} : conv'[n] = conv[n]
      /\ conv'[m] = c
      /\ \A d \in Deliveries : d[1] # m => phase'[d] = phase[d]
      /\ \A d \in Deliveries :
           d[1] = m => phase[d] = "none" /\ phase'[d] \in {"none", "failed", "writing", "aligned"}
  BY SendFrame DEF CallInv
<1>4. \A d \in Deliveries : d[1] \in Messages BY DEF Deliveries
<1>5. RecordsAreDeliveries'
  <2>1. \A d \in records : d[1] # m /\ phase'[d] = "delivered"
    BY <1>2, <1>3 DEF CallInv, RecordsAreDeliveries
  <2>2. ASSUME NEW d \in Deliveries, d[1] \in stored', phase'[d] = "delivered" PROVE d \in records
    <3>1. d[1] # m BY <2>2, <1>3
    <3> QED BY <3>1, <2>2, <1>1, <1>3 DEF CallInv, RecordsAreDeliveries
  <2> QED BY <2>1, <2>2, <1>1 DEF RecordsAreDeliveries
<1>6. CallsOfSent'
  BY <1>1, <1>2, <1>3 DEF CallInv, CallsOfSent, Sent
<1>7. ReturnedIsAnnounced'
  <2> SUFFICES ASSUME NEW n \in Messages, call'[n] = "returned", NEW b \in Bots
               PROVE  /\ phase'[<<n, b>>] \in {"none", "delivered"}
                      /\ n \in stored' /\ phase'[<<n, b>>] = "delivered" => <<n, b>> \in announced'
    BY DEF ReturnedIsAnnounced
  <2>1. n # m /\ call[n] = "returned" BY <1>1, <1>2
  <2>2. phase'[<<n, b>>] = phase[<<n, b>>] BY <2>1, <1>3 DEF Deliveries
  <2> QED BY <2>1, <2>2, <1>1 DEF CallInv, ReturnedIsAnnounced
<1> QED BY <1>5, <1>6, <1>7

\* A delivery that moves on is of a call that has not returned.
LEMMA CallsMove ==
  ASSUME CallInv, NEW m \in Messages, NEW b \in Bots, NEW from, from \notin {"none", "delivered"},
         NEW to, Move(<<m, b>>, from, to),
         records' = (IF to = "delivered" THEN records \cup {<<m, b>>} ELSE records),
         stored' = stored, conv' = conv, (UNCHANGED callVars)
  PROVE  RecordsAreDeliveries' /\ CallsOfSent' /\ ReturnedIsAnnounced'
<1>1. /\ phase[<<m, b>>] = from /\ phase' = [phase EXCEPT ![<<m, b>>] = to]
      /\ phase \in [Deliveries -> Phases] /\ <<m, b>> \in Deliveries /\ records \subseteq Deliveries
  BY DEF Move, CallInv, TypeInv, TypeOK, DeliveryTypes, Deliveries
<1>2. RecordsAreDeliveries' BY <1>1 DEF CallInv, RecordsAreDeliveries
<1>3. CallsOfSent' BY DEF CallInv, CallsOfSent, Sent, callVars
<1>4. ReturnedIsAnnounced'
  <2> SUFFICES ASSUME NEW n \in Messages, call'[n] = "returned", NEW o \in Bots
               PROVE  /\ phase'[<<n, o>>] \in {"none", "delivered"}
                      /\ n \in stored' /\ phase'[<<n, o>>] = "delivered" => <<n, o>> \in announced'
    BY DEF ReturnedIsAnnounced
  <2>1. call[n] = "returned" /\ announced' = announced BY DEF callVars
  <2>2. phase[<<n, o>>] \in {"none", "delivered"} BY <2>1 DEF CallInv, ReturnedIsAnnounced
  <2>3. <<n, o>> # <<m, b>> BY <2>2, <1>1
  <2>4. phase'[<<n, o>>] = phase[<<n, o>>] BY <2>3, <1>1 DEF Deliveries
  <2> QED BY <2>1, <2>4 DEF CallInv, ReturnedIsAnnounced
<1> QED BY <1>2, <1>3, <1>4

LEMMA CallsReturn ==
  ASSUME CallInv, NEW m \in Messages, Return(m)
  PROVE  RecordsAreDeliveries' /\ CallsOfSent' /\ ReturnedIsAnnounced'
<1>1. /\ UNCHANGED <<stored, conv, phase, records, before>>
      /\ call[m] = "waiting" /\ call' = [call EXCEPT ![m] = "returned"]
      /\ announced' = announced \cup NewRecords(m)
      /\ \A b \in Bots : phase[<<m, b>>] \in {"none", "delivered"}
  BY DEF Return, sceneVars, AllDelivered
<1>2. call \in [Messages -> {"none", "waiting", "returned", "thrown"}]
  BY DEF CallInv, TypeInv, TypeOK, CallTypes
<1>3. RecordsAreDeliveries' BY <1>1 DEF CallInv, RecordsAreDeliveries
<1>4. CallsOfSent' BY <1>1, <1>2 DEF CallInv, CallsOfSent, Sent
<1>5. ReturnedIsAnnounced'
  <2> SUFFICES ASSUME NEW n \in Messages, call'[n] = "returned", NEW b \in Bots
               PROVE  /\ phase'[<<n, b>>] \in {"none", "delivered"}
                      /\ n \in stored' /\ phase'[<<n, b>>] = "delivered" => <<n, b>> \in announced'
    BY DEF ReturnedIsAnnounced
  <2>1. CASE n # m
    <3>1. call[n] = "returned" BY <2>1, <1>1, <1>2
    <3> QED BY <3>1, <1>1 DEF CallInv, ReturnedIsAnnounced
  <2>2. CASE n = m
    <3>1. ASSUME n \in stored, phase[<<n, b>>] = "delivered" PROVE <<n, b>> \in NewRecords(m)
      <4>1. <<n, b>> \in records BY <3>1 DEF CallInv, RecordsAreDeliveries, Deliveries
      <4>2. m \notin before[m] BY DEF CallInv, CallsOfSent
      <4> QED BY <3>1, <4>1, <4>2, <2>2 DEF NewRecords
    <3> QED BY <3>1, <2>2, <1>1
  <2> QED BY <2>1, <2>2
<1> QED BY <1>3, <1>4, <1>5

LEMMA CallsNext ==
  ASSUME CallInv, [Next]_vars
  PROVE  RecordsAreDeliveries' /\ CallsOfSent' /\ ReturnedIsAnnounced'
<1> DEFINE Goal == RecordsAreDeliveries' /\ CallsOfSent' /\ ReturnedIsAnnounced'
<1>1. ASSUME NEW m \in Messages, NEW b \in Bots, Deliver(m, b) \/ MiddlewareFinished(m, b)
      PROVE  Goal
  <2>1. CASE \/ AlignWritten(m, b) \/ AlignFails(m, b) \/ Follow(m, b)
             \/ Cleared(m, b) \/ ClearFails(m, b)
    BY <2>1, CallsMove
    DEF AlignWritten, AlignFails, Follow, Cleared, ClearFails, sceneVars
  <2>2. CASE \/ PrepareFails(m, b) \/ Dispatch(m, b) \/ DispatchUnknown(m, b) \/ DispatchFails(m, b)
    BY <2>2, CallsMove
    DEF PrepareFails, Dispatch, DispatchUnknown, DispatchFails, sceneVars
  <2>3. CASE EndWindow(m, b)
    BY <2>3, CallsMove DEF EndWindow, sceneVars
  <2> QED BY <1>1, <2>1, <2>2, <2>3 DEF Deliver, Timeout, MiddlewareFinished
<1>2. ASSUME NEW m \in Messages, Throw(m) PROVE Goal
  BY <1>2 DEF Throw, sceneVars, CallInv, TypeInv, TypeOK, CallTypes, RecordsAreDeliveries, CallsOfSent,
              ReturnedIsAnnounced, Sent
<1>3. ASSUME NEW gone \in SUBSET stored, RemoveMessages(gone) PROVE Goal
  BY <1>3 DEF RemoveMessages, Kept, callVars, CallInv, RecordsAreDeliveries, CallsOfSent,
              ReturnedIsAnnounced, Sent
<1>4. CASE (\E b \in Bots : DeleteBot(b)) \/ StopBots \/ UNCHANGED vars
  <2>1. UNCHANGED <<stored, conv, phase, records, call, before, announced>>
    BY <1>4 DEF DeleteBot, StopBots, vars, callVars, sceneVars
  <2> QED BY <2>1 DEF CallInv, RecordsAreDeliveries, CallsOfSent, ReturnedIsAnnounced, Sent
<1> QED BY <1>1, <1>2, <1>3, <1>4, CallsSend, CallsReturn DEF Next

\* ReturnedIsAnnounced: whoever waits for a bot after send_message has returned finds the
\* event of its delivery in the feed, whatever was sent, evicted or deleted meanwhile.
THEOREM CallsHold == Spec => []ReturnedIsAnnounced
<1>1. Init => CallInv
  <2> SUFFICES ASSUME Init PROVE CallInv OBVIOUS
  <2>1. RecordsAreDeliveries BY DEF Init, RecordsAreDeliveries
  <2>2. CallsOfSent BY DEF Init, CallsOfSent
  <2>3. ReturnedIsAnnounced BY DEF Init, ReturnedIsAnnounced
  <2> QED BY <2>1, <2>2, <2>3, TypesInit DEF CallInv
<1>2. CallInv /\ [Next]_vars => CallInv' BY CallsNext, TypesNext DEF CallInv
<1>3. CallInv => ReturnedIsAnnounced BY DEF CallInv
<1> QED BY <1>1, <1>2, <1>3, PTL DEF Spec

\* A step of one delivery that does not fail it, or that records why, keeps the records.
LEMMA FailuresMove ==
  ASSUME TypeInv, TypeInv', FailuresAreRecorded, NEW m \in Messages, NEW b \in Bots,
         UNCHANGED profiles, NEW p, phase' = [phase EXCEPT ![<<m, b>>] = p],
         \/ p # "failed" /\ errors' = errors
         \/ errors' = [errors EXCEPT ![<<m, b>>] = @ + 1]
         \/ b \notin profiles /\ errors' = errors
  PROVE  FailuresAreRecorded'
<1>1. /\ phase \in [Deliveries -> Phases]
      /\ errors \in [Deliveries -> {0, 1}] /\ errors' \in [Deliveries -> {0, 1}]
  BY DEF TypeInv, TypeOK, DeliveryTypes
<1> SUFFICES ASSUME NEW d \in Deliveries, phase'[d] = "failed"
             PROVE  errors'[d] = 1 \/ d[2] \notin profiles
  BY DEF FailuresAreRecorded
<1>2. CASE d # <<m, b>>
  BY <1>1, <1>2 DEF FailuresAreRecorded
<1>3. CASE d = <<m, b>>
  BY <1>1, <1>3
<1> QED BY <1>2, <1>3

LEMMA FailuresNext == TypeInv /\ FailuresAreRecorded /\ [Next]_vars => FailuresAreRecorded'
<1> SUFFICES ASSUME TypeInv, FailuresAreRecorded, [Next]_vars PROVE FailuresAreRecorded'
  OBVIOUS
<1>0. TypeInv' BY TypesNext
<1>1. ASSUME NEW m \in Messages, NEW b \in Bots, Deliver(m, b) \/ MiddlewareFinished(m, b)
      PROVE  FailuresAreRecorded'
  <2>1. CASE \/ AlignWritten(m, b) \/ AlignFails(m, b) \/ Follow(m, b)
             \/ Cleared(m, b) \/ ClearFails(m, b)
    <3>1. PICK p : p # "failed" /\ phase' = [phase EXCEPT ![<<m, b>>] = p]
      BY <2>1 DEF AlignWritten, AlignFails, Follow, Cleared, ClearFails, Move
    <3>2. UNCHANGED <<profiles, errors>>
      BY <2>1 DEF AlignWritten, AlignFails, Follow, Cleared, ClearFails, sceneVars
    <3> QED BY <3>1, <3>2, <1>0, FailuresMove
  <2>2. CASE PrepareFails(m, b) \/ DispatchFails(m, b)
    <3>1. /\ phase' = [phase EXCEPT ![<<m, b>>] = "failed"]
          /\ errors' = [errors EXCEPT ![<<m, b>>] = @ + 1]
          /\ UNCHANGED profiles
      BY <2>2 DEF PrepareFails, DispatchFails, Move, sceneVars
    <3> QED BY <3>1, <1>0, FailuresMove
  <2>3. CASE Dispatch(m, b) \/ DispatchUnknown(m, b) \/ EndWindow(m, b)
    <3>1. PICK p : /\ p # "failed" \/ b \notin profiles
                   /\ phase' = [phase EXCEPT ![<<m, b>>] = p]
      BY <2>3 DEF Dispatch, DispatchUnknown, EndWindow, Move
    <3>2. UNCHANGED <<profiles, errors>>
      BY <2>3 DEF Dispatch, DispatchUnknown, EndWindow, sceneVars
    <3> QED BY <3>1, <3>2, <1>0, FailuresMove
  <2> QED BY <1>1, <2>1, <2>2, <2>3 DEF Deliver, Timeout, MiddlewareFinished
<1>2. ASSUME NEW m \in Messages, NEW c \in Conversations, Send(m, c) PROVE FailuresAreRecorded'
  <2>1. PICK R \in Recipients(c) :
          /\ phase' = [d \in Deliveries |->
                         IF d[1] = m /\ d[2] \in R THEN Begun(d[2], c) ELSE phase[d]]
          /\ errors' = [d \in Deliveries |->
                          IF d[1] = m /\ d[2] \in R \ runtime THEN 1 ELSE errors[d]]
    BY <1>2 DEF Send
  <2>2. UNCHANGED profiles BY <1>2 DEF Send
  <2> QED BY <2>1, <2>2 DEF FailuresAreRecorded, Begun
<1>3. ASSUME NEW b \in Bots, DeleteBot(b) PROVE FailuresAreRecorded'
  BY <1>3 DEF DeleteBot, FailuresAreRecorded
<1>4. CASE \/ \E m \in Messages : Return(m) \/ Throw(m)
           \/ \E gone \in SUBSET stored : RemoveMessages(gone)
           \/ StopBots \/ UNCHANGED vars
  BY <1>4 DEF Return, Throw, RemoveMessages, StopBots, vars, sceneVars, FailuresAreRecorded
<1> QED BY <1>1, <1>2, <1>3, <1>4 DEF Next

\* How a delivery ended is told: with its event when the call returned, with one error record
\* when it failed, unless its bot is gone.
THEOREM OutcomesHold == Spec => []OutcomesAreTold
<1>1. Init => FailuresAreRecorded BY DEF Init, FailuresAreRecorded
<1>2. Spec => []FailuresAreRecorded BY <1>1, TypesInit, TypesNext, FailuresNext, PTL DEF Spec
<1>3. ReturnedIsAnnounced /\ FailuresAreRecorded => OutcomesAreTold BY DEF OutcomesAreTold
<1> QED BY <1>2, <1>3, CallsHold, PTL

-----------------------------------------------------------------------------
(***************************************************************************)
(* The assignee of a channel.  While one bot only was ever delivered to in *)
(* a group, what SandboxChannelAssignee remembers of it is what the table  *)
(* says.                                                                   *)
(***************************************************************************)
Sole(b, c) == \A d \in Deliveries : d[2] # b /\ conv[d[1]] = c => phase[d] = "none"

\* What is remembered of a channel is in its table, and is remembered before the dispatch.
AlignedIsAssignee ==
  \A b \in Bots, c \in Groups : Sole(b, c) /\ <<b, c>> \in aligned => assignee[c] = b
AlignedBeforeDispatch ==
  \A d \in Deliveries :
    /\ phase[d] \in {"aligned", "clearing", "ready", "handling"}
    /\ conv[d[1]] \in Groups /\ d \notin missed
    => <<d[2], conv[d[1]]>> \in aligned

\* So at its dispatch a sole bot is the assignee.
AssigneeInv == TypeInv /\ AlignedIsAssignee /\ AlignedBeforeDispatch

LEMMA AssigneeSend ==
  ASSUME AssigneeInv, NEW m \in Messages, NEW c \in Conversations, Send(m, c)
  PROVE  AlignedIsAssignee' /\ AlignedBeforeDispatch'
<1>1. /\ \A n \in Messages \ {m} : conv'[n] = conv[n]
      /\ conv'[m] = c
      /\ \A d \in Deliveries : d[1] # m => phase'[d] = phase[d]
      /\ \A d \in Deliveries :
           d[1] = m => phase[d] = "none" /\ phase'[d] \in {"none", "failed", "writing", "aligned"}
      /\ \A d \in Deliveries :
           d[1] = m /\ phase'[d] = "aligned" /\ c \in Groups => <<d[2], c>> \in aligned
  BY SendFrame DEF AssigneeInv
<1>2. UNCHANGED <<aligned, assignee, missed>> BY DEF Send, alignVars
<1>3. \A d \in Deliveries : d[1] \in Messages BY DEF Deliveries
<1>4. \A b \in Bots, g \in Groups : Sole(b, g)' => Sole(b, g)
  BY <1>1, <1>3 DEF Sole
<1>5. AlignedIsAssignee' BY <1>2, <1>4 DEF AssigneeInv, AlignedIsAssignee
<1>6. AlignedBeforeDispatch'
  <2> SUFFICES ASSUME NEW d \in Deliveries,
                      phase'[d] \in {"aligned", "clearing", "ready", "handling"},
                      conv'[d[1]] \in Groups, d \notin missed
               PROVE  <<d[2], conv'[d[1]]>> \in aligned
    BY <1>2 DEF AlignedBeforeDispatch
  <2>1. CASE d[1] = m BY <2>1, <1>1
  <2>2. CASE d[1] # m
    BY <2>2, <1>1, <1>3 DEF AssigneeInv, AlignedBeforeDispatch
  <2> QED BY <2>1, <2>2
<1> QED BY <1>5, <1>6

\* The steps that leave the table alone.
LEMMA AssigneeStays ==
  ASSUME AssigneeInv, NEW m \in Messages, NEW b \in Bots,
         NEW from \in {"writing", "aligned", "clearing", "ready", "handling"}, NEW to, to # "none",
         from = "writing" => <<m, b>> \in missed',
         Move(<<m, b>>, from, to), missed \subseteq missed',
         aligned' = aligned, assignee' = assignee, conv' = conv
  PROVE  AlignedIsAssignee' /\ AlignedBeforeDispatch'
<1>1. /\ phase[<<m, b>>] = from /\ phase' = [phase EXCEPT ![<<m, b>>] = to]
      /\ phase \in [Deliveries -> Phases] /\ <<m, b>> \in Deliveries
  BY DEF Move, AssigneeInv, TypeInv, TypeOK, DeliveryTypes, Deliveries
<1>2. \A o \in Bots, g \in Groups : Sole(o, g)' => Sole(o, g)
  BY <1>1 DEF Sole
<1>3. AlignedIsAssignee' BY <1>2 DEF AssigneeInv, AlignedIsAssignee
<1>4. AlignedBeforeDispatch'
  <2> SUFFICES ASSUME NEW d \in Deliveries,
                      phase'[d] \in {"aligned", "clearing", "ready", "handling"},
                      conv[d[1]] \in Groups, d \notin missed'
               PROVE  <<d[2], conv[d[1]]>> \in aligned
    BY DEF AlignedBeforeDispatch
  <2>1. phase[d] \in {"aligned", "clearing", "ready", "handling"} BY <1>1
  <2> QED BY <2>1 DEF AssigneeInv, AlignedBeforeDispatch
<1> QED BY <1>3, <1>4

\* The write: another bot would have been delivered to as well, so none is alone.
LEMMA AssigneeWritten ==
  ASSUME AssigneeInv, NEW m \in Messages, NEW b \in Bots, AlignWritten(m, b)
  PROVE  AlignedIsAssignee' /\ AlignedBeforeDispatch'
<1>1. /\ phase[<<m, b>>] = "writing" /\ phase' = [phase EXCEPT ![<<m, b>>] = "aligned"]
      /\ assignee' = [assignee EXCEPT ![conv[m]] = b] /\ aligned' = aligned \cup {<<b, conv[m]>>}
      /\ conv' = conv /\ missed' = missed /\ <<m, b>> \in Deliveries
  BY DEF AlignWritten, Move, Deliveries
<1>2. /\ phase \in [Deliveries -> Phases] /\ assignee \in [Groups -> Bots \cup {Stranger}]
      /\ conv[m] \in Groups
  BY <1>1 DEF AssigneeInv, TypeInv, TypeOK, DeliveryTypes, FollowTypes, WritesAreOfGroups
<1>3. AlignedIsAssignee'
  <2> SUFFICES ASSUME NEW o \in Bots, NEW g \in Groups, Sole(o, g)', <<o, g>> \in aligned'
               PROVE  assignee'[g] = o
    BY DEF AlignedIsAssignee
  <2>1. CASE g = conv[m]
    <3>1. o = b BY <2>1, <1>1, <1>2 DEF Sole
    <3> QED BY <2>1, <3>1, <1>1, <1>2
  <2>2. CASE g # conv[m]
    <3>1. Sole(o, g) BY <1>1, <1>2 DEF Sole
    <3>2. <<o, g>> \in aligned BY <2>2, <1>1
    <3> QED BY <3>1, <3>2, <2>2, <1>1, <1>2 DEF AssigneeInv, AlignedIsAssignee
  <2> QED BY <2>1, <2>2
<1>4. AlignedBeforeDispatch' BY <1>1, <1>2 DEF AssigneeInv, AlignedBeforeDispatch
<1> QED BY <1>3, <1>4

LEMMA AssigneeNext ==
  ASSUME AssigneeInv, [Next]_vars
  PROVE  AlignedIsAssignee' /\ AlignedBeforeDispatch'
<1> DEFINE Goal == AlignedIsAssignee' /\ AlignedBeforeDispatch'
<1>1. ASSUME NEW m \in Messages, NEW b \in Bots, Deliver(m, b) \/ MiddlewareFinished(m, b)
      PROVE  Goal
  <2>1. CASE AlignFails(m, b)
    BY <2>1, AssigneeStays DEF AlignFails
  <2>2. CASE Follow(m, b) \/ Cleared(m, b) \/ ClearFails(m, b)
    BY <2>2, AssigneeStays DEF Follow, Cleared, ClearFails, alignVars
  <2>3. CASE \/ PrepareFails(m, b) \/ Dispatch(m, b) \/ DispatchUnknown(m, b)
             \/ DispatchFails(m, b) \/ EndWindow(m, b)
    BY <2>3, AssigneeStays
    DEF PrepareFails, Dispatch, DispatchUnknown, DispatchFails, EndWindow, alignVars
  <2> QED BY <1>1, <2>1, <2>2, <2>3, AssigneeWritten DEF Deliver, Timeout, MiddlewareFinished
<1>2. CASE \/ \E m \in Messages : Return(m) \/ Throw(m)
           \/ \E gone \in SUBSET stored : RemoveMessages(gone)
           \/ \E b \in Bots : DeleteBot(b)
           \/ StopBots \/ UNCHANGED vars
  <2>1. UNCHANGED <<conv, phase, aligned, assignee, missed>>
    BY <1>2 DEF Return, Throw, RemoveMessages, DeleteBot, StopBots, vars, alignVars
  <2> QED BY <2>1 DEF AssigneeInv, AlignedIsAssignee, AlignedBeforeDispatch, Sole
<1> QED BY <1>1, <1>2, AssigneeSend DEF Next

\* SoleBotIsAssignee: neither a stale row nor an earlier failed write keeps the only bot of a
\* group from being its assignee when a plugin sees the event.
THEOREM AssigneeHolds == Spec => []SoleBotIsAssignee
<1>1. Init => AssigneeInv
  <2>1. Init => AlignedIsAssignee BY DEF Init, AlignedIsAssignee
  <2>2. Init => AlignedBeforeDispatch BY DEF Init, AlignedBeforeDispatch
  <2> QED BY <2>1, <2>2, TypesInit DEF AssigneeInv
<1>2. AssigneeInv /\ [Next]_vars => AssigneeInv' BY AssigneeNext, TypesNext DEF AssigneeInv
<1>3. ASSUME AssigneeInv PROVE SoleBotIsAssignee
  <2> SUFFICES ASSUME NEW m \in Messages, NEW b \in Bots, phase[<<m, b>>] = "handling",
                      conv[m] \in Groups, <<m, b>> \notin missed, Sole(b, conv[m])
               PROVE  assignee[conv[m]] = b
    BY DEF SoleBotIsAssignee, Sole
  <2>1. <<m, b>> \in Deliveries BY DEF Deliveries
  <2>2. <<b, conv[m]>> \in aligned BY <1>3, <2>1 DEF AssigneeInv, AlignedBeforeDispatch
  <2> QED BY <1>3, <2>2 DEF AssigneeInv, AlignedIsAssignee
<1> QED BY <1>1, <1>2, <1>3, PTL DEF Spec

-----------------------------------------------------------------------------
(***************************************************************************)
(* The context of a key whose messages were handled one at a time: it is   *)
(* that of the conversation its one bot was last told of, but for the time *)
(* the plugin is clearing it.                                              *)
(***************************************************************************)
Active(d) == phase[d] \in {"clearing", "ready", "handling"}
\* The key a delivery is filed under.
KeyOf(d) == SessionKey[conv[d[1]]]

\* An unmixed key knows one bot, has one delivery at a time, and that one was told last.
OneBotPerKey ==
  \A k \in Keys \ mixed, a, b \in Bots :
    last[<<a, k>>] # NoConversation /\ last[<<b, k>>] # NoConversation => a = b
OneAtATime ==
  \A d, e \in Deliveries : Active(d) /\ Active(e) /\ KeyOf(d) = KeyOf(e) /\ KeyOf(d) \notin mixed => d = e
ActiveIsLast ==
  \A d \in Deliveries :
    Active(d) /\ KeyOf(d) \notin mixed => last[<<d[2], KeyOf(d)>>] = conv[d[1]]
\* But while it is being cleared, its context is that of the last conversation.
ContextIsLast ==
  \A k \in Keys \ mixed :
    (\A d \in Deliveries : ~(phase[d] = "clearing" /\ KeyOf(d) = k)) =>
      \A c \in context[k] : \E b \in Bots : last[<<b, k>>] = c

\* Together these give the context of a delivery that is handled.
ContextInv == TypeInv /\ OneBotPerKey /\ OneAtATime /\ ActiveIsLast /\ ContextIsLast

\* An active delivery is of a message sent.
LEMMA ActiveTypes ==
  ASSUME TypeInv, NEW d \in Deliveries, Active(d)
  PROVE  d[1] \in Sent /\ d[2] \in Bots /\ conv[d[1]] \in Conversations /\ KeyOf(d) \in Keys
<1>1. phase[d] # "none" BY DEF Active
<1>2. d[1] \in Sent BY <1>1 DEF TypeInv, TypeOK, DeliveryTypes
<1>3. conv[d[1]] \in Conversations BY <1>2 DEF TypeInv, TypeOK, DeliveryTypes, Sent
<1> QED BY <1>2, <1>3 DEF Deliveries, KeyOf, Keys

\* Steps after which nothing new is active: what is, was, and the context is left alone.
LEMMA ContextStays ==
  ASSUME ContextInv, UNCHANGED followVars,
         \A d \in Deliveries : Active(d)' => Active(d),
         \A d \in Deliveries : Active(d) => KeyOf(d)' = KeyOf(d) /\ conv'[d[1]] = conv[d[1]],
         \A d \in Deliveries : phase[d] = "clearing" => phase'[d] = "clearing"
  PROVE  OneBotPerKey' /\ OneAtATime' /\ ActiveIsLast' /\ ContextIsLast'
<1> USE DEF ContextInv, followVars
<1>1. OneBotPerKey' BY DEF OneBotPerKey
<1>2. OneAtATime'
  <2> SUFFICES ASSUME NEW d \in Deliveries, NEW e \in Deliveries, Active(d)', Active(e)',
                      KeyOf(d)' = KeyOf(e)', KeyOf(d)' \notin mixed
               PROVE  d = e
    BY DEF OneAtATime
  <2> QED BY DEF OneAtATime
<1>3. ActiveIsLast'
  <2> SUFFICES ASSUME NEW d \in Deliveries, Active(d)', KeyOf(d)' \notin mixed
               PROVE  last[<<d[2], KeyOf(d)'>>] = conv'[d[1]]
    BY DEF ActiveIsLast
  <2> QED BY DEF ActiveIsLast
<1>4. ContextIsLast'
  <2> SUFFICES ASSUME NEW k \in Keys \ mixed,
                      \A d \in Deliveries : ~(phase'[d] = "clearing" /\ KeyOf(d)' = k)
               PROVE  \A c \in context[k] : \E b \in Bots : last[<<b, k>>] = c
    BY DEF ContextIsLast
  <2>1. \A d \in Deliveries : ~(phase[d] = "clearing" /\ KeyOf(d) = k) BY DEF Active
  <2> QED BY <2>1 DEF ContextIsLast
<1> QED BY <1>1, <1>2, <1>3, <1>4

\* The conversation is remembered, and the plugin may have to be asked to clear.
LEMMA ContextFollow ==
  ASSUME ContextInv, NEW m \in Messages, NEW b \in Bots, Follow(m, b)
  PROVE  OneBotPerKey' /\ OneAtATime' /\ ActiveIsLast' /\ ContextIsLast'
<1> DEFINE c == conv[m]
           k == SessionKey[conv[m]]
           dd == <<m, b>>
<1>1. /\ dd \in Deliveries /\ phase[dd] = "aligned"
      /\ phase' = [phase EXCEPT ![dd] = IF Switches(last[<<b, k>>], c) THEN "clearing" ELSE "ready"]
      /\ last' = [last EXCEPT ![<<b, k>>] = c]
      /\ mixed' = IF Shared(m, b) THEN mixed \cup {k} ELSE mixed
      /\ conv' = conv /\ context' = context
  BY DEF Follow, Move, Deliveries
<1>2. /\ phase \in [Deliveries -> Phases] /\ last \in [Bots \X Keys -> Conversations \cup {NoConversation}]
      /\ c \in Conversations /\ k \in Keys /\ context \in [Keys -> SUBSET Conversations]
  BY <1>1 DEF ContextInv, TypeInv, TypeOK, DeliveryTypes, FollowTypes, Sent, Keys
<1>3. KeyOf(dd) = k /\ \A d \in Deliveries : KeyOf(d)' = KeyOf(d) BY <1>1 DEF KeyOf
<1>4. \A d \in Deliveries : d # dd => phase'[d] = phase[d] /\ (Active(d)' <=> Active(d))
  BY <1>1, <1>2 DEF Active
<1>5. \A o \in Bots, x \in Keys : <<o, x>> # <<b, k>> => last'[<<o, x>>] = last[<<o, x>>]
  BY <1>1, <1>2
<1>6. last'[<<b, k>>] = c BY <1>1, <1>2
<1>7. ASSUME k \notin mixed'
      PROVE  /\ \A d \in Deliveries : d # dd /\ KeyOf(d) = k => ~Active(d)
             /\ \A o \in Bots \ {b} : last[<<o, k>>] = NoConversation
             /\ k \notin mixed
  BY <1>1, <1>7 DEF Shared, Active, KeyOf
<1>8. mixed \subseteq mixed' BY <1>1
<1>9. OneBotPerKey'
  <2> SUFFICES ASSUME NEW x \in Keys \ mixed', NEW o \in Bots, NEW p \in Bots,
                      last'[<<o, x>>] # NoConversation, last'[<<p, x>>] # NoConversation
               PROVE  o = p
    BY DEF OneBotPerKey
  <2>1. CASE x = k BY <2>1, <1>5, <1>7
  <2>2. CASE x # k
    <3>1. last'[<<o, x>>] = last[<<o, x>>] /\ last'[<<p, x>>] = last[<<p, x>>] BY <2>2, <1>5
    <3> QED BY <3>1, <1>8 DEF ContextInv, OneBotPerKey
  <2> QED BY <2>1, <2>2
<1>10. OneAtATime'
  <2> SUFFICES ASSUME NEW d \in Deliveries, NEW e \in Deliveries, Active(d)', Active(e)',
                      KeyOf(d) = KeyOf(e), KeyOf(d) \notin mixed'
               PROVE  d = e
    BY <1>3 DEF OneAtATime
  <2>1. CASE KeyOf(d) = k BY <2>1, <1>4, <1>7
  <2>2. CASE KeyOf(d) # k
    <3>1. Active(d) /\ Active(e) /\ KeyOf(d) \notin mixed BY <2>2, <1>3, <1>4, <1>8
    <3> QED BY <3>1 DEF ContextInv, OneAtATime
  <2> QED BY <2>1, <2>2
<1>11. ActiveIsLast'
  <2> SUFFICES ASSUME NEW d \in Deliveries, Active(d)', KeyOf(d) \notin mixed'
               PROVE  last'[<<d[2], KeyOf(d)>>] = conv[d[1]]
    BY <1>1, <1>3 DEF ActiveIsLast
  <2>1. CASE d = dd BY <2>1, <1>3, <1>6
  <2>2. CASE d # dd
    <3>1. Active(d) /\ KeyOf(d) \notin mixed /\ KeyOf(d) # k BY <2>2, <1>4, <1>7, <1>8
    <3>2. d[2] \in Bots /\ KeyOf(d) \in Keys BY <3>1, ActiveTypes DEF ContextInv
    <3>3. last'[<<d[2], KeyOf(d)>>] = last[<<d[2], KeyOf(d)>>] BY <3>1, <3>2, <1>5
    <3> QED BY <3>1, <3>3 DEF ContextInv, ActiveIsLast
  <2> QED BY <2>1, <2>2
<1>12. ContextIsLast'
  <2> SUFFICES ASSUME NEW x \in Keys \ mixed',
                      \A d \in Deliveries : ~(phase'[d] = "clearing" /\ KeyOf(d) = x),
                      NEW y \in context[x]
               PROVE  \E o \in Bots : last'[<<o, x>>] = y
    BY <1>1, <1>3 DEF ContextIsLast
  <2>1. \A d \in Deliveries : ~(phase[d] = "clearing" /\ KeyOf(d) = x)
    BY <1>1, <1>4
  <2>2. PICK o \in Bots : last[<<o, x>>] = y
    BY <2>1, <1>8 DEF ContextInv, ContextIsLast
  <2>3. CASE <<o, x>> # <<b, k>> BY <2>2, <2>3, <1>5
  <2>4. CASE <<o, x>> = <<b, k>>
    <3>1. y \in Conversations BY <1>2
    <3>2. phase'[dd] # "clearing" BY <2>4, <1>3, <1>1
    <3>3. ~Switches(last[<<b, k>>], c) BY <3>2, <1>1, <1>2
    <3>4. y = c BY <2>2, <2>4, <3>1, <3>3 DEF Switches
    <3> QED BY <2>4, <3>4, <1>6
  <2> QED BY <2>3, <2>4
<1> QED BY <1>9, <1>10, <1>11, <1>12

\* The plugin has cleared the context, or has failed to.
LEMMA ContextCleared ==
  ASSUME ContextInv, NEW m \in Messages, NEW b \in Bots, Cleared(m, b) \/ ClearFails(m, b)
  PROVE  OneBotPerKey' /\ OneAtATime' /\ ActiveIsLast' /\ ContextIsLast'
<1> DEFINE k == SessionKey[conv[m]]
           dd == <<m, b>>
<1>1. /\ dd \in Deliveries /\ phase[dd] = "clearing" /\ phase' = [phase EXCEPT ![dd] = "ready"]
      /\ last' = last /\ conv' = conv
      /\ \/ context' = [context EXCEPT ![k] = {}] /\ mixed' = mixed
         \/ context' = context /\ mixed' = mixed \cup {k}
  BY DEF Cleared, ClearFails, Move, Deliveries
<1>2. /\ phase \in [Deliveries -> Phases] /\ context \in [Keys -> SUBSET Conversations]
  BY DEF ContextInv, TypeInv, TypeOK, DeliveryTypes, FollowTypes
<1>3. KeyOf(dd) = k /\ \A d \in Deliveries : KeyOf(d)' = KeyOf(d) BY <1>1 DEF KeyOf
<1>4. \A d \in Deliveries : Active(d)' <=> Active(d) BY <1>1, <1>2 DEF Active
<1>5. mixed \subseteq mixed' BY <1>1
<1>6. OneBotPerKey' BY <1>1, <1>5 DEF ContextInv, OneBotPerKey
<1>7. OneAtATime' BY <1>3, <1>4, <1>5 DEF ContextInv, OneAtATime
<1>8. ActiveIsLast'
  <2> SUFFICES ASSUME NEW d \in Deliveries, Active(d), KeyOf(d) \notin mixed
               PROVE  last[<<d[2], KeyOf(d)>>] = conv[d[1]]
    BY <1>1, <1>3, <1>4, <1>5 DEF ActiveIsLast
  <2> QED BY DEF ContextInv, ActiveIsLast
<1>9. ContextIsLast'
  <2> SUFFICES ASSUME NEW x \in Keys \ mixed',
                      \A d \in Deliveries : ~(phase'[d] = "clearing" /\ KeyOf(d) = x),
                      NEW y \in context'[x]
               PROVE  \E o \in Bots : last[<<o, x>>] = y
    BY <1>1, <1>3 DEF ContextIsLast
  <2>1. x # k BY <1>1, <1>2
  <2>2. \A d \in Deliveries : ~(phase[d] = "clearing" /\ KeyOf(d) = x)
    BY <2>1, <1>1, <1>2, <1>3
  <2>3. context'[x] = context[x] BY <2>1, <1>1, <1>2
  <2> QED BY <2>2, <2>3, <1>5 DEF ContextInv, ContextIsLast
<1> QED BY <1>6, <1>7, <1>8, <1>9

\* The event reaches the plugin, which files it under the key.
LEMMA ContextDispatch ==
  ASSUME ContextInv, NEW m \in Messages, NEW b \in Bots, Dispatch(m, b)
  PROVE  OneBotPerKey' /\ OneAtATime' /\ ActiveIsLast' /\ ContextIsLast'
<1> DEFINE k == SessionKey[conv[m]]
           dd == <<m, b>>
<1>1. /\ dd \in Deliveries /\ phase[dd] = "ready" /\ phase' = [phase EXCEPT ![dd] = "handling"]
      /\ last' = last /\ conv' = conv /\ mixed' = mixed
      /\ context' = [context EXCEPT ![k] = @ \cup {conv[m]}]
  BY DEF Dispatch, Move, Deliveries
<1>2. /\ phase \in [Deliveries -> Phases] /\ context \in [Keys -> SUBSET Conversations]
  BY DEF ContextInv, TypeInv, TypeOK, DeliveryTypes, FollowTypes
<1>3. KeyOf(dd) = k /\ \A d \in Deliveries : KeyOf(d)' = KeyOf(d) BY <1>1 DEF KeyOf
<1>4. \A d \in Deliveries : Active(d)' <=> Active(d) BY <1>1, <1>2 DEF Active
<1>5. OneBotPerKey' BY <1>1 DEF ContextInv, OneBotPerKey
<1>6. OneAtATime' BY <1>1, <1>3, <1>4 DEF ContextInv, OneAtATime
<1>7. ActiveIsLast'
  <2> SUFFICES ASSUME NEW d \in Deliveries, Active(d), KeyOf(d) \notin mixed
               PROVE  last[<<d[2], KeyOf(d)>>] = conv[d[1]]
    BY <1>1, <1>3, <1>4 DEF ActiveIsLast
  <2> QED BY DEF ContextInv, ActiveIsLast
<1>8. ContextIsLast'
  <2> SUFFICES ASSUME NEW x \in Keys \ mixed',
                      \A d \in Deliveries : ~(phase'[d] = "clearing" /\ KeyOf(d)' = x),
                      NEW y \in context'[x]
               PROVE  \E o \in Bots : last'[<<o, x>>] = y
    BY DEF ContextIsLast
  <2>1. \A d \in Deliveries : ~(phase[d] = "clearing" /\ KeyOf(d) = x)
    BY <1>1, <1>2, <1>3
  <2>2. CASE y \in context[x] BY <2>1, <2>2, <1>1 DEF ContextInv, ContextIsLast
  <2>3. CASE y \notin context[x]
    <3>1. x = k /\ y = conv[m] BY <2>3, <1>1, <1>2
    <3>2. Active(dd) BY <1>1 DEF Active
    <3>3. last[<<dd[2], KeyOf(dd)>>] = conv[dd[1]]
      BY <3>1, <3>2, <1>1, <1>3 DEF ContextInv, ActiveIsLast
    <3>4. last[<<b, k>>] = conv[m] BY <3>3, <1>3
    <3> QED BY <3>1, <3>4, <1>1
  <2> QED BY <2>2, <2>3
<1> QED BY <1>5, <1>6, <1>7, <1>8

LEMMA ContextNext ==
  ASSUME ContextInv, [Next]_vars
  PROVE  OneBotPerKey' /\ OneAtATime' /\ ActiveIsLast' /\ ContextIsLast'
<1> DEFINE Goal == OneBotPerKey' /\ OneAtATime' /\ ActiveIsLast' /\ ContextIsLast'
<1>1. phase \in [Deliveries -> Phases] BY DEF ContextInv, TypeInv, TypeOK, DeliveryTypes
<1>2. ASSUME NEW m \in Messages, NEW b \in Bots, NEW from, from # "clearing",
             NEW to, to \notin {"clearing", "ready", "handling"},
             Move(<<m, b>>, from, to), conv' = conv, (UNCHANGED followVars)
      PROVE  Goal
  <2>1. \A d \in Deliveries :
          /\ Active(d)' => Active(d)
          /\ phase[d] = "clearing" => phase'[d] = "clearing"
    BY <1>1, <1>2 DEF Active, Move
  <2> QED BY <1>2, <2>1, ContextStays DEF KeyOf
<1>3. ASSUME NEW m \in Messages, NEW b \in Bots,
             \/ AlignWritten(m, b) \/ AlignFails(m, b) \/ PrepareFails(m, b) \/ DispatchUnknown(m, b)
             \/ DispatchFails(m, b) \/ EndWindow(m, b)
      PROVE  Goal
  <2>1. CASE AlignWritten(m, b) \/ AlignFails(m, b) BY <2>1, <1>2 DEF AlignWritten, AlignFails
  <2>2. CASE PrepareFails(m, b) \/ DispatchUnknown(m, b)
    BY <2>2, <1>2 DEF PrepareFails, DispatchUnknown
  <2>3. CASE DispatchFails(m, b) \/ EndWindow(m, b) BY <2>3, <1>2 DEF DispatchFails, EndWindow
  <2> QED BY <1>3, <2>1, <2>2, <2>3
<1>4. ASSUME NEW m \in Messages, NEW c \in Conversations, Send(m, c) PROVE Goal
  <2>1. UNCHANGED followVars BY <1>4 DEF Send
  <2>2. ASSUME NEW d \in Deliveries
        PROVE  /\ Active(d)' => Active(d)
               /\ Active(d) => KeyOf(d)' = KeyOf(d) /\ conv'[d[1]] = conv[d[1]]
               /\ phase[d] = "clearing" => phase'[d] = "clearing"
    <3>1. d[1] \in Messages BY DEF Deliveries
    <3>2. CASE d[1] = m
      <4>1. phase[d] = "none" /\ phase'[d] \in {"none", "failed", "writing", "aligned"}
        BY <1>4, <3>2, SendFrame DEF ContextInv
      <4> QED BY <4>1 DEF Active
    <3>3. CASE d[1] # m
      <4>1. phase'[d] = phase[d] /\ conv'[d[1]] = conv[d[1]]
        BY <1>4, <3>1, <3>3, SendFrame DEF ContextInv
      <4> QED BY <4>1 DEF Active, KeyOf
    <3> QED BY <3>2, <3>3
  <2> QED BY <2>1, <2>2, ContextStays
<1>5. CASE \/ \E m \in Messages : Return(m) \/ Throw(m)
           \/ \E gone \in SUBSET stored : RemoveMessages(gone)
           \/ \E b \in Bots : DeleteBot(b)
           \/ StopBots \/ UNCHANGED vars
  <2>1. UNCHANGED <<conv, phase, followVars>>
    BY <1>5 DEF Return, Throw, RemoveMessages, DeleteBot, StopBots, vars, followVars
  <2>2. \A d \in Deliveries : (Active(d)' <=> Active(d)) /\ KeyOf(d)' = KeyOf(d)
    BY <2>1 DEF Active, KeyOf
  <2> QED BY <2>1, <2>2, ContextStays
<1> QED BY <1>3, <1>4, <1>5, ContextFollow, ContextCleared, ContextDispatch
        DEF Next, Deliver, Timeout, MiddlewareFinished

\* ContextIsOfConversation: what the plugin knows when it handles a message is of the
\* conversation of that message, for any number of switches between root and instances.
THEOREM ContextHolds == Spec => []ContextIsOfConversation
<1>1. Init => ContextInv
  <2> SUFFICES ASSUME Init PROVE ContextInv OBVIOUS
  <2>1. \A d \in Deliveries : ~Active(d) BY DEF Init, Active
  <2>2. OneBotPerKey
    BY DEF Init, OneBotPerKey
  <2>3. ContextIsLast BY DEF Init, ContextIsLast
  <2> QED BY <2>1, <2>2, <2>3, TypesInit DEF ContextInv, OneAtATime, ActiveIsLast
<1>2. ContextInv /\ [Next]_vars => ContextInv' BY ContextNext, TypesNext DEF ContextInv
<1>3. ASSUME ContextInv PROVE ContextIsOfConversation
  <2> SUFFICES ASSUME NEW d \in Deliveries, phase[d] = "handling", KeyOf(d) \notin mixed,
                      NEW y \in context[KeyOf(d)]
               PROVE  y = conv[d[1]]
    BY DEF ContextIsOfConversation, KeyOf
  <2>1. Active(d) BY DEF Active
  <2>2. KeyOf(d) \in Keys /\ d[2] \in Bots /\ conv[d[1]] \in Conversations
    BY <1>3, <2>1, ActiveTypes DEF ContextInv
  <2>3. \A e \in Deliveries : ~(phase[e] = "clearing" /\ KeyOf(e) = KeyOf(d))
    BY <1>3, <2>1 DEF ContextInv, OneAtATime, Active
  <2>4. PICK o \in Bots : last[<<o, KeyOf(d)>>] = y
    BY <1>3, <2>2, <2>3 DEF ContextInv, ContextIsLast
  <2>5. y \in Conversations
    BY <1>3, <2>2 DEF ContextInv, TypeInv, TypeOK, FollowTypes
  <2>6. last[<<d[2], KeyOf(d)>>] = conv[d[1]] BY <1>3, <2>1 DEF ContextInv, ActiveIsLast
  <2>7. o = d[2] BY <1>3, <2>2, <2>4, <2>5, <2>6 DEF ContextInv, OneBotPerKey
  <2> QED BY <2>4, <2>6, <2>7
<1> QED BY <1>1, <1>2, <1>3, PTL DEF Spec
=============================================================================
