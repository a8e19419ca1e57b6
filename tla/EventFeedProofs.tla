-------------------------- MODULE EventFeedProofs --------------------------
(***************************************************************************)
(* Proofs about the event feed: the ring is the tail of the epoch's log,   *)
(* and a wait that is not overrun misses nothing.                          *)
(***************************************************************************)
EXTENDS EventFeed, TLAPS

(* Epochs that have not begun have no events. *)
LogOK == \A e \in 1..MaxEpoch : e > epoch => log[e] = << >>

(* A wait only moves forward, never past what has happened. *)
CursorOK ==
  \A w \in Waits :
    /\ start[w].epoch <= cur[w].epoch /\ cur[w].epoch <= epoch
    /\ cur[w].seq <= Len(log[cur[w].epoch])
    /\ start[w].epoch = cur[w].epoch => start[w].seq <= cur[w].seq
    /\ phase[w] = "idle" => found[w] = {}

(* What waitFor checked before it began to poll still holds, unless the ring has
   overtaken the wait. *)
RingIsAhead ==
  \A w \in Waits :
    phase[w] = "waiting" /\ cur[w].epoch = epoch /\ ~ overrun[w] => ~ Behind(cur[w])

\* What holds of the feed alone, and of the waits beside it.
RingInv == FeedTypes /\ RingIsTheTail /\ LogOK
WaitInv == WaitTypes /\ CursorOK /\ RingIsAhead /\ WaitIsComplete
IInv == RingInv /\ WaitInv

-----------------------------------------------------------------------------
(* What the splice leaves: the last elements, at most Limit of them. *)
LEMMA KeptIsTheEnd ==
  ASSUME NEW S, NEW n \in Nat, n <= Limit, NEW s \in Seq(S), Len(s) = n + 1,
         NEW t, t = Kept(s)
  PROVE  /\ t \in Seq(S)
         /\ Len(t) = IF n + 1 > Limit THEN Limit ELSE n + 1
         /\ \A i \in 1..Len(t) : t[i] = s[n + 1 - Len(t) + i]
<1> USE FeedAssumption
<1>1. CASE n + 1 > Limit
  <2>1. t = SubSeq(s, 2, Limit + 1) /\ n = Limit
    BY <1>1 DEF Kept
  <2>2. SubSeq(s, 2, Limit + 1) \in Seq(S)
    BY <2>1
  <2>3. Len(SubSeq(s, 2, Limit + 1)) = Limit
    BY <2>1
  <2>4. \A i \in 1..Limit : SubSeq(s, 2, Limit + 1)[i] = s[1 + i]
    BY <2>1
  <2> QED BY <2>1, <2>2, <2>3, <2>4
<1>2. CASE ~ (n + 1 > Limit)
  <2>1. t = s
    BY <1>2 DEF Kept
  <2> QED BY <1>2, <2>1
<1> QED BY <1>1, <1>2

(* Where an event of the ring stands: its sequence number counts back from the
   last one. *)
LEMMA RingPlaces ==
  ASSUME FeedTypes, RingIsTheTail, NEW i \in DOMAIN events
  PROVE  /\ i \in 1..Len(events)
         /\ events[i].cursor.epoch = epoch
         /\ events[i].cursor.seq = sequence - Len(events) + i
         /\ events[i].kind = log[epoch][sequence - Len(events) + i]
<1>1. i \in 1..Len(events)
  BY DEF FeedTypes
<1>2. events[i] = [cursor |-> Cursor(epoch, sequence - Len(events) + i),
                   kind |-> log[epoch][sequence - Len(events) + i]]
  BY DEF RingIsTheTail
<1> QED BY <1>1, <1>2 DEF Cursor

(* A cursor the ring has not left: every later event is in the ring. *)
LEMMA NotBehind ==
  ASSUME FeedTypes, RingIsTheTail, NEW c \in Cursors, ~ Behind(c),
         NEW s \in (c.seq + 1)..sequence
  PROVE  /\ s - sequence + Len(events) \in DOMAIN events
         /\ events[s - sequence + Len(events)].cursor.seq = s
         /\ events[s - sequence + Len(events)].kind = log[epoch][s]
<1> USE FeedAssumption
<1> DEFINE n == Len(events)
<1>1. n \in Nat /\ sequence \in Nat /\ c.seq \in Nat /\ s \in Nat
  BY DEF FeedTypes, Cursors
<1>2. n = IF sequence < Limit THEN sequence ELSE Limit
  BY DEF RingIsTheTail
<1>3. DOMAIN events = 1..n
  BY DEF FeedTypes
<1>4. n # 0 /\ events # << >>
  BY <1>1, <1>2, <1>3
<1>5. 1 \in DOMAIN events
  BY <1>1, <1>3, <1>4
<1>6. events[1].cursor.seq = sequence - n + 1
  BY <1>5, RingPlaces
<1>7. ~ (c.seq < events[1].cursor.seq - 1)
  BY <1>4 DEF Behind
<1>8. s - sequence + n \in 1..n
  BY <1>1, <1>6, <1>7
<1>9. s - sequence + n \in DOMAIN events
  BY <1>3, <1>8
<1>10. sequence - n + (s - sequence + n) = s
  BY <1>1
<1> QED BY <1>9, <1>10, RingPlaces

-----------------------------------------------------------------------------
LEMMA InitInv == Init => IInv
<1> SUFFICES ASSUME Init PROVE IInv
  OBVIOUS
<1> USE FeedAssumption
<1>1. FeedTypes
  BY DEF Init, FeedTypes
<1>2. RingIsTheTail
  <2>1. log[epoch] = << >> /\ events = << >> /\ sequence = 0
    BY DEF Init
  <2>2. Len(log[epoch]) = 0 /\ Len(events) = 0 /\ DOMAIN events = {}
    BY <2>1
  <2> QED BY <2>1, <2>2 DEF RingIsTheTail
<1>3. LogOK
  BY DEF Init, LogOK
<1>4. Cursor(1, 0) \in Cursors /\ CurrentCursor = Cursor(1, 0)
  BY DEF Init, Cursor, Cursors, CurrentCursor
<1>5. WaitTypes
  BY <1>4 DEF Init, WaitTypes
<1>6. CursorOK
  <2>1. \A w \in Waits : /\ cur[w] = Cursor(1, 0) /\ start[w] = Cursor(1, 0)
                         /\ found[w] = {}
    BY <1>4 DEF Init
  <2>2. Cursor(1, 0).epoch = 1 /\ Cursor(1, 0).seq = 0
    BY DEF Cursor
  <2>3. 1 \in 1..MaxEpoch /\ epoch = 1
    BY DEF Init
  <2>4. log[1] = << >>
    BY <2>3 DEF Init
  <2>5. Len(log[1]) = 0
    BY <2>4
  <2>6. \A w \in Waits : /\ cur[w].epoch = 1 /\ start[w].epoch = 1
                         /\ cur[w].seq = 0 /\ start[w].seq = 0 /\ found[w] = {}
    BY <2>1, <2>2
  <2>7. \A w \in Waits : Len(log[cur[w].epoch]) = 0
    BY <2>5, <2>6
  <2> SUFFICES ASSUME NEW w \in Waits
               PROVE  /\ start[w].epoch <= cur[w].epoch /\ cur[w].epoch <= epoch
                      /\ cur[w].seq <= Len(log[cur[w].epoch])
                      /\ start[w].epoch = cur[w].epoch => start[w].seq <= cur[w].seq
                      /\ phase[w] = "idle" => found[w] = {}
    BY DEF CursorOK
  <2>8. start[w].epoch <= cur[w].epoch /\ cur[w].epoch <= epoch
    BY <2>3, <2>6
  <2>9. cur[w].seq <= Len(log[cur[w].epoch]) /\ start[w].seq <= cur[w].seq
    BY <2>6, <2>7
  <2> QED BY <2>6, <2>8, <2>9
<1>7. RingIsAhead
  BY DEF Init, RingIsAhead
<1>8. WaitIsComplete
  BY <1>4 DEF Init, WaitIsComplete, Expected, Cursor, Cursors
<1> QED BY <1>1, <1>2, <1>3, <1>5, <1>6, <1>7, <1>8 DEF IInv, RingInv, WaitInv

-----------------------------------------------------------------------------
(* The feed's steps *)

\* An event pushed and spliced leaves the ring the tail of the log.
LEMMA AppendRing ==
  ASSUME IInv, NEW k \in Kinds, appendEvent(k)
  PROVE  RingInv'
<1> USE FeedAssumption
<1> DEFINE e == [cursor |-> Cursor(epoch, sequence + 1), kind |-> k]
           n == Len(events)
<1>1. /\ sequence < MaxSeq /\ sequence' = sequence + 1 /\ epoch' = epoch
      /\ events' = Kept(Append(events, e))
      /\ log' = [log EXCEPT ![epoch] = Append(@, k)]
  BY DEF appendEvent
<1>2. FeedTypes /\ RingIsTheTail /\ LogOK
  BY DEF IInv, RingInv
<1>3. epoch \in 1..MaxEpoch /\ sequence \in Nat /\ events \in Seq(Events) /\ n \in Nat
      /\ log \in [1..MaxEpoch -> Seq(Kinds)] /\ n <= Limit
  BY <1>2 DEF FeedTypes
<1>4. e \in Events
  BY <1>1, <1>3 DEF Events, Cursor, Cursors
<1>5. Append(events, e) \in Seq(Events) /\ Len(Append(events, e)) = n + 1
  BY <1>3, <1>4
<1>6. /\ events' \in Seq(Events)
      /\ Len(events') = IF n + 1 > Limit THEN Limit ELSE n + 1
      /\ \A i \in 1..Len(events') : events'[i] = Append(events, e)[n + 1 - Len(events') + i]
  <2> DEFINE s == Append(events, e)
  <2>1. /\ n \in Nat /\ n <= Limit
        /\ s \in Seq(Events) /\ Len(s) = n + 1 /\ events' = Kept(s)
    BY <1>1, <1>3, <1>5
  <2> DEFINE r == Kept(s)
  <2> HIDE DEF n, s
  <2>2. /\ r \in Seq(Events)
        /\ Len(r) = IF n + 1 > Limit THEN Limit ELSE n + 1
        /\ \A i \in 1..Len(r) : r[i] = s[n + 1 - Len(r) + i]
    BY <2>1, KeptIsTheEnd
  <2>3. events' = r
    BY <2>1
  <2> HIDE DEF r
  <2>4. Len(events') = IF n + 1 > Limit THEN Limit ELSE n + 1
    BY <2>2, <2>3
  <2>5. ASSUME NEW i \in 1..Len(events')
        PROVE  events'[i] = s[n + 1 - Len(events') + i]
    BY <2>2, <2>3, Zenon
  <2> QED BY <2>2, <2>3, <2>4, <2>5 DEF s
<1>7. log[epoch] \in Seq(Kinds) /\ log'[epoch] = Append(log[epoch], k)
  BY <1>1, <1>3
<1>8. FeedTypes'
  <2>1. log' \in [1..MaxEpoch -> Seq(Kinds)]
    BY <1>1, <1>3, <1>7
  <2>2. sequence' \in 0..MaxSeq
    BY <1>1, <1>2 DEF FeedTypes
  <2>3. Len(events') <= Limit
    BY <1>3, <1>6
  <2> QED BY <1>1, <1>3, <1>6, <2>1, <2>2, <2>3 DEF FeedTypes
<1>9. RingIsTheTail'
  <2>1. sequence = Len(log[epoch]) /\ n = IF sequence < Limit THEN sequence ELSE Limit
    BY <1>2 DEF RingIsTheTail
  <2>2. sequence' = Len(log'[epoch'])
    BY <1>1, <1>7, <2>1
  <2>3. Len(events') = IF sequence' < Limit THEN sequence' ELSE Limit
    BY <1>1, <1>3, <1>6, <2>1
  <2>4. ASSUME NEW i \in 1..Len(events')
        PROVE  events'[i] = [cursor |-> Cursor(epoch, sequence' - Len(events') + i),
                             kind |-> log'[epoch][sequence' - Len(events') + i]]
    <3> DEFINE j == n + 1 - Len(events') + i
    <3>1. j \in 1..(n + 1) /\ i \in Nat /\ Len(events') \in Nat
      BY <1>3, <1>6
    <3>2. sequence' - Len(events') + i = sequence - n + j
      BY <1>1, <1>3, <3>1
    <3>3. events'[i] = Append(events, e)[j]
      BY <1>6
    <3> HIDE DEF j
    <3>4. CASE j = n + 1
      <4>1. Append(events, e)[j] = e
        BY <1>3, <1>4, <3>4
      <4>2. sequence - n + j = sequence + 1
        BY <1>3, <3>1, <3>4
      <4>3. log'[epoch][sequence + 1] = k
        BY <1>7, <2>1
      <4> QED BY <3>2, <3>3, <4>1, <4>2, <4>3
    <3>5. CASE j # n + 1
      <4>1. j \in 1..n
        BY <1>3, <3>1, <3>5
      <4>2. Append(events, e)[j] = events[j]
        BY <1>3, <4>1
      <4>3. j \in DOMAIN events
        BY <1>3, <4>1
      <4>4. events[j] = [cursor |-> Cursor(epoch, sequence - n + j),
                         kind |-> log[epoch][sequence - n + j]]
        BY <1>2, <4>3 DEF RingIsTheTail
      <4>5. sequence - n + j \in 1..Len(log[epoch])
        BY <1>3, <2>1, <4>1
      <4>6. log'[epoch][sequence - n + j] = log[epoch][sequence - n + j]
        BY <1>7, <4>5
      <4> QED BY <3>2, <3>3, <4>2, <4>4, <4>6
    <3> QED BY <3>4, <3>5
  <2>5. DOMAIN events' = 1..Len(events')
    BY <1>6
  <2> QED BY <1>1, <2>2, <2>3, <2>4, <2>5 DEF RingIsTheTail
<1>10. LogOK'
  BY <1>1, <1>2, <1>3 DEF LogOK
<1> QED BY <1>8, <1>9, <1>10 DEF RingInv

\* An epoch begins with an empty ring and an empty log.
LEMMA RotateRing ==
  ASSUME IInv, rotateEpoch
  PROVE  RingInv'
<1> USE FeedAssumption
<1>1. /\ epoch < MaxEpoch /\ epoch' = epoch + 1 /\ sequence' = 0 /\ events' = << >>
      /\ log' = log
  BY DEF rotateEpoch, waitVars
<1>2. FeedTypes /\ LogOK
  BY DEF IInv, RingInv
<1>3. epoch' \in 1..MaxEpoch
  BY <1>1, <1>2 DEF FeedTypes
<1>4. FeedTypes'
  BY <1>1, <1>2, <1>3 DEF FeedTypes
<1>5. log'[epoch'] = << >>
  BY <1>1, <1>2, <1>3 DEF LogOK, FeedTypes
<1>6. Len(log'[epoch']) = 0 /\ Len(events') = 0 /\ DOMAIN events' = {}
  BY <1>1, <1>5
<1>7. RingIsTheTail'
  BY <1>1, <1>6 DEF RingIsTheTail
<1>8. LogOK'
  BY <1>1, <1>2 DEF LogOK, FeedTypes
<1> QED BY <1>4, <1>7, <1>8 DEF RingInv

LEMMA FeedUnchanged ==
  ASSUME IInv, UNCHANGED feedVars
  PROVE  RingInv'
  BY DEF IInv, RingInv, feedVars, FeedTypes, RingIsTheTail, LogOK

-----------------------------------------------------------------------------
(* The waits under the feed's steps *)

\* An event overruns the waits whose next one it drops, and harms no other.
LEMMA AppendWaits ==
  ASSUME IInv, NEW k \in Kinds, appendEvent(k)
  PROVE  WaitInv'
<1> USE FeedAssumption
<1>1. /\ sequence' = sequence + 1 /\ epoch' = epoch
      /\ events' = Kept(Append(events, [cursor |-> Cursor(epoch, sequence + 1), kind |-> k]))
      /\ log' = [log EXCEPT ![epoch] = Append(@, k)]
      /\ overrun' = [w \in Waits |-> overrun[w] \/ Overrun(w)]
      /\ UNCHANGED waitVars
  BY DEF appendEvent
<1>2. FeedTypes /\ RingIsTheTail /\ WaitTypes /\ CursorOK /\ RingIsAhead /\ WaitIsComplete
  BY DEF IInv, RingInv, WaitInv
<1>3. FeedTypes' /\ RingIsTheTail'
  BY AppendRing DEF RingInv
<1>4. WaitTypes'
  BY <1>1, <1>2 DEF WaitTypes, waitVars
<1>5. log[epoch] \in Seq(Kinds) /\ epoch \in 1..MaxEpoch /\ log \in [1..MaxEpoch -> Seq(Kinds)]
  BY <1>2 DEF FeedTypes
<1>6. \A d \in 1..MaxEpoch :
        /\ Len(log[d]) \in Nat /\ Len(log'[d]) \in Nat /\ Len(log[d]) <= Len(log'[d])
        /\ \A s \in 1..Len(log[d]) : log'[d][s] = log[d][s]
  <2> SUFFICES ASSUME NEW d \in 1..MaxEpoch
               PROVE  /\ Len(log[d]) \in Nat /\ Len(log'[d]) \in Nat /\ Len(log[d]) <= Len(log'[d])
                      /\ \A s \in 1..Len(log[d]) : log'[d][s] = log[d][s]
    OBVIOUS
  <2>1. CASE d = epoch
    <3>1. log'[d] = Append(log[d], k)
      BY <1>1, <1>5, <2>1
    <3> QED BY <1>5, <2>1, <3>1
  <2>2. CASE d # epoch
    <3>1. log'[d] = log[d] /\ log[d] \in Seq(Kinds)
      BY <1>1, <1>5, <2>2
    <3> QED BY <3>1
  <2> QED BY <2>1, <2>2
<1>7. CursorOK'
  <2> SUFFICES ASSUME NEW w \in Waits
               PROVE  /\ start[w].epoch <= cur[w].epoch /\ cur[w].epoch <= epoch
                      /\ cur[w].seq <= Len(log'[cur[w].epoch])
                      /\ start[w].epoch = cur[w].epoch => start[w].seq <= cur[w].seq
                      /\ phase[w] = "idle" => found[w] = {}
    BY <1>1 DEF CursorOK, waitVars
  <2>1. cur[w] \in Cursors
    BY <1>2 DEF WaitTypes
  <2>2. cur[w].epoch \in 1..MaxEpoch /\ cur[w].seq \in Nat
    BY <2>1 DEF Cursors
  <2>3. cur[w].seq <= Len(log[cur[w].epoch])
    BY <1>2 DEF CursorOK
  <2>4. cur[w].seq <= Len(log'[cur[w].epoch])
    BY <1>6, <2>2, <2>3
  <2> QED BY <1>2, <2>4 DEF CursorOK
<1>8. RingIsAhead'
  <2> SUFFICES ASSUME NEW w \in Waits, phase[w] = "waiting", cur[w].epoch = epoch,
                      ~ overrun[w], ~ Overrun(w), events' # << >>
               PROVE  ~ (cur[w].seq < events'[1].cursor.seq - 1)
    <3>1. \A w \in Waits : overrun'[w] = (overrun[w] \/ Overrun(w))
      BY <1>1
    <3>2. cur' = cur /\ phase' = phase
      BY <1>1 DEF waitVars
    <3> QED BY <1>1, <3>1, <3>2 DEF RingIsAhead, Behind
  <2> DEFINE n == Len(events)
  <2>1. cur[w] \in Cursors /\ cur[w].seq \in Nat
    BY <1>2 DEF WaitTypes, Cursors
  <2>2. ~ Behind(cur[w])
    BY <1>2 DEF RingIsAhead
  <2>3. 1 \in DOMAIN events' /\ Len(events') \in Nat
    BY <1>3 DEF FeedTypes
  <2>4. events'[1].cursor.seq = sequence' - Len(events') + 1
    <3>1. events'[1] = [cursor |-> Cursor(epoch', sequence' - Len(events') + 1),
                        kind |-> log'[epoch'][sequence' - Len(events') + 1]]
      BY <1>3, <2>3 DEF RingIsTheTail
    <3> QED BY <3>1 DEF Cursor
  <2>5. /\ n \in Nat /\ sequence \in Nat /\ sequence' = sequence + 1
        /\ n = IF sequence < Limit THEN sequence ELSE Limit
        /\ Len(events') = IF sequence' < Limit THEN sequence' ELSE Limit
    BY <1>1, <1>2, <1>3 DEF FeedTypes, RingIsTheTail
  <2>6. CASE n < Limit
    <3>1. sequence' - Len(events') + 1 = 1
      BY <2>5, <2>6
    <3> QED BY <2>1, <2>4, <3>1
  <2>7. CASE n = Limit
    <3>1. 1 \in DOMAIN events /\ events # << >>
      BY <1>2, <2>5, <2>7 DEF FeedTypes
    <3>2. events[1].cursor.seq = sequence - n + 1
      BY <1>2, <3>1, RingPlaces
    <3>3. ~ (events[1].cursor.seq > cur[w].seq)
      BY <2>7 DEF Overrun
    <3>4. Len(events') = Limit
      BY <2>5, <2>7
    <3> QED BY <2>1, <2>4, <2>5, <2>7, <3>2, <3>3, <3>4
  <2> QED BY <1>2, <2>5, <2>6, <2>7
<1>9. WaitIsComplete'
  <2> SUFFICES ASSUME NEW w \in Waits, cur[w].epoch = start[w].epoch, ~ overrun[w]
               PROVE  found[w] = Expected(w)'
    <3>1. \A w \in Waits : overrun'[w] = (overrun[w] \/ Overrun(w))
      BY <1>1
    <3>2. cur' = cur /\ start' = start /\ found' = found
      BY <1>1 DEF waitVars
    <3> QED BY <3>1, <3>2 DEF WaitIsComplete
  <2>1. found[w] = Expected(w)
    BY <1>2 DEF WaitIsComplete
  <2>2. cur[w] \in Cursors /\ start[w] \in Cursors /\ cur[w].seq <= Len(log[cur[w].epoch])
    BY <1>2 DEF WaitTypes, CursorOK
  <2>3. ASSUME NEW c \in Cursors, c.epoch = start[w].epoch, start[w].seq < c.seq, c.seq <= cur[w].seq
        PROVE  log'[c.epoch][c.seq] = log[c.epoch][c.seq]
    <3>1. c.epoch \in 1..MaxEpoch /\ c.seq \in Nat /\ start[w].seq \in Nat /\ cur[w].seq \in Nat
      BY <2>2, <2>3 DEF Cursors
    <3>2. Len(log[c.epoch]) \in Nat
      BY <1>6, <3>1
    <3>3. c.seq \in 1..Len(log[c.epoch])
      BY <2>2, <2>3, <3>1, <3>2
    <3> QED BY <1>6, <3>1, <3>3
  <2>4. cur' = cur /\ start' = start /\ want' = want
    BY <1>1 DEF waitVars
  <2>5. Expected(w)' = Expected(w)
    BY <2>3, <2>4 DEF Expected
  <2> QED BY <2>1, <2>5
<1> QED BY <1>4, <1>7, <1>8, <1>9 DEF WaitInv

LEMMA RotateWaits ==
  ASSUME IInv, rotateEpoch
  PROVE  WaitInv'
<1>1. epoch' = epoch + 1 /\ log' = log /\ overrun' = overrun /\ UNCHANGED waitVars
  BY DEF rotateEpoch
<1>2. FeedTypes /\ WaitTypes /\ CursorOK /\ WaitIsComplete
  BY DEF IInv, RingInv, WaitInv
<1>3. \A w \in Waits : cur[w].epoch \in Nat /\ epoch \in Nat
  BY <1>2 DEF WaitTypes, Cursors, FeedTypes
<1>4. WaitTypes'
  BY <1>1, <1>2 DEF WaitTypes, waitVars
<1>5. CursorOK'
  BY <1>1, <1>2, <1>3 DEF CursorOK, waitVars
<1>6. RingIsAhead'
  <2>1. \A w \in Waits : cur[w].epoch # epoch'
    BY <1>1, <1>2, <1>3 DEF CursorOK
  <2> QED BY <1>1, <2>1 DEF RingIsAhead, waitVars
<1>7. WaitIsComplete'
  BY <1>1, <1>2 DEF WaitIsComplete, Expected, waitVars
<1> QED BY <1>4, <1>5, <1>6, <1>7 DEF WaitInv

-----------------------------------------------------------------------------
(* The waits' own steps *)

\* The steps of a wait itself: it is asked, refused, answered, polls or times out.
LEMMA CallWaits ==
  ASSUME IInv, NEW w \in Waits, NEW c \in Cursors, NEW kinds \in Filters,
         NEW quiet \in BOOLEAN, Call(w, c, kinds, quiet)
  PROVE  WaitInv'
<1>1. /\ phase[w] = "idle" /\ c.epoch <= epoch /\ c.seq <= Len(log[c.epoch])
      /\ phase' = [phase EXCEPT ![w] = "asked"]
      /\ cur' = [cur EXCEPT ![w] = c] /\ start' = [start EXCEPT ![w] = c]
      /\ want' = [want EXCEPT ![w] = kinds] /\ settle' = [settle EXCEPT ![w] = quiet]
      /\ UNCHANGED <<found, answer, overrun>> /\ UNCHANGED feedVars
  BY DEF Call
<1>2. WaitTypes /\ CursorOK /\ RingIsAhead /\ WaitIsComplete
  BY DEF IInv, WaitInv
<1>3. UNCHANGED <<epoch, sequence, events, log>>
  BY <1>1 DEF feedVars
<1>4. kinds \in SUBSET Kinds
  BY FeedAssumption
<1>5. WaitTypes'
  BY <1>1, <1>2, <1>4 DEF WaitTypes
<1>6. c.epoch \in Nat /\ c.seq \in Nat
  BY DEF Cursors
<1>7. cur'[w] = c /\ start'[w] = c /\ phase'[w] = "asked" /\ found'[w] = {}
  BY <1>1, <1>2 DEF WaitTypes, CursorOK
<1>8. \A v \in Waits \ {w} : /\ cur'[v] = cur[v] /\ start'[v] = start[v] /\ phase'[v] = phase[v]
                             /\ want'[v] = want[v] /\ found'[v] = found[v] /\ overrun'[v] = overrun[v]
  BY <1>1, <1>2 DEF WaitTypes
<1>9. CursorOK'
  BY <1>1, <1>2, <1>3, <1>6, <1>7, <1>8 DEF CursorOK
<1>10. RingIsAhead'
  BY <1>2, <1>3, <1>7, <1>8 DEF RingIsAhead, Behind
<1>11. WaitIsComplete'
  <2>1. Expected(w)' = {}
    BY <1>6, <1>7 DEF Expected, Cursors
  <2>2. \A v \in Waits \ {w} : Expected(v)' = Expected(v)
    BY <1>3, <1>8 DEF Expected
  <2> QED BY <1>2, <1>7, <1>8, <2>1, <2>2 DEF WaitIsComplete
<1> QED BY <1>5, <1>9, <1>10, <1>11 DEF WaitInv

(* A step that only changes a phase, and perhaps an answer, keeps the rest. *)
LEMMA PhaseWaits ==
  ASSUME IInv, NEW w \in Waits,
         NEW p \in {"waiting", "done", "timeout", "expired"}, phase[w] # "idle",
         phase' = [phase EXCEPT ![w] = p],
         UNCHANGED <<feedVars, cur, want, settle, found, start, overrun>>,
         answer' \in [Waits -> Cursors],
         p = "waiting" => ~ Behind(cur[w])
  PROVE  WaitInv'
<1>1. WaitTypes /\ CursorOK /\ RingIsAhead /\ WaitIsComplete
  BY DEF IInv, WaitInv
<1>2. UNCHANGED <<epoch, sequence, events, log, cur, want, settle, found, start, overrun>>
  BY DEF feedVars
<1>3. phase'[w] = p /\ \A v \in Waits \ {w} : phase'[v] = phase[v]
  BY <1>1 DEF WaitTypes
<1>4. WaitTypes'
  BY <1>1, <1>2 DEF WaitTypes
<1>5. CursorOK'
  BY <1>1, <1>2, <1>3 DEF CursorOK
<1>6. RingIsAhead'
  BY <1>1, <1>2, <1>3 DEF RingIsAhead, Behind
<1>7. WaitIsComplete'
  BY <1>1, <1>2 DEF WaitIsComplete, Expected
<1> QED BY <1>4, <1>5, <1>6, <1>7 DEF WaitInv

(* The match a wait takes: if it is still in the epoch it was called in, nothing
   it wanted lies between its cursor and the match. *)
LEMMA TakeWaits ==
  ASSUME IInv, NEW w \in Waits, NEW i \in DOMAIN events, First(w, i), Take(w, i),
         phase[w] \in {"asked", "waiting"},
         phase[w] = "asked" => cur[w].epoch = epoch /\ ~ Behind(cur[w])
  PROVE  WaitInv'
<1> DEFINE m == events[i].cursor
<1>1. /\ found' = [found EXCEPT ![w] = @ \cup {m}]
      /\ cur' = [cur EXCEPT ![w] = m] /\ answer' = [answer EXCEPT ![w] = m]
      /\ phase' = [phase EXCEPT ![w] = IF settle[w] THEN "asked" ELSE "done"]
      /\ UNCHANGED <<epoch, sequence, events, log, want, settle, start, overrun>>
  BY DEF Take, feedVars
<1>2. FeedTypes /\ RingIsTheTail /\ WaitTypes /\ CursorOK /\ RingIsAhead /\ WaitIsComplete
  BY DEF IInv, RingInv, WaitInv
<1>3. m \in Cursors /\ events[i].kind \in Kinds /\ i \in 1..Len(events) /\ Len(events) \in Nat
      /\ DOMAIN events = 1..Len(events)
  <2>1. events \in Seq(Events)
    BY <1>2 DEF FeedTypes
  <2>2. Len(events) \in Nat /\ DOMAIN events = 1..Len(events) /\ events[i] \in Events
    BY <2>1
  <2> QED BY <2>2 DEF Events
<1>4. /\ m.epoch = epoch /\ m.seq = sequence - Len(events) + i
      /\ events[i].kind = log[epoch][m.seq]
  BY <1>2, RingPlaces
<1>5. m.seq > cur[w].seq /\ events[i].kind \in want[w]
  BY DEF First, Matching
<1>6. /\ cur[w] \in Cursors /\ start[w] \in Cursors
      /\ cur[w].epoch \in Nat /\ cur[w].seq \in Nat /\ start[w].epoch \in Nat
      /\ start[w].seq \in Nat /\ epoch \in Nat /\ sequence \in Nat /\ m.seq \in Nat
  <2>1. cur[w] \in Cursors /\ start[w] \in Cursors
    BY <1>2 DEF WaitTypes
  <2> QED BY <1>2, <1>3, <2>1 DEF FeedTypes, Cursors
<1> HIDE DEF m
<1>7. /\ cur'[w] = m /\ start'[w] = start[w] /\ phase'[w] \in {"asked", "done"}
      /\ found'[w] = found[w] \cup {m} /\ want'[w] = want[w]
  BY <1>1, <1>2 DEF WaitTypes
<1>8. \A v \in Waits \ {w} : /\ cur'[v] = cur[v] /\ start'[v] = start[v] /\ phase'[v] = phase[v]
                             /\ want'[v] = want[v] /\ found'[v] = found[v] /\ overrun'[v] = overrun[v]
  BY <1>1, <1>2 DEF WaitTypes
<1>9. WaitTypes'
  <2>1. phase' \in [Waits -> {"idle", "asked", "waiting", "done", "timeout", "expired"}]
    BY <1>1, <1>2 DEF WaitTypes
  <2>2. found' \in [Waits -> SUBSET Cursors]
    BY <1>1, <1>2, <1>3 DEF WaitTypes
  <2> QED BY <1>1, <1>2, <1>3, <2>1, <2>2 DEF WaitTypes
<1>10. CursorOK'
  <2>1. m.seq <= Len(log[m.epoch])
    BY <1>2, <1>3, <1>4, <1>6 DEF RingIsTheTail
  <2>2. start[w].epoch <= m.epoch
    BY <1>2, <1>4, <1>6 DEF CursorOK
  <2>3. start[w].epoch = m.epoch => start[w].seq <= m.seq
    BY <1>2, <1>4, <1>5, <1>6 DEF CursorOK
  <2>4. m.epoch <= epoch
    BY <1>4, <1>6
  <2> QED BY <1>1, <1>2, <1>7, <1>8, <2>1, <2>2, <2>3, <2>4 DEF CursorOK
<1>11. RingIsAhead'
  BY <1>1, <1>2, <1>7, <1>8 DEF RingIsAhead, Behind
<1>12. ASSUME m.epoch = start[w].epoch, ~ overrun[w]
       PROVE  found[w] \cup {m} = Expected(w)'
  <2>1. cur[w].epoch = epoch /\ start[w].epoch = epoch
    BY <1>2, <1>4, <1>6, <1>12 DEF CursorOK
  <2>2. found[w] = Expected(w)
    BY <1>2, <1>12, <2>1 DEF WaitIsComplete
  <2>3. ~ Behind(cur[w])
    BY <1>2, <1>12, <2>1 DEF RingIsAhead
  <2>4. start[w].seq <= cur[w].seq
    BY <1>2, <2>1 DEF CursorOK
  <2>5. m.seq <= sequence
    BY <1>3, <1>4, <1>6
  <2>6. ASSUME NEW s \in Nat, cur[w].seq < s, s < m.seq
        PROVE  log[epoch][s] \notin want[w]
    <3> DEFINE j == s - sequence + Len(events)
    <3>1. s \in (cur[w].seq + 1)..sequence
      BY <1>6, <2>5, <2>6
    <3>2. j \in DOMAIN events /\ events[j].cursor.seq = s /\ events[j].kind = log[epoch][s]
      BY <1>2, <1>6, <2>3, <3>1, NotBehind
    <3>3. j < i
      BY <1>3, <1>4, <1>6, <2>6
    <3>4. j \notin Matching(w)
      BY <1>3, <3>2, <3>3 DEF First
    <3> HIDE DEF j
    <3> QED BY <2>6, <3>2, <3>4 DEF Matching
  <2>7. Expected(w)' = {c \in Cursors : /\ c.epoch = epoch /\ start[w].seq < c.seq /\ c.seq <= m.seq
                                      /\ log[epoch][c.seq] \in want[w]}
    BY <1>1, <1>7, <2>1 DEF Expected
  <2>8. Expected(w) = {c \in Cursors : /\ c.epoch = epoch /\ start[w].seq < c.seq /\ c.seq <= cur[w].seq
                                     /\ log[epoch][c.seq] \in want[w]}
    BY <2>1 DEF Expected
  <2>9. ASSUME NEW c \in Cursors, c.epoch = epoch
        PROVE  /\ c.seq \in Nat
               /\ c.seq = m.seq <=> c = m
    BY <1>3, <1>4, <2>9 DEF Cursors
  <2>10. ASSUME NEW c \in Cursors
         PROVE  c \in found[w] \cup {m} <=> c \in Expected(w)'
    <3>1. CASE c.epoch = epoch
      <4>1. c \in found[w] <=> start[w].seq < c.seq /\ c.seq <= cur[w].seq /\ log[epoch][c.seq] \in want[w]
        BY <2>2, <2>8, <3>1
      <4>2. c \in Expected(w)' <=> start[w].seq < c.seq /\ c.seq <= m.seq /\ log[epoch][c.seq] \in want[w]
        BY <2>7, <3>1
      <4>3. c.seq \in Nat /\ (c.seq = m.seq <=> c = m)
        BY <2>9, <3>1
      <4>4. CASE c = m
        <5>1. c \in found[w] \cup {m}
          BY <4>4
        <5>2. log[epoch][c.seq] \in want[w]
          BY <1>4, <1>5, <4>4
        <5>3. start[w].seq < c.seq
          BY <1>5, <1>6, <2>4, <4>4
        <5> QED BY <1>6, <4>2, <4>4, <5>1, <5>2, <5>3
      <4>5. CASE c # m
        <5>1. CASE c.seq <= cur[w].seq
          BY <1>5, <1>6, <4>1, <4>2, <4>3, <4>5, <5>1
        <5>2. CASE cur[w].seq < c.seq /\ c.seq < m.seq
          <6>1. log[epoch][c.seq] \notin want[w]
            BY <2>6, <4>3, <5>2
          <6> QED BY <4>1, <4>2, <4>5, <6>1
        <5>3. CASE m.seq < c.seq
          BY <1>5, <1>6, <4>1, <4>2, <4>3, <4>5, <5>3
        <5> QED BY <1>6, <4>3, <4>5, <5>1, <5>2, <5>3
      <4> QED BY <4>4, <4>5
    <3>2. CASE c.epoch # epoch
      BY <1>4, <2>2, <2>7, <2>8, <3>2
    <3> QED BY <3>1, <3>2
  <2>11. found[w] \cup {m} \in SUBSET Cursors /\ Expected(w)' \in SUBSET Cursors
    BY <1>2, <1>3, <2>7 DEF WaitTypes
  <2> QED BY <2>10, <2>11
<1>13. WaitIsComplete'
  <2> SUFFICES ASSUME NEW v \in Waits, cur'[v].epoch = start'[v].epoch, ~ overrun'[v]
               PROVE  found'[v] = Expected(v)'
    BY DEF WaitIsComplete
  <2>1. CASE v = w
    <3>1. m.epoch = start[w].epoch /\ ~ overrun[w]
      BY <1>1, <1>7, <2>1
    <3> QED BY <1>7, <1>12, <2>1, <3>1
  <2>2. CASE v # w
    <3>1. Expected(v)' = Expected(v)
      BY <1>1, <1>8, <2>2 DEF Expected
    <3> QED BY <1>2, <1>8, <2>2, <3>1 DEF WaitIsComplete
  <2> QED BY <2>1, <2>2
<1> QED BY <1>9, <1>10, <1>11, <1>13 DEF WaitInv

-----------------------------------------------------------------------------
LEMMA NextInv == IInv /\ [Next]_vars => IInv'
<1> SUFFICES ASSUME IInv, [Next]_vars PROVE RingInv' /\ WaitInv'
  BY DEF IInv
<1> USE DEF IInv
<1>1. ASSUME NEW k \in Kinds, appendEvent(k) PROVE RingInv' /\ WaitInv'
  BY <1>1, AppendRing, AppendWaits
<1>2. CASE rotateEpoch
  BY <1>2, RotateRing, RotateWaits
<1>3. ASSUME NEW w \in Waits, NEW c \in Cursors, NEW kinds \in Filters, NEW quiet \in BOOLEAN,
             Call(w, c, kinds, quiet)
      PROVE  RingInv' /\ WaitInv'
  <2>1. UNCHANGED feedVars
    BY <1>3 DEF Call, feedVars
  <2> QED BY <1>3, <2>1, CallWaits, FeedUnchanged
<1>4. ASSUME NEW w \in Waits, Refuse(w) PROVE RingInv' /\ WaitInv'
  <2>1. /\ phase[w] # "idle" /\ phase' = [phase EXCEPT ![w] = "expired"]
        /\ UNCHANGED <<feedVars, cur, want, settle, found, start, overrun>> /\ answer' = answer
    BY <1>4 DEF Refuse
  <2>2. answer' \in [Waits -> Cursors]
    BY <2>1 DEF WaitInv, WaitTypes
  <2>3. WaitInv'
    BY <2>1, <2>2, PhaseWaits
  <2> QED BY <2>1, <2>3, FeedUnchanged
<1>5. ASSUME NEW w \in Waits, MatchAtOnce(w) PROVE RingInv' /\ WaitInv'
  <2>1. PICK i \in DOMAIN events : First(w, i) /\ Take(w, i)
    BY <1>5 DEF MatchAtOnce
  <2>2. UNCHANGED feedVars
    BY <2>1 DEF Take
  <2>3. phase[w] = "asked" /\ cur[w].epoch = epoch /\ ~ Behind(cur[w])
    BY <1>5 DEF MatchAtOnce
  <2> QED BY <2>1, <2>2, <2>3, TakeWaits, FeedUnchanged
<1>6. ASSUME NEW w \in Waits, StartPolling(w) PROVE RingInv' /\ WaitInv'
  <2>1. /\ phase[w] # "idle" /\ phase' = [phase EXCEPT ![w] = "waiting"] /\ ~ Behind(cur[w])
        /\ UNCHANGED <<feedVars, cur, want, settle, found, start, overrun>> /\ answer' = answer
    BY <1>6 DEF StartPolling
  <2>2. answer' \in [Waits -> Cursors]
    BY <2>1 DEF WaitInv, WaitTypes
  <2>3. WaitInv'
    BY <2>1, <2>2, PhaseWaits
  <2> QED BY <2>1, <2>3, FeedUnchanged
<1>7. ASSUME NEW w \in Waits, Poll(w) PROVE RingInv' /\ WaitInv'
  <2>1. PICK i \in DOMAIN events : First(w, i) /\ Take(w, i)
    BY <1>7 DEF Poll
  <2>2. UNCHANGED feedVars
    BY <2>1 DEF Take
  <2>3. phase[w] = "waiting"
    BY <1>7 DEF Poll
  <2> QED BY <2>1, <2>2, <2>3, TakeWaits, FeedUnchanged
<1>8. ASSUME NEW w \in Waits, Timeout(w) PROVE RingInv' /\ WaitInv'
  <2> DEFINE p == IF found[w] = {} THEN "timeout" ELSE "done"
  <2>1. /\ phase[w] # "idle" /\ phase' = [phase EXCEPT ![w] = p]
        /\ UNCHANGED <<feedVars, cur, want, settle, found, start, overrun>>
        /\ answer' = [answer EXCEPT ![w] = IF found[w] = {} THEN CurrentCursor ELSE @]
    BY <1>8 DEF Timeout
  <2>2. CurrentCursor \in Cursors
    BY DEF RingInv, FeedTypes, CurrentCursor, Cursor, Cursors
  <2>3. answer' \in [Waits -> Cursors]
    BY <2>1, <2>2 DEF WaitInv, WaitTypes
  <2>4. p \in {"waiting", "done", "timeout", "expired"} /\ p # "waiting"
    OBVIOUS
  <2> HIDE DEF p
  <2>5. WaitInv'
    BY <2>1, <2>3, <2>4, PhaseWaits
  <2> QED BY <2>1, <2>5, FeedUnchanged
<1>9. CASE UNCHANGED vars
  <2>1. UNCHANGED feedVars /\ UNCHANGED waitVars /\ overrun' = overrun
    BY <1>9 DEF vars
  <2>2. WaitInv'
    BY <2>1 DEF WaitInv, WaitTypes, CursorOK, RingIsAhead, Behind, WaitIsComplete, Expected,
                feedVars, waitVars
  <2> QED BY <2>1, <2>2, FeedUnchanged
<1> QED BY <1>1, <1>2, <1>3, <1>4, <1>5, <1>6, <1>7, <1>8, <1>9 DEF Next

(* The inductive invariant holds in every reachable state. *)
THEOREM IInvHolds == Spec => []IInv
<1>1. Init => IInv
  BY InitInv
<1>2. IInv /\ [Next]_vars => IInv'
  BY NextInv
<1> QED BY <1>1, <1>2, PTL DEF Spec

(* Types, and the ring of appendEvent within its limit. *)
THEOREM TypeCorrect == Spec => []TypeOK
<1>1. IInv => TypeOK
  BY DEF IInv, RingInv, WaitInv, TypeOK
<1> QED BY <1>1, IInvHolds, PTL

(* The ring is the gapless tail of the events of its epoch. *)
THEOREM RingHolds == Spec => []RingIsTheTail
<1>1. IInv => RingIsTheTail
  BY DEF IInv, RingInv
<1> QED BY <1>1, IInvHolds, PTL

(* A wait of waitForSettledMessages or waitFor has found everything it wanted. *)
THEOREM WaitsHold == Spec => []WaitIsComplete
<1>1. IInv => WaitIsComplete
  BY DEF IInv, WaitInv
<1> QED BY <1>1, IInvHolds, PTL

-----------------------------------------------------------------------------
(* The verdict of waitFor on a cursor *)

\* The check of the cursor is exact: behind it something is lost, and only there.
LEMMA BehindIsLost ==
  ASSUME FeedTypes, RingIsTheTail, NEW c \in Cursors, Behind(c)
  PROVE  Lost(c)
<1> DEFINE s == sequence - Len(events)
<1>1. Len(events) \in Nat /\ sequence \in Nat /\ c.seq \in Nat /\ DOMAIN events = 1..Len(events)
  BY DEF FeedTypes, Cursors
<1>2. 1 \in DOMAIN events
  BY <1>1 DEF Behind, FeedTypes
<1>3. events[1].cursor.seq = s + 1
  BY <1>2, RingPlaces
<1>4. s \in (c.seq + 1)..sequence
  BY <1>1, <1>3 DEF Behind
<1>5. \A i \in DOMAIN events : events[i].cursor.seq # s
  BY <1>1, RingPlaces
<1> QED BY <1>4, <1>5 DEF Lost

LEMMA AheadIsNotLost ==
  ASSUME FeedTypes, RingIsTheTail, NEW c \in Cursors, c.epoch = epoch, ~ Behind(c)
  PROVE  ~ Lost(c)
<1>1. \A s \in (c.seq + 1)..sequence : \E i \in DOMAIN events : events[i].cursor.seq = s
  BY NotBehind
<1> QED BY <1>1 DEF Lost

(* waitFor refuses a cursor exactly when an event after it is gone. *)
THEOREM VerdictHolds == Spec => VerdictIsRight
<1> DEFINE V == \A w \in Waits :
       /\ phase[w] # "expired" /\ phase'[w] = "expired" => Lost(cur[w])
       /\ phase[w] = "asked" /\ (phase'[w] = "waiting" \/ found'[w] # found[w])
            => ~ Lost(cur[w])
<1>1. IInv /\ [Next]_vars => [V]_vars
  <2> SUFFICES ASSUME IInv, Next, NEW w \in Waits
               PROVE  /\ phase[w] # "expired" /\ phase'[w] = "expired" => Lost(cur[w])
                      /\ phase[w] = "asked" /\ (phase'[w] = "waiting" \/ found'[w] # found[w])
                           => ~ Lost(cur[w])
    OBVIOUS
  <2>1. FeedTypes /\ RingIsTheTail /\ WaitTypes /\ cur[w] \in Cursors
    BY DEF IInv, RingInv, WaitInv, WaitTypes
  <2>2. ASSUME NEW v \in Waits, Refuse(v)
        PROVE  /\ found'[w] = found[w] /\ (phase'[w] = "waiting" => phase[w] = "waiting")
               /\ phase[w] # "expired" /\ phase'[w] = "expired" => Lost(cur[w])
    <3>1. cur[v].epoch # epoch => Lost(cur[v])
      BY DEF Lost
    <3>2. cur[v] \in Cursors
      BY <2>1 DEF WaitTypes
    <3>3. Lost(cur[v])
      BY <2>1, <2>2, <3>1, <3>2, BehindIsLost DEF Refuse
    <3> QED BY <2>1, <2>2, <3>3 DEF Refuse, WaitTypes
  <2>3. ASSUME NEW v \in Waits, MatchAtOnce(v) \/ StartPolling(v)
        PROVE  /\ phase'[w] = "expired" => phase[w] = "expired"
               /\ phase'[w] = "waiting" /\ phase[w] = "asked" => ~ Lost(cur[w])
               /\ found'[w] # found[w] => ~ Lost(cur[w])
    <3>1. cur[v] \in Cursors /\ cur[v].epoch = epoch /\ ~ Behind(cur[v])
      BY <2>1, <2>3 DEF WaitTypes, MatchAtOnce, StartPolling
    <3>2. ~ Lost(cur[v])
      BY <2>1, <3>1, AheadIsNotLost
    <3>3. CASE w = v
      BY <2>1, <2>3, <3>2, <3>3 DEF WaitTypes, MatchAtOnce, StartPolling, Take
    <3>4. CASE w # v
      BY <2>1, <2>3, <3>4 DEF WaitTypes, MatchAtOnce, StartPolling, Take
    <3> QED BY <3>3, <3>4
  <2>4. ASSUME NEW v \in Waits, Poll(v) \/ Timeout(v)
        PROVE  /\ phase'[w] = "expired" => phase[w] = "expired"
               /\ phase'[w] = "waiting" => phase[w] = "waiting"
               /\ phase[w] = "asked" => found'[w] = found[w]
    <3>1. CASE w = v
      BY <2>1, <2>4, <3>1 DEF WaitTypes, Poll, Timeout, Take
    <3>2. CASE w # v
      BY <2>1, <2>4, <3>2 DEF WaitTypes, Poll, Timeout, Take
    <3> QED BY <3>1, <3>2
  <2>5. ASSUME NEW v \in Waits, NEW c \in Cursors, NEW kinds \in Filters, NEW quiet \in BOOLEAN,
               Call(v, c, kinds, quiet)
        PROVE  /\ phase'[w] = "expired" => phase[w] = "expired"
               /\ phase'[w] = "waiting" => phase[w] = "waiting"
               /\ found'[w] = found[w]
    BY <2>1, <2>5 DEF WaitTypes, Call
  <2>6. ASSUME rotateEpoch \/ \E k \in Kinds : appendEvent(k)
        PROVE  phase' = phase /\ found' = found
    BY <2>6 DEF rotateEpoch, appendEvent, waitVars
  <2> QED BY <2>2, <2>3, <2>4, <2>5, <2>6 DEF Next
<1> QED BY <1>1, IInvHolds, PTL DEF Spec, VerdictIsRight
=============================================================================
