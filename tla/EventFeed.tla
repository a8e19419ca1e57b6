----------------------------- MODULE EventFeed -----------------------------
(***************************************************************************)
(* The event feed of SandboxMcpService: a ring of the last events of an    *)
(* epoch, and the waits of wait_for_event, wait_for_message and their like *)
(* that read it from a cursor, by polling.                                 *)
(*                                                                         *)
(* An event is its cursor and its kind; what a wait looks for is a set of  *)
(* kinds (the space it names and the predicate of the tool).  Time is left *)
(* out: a poll and a timeout may come at any moment of a wait.             *)
(***************************************************************************)
EXTENDS Integers, Sequences

CONSTANTS
  Waits,     \* calls of the wait tools
  Kinds,     \* what the predicates tell apart
  Filters,   \* the sets of kinds a wait may look for
  Limit,     \* eventLimit
  MaxSeq,    \* bound: events of an epoch
  MaxEpoch   \* bound: epochs

ASSUME FeedAssumption ==
  /\ Limit \in Nat \ {0}
  /\ MaxSeq \in Nat \ {0} /\ MaxEpoch \in Nat \ {0}
  /\ Filters \subseteq SUBSET Kinds

VARIABLES
  epoch,     \* numbered; a randomUUID in the code
  sequence,
  events,    \* the ring
  phase,     \* wait: "idle", "asked" (waitFor is about to look at its cursor),
             \*   "waiting" (polling), "done", "timeout" or "expired"
  cur,       \* the cursor of its waitFor
  want,      \* the kinds it looks for
  settle,    \* settleSeconds given: it goes on until it is quiet
  found,     \* cursors of the events it has matched
  answer,    \* the cursor it returned
  log,       \* history: all events of each epoch, in order
  start,     \* history: the cursor the wait was called with
  overrun    \* history: the ring dropped an event the wait had not looked at

feedVars == <<epoch, sequence, events, log>>
waitVars == <<phase, cur, want, settle, found, answer, start>>
vars == <<feedVars, waitVars, overrun>>

Cursors == [epoch : 1..MaxEpoch, seq : 0..MaxSeq]
Cursor(e, s) == [epoch |-> e, seq |-> s]
Events == [cursor : Cursors, kind : Kinds]

CurrentCursor == Cursor(epoch, sequence)

-----------------------------------------------------------------------------
Init ==
  /\ epoch = 1
  /\ sequence = 0
  /\ events = << >>
  /\ phase = [w \in Waits |-> "idle"]
  /\ cur = [w \in Waits |-> CurrentCursor]
  /\ want = [w \in Waits |-> {}]
  /\ settle = [w \in Waits |-> FALSE]
  /\ found = [w \in Waits |-> {}]
  /\ answer = [w \in Waits |-> CurrentCursor]
  /\ log = [e \in 1..MaxEpoch |-> << >>]
  /\ start = [w \in Waits |-> CurrentCursor]
  /\ overrun = [w \in Waits |-> FALSE]

-----------------------------------------------------------------------------
(* The feed *)

\* What the splice leaves of the ring.
Kept(s) == IF Len(s) > Limit THEN SubSeq(s, Len(s) - Limit + 1, Len(s)) ELSE s

\* The ring is full and its first event goes: waiting calls that have not come
\* to it yet will not see it.
Overrun(w) ==
  /\ phase[w] = "waiting"
  /\ Len(events) = Limit
  /\ events[1].cursor.seq > cur[w].seq

appendEvent(k) ==
  /\ sequence < MaxSeq
  /\ sequence' = sequence + 1
  /\ events' = Kept(Append(events, [cursor |-> Cursor(epoch, sequence + 1), kind |-> k]))
  /\ log' = [log EXCEPT ![epoch] = Append(@, k)]
  /\ overrun' = [w \in Waits |-> overrun[w] \/ Overrun(w)]
  /\ UNCHANGED <<epoch, waitVars>>

\* A destructive tool has run: a new epoch.  Waits that are polling stay.
rotateEpoch ==
  /\ epoch < MaxEpoch
  /\ epoch' = epoch + 1
  /\ sequence' = 0
  /\ events' = << >>
  /\ UNCHANGED <<log, waitVars, overrun>>

-----------------------------------------------------------------------------
(* The waits *)

\* Mutant of Behind: the limit is off by one.
BehindByOne(c) == events # << >> /\ c.seq < events[1].cursor.seq

\* The cursor has left the ring.
Behind(c) == events # << >> /\ c.seq < events[1].cursor.seq - 1

Matching(w) ==
  {i \in DOMAIN events : events[i].cursor.seq > cur[w].seq /\ events[i].kind \in want[w]}

\* Mutant of First: the newest match.
FirstNewest(w, i) == i \in Matching(w) /\ \A j \in Matching(w) : j <= i

\* events.find: the oldest match.
First(w, i) == i \in Matching(w) /\ \A j \in Matching(w) : i <= j

\* Any cursor the server has returned may be passed.
Call(w, c, kinds, quiet) ==
  /\ phase[w] = "idle"
  /\ c.epoch <= epoch /\ c.seq <= Len(log[c.epoch])
  /\ phase' = [phase EXCEPT ![w] = "asked"]
  /\ cur' = [cur EXCEPT ![w] = c]
  /\ start' = [start EXCEPT ![w] = c]
  /\ want' = [want EXCEPT ![w] = kinds]
  /\ settle' = [settle EXCEPT ![w] = quiet]
  /\ UNCHANGED <<feedVars, found, answer, overrun>>

\* waitFor refuses its cursor; what a settling wait has found so far is lost.
Refuse(w) ==
  /\ phase[w] = "asked"
  /\ cur[w].epoch # epoch \/ Behind(cur[w])
  /\ phase' = [phase EXCEPT ![w] = "expired"]
  /\ UNCHANGED <<feedVars, cur, want, settle, found, answer, start, overrun>>

\* waitFor has its event.  A settling wait calls waitFor again from there, behind
\* an await: other calls of a batch may run before it does.
Take(w, i) ==
  /\ found' = [found EXCEPT ![w] = @ \cup {events[i].cursor}]
  /\ cur' = [cur EXCEPT ![w] = events[i].cursor]
  /\ answer' = [answer EXCEPT ![w] = events[i].cursor]
  /\ phase' = [phase EXCEPT ![w] = IF settle[w] THEN "asked" ELSE "done"]
  /\ UNCHANGED <<feedVars, want, settle, start, overrun>>

MatchAtOnce(w) ==
  /\ phase[w] = "asked"
  /\ cur[w].epoch = epoch /\ ~ Behind(cur[w])
  /\ \E i \in DOMAIN events : First(w, i) /\ Take(w, i)

StartPolling(w) ==
  /\ phase[w] = "asked"
  /\ cur[w].epoch = epoch /\ ~ Behind(cur[w])
  /\ Matching(w) = {}
  /\ phase' = [phase EXCEPT ![w] = "waiting"]
  /\ UNCHANGED <<feedVars, cur, want, settle, found, answer, start, overrun>>

\* The interval compares sequences only: the epoch and the ring's first event
\* are not looked at again.
Poll(w) ==
  /\ phase[w] = "waiting"
  /\ \E i \in DOMAIN events : First(w, i) /\ Take(w, i)

\* The timeout does not look at the ring.  For a settling wait that has found
\* something it is the quiet it waited for.
Timeout(w) ==
  /\ phase[w] = "waiting"
  /\ phase' = [phase EXCEPT ![w] = IF found[w] = {} THEN "timeout" ELSE "done"]
  /\ answer' = [answer EXCEPT ![w] = IF found[w] = {} THEN CurrentCursor ELSE @]
  /\ UNCHANGED <<feedVars, cur, want, settle, found, start, overrun>>

-----------------------------------------------------------------------------
Next ==
  \/ \E k \in Kinds : appendEvent(k)
  \/ rotateEpoch
  \/ \E w \in Waits, c \in Cursors, kinds \in Filters, quiet \in BOOLEAN :
       Call(w, c, kinds, quiet)
  \/ \E w \in Waits : Refuse(w)
  \/ \E w \in Waits : MatchAtOnce(w)
  \/ \E w \in Waits : StartPolling(w)
  \/ \E w \in Waits : Poll(w)
  \/ \E w \in Waits : Timeout(w)

Spec == Init /\ [][Next]_vars

-----------------------------------------------------------------------------
(* Types, for every variable. *)
FeedTypes ==
  /\ epoch \in 1..MaxEpoch
  /\ sequence \in 0..MaxSeq
  /\ events \in Seq(Events) /\ Len(events) <= Limit
  /\ log \in [1..MaxEpoch -> Seq(Kinds)]

WaitTypes ==
  /\ phase \in [Waits -> {"idle", "asked", "waiting", "done", "timeout", "expired"}]
  /\ cur \in [Waits -> Cursors]
  /\ want \in [Waits -> SUBSET Kinds]
  /\ settle \in [Waits -> BOOLEAN]
  /\ found \in [Waits -> SUBSET Cursors]
  /\ answer \in [Waits -> Cursors]
  /\ start \in [Waits -> Cursors]
  /\ overrun \in [Waits -> BOOLEAN]

(* Types; among them: the splice of appendEvent holds the ring to its limit. *)
TypeOK == FeedTypes /\ WaitTypes

(* The ring of appendEvent and rotateEpoch is the tail of what happened in this
   epoch: the last events, without a gap, each at the cursor it was given. *)
RingIsTheTail ==
  /\ sequence = Len(log[epoch])
  /\ Len(events) = IF sequence < Limit THEN sequence ELSE Limit
  /\ \A i \in DOMAIN events :
       LET s == sequence - Len(events) + i
       IN  events[i] = [cursor |-> Cursor(epoch, s), kind |-> log[epoch][s]]

(* What a wait should have found up to the cursor it has come to. *)
Expected(w) ==
  {c \in Cursors :
     /\ c.epoch = start[w].epoch
     /\ start[w].seq < c.seq /\ c.seq <= cur[w].seq
     /\ log[c.epoch][c.seq] \in want[w]}

(* A wait (waitFor, and waitForSettledMessages over several of them) that stays
   in its epoch and is not overrun by the ring between two polls has, at each
   moment, found every matching event since the cursor it was called with, and
   no other: none is skipped at the boundary of the ring or between two waits. *)
WaitIsComplete ==
  \A w \in Waits :
    cur[w].epoch = start[w].epoch /\ ~ overrun[w] => found[w] = Expected(w)

(* Some event after the cursor is not in the ring any more. *)
Lost(c) ==
  \/ c.epoch # epoch
  \/ \E s \in (c.seq + 1)..sequence : \A i \in DOMAIN events : events[i].cursor.seq # s

(* waitFor answers cursor_expired exactly when an event after the cursor can no
   longer be had: it refuses no cursor it could serve, and begins no wait that
   has lost events already. *)
VerdictIsRight ==
  [][\A w \in Waits :
       /\ phase[w] # "expired" /\ phase'[w] = "expired" => Lost(cur[w])
       /\ phase[w] = "asked" /\ (phase'[w] = "waiting" \/ found'[w] # found[w])
            => ~ Lost(cur[w])]_vars
=============================================================================
