---------------------------- MODULE FederatedRead ----------------------------
(***************************************************************************)
(* Reading the request records of all scopes as one list, page by page     *)
(* (ScopeDirectory.federate). A page is asked for some time after the page *)
(* before has come: the scopes of that moment are listed, each is waited   *)
(* for, then each is read, and what they return is merged in the order of  *)
(* time and id and cut to the length of a page. The next page begins after *)
(* the time and id of the last record. A store reads its rows in the order *)
(* of their sequence, whatever the cursor. Meanwhile requests are recorded *)
(* and completed, stores are cleared, scopes come and go (RequestCapture). *)
(***************************************************************************)
EXTENDS RequestCapture

CONSTANT PageLimit

ASSUME ReadAssumption == PageLimit \in Nat \ {0} /\ None \notin Nat \X Requests

VARIABLES
  walk,    \* phase, order, cursor, scopes not waited for yet, and not read yet, pages read
  got,     \* the records it was given, in the order it was
  steady   \* ghost: records that have been stored all the time since it began

readVars == <<walk, got, steady>>
allVars == <<vars, captureVars, readVars>>

NoWalk == [phase |-> "none", order |-> "desc", cursor |-> None, unready |-> {}, unread |-> {},
           pages |-> {}]

ReadInit == CaptureInit /\ walk = NoWalk /\ got = <<>> /\ steady = {}

----------------------------------------------------------------------------

Position(record) == <<record.time, record.id>>
Earlier(x, y) == x[1] < y[1] \/ (x[1] = y[1] /\ x[2] < y[2])
InOrder(x, y) == IF walk.order = "asc" THEN Earlier(x, y) ELSE Earlier(y, x)

\* Mutant of After: a record of the same time is not after the cursor, whatever its id.
AfterTime(record) ==
  walk.cursor = None \/ (IF walk.order = "asc" THEN walk.cursor[1] < record.time
                         ELSE record.time < walk.cursor[1])

\* matchesModelRequestQuery: strictly after the cursor.
After(record) == walk.cursor = None \/ InOrder(walk.cursor, Position(record))

\* getRecords: the first by sequence; one more tells whether there are more.
PageOf(p) ==
  LET rest == {k \in DOMAIN rows[p] : After(rows[p][k])}
      before(k) == {j \in rest : IF walk.order = "asc" THEN j < k ELSE k < j}
  IN  [records |-> {Position(rows[p][k]) : k \in {k \in rest : Cardinality(before(k)) < PageLimit}},
       more |-> Cardinality(rest) > PageLimit]

\* Positions in order: the first has none before it, the next one, and so on.
Sorted(set) ==
  [k \in 1..Cardinality(set) |->
     CHOOSE x \in set : Cardinality({y \in set : InOrder(y, x)}) = k - 1]

\* mergeFederatedPages.
Merged(pages) ==
  LET all == UNION {page.records : page \in pages}
  IN  [records |-> SubSeq(Sorted(all), 1, Min({PageLimit, Cardinality(all)})),
       more |-> Cardinality(all) > PageLimit \/ \E page \in pages : page.more]

LiveScopes == {p \in Scopes : life[p] = "live"}

----------------------------------------------------------------------------

Asked(order, cursor) ==
  walk' = [phase |-> "waiting", order |-> order, cursor |-> cursor,
           unready |-> LiveScopes, unread |-> LiveScopes, pages |-> {}]

\* The first page.
Begin(order) ==
  /\ bounds.walks /\ walk.phase = "none"
  /\ Asked(order, None)
  /\ steady' = UNION {Ids(rows[p]) : p \in LiveScopes}
  /\ UNCHANGED <<vars, captureVars, got>>

\* A further page.
Continue ==
  /\ walk.phase = "paused"
  /\ Asked(walk.order, walk.cursor)
  /\ UNCHANGED <<vars, captureVars, got, steady>>

\* awaitReady waits for the bodies that are read for a scope, too.
Ready(p) ==
  /\ walk.phase = "waiting" /\ p \in walk.unready
  /\ Reading(p) = {}
  /\ walk' = [walk EXCEPT !.unready = @ \ {p}]
  /\ UNCHANGED <<vars, captureVars, got, steady>>

\* Each store is read at a moment of its own, once all are ready.
Read(p) ==
  /\ walk.phase = "waiting" /\ walk.unready = {} /\ p \in walk.unread
  /\ walk' = [walk EXCEPT !.unread = @ \ {p}, !.pages = @ \cup {PageOf(p)}]
  /\ UNCHANGED <<vars, captureVars, got, steady>>

\* The page is there, and says where the next one begins if there is one.
Page ==
  LET page == Merged(walk.pages) IN
  /\ walk.phase = "waiting" /\ walk.unready = {} /\ walk.unread = {}
  /\ got' = got \o page.records
  /\ walk' = [walk EXCEPT !.phase = IF page.more THEN "paused" ELSE "over", !.pages = {},
                          !.cursor = IF page.more THEN Last(page.records) ELSE None]
  /\ UNCHANGED <<vars, captureVars, steady>>

Reader ==
  \/ \E order \in {"asc", "desc"} : Begin(order)
  \/ \E p \in Scopes : Ready(p) \/ Read(p)
  \/ Continue \/ Page

ReadNext ==
  \/ CaptureNext /\ steady' = steady \cap UNION {Ids(rows'[p]) : p \in Scopes}
                 /\ UNCHANGED <<walk, got>>
  \/ Reader

\* ChatLuna ends what it begins, a body under way ends, a read and a disposal go on. Each of
\* them does so once, so that some of them going on is enough.
ReadFairness ==
  /\ WF_allVars(\E s \in Sessions : Ends(s) /\ UNCHANGED <<captureVars, readVars>>)
  /\ WF_allVars(\E r \in Requests : BodyEnds(r) /\ UNCHANGED readVars)
  /\ WF_allVars(Page \/ \E p \in Scopes : Ready(p) \/ Read(p))
  /\ WF_allVars(\E p \in Scopes : SpaceGone(p) /\ UNCHANGED readVars)

ReadSpec == ReadInit /\ [][ReadNext]_allVars /\ ReadFairness

----------------------------------------------------------------------------
(* Properties. *)

Waits == walk.phase = "waiting" \/ \E p \in Scopes : life[p] = "closing"

ReadTypeOK ==
  /\ walk.phase \in {"none", "waiting", "paused", "over"} /\ walk.order \in {"asc", "desc"}
  /\ walk.cursor \in (Nat \X Requests) \cup {None}
  /\ walk.unready \subseteq walk.unread /\ walk.unread \subseteq Scopes
  /\ got \in Seq(Nat \X Requests) /\ steady \subseteq Requests

\* A walk over the pages gives each record once, in the order asked for, and none is left out
\* that was stored all the time from its first page to its last, whatever scopes came and
\* went and whatever was recorded meanwhile, unless a store has two records of one
\* millisecond whose random ids are not in the order of their sequence: a page may then end
\* between them and skip one for good (nextCursor of listModelRequestRecords).
WalkIsWhole ==
  /\ ReadTypeOK
  /\ \A j, k \in DOMAIN got : j < k => InOrder(got[j], got[k])
  /\ walk.phase = "over" /\ ~tied => \A r \in steady : \E k \in DOMAIN got : got[k][2] = r

\* If every body ends, and they do not follow on each other for ever, a page that was asked
\* for comes, and a deleted space is disposed of, its bots with it (deleteSpace,
\* waitForPersistence): neither waits for an answer of a model that may never come.
WaitsEnd == Waits ~> ~Waits
=============================================================================
