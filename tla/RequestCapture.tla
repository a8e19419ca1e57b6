---------------------------- MODULE RequestCapture ----------------------------
(***************************************************************************)
(* The model request collector over the turns of ThinkingTurns. ChatLuna's *)
(* fetch is wrapped: a chat request is recorded in the store of the one    *)
(* scope where a bot thinks, or in the unattributed store, and the record  *)
(* is completed by whatever comes later, in any order with other requests: *)
(* the headers undici really sends, told on a channel that does not say    *)
(* whose they are; the response or its failure; the end of the body, which *)
(* is read from a clone beside the requester. Stores are cleared, scopes   *)
(* deleted meanwhile.                                                      *)
(*                                                                         *)
(* The rows of a store are in the order of their sequence. Writes take     *)
(* effect when they are asked for, as reads, which let the queue settle,   *)
(* see them; that they may be late or fail is in RecordStore. The limit in *)
(* bytes evicts the oldest in the same way as the one in records.          *)
(***************************************************************************)
EXTENDS ThinkingTurns, SequencesExt

CONSTANTS
  Requests,      \* numbers, for the random ids of their records
  Urls,
  Main,
  Unattributed,  \* the store of no scope
  MaxRows        \* maxRecords

Records == Scopes \cup {Unattributed}

\* Headers that are of no request of the wrapper.
Stranger == 0

ASSUME CaptureAssumption ==
  /\ Requests \subseteq Nat \ {Stranger} /\ None \notin Nat
  /\ Main \in Scopes /\ Unattributed \notin Scopes
  /\ MaxRows \in Nat \ {0}
  /\ \A b \in Bounds :
       /\ b.requests \subseteq Requests  \* those that are made; if none, turns only
       /\ b.character \in BOOLEAN        \* whether chatluna-character is there
       /\ b.outcomes \subseteq {"success", "error"} \X BOOLEAN  \* status, with a body
       /\ b.failures \in BOOLEAN         \* whether fetches and bodies may fail
       /\ b.strangers \in Nat            \* requests that bypass the wrapper
       /\ b.overlap \in Nat              \* fetches under way at a time
       /\ b.clears \in Nat               \* stores cleared
       /\ b.started \in Nat /\ b.until \in Nat  \* first and last millisecond
       /\ b.spaces \subseteq Scopes      \* spaces there are from the start
       \* what the stores hold from an earlier process: ids, no two the same, and times,
       \* none before that of an earlier record
       /\ \A given \in b.stored :
            /\ given \in [Records -> Seq(Requests \X (0..b.started))]
            /\ \A p, q \in Records : \A j \in DOMAIN given[p], k \in DOMAIN given[q] :
                 /\ given[p][j][1] = given[q][k][1] => p = q /\ j = k
                 /\ p = q /\ j < k => given[p][j][2] <= given[q][k][2]

VARIABLES
  calls,       \* wrapped fetches: phase, address, store, whether its headers were sent
  rows,        \* of each store, its records
  dispatched,  \* pendingDispatchedRequests
  life,        \* of each scope: none, live, closing, gone
  now,         \* the time last looked at, in milliseconds
  strangers, clears,
  mixed,       \* ghost: addresses for which sends do not come in the order of the fetches
  tied         \* ghost: some store has records of one time, not in the order of their ids

captureVars == <<calls, rows, dispatched, life, now, strangers, clears, mixed, tied>>
allCaptureVars == <<vars, captureVars>>

NoCall == [phase |-> "none", url |-> None, store |-> None, sent |-> FALSE]
PastCall(p) == [phase |-> "over", url |-> None, store |-> p, sent |-> TRUE]
PastRecord(r, time) ==
  [id |-> r, time |-> time, status |-> "success", body |-> "unavailable", headers |-> r]

\* Two records that came in the same millisecond, the later with the smaller id.
Tied(seq) == \E k \in 1..(Len(seq) - 1) : seq[k].time = seq[k + 1].time /\ seq[k].id > seq[k + 1].id

CaptureInit ==
  /\ Init
  /\ \E given \in bounds.stored :
       /\ rows = [p \in Records |->
                    [k \in DOMAIN given[p] |-> PastRecord(given[p][k][1], given[p][k][2])]]
       /\ calls = [r \in Requests |->
                     IF \E p \in Records : \E k \in DOMAIN given[p] : given[p][k][1] = r
                       THEN PastCall(CHOOSE p \in Records : \E k \in DOMAIN given[p] : given[p][k][1] = r)
                       ELSE NoCall]
  /\ dispatched = <<>>
  /\ life = [p \in Scopes |-> IF p \in bounds.spaces \cup {Main} THEN "live" ELSE "none"]
  /\ now = bounds.started /\ strangers = 0 /\ clears = 0 /\ mixed = {}
  /\ tied = \E p \in Records : Tied(rows[p])

----------------------------------------------------------------------------
(* Records. *)

Ids(seq) == {seq[k].id : k \in DOMAIN seq}

\* A record with some of its fields written anew.
Amended(record, change) ==
  [f \in DOMAIN record |-> IF f \in DOMAIN change THEN change[f] ELSE record[f]]

\* Mutant of Updated: a record that is gone is stored again.
UpdatedOrStored(r, change) ==
  [rows EXCEPT ![calls[r].store] =
     IF r \in Ids(@) THEN [k \in DOMAIN @ |-> IF @[k].id = r THEN Amended(@[k], change) ELSE @[k]]
     ELSE Append(@, Amended([id |-> r, time |-> now, status |-> "pending",
                             body |-> "pending", headers |-> None], change))]

\* update: one row is written anew; nothing, if it is gone.
Updated(r, change) ==
  [rows EXCEPT ![calls[r].store] =
     [k \in DOMAIN @ |-> IF @[k].id = r THEN Amended(@[k], change) ELSE @[k]]]

\* append, and the oldest give way.
Stored(p, record) ==
  [rows EXCEPT ![p] = LET all == Append(@, record)
                      IN  IF Len(all) > MaxRows THEN Tail(all) ELSE all]

\* Mutant of Reading: fetches whose response is awaited are waited for, too.
ReadingOrAwaited(p) == {r \in Requests : calls[r].phase \in {"flying", "body"} /\ calls[r].store = p}

\* Bodies that are still read for a store (pendingUpdates).
Reading(p) == {r \in Requests : calls[r].phase = "body" /\ calls[r].store = p}

----------------------------------------------------------------------------
(* A fetch. *)

\* resolveModelRequestAttribution: the one scope where somebody thinks.
Attributed ==
  LET active == {ScopeOf(k) : k \in Thinking(store)}
  IN  IF Cardinality(active) = 1 THEN CHOOSE p \in active : TRUE ELSE Unattributed

\* The record is there, and its headers are waited for, before the fetch begins.
Intercept(s, r, u) ==
  /\ r \in bounds.requests /\ calls[r].phase = "none"
  /\ Cardinality({q \in Requests : calls[q].phase \in {"flying", "body"}}) < bounds.overlap
  /\ Request(s)
  /\ calls' = [calls EXCEPT ![r] =
                 [phase |-> "flying", url |-> u, store |-> Attributed, sent |-> FALSE]]
  /\ now' \in now..bounds.until
  /\ rows' = Stored(Attributed, [id |-> r, time |-> now', status |-> "pending",
                                 body |-> "pending", headers |-> None])
  /\ dispatched' = Append(dispatched, r)
  /\ tied' = (tied \/ Tied(rows'[Attributed]))
  /\ UNCHANGED <<life, strangers, clears, mixed>>

WaitingFor(u) == {k \in DOMAIN dispatched : calls[dispatched[k]].url = u}

\* captureDispatchedModelRequest: the first that waits at this address gets the headers.
HeadersSent(u, headers) ==
  IF WaitingFor(u) = {} THEN UNCHANGED <<rows, dispatched>>
  ELSE LET k == Min(WaitingFor(u))
       IN  /\ rows' = Updated(dispatched[k], [headers |-> headers])
           /\ dispatched' = RemoveAt(dispatched, k)

\* undici sends a fetch when it has a connection, perhaps later than one that came after.
Send(r) ==
  LET u == calls[r].url
      overtakes == \E k \in WaitingFor(u) :
                     dispatched[k] # r /\ \A j \in WaitingFor(u) : dispatched[j] = r => k < j
  IN
  /\ calls[r].phase = "flying" /\ ~calls[r].sent
  /\ calls' = [calls EXCEPT ![r].sent = TRUE]
  /\ HeadersSent(u, r)
  /\ mixed' = IF overtakes THEN mixed \cup {u} ELSE mixed
  /\ UNCHANGED <<vars, life, now, strangers, clears, tied>>

\* Something else in the process sends a request to the same address.
StrangerSends(u) ==
  /\ strangers < bounds.strangers /\ strangers' = strangers + 1
  /\ HeadersSent(u, Stranger)
  /\ mixed' = IF WaitingFor(u) # {} THEN mixed \cup {u} ELSE mixed
  /\ UNCHANGED <<vars, calls, life, now, clears, tied>>

\* The response has come, with a body that can be cloned or without.
Respond(r, status, body) ==
  /\ calls[r].phase = "flying" /\ calls[r].sent
  /\ calls' = [calls EXCEPT ![r].phase = IF body THEN "body" ELSE "over"]
  /\ rows' = Updated(r, [status |-> status, body |-> IF body THEN "pending" ELSE "unavailable"])
  /\ UNCHANGED <<vars, dispatched, life, now, strangers, clears, mixed, tied>>

\* The fetch throws, sent or not: nobody takes it off the list of those to be sent.
Reject(r) ==
  /\ bounds.failures /\ calls[r].phase = "flying"
  /\ calls' = [calls EXCEPT ![r].phase = "over"]
  /\ rows' = Updated(r, [status |-> "error", body |-> "unavailable"])
  /\ mixed' = IF calls[r].sent THEN mixed ELSE mixed \cup {calls[r].url}
  /\ UNCHANGED <<vars, dispatched, life, now, strangers, clears, tied>>

\* The clone has been read to its end, or the stream breaks.
BodyEnds(r) ==
  /\ calls[r].phase = "body"
  /\ calls' = [calls EXCEPT ![r].phase = "over"]
  /\ \E body \in {"complete"} \cup (IF bounds.failures THEN {"error"} ELSE {}) :
       rows' = Updated(r, [body |-> body])
  /\ UNCHANGED <<vars, dispatched, life, now, strangers, clears, mixed, tied>>

----------------------------------------------------------------------------
(* Stores and scopes. *)

Clear(p) ==
  /\ clears < bounds.clears /\ clears' = clears + 1
  /\ rows' = [rows EXCEPT ![p] = <<>>]
  /\ UNCHANGED <<vars, calls, dispatched, life, now, strangers, mixed, tied>>

CreateSpace(p) ==
  /\ life[p] = "none"
  /\ life' = [life EXCEPT ![p] = "live"]
  /\ UNCHANGED <<vars, calls, rows, dispatched, now, strangers, clears, mixed, tied>>

\* deleteSpace: the records go at once; what its own ChatLuna store still holds is seen by
\* nobody from now on, and goes here. Fetches under way keep the record store.
DeleteSpace(p) ==
  LET ks == InScope(Keys, p) IN
  /\ p # Main /\ life[p] = "live"
  /\ life' = [life EXCEPT ![p] = "closing"]
  /\ rows' = [rows EXCEPT ![p] = <<>>]
  /\ store' = Dropped(Detach(store, ks), ks)
  /\ UNCHANGED <<bounds, chat, turns, answered, service, tracked, presets, replies, begun,
                 forgotten, calls, dispatched, now, strangers, clears, mixed, tied>>

\* The control is disposed once waitForPersistence has returned: once no body is read.
SpaceGone(p) ==
  /\ life[p] = "closing" /\ Reading(p) = {}
  /\ life' = [life EXCEPT ![p] = "gone"]
  /\ UNCHANGED <<vars, calls, rows, dispatched, now, strangers, clears, mixed, tied>>

----------------------------------------------------------------------------

\* Turns go on as they do; they make their requests by Intercept. Nobody begins to think
\* in a scope that is not there.
Turning ==
  /\ Core \/ (bounds.character /\ Character)
       \/ \E k \in Keys : Forget(k)
  /\ \A k \in Thinking(store') \ Thinking(store) : life[ScopeOf(k)] = "live"
  /\ UNCHANGED captureVars

Fetching ==
  \E r \in bounds.requests :
    \/ \E s \in Sessions, u \in Urls : Intercept(s, r, u)
    \/ Send(r) \/ Reject(r) \/ BodyEnds(r)
    \/ \E outcome \in bounds.outcomes : Respond(r, outcome[1], outcome[2])
    \/ StrangerSends(calls[r].url)

Managing ==
  \/ \E p \in Records : Clear(p)
  \/ \E p \in Scopes : CreateSpace(p) \/ DeleteSpace(p) \/ SpaceGone(p)

CaptureNext ==
  \/ bounds.requests = {} /\ Next /\ UNCHANGED captureVars
  \/ bounds.requests # {} /\ (Turning \/ Fetching \/ Managing)

CaptureSpec == CaptureInit /\ [][CaptureNext]_allCaptureVars

----------------------------------------------------------------------------
(* Properties. *)

CaptureTypeOK ==
  /\ calls \in [Requests -> [phase : {"none", "flying", "body", "over"}, url : Urls \cup {None},
                             store : Records \cup {None}, sent : BOOLEAN]]
  /\ rows \in [Records -> Seq([id : Requests, time : Nat, headers : Requests \cup {None, Stranger},
                               status : {"pending", "success", "error"},
                               body : {"pending", "complete", "unavailable", "error"}])]
  /\ dispatched \in Seq(Requests) /\ mixed \subseteq Urls
  /\ life \in [Scopes -> {"none", "live", "closing", "gone"}]

\* Whatever comes late or together, a record says of its fetch what is the case: it is
\* pending exactly while the response is awaited, its body while it is read, it stands in
\* one store, and its headers are those that were sent for it. The headers may be another's
\* where something else sent to the address, where a fetch failed before it was sent, or was
\* overtaken: from then on the list may be one off (captureDispatchedModelRequest).
RecordsFollowFetches ==
  \A p \in Records : \A k, j \in DOMAIN rows[p] :
    LET record == rows[p][k]  call == calls[record.id] IN
    /\ call.store = p /\ (k # j => record.id # rows[p][j].id)
    /\ record.status = "pending" <=> call.phase = "flying"
    /\ record.body = "pending" <=> call.phase \in {"flying", "body"}
    /\ call.url \notin mixed => record.headers = IF call.sent THEN record.id ELSE None

\* Late responses and bodies bring no record back that was cleared, evicted or deleted with
\* its space (replace writes rows that are there only).
ClearedStaysCleared ==
  [][\A p \in Records : \A r \in Ids(rows'[p]) \ Ids(rows[p]) : calls[r].phase = "none"]_allCaptureVars

\* What is recorded of requests is true.
EvidenceIsTrue == [](CaptureTypeOK /\ RecordsFollowFetches) /\ ClearedStaysCleared
=============================================================================
