--------------------------- MODULE WorkspaceClient ---------------------------
(***************************************************************************)
(* One browser page of the console: the space it observes, the operator it *)
(* acts as, the snapshot it shows, the calls it has under way and the      *)
(* model request trajectory beside it.                                     *)
(*                                                                         *)
(* A snapshot is what the server lets one operator see of one space at one *)
(* moment: the revision of the scene, the live state of ChatLuna (which    *)
(* has no revision), the participants and the last messages of a           *)
(* conversation, numbered in the order they were sent.  The server runs a  *)
(* handler when it likes and the socket keeps the order of what it sends,  *)
(* answers and broadcasts alike; reads of the workspace await nothing once *)
(* the scenes are loaded, so they are answered in the order asked.         *)
(***************************************************************************)
EXTENDS Naturals, Sequences, FiniteSets, FiniteSetsExt

CONSTANTS
  Spaces,        \* the main environment and the test spaces
  Main,          \* the one a page observes first
  Operators,     \* ids of participants
  Place,         \* their places: users in the order of the participants, then bots in theirs
  Queries,       \* trajectories one can ask for
  None,
  Window,        \* messages of a snapshot (50 in the code)
  Page,          \* messages of a history page (50)
  Bounds         \* the instances to explore

ASSUME ClientAssumption ==
  /\ Main \in Spaces
  /\ Place \in [Operators -> Nat]
  /\ \A o, p \in Operators : Place[o] = Place[p] => o = p
  /\ None \notin Spaces \cup Operators \cup Queries
  /\ Window \in Nat \ {0} /\ Page \in Nat \ {0}
  /\ \A b \in Bounds :
       /\ b.spaces \subseteq Spaces         \* those the user visits
       /\ b.sent \in Nat                    \* messages of a scene at first
       /\ b.asks \in Nat                    \* calls of the user
       /\ b.deletes \subseteq Operators     \* whom the user may delete
       /\ b.changes \in Nat                 \* changes made by others
       /\ b.queries \in Nat                 \* trajectory reads and clears

VARIABLES
  bounds,
  \* server
  scene,      \* of each space: revision, live state, last message, participants
  done,       \* numbers of the calls whose change is made and whose answer is not sent
  \* the socket
  calls,      \* calls the server has not answered
  line,       \* answers and broadcasts on their way to the page
  \* page
  space,      \* activeSpaceId
  operator,   \* currentOperatorId, and the one in localStorage
  shown,      \* workspaceState
  refreshing, \* mutationRefreshTask
  pending,    \* pendingRefresh
  \* model request panel
  panelRead,  \* modelRequestTrajectoryRead
  trajectory, \* modelRequestTrajectoryState: the query and the read it answers
  reads,      \* trajectory reads and clears under way
  \* bounds and history
  asked, changed, queried,
  tangled,    \* the user switched while a call was under way that the switch makes stale
  disturbed,  \* the rows were replaced, or another page asked for, under a page being read
  cleared     \* the last read asked for before the latest clear was done

serverVars == <<scene, done, changed>>
pageVars   == <<space, operator, shown, refreshing, pending>>
panelVars  == <<panelRead, trajectory, reads, queried, cleared>>
ghostVars  == <<tangled, disturbed>>
vars == <<bounds, serverVars, calls, line, pageVars, panelVars, asked, ghostVars>>

-----------------------------------------------------------------------------
(* The server *)

Numbers(from, to) == [i \in 1..(to + 1 - from) |-> from + i - 1]
From(n, k)        == IF n > k THEN n - k + 1 ELSE 1

\* The first user, or else the first participant.
First(ops) ==
  IF ops = {} THEN None
  ELSE CHOOSE o \in ops : \A p \in ops : Place[o] <= Place[p]

\* getWorkspace in s for o, who is a participant of it, or for its first user.
View(s, o) ==
  LET last == scene[s].last
  IN  [space |-> s, operator |-> o, rev |-> scene[s].rev, live |-> scene[s].live,
       ids |-> Numbers(From(last, Window), last), more |-> last > Window,
       ops |-> scene[s].ops]

\* getMessageHistory
HistoryPage(before) ==
  [ids |-> Numbers(From(before - 1, Page), before - 1), more |-> before - 1 > Page]

Failure  == [ok |-> FALSE]
Reads    == {"load", "bare", "select", "refresh", "reread"}
Switches == {"load", "bare", "select"}
Changes  == {"send", "delete"}
Commands == Changes \cup {"reread"}

\* The call names somebody who has to be there, and a conversation that has to be in its space.
NamesOperator(c) == c.kind \notin {"bare", "delete"} /\ c.operator # None
Finds(c) ==
  c.operator \in scene[c.space].ops /\ (c.kind = "history" => c.target = c.space)

\* What the handler of c returns now.
Result(c) ==
  IF NamesOperator(c) /\ ~Finds(c) THEN Failure
  ELSE IF c.kind = "history" THEN [ok |-> TRUE, page |-> HistoryPage(c.before)]
  ELSE [ok |-> TRUE, view |-> View(c.space, IF NamesOperator(c) THEN c.operator
                                            ELSE First(scene[c.space].ops))]

Mutated(s) == [kind |-> "mutated", space |-> s]

\* The scene of s changes, or the live state in it, and every page is told.
Commit(s, with) ==
  /\ scene' = [scene EXCEPT ![s] = with]
  /\ line' = Append(line, Mutated(s))

Written(v)    == [v EXCEPT !.rev = @ + 1, !.last = @ + 1]
Without(v, o) == [v EXCEPT !.rev = @ + 1, !.ops = @ \ {o}]

\* A bot answers, ChatLuna begins or stops thinking, or another page or an agent
\* deletes a participant.
ElsewhereChanges(s) ==
  /\ changed < bounds.changes
  /\ changed' = changed + 1
  /\ \/ Commit(s, Written(scene[s]))
     \/ Commit(s, [scene[s] EXCEPT !.live = @ + 1])
     \/ \E o \in scene[s].ops : Commit(s, Without(scene[s], o))
  /\ UNCHANGED <<bounds, done, calls, pageVars, panelVars, asked, ghostVars>>

\* The handler of a mutating call changes the scene; it may await a bot before it answers.
Perform(c) ==
  /\ c.kind \in Changes /\ c.n \notin done
  /\ done' = done \cup {c.n}
  /\ \/ /\ c.kind = "send" /\ c.operator \in scene[c.space].ops
        /\ Commit(c.space, Written(scene[c.space]))
     \/ /\ c.kind = "delete" /\ c.target \in scene[c.space].ops
        /\ Commit(c.space, Without(scene[c.space], c.target))
  /\ UNCHANGED <<bounds, calls, pageVars, panelVars, asked, changed, ghostVars>>

\* The order of reads is kept; a mutating call that is refused is answered at once.
MayAnswer(c) ==
  /\ c.kind \in Reads \cup {"history"} =>
       \A d \in calls : d.kind \in Reads \cup {"history"} => d.n >= c.n
  /\ c.kind = "send" => c.n \in done \/ c.operator \notin scene[c.space].ops
  /\ c.kind = "delete" => c.n \in done \/ c.target \notin scene[c.space].ops

Refused(c) == c.kind \in Changes /\ c.n \notin done

Answer(c) ==
  /\ MayAnswer(c)
  /\ calls' = calls \ {c} /\ done' = done \ {c.n}
  /\ line' = Append(line, [kind |-> "answer", call |-> c,
                           result |-> IF Refused(c) THEN Failure ELSE Result(c)])
  /\ UNCHANGED <<bounds, scene, changed, pageVars, panelVars, asked, ghostVars>>

-----------------------------------------------------------------------------
(* The calls of the page *)

Underway == calls \cup {line[i].call : i \in {j \in DOMAIN line : line[j].kind = "answer"}}
Kinds(K) == {c \in Underway : c.kind \in K}

\* The port adds the space when the call is sent.
Call(kind, o, before, target, path) ==
  [n |-> 1 + Max({0} \cup {c.n : c \in calls}), kind |-> kind, space |-> space,
   operator |-> o, before |-> before, target |-> target, path |-> path]
Plain(kind, o) == Call(kind, o, 0, None, None)

\* c and a call under way are for different operators or spaces, in a way that leaves it to
\* chance which of them has the last word: a command is answered late, and what is asked
\* during a switch is asked for the operator before it.
Tangles(c) ==
  \E d \in Underway :
    \/ d.kind \in Commands /\ (d.operator # c.operator \/ d.space # c.space)
    \/ d.kind \in Switches /\ c.kind \notin Switches /\ d.operator # c.operator

Ask(c) == calls' = calls \cup {c} /\ tangled' = (tangled \/ Tangles(c))

UserAsks == asked < bounds.asks /\ asked' = asked + 1

Blank == [space |-> None, operator |-> None, rev |-> 0, live |-> 0, ids |-> <<>>,
          more |-> FALSE, ops |-> {}]

\* The page is opened with the preferences of an earlier visit.
Init ==
  /\ bounds \in Bounds
  /\ scene = [s \in Spaces |-> [rev |-> 1, live |-> 0, last |-> bounds.sent,
                                ops |-> Operators]]
  /\ done = {} /\ line = <<>>
  /\ space = Main /\ operator \in Operators \cup {None} /\ shown = Blank
  /\ calls = {[n |-> 1, kind |-> IF operator = None THEN "bare" ELSE "load", space |-> Main,
               operator |-> operator, before |-> 0, target |-> None, path |-> None]}
  /\ refreshing = FALSE /\ pending = FALSE
  /\ panelRead = 0 /\ trajectory = None /\ reads = {}
  /\ asked = 0 /\ changed = 0 /\ queried = 0
  /\ tangled = FALSE /\ disturbed = FALSE /\ cleared = 0

\* load reads everything anew, so it mends what was tangled.
Load(c)  == calls' = calls \cup {c} /\ tangled' = Tangles(c)
LoadKind == IF operator = None THEN "bare" ELSE "load"

\* Mutant of ObserveSpace: the workspace is read before the space is set.
ObserveSpaceLate(s) ==
  /\ UserAsks
  /\ space' = s
  /\ Load(Plain(LoadKind, operator))
  /\ UNCHANGED <<bounds, serverVars, line, operator, shown, refreshing, pending, panelVars,
                 disturbed>>

\* observeSpace: the space is set first, then load reads it.
ObserveSpace(s) ==
  /\ UserAsks
  /\ space' = s
  /\ Load([Plain(LoadKind, operator) EXCEPT !.space = s])
  /\ UNCHANGED <<bounds, serverVars, line, operator, shown, refreshing, pending, panelVars,
                 disturbed>>

\* selectOperator: the operator changes when the answer is there.
SelectOperator(o) ==
  /\ UserAsks
  /\ o \in shown.ops
  /\ Ask(Plain("select", o))
  /\ UNCHANGED <<bounds, serverVars, line, pageVars, panelVars, disturbed>>

\* sendMessage, and every other command that answers with the workspace.
Send ==
  /\ UserAsks
  /\ operator # None
  /\ Ask(Plain("send", operator))
  /\ UNCHANGED <<bounds, serverVars, line, pageVars, panelVars, disturbed>>

\* manageEnvironment that deletes a participant.
DeleteOperator(o) ==
  /\ UserAsks
  /\ o \in shown.ops
  /\ Ask(Call("delete", operator, 0, o, None))
  /\ UNCHANGED <<bounds, serverVars, line, pageVars, panelVars, disturbed>>

\* loadEarlierMessages, from the list or to reveal a hit of the search: each has a gate of
\* its own.  The conversation and its first message are those shown, the space is the one
\* the page is on its way to.
LoadEarlier(path) ==
  /\ UserAsks
  /\ operator # None /\ shown.ids # <<>> /\ shown.more
  /\ \A c \in Kinds({"history"}) : c.path # path
  /\ Ask(Call("history", operator, Head(shown.ids), shown.space, path))
  /\ disturbed' = (disturbed \/ Kinds({"history"}) # {})
  /\ UNCHANGED <<bounds, serverVars, line, pageVars, panelVars>>

-----------------------------------------------------------------------------
(* What arrives at the page *)

Resolved(ops, o) == IF o \in ops THEN o ELSE First(ops)

\* replaceWorkspace
Replace(view) ==
  /\ shown' = view /\ operator' = Resolved(view.ops, operator)
  /\ disturbed' = (Kinds({"history"}) # {})

Keep == UNCHANGED <<shown, operator, disturbed>>

Arrives(kind) == line # <<>> /\ Head(line).kind = kind /\ line' = Tail(line)
Answered(K) == Arrives("answer") /\ Head(line).call.kind \in K

\* A pass of the refresh task: it reads as the operator of the moment.
Refresh(o) ==
  /\ refreshing' = TRUE /\ pending' = FALSE
  /\ Ask(Plain("refresh", o))

\* Mutant of ReceiveMutated: a broadcast is dropped while a refresh runs.
ReceiveMutatedOnce ==
  /\ Arrives("mutated")
  /\ IF Head(line).space = space /\ ~refreshing THEN Refresh(operator)
     ELSE UNCHANGED <<refreshing, pending, calls, tangled>>
  /\ UNCHANGED <<bounds, serverVars, space, operator, shown, panelVars, asked, disturbed>>

\* createSceneMutationSync and notifySceneRevision
ReceiveMutated ==
  /\ Arrives("mutated")
  /\ CASE Head(line).space # space -> UNCHANGED <<refreshing, pending, calls, tangled>>
       [] Head(line).space = space /\ refreshing ->
            pending' = TRUE /\ UNCHANGED <<refreshing, calls, tangled>>
       [] OTHER -> Refresh(operator)
  /\ UNCHANGED <<bounds, serverVars, space, operator, shown, panelVars, asked, disturbed>>

\* The refresh keeps what is newer, and starts over for what was announced meanwhile.
ReceiveRefresh ==
  /\ Answered({"refresh"})
  /\ LET result == Head(line).result
     IN  IF result.ok /\ result.view.rev >= shown.rev THEN Replace(result.view) ELSE Keep
  /\ IF pending THEN Refresh(operator')
     ELSE refreshing' = FALSE /\ UNCHANGED <<pending, calls, tangled>>
  /\ UNCHANGED <<bounds, serverVars, space, panelVars, asked>>

\* The rest of load: a read that is refused is repeated without an operator.
ReceiveLoad ==
  /\ Answered({"load", "bare"})
  /\ LET c == Head(line).call
         result == Head(line).result
     IN  IF result.ok
         THEN /\ shown' = result.view
              /\ operator' = Resolved(result.view.ops, c.operator)
              /\ disturbed' = (Kinds({"history"}) # {})
              /\ UNCHANGED <<calls, tangled>>
         ELSE /\ calls' = calls \cup {Plain("bare", c.operator)} /\ Keep
              /\ tangled' = (tangled \/ c.space # space \/ Tangles(Plain("bare", c.operator)))
  /\ UNCHANGED <<bounds, serverVars, space, refreshing, pending, panelVars, asked>>

\* The rest of selectOperator.
ReceiveSelect ==
  /\ Answered({"select"})
  /\ LET result == Head(line).result
     IN  IF result.ok
         THEN /\ shown' = result.view
              /\ operator' = Head(line).call.operator
              /\ disturbed' = (Kinds({"history"}) # {})
         ELSE Keep
  /\ UNCHANGED <<bounds, serverVars, calls, space, refreshing, pending, panelVars, asked,
                 tangled>>

\* The rest of manageEnvironment: the workspace is read again for the operator of the
\* command, unless it deleted that one.
ReceiveDelete ==
  /\ Answered({"delete"})
  /\ LET c == Head(line).call
         result == Head(line).result
     IN  CASE ~result.ok -> Keep /\ UNCHANGED <<calls, tangled>>
           [] result.ok /\ c.operator \in {None, c.target} ->
                Replace(result.view) /\ UNCHANGED <<calls, tangled>>
           [] OTHER -> /\ calls' = calls \cup {Plain("reread", c.operator)} /\ Keep
                       /\ tangled' = (tangled \/ c.operator # operator
                                              \/ Tangles(Plain("reread", c.operator)))
  /\ UNCHANGED <<bounds, serverVars, space, refreshing, pending, panelVars, asked>>

\* The rest of a command, and of the second read of manageEnvironment.
ReceiveWorkspace ==
  /\ Answered({"send", "reread"})
  /\ IF Head(line).result.ok THEN Replace(Head(line).result.view) ELSE Keep
  /\ UNCHANGED <<bounds, serverVars, calls, space, refreshing, pending, panelVars, asked,
                 tangled>>

\* The rest of loadMessageHistory: the page goes before the rows of the conversation as they
\* are now.  Conversations of two spaces have different ids.
ReceiveHistory ==
  /\ Answered({"history"})
  /\ LET result == Head(line).result
     IN  IF result.ok /\ Head(line).call.space = shown.space
         THEN /\ shown' = [shown EXCEPT !.ids = result.page.ids \o @, !.more = result.page.more]
              /\ operator' = Resolved(shown.ops, operator)
              /\ UNCHANGED disturbed
         ELSE Keep
  /\ UNCHANGED <<bounds, serverVars, calls, space, refreshing, pending, panelVars, asked,
                 tangled>>

Receive ==
  ReceiveMutated \/ ReceiveRefresh \/ ReceiveLoad \/ ReceiveSelect \/ ReceiveDelete
    \/ ReceiveWorkspace \/ ReceiveHistory

-----------------------------------------------------------------------------
(* The trajectory of the model request panel *)

Query == queried < bounds.queries /\ queried' = queried + 1

\* loadModelRequestTrajectory
LoadTrajectory(q) ==
  /\ Query
  /\ panelRead' = panelRead + 1
  /\ reads' = reads \cup {[query |-> q, read |-> panelRead + 1]}
  /\ UNCHANGED <<bounds, serverVars, calls, line, pageVars, trajectory, asked, ghostVars, cleared>>

\* Mutant of TrajectoryRead: the answer is taken whenever it comes.
TrajectoryReadAlways(r) ==
  /\ r.query # None
  /\ reads' = reads \ {r}
  /\ trajectory' \in {r, trajectory}
  /\ UNCHANGED <<bounds, serverVars, calls, line, pageVars, panelRead, asked, queried, ghostVars,
                 cleared>>

\* Its answer, or its failure; answers come in any order.
TrajectoryRead(r) ==
  /\ r.query # None
  /\ reads' = reads \ {r}
  /\ trajectory' \in (IF r.read = panelRead THEN {r} ELSE {}) \cup {trajectory}
  /\ UNCHANGED <<bounds, serverVars, calls, line, pageVars, panelRead, asked, queried, ghostVars,
                 cleared>>

\* clearModelRequestRecords
ClearRecords ==
  /\ Query
  /\ reads' = reads \cup {[query |-> None, read |-> 0]}
  /\ UNCHANGED <<bounds, serverVars, calls, line, pageVars, panelRead, trajectory, asked,
                 ghostVars, cleared>>

\* The records are gone: so is the trajectory, and what was read before counts no more.
RecordsCleared(r) ==
  /\ r.query = None
  /\ reads' = reads \ {r}
  /\ panelRead' = panelRead + 1
  /\ trajectory' = None /\ cleared' = panelRead
  /\ UNCHANGED <<bounds, serverVars, calls, line, pageVars, asked, queried, ghostVars>>

-----------------------------------------------------------------------------

Server ==
  \/ \E s \in Spaces : s \in bounds.spaces /\ ElsewhereChanges(s)
  \/ \E c \in calls : Perform(c) \/ Answer(c)

User ==
  \/ \E s \in Spaces : s \in bounds.spaces /\ ObserveSpace(s)
  \/ \E o \in Operators : SelectOperator(o) \/ (o \in bounds.deletes /\ DeleteOperator(o))
  \/ Send
  \/ \E path \in {"list", "search"} : LoadEarlier(path)

Panel ==
  \/ \E q \in Queries : LoadTrajectory(q)
  \/ \E r \in reads : TrajectoryRead(r) \/ RecordsCleared(r)
  \/ ClearRecords

Next == Server \/ User \/ Receive \/ Panel

Spec == Init /\ [][Next]_vars

-----------------------------------------------------------------------------
(* Properties *)

Snapshot == [space : Spaces \cup {None}, operator : Operators \cup {None}, rev : Nat,
             live : Nat, ids : Seq(Nat), more : BOOLEAN, ops : SUBSET Operators]

\* The variables have their types.
TypeOK ==
  /\ bounds \in Bounds
  /\ space \in Spaces /\ operator \in Operators \cup {None} /\ shown \in Snapshot
  /\ refreshing \in BOOLEAN /\ pending \in BOOLEAN
  /\ panelRead \in Nat /\ cleared \in Nat
  /\ tangled \in BOOLEAN /\ disturbed \in BOOLEAN

\* Nothing is on its way.
Settled == calls = {} /\ line = <<>>

\* Broadcasts that come during a refresh are merged into one more refresh and a refresh
\* drops answers that are older than what is shown: once everything has arrived the page
\* still shows the latest scene and the latest live state of the space it observes, unless
\* its operator was deleted (notifySceneRevision, controller.ts).
CaughtUp ==
  Settled /\ shown.space = space /\ operator \in scene[space].ops =>
    /\ shown.rev = scene[space].rev /\ shown.live = scene[space].live
    /\ shown.ids # <<>> => shown.ids[Len(shown.ids)] = scene[space].last

\* What is shown is what the current operator sees of the observed space, whatever overlaps,
\* unless calls for two operators or two spaces are under way at once and the wrong one may
\* have the last word: their answers replace the workspace without a look at the operator
\* or the space they were asked for (replaceWorkspace, selectOperator, load).
ShownIsOfTheSwitch ==
  Settled /\ ~tangled => shown.space = space /\ shown.operator = operator

\* The operator a page acts as exists, unless somebody else deleted it; when the page
\* deleted it itself, it has fallen back to another one (manageEnvironment,
\* resolveWorkspaceSelection).
OperatorIsLostToOthersOnly ==
  Settled /\ changed = 0 /\ ~tangled =>
    operator \in scene[space].ops \/ (operator = None /\ scene[space].ops = {})

\* The page shows what its operator sees, and its operator is somebody.
ViewFollowsOperator == TypeOK /\ ShownIsOfTheSwitch /\ OperatorIsLostToOthersOnly

\* The messages of the conversation are shown without a gap or a repetition, and the offer
\* to read earlier ones is there exactly when there are some, unless the rows changed while
\* a page was read (loadMessageHistory).
HistoryIsContiguous ==
  ~disturbed =>
    /\ \A i \in 1..(Len(shown.ids) - 1) : shown.ids[i + 1] = shown.ids[i] + 1
    /\ shown.ids # <<>> => (shown.more <=> Head(shown.ids) > 1)

\* In the end the page shows the latest there is, without a gap.
PageCatchesUp == CaughtUp /\ HistoryIsContiguous

\* An answer never replaces the trajectory of a later read, and none that was asked for
\* before the records were cleared brings a trajectory back (modelRequestTrajectoryRead).
TrajectoryMovesForward ==
  [][trajectory' \notin {trajectory, None} =>
       /\ trajectory # None => trajectory'.read > trajectory.read
       /\ trajectory'.read > cleared']_vars
=============================================================================
