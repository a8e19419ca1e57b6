---------------------------- MODULE RecordStore ----------------------------
(***************************************************************************)
(* One evidence record store of one scope (SandboxOneBotDebugStore, or     *)
(* SandboxModelRequestStore, which adds update), its serial write queue,   *)
(* its row index, the database tables behind it and a reader that walks    *)
(* the pages.                                                              *)
(*                                                                         *)
(* A record is an id and its size; filters and projections are left out.   *)
(* A step is what runs between two awaits of the task at the head of the   *)
(* queue.  A database call that fails has no effect.                       *)
(***************************************************************************)
EXTENDS Naturals, Sequences, FiniteSets, FiniteSetsExt

CONSTANTS
  Records,      \* ids of the records (Random.id: appended once)
  None,         \* the record of a task that has none
  Sizes,        \* sizes in bytes a record may have
  MaxRecords,   \* maxRecords of the store
  MaxBytes,     \* maxBytes of the store
  PageSize,     \* the limit of a read
  MaxRounds,    \* rounds of settle (1000 in the code)
  MaxQueue,     \* bound: tasks in the queue
  MaxRestarts,  \* bound: restarts of the process
  MaxFaults,    \* bound: failing database calls
  MaxReads      \* bound: walks begun in one process

ASSUME RecordsAssumption ==
  /\ None \notin Records
  /\ Sizes \subseteq Nat
  /\ MaxRecords \in Nat /\ MaxBytes \in Nat
  /\ PageSize \in Nat \ {0} /\ MaxRounds \in Nat \ {0}
  /\ MaxQueue \in Nat /\ MaxRestarts \in Nat /\ MaxFaults \in Nat /\ MaxReads \in Nat

Row      == [sequence : Nat, record : Records, bytes : Sizes]
IndexRow == [sequence : Nat, bytes : Sizes]
Task     == [kind : {"append", "update"}, record : Records, bytes : Sizes]
            \cup [kind : {"clear"}, record : {None}, bytes : {0}]

VARIABLES
  \* memory of the store
  ready,        \* the first summarize has settled
  backend,      \* "database", or "memory" once the store is degraded
  nextSequence, \* next sequence append hands out
  seq,          \* record.sequence of a record this process appended (0: none)
  queue,        \* SerialWriteQueue.queue: the tasks that have not settled
  step,         \* what the head of the queue awaits
  passed,       \* this.nextSequence as the head read it when it was dispatched
  summary,      \* this.summary: the index rows it counts
  local,        \* InMemoryRecordRows.bodies of the degraded store
  \* ScopeRowIndex of the current persistence
  indexRows, indexNext,
  \* database
  table, scopeNext,
  \* a reader
  reading, ahead, rounds, walk, reads,
  \* bounds and history
  restarts, faults,
  turn,         \* the order of the append calls
  appends,
  numbered,     \* the sequence every record was stored under
  due           \* records appended before the reader called

storeVars  == <<ready, backend, nextSequence, seq>>
taskVars   == <<queue, step, passed>>
indexVars  == <<indexRows, indexNext>>
dbVars     == <<table, scopeNext>>
readVars   == <<reading, ahead, rounds, walk, reads, due>>
boundVars  == <<restarts, faults>>
orderVars  == <<turn, appends>>
vars == <<storeVars, taskVars, summary, local, indexVars, dbVars, readVars, boundVars,
          orderVars, numbered>>

Rows       == IF backend = "database" THEN table ELSE local
RecordsOf(S) == {x.record : x \in S}

-----------------------------------------------------------------------------
(* ScopeRowIndex *)

\* The columns of a row the index keeps.
Entry(x)   == [sequence |-> x.sequence, bytes |-> x.bytes]
Indexed(S) == {Entry(x) : x \in S}

\* The limits of the store, for rows counted as the index keeps them.
TotalBytes(S) == MapThenSumSet(LAMBDA x : x.bytes, S)
Fits(S) == Cardinality(Indexed(S)) <= MaxRecords /\ TotalBytes(Indexed(S)) <= MaxBytes

\* put, and the upsert of a row: the primary key is the sequence.
Put(S, x) == {y \in S : y.sequence # x.sequence} \cup {x}

NewerThan(S, c) == {x \in S : x.sequence > c}

\* Mutant of Cutoff: the loop takes every row.
CutoffAll(S) == Max({x.sequence : x \in S})

\* resolveCutoff of rows that do not fit: rows are tried from the oldest on, so the
\* cutoff is the smallest sequence that leaves rows that fit, or none.
Cutoff(S) ==
  Min({c \in {x.sequence : x \in S} : NewerThan(S, c) = {} \/ Fits(NewerThan(S, c))})

\* Mutant of First: the scope row alone decides.
FirstOfScope == Max({1, scopeNext})

\* nextSequence after reset.
First == Max({1, scopeNext} \cup {x.sequence + 1 : x \in table})

-----------------------------------------------------------------------------
(* Start *)

NoWalk == [desc |-> TRUE, cursor |-> 0, seen |-> {}, base |-> {}, twice |-> FALSE]

Init ==
  /\ ready = FALSE /\ backend = "database"
  /\ nextSequence = 1
  /\ seq = [r \in Records |-> 0]
  /\ queue = <<>> /\ step = "idle" /\ passed = 0
  /\ summary = {} /\ local = {}
  /\ indexRows = {} /\ indexNext = 1
  /\ table = {} /\ scopeNext = 0
  /\ reading = "idle" /\ ahead = 0 /\ rounds = 0 /\ walk = NoWalk /\ reads = 0
  /\ restarts = 0 /\ faults = 0
  /\ turn = [r \in Records |-> 0] /\ appends = 0
  /\ numbered = {} /\ due = {}

\* The process stops at any point and starts again: the database survives.
Restart ==
  /\ restarts < MaxRestarts
  /\ restarts' = restarts + 1
  /\ ready' = FALSE /\ backend' = "database"
  /\ nextSequence' = 1
  /\ seq' = [r \in Records |-> 0]
  /\ queue' = <<>> /\ step' = "idle" /\ passed' = 0
  /\ summary' = {} /\ local' = {}
  /\ indexRows' = {} /\ indexNext' = 1
  /\ reading' = "idle" /\ ahead' = 0 /\ rounds' = 0 /\ walk' = NoWalk /\ reads' = 0
  /\ due' = {}
  /\ UNCHANGED <<dbVars, faults, orderVars, numbered>>

\* The k-th staged record has the provisional sequence k and gets first + k - 1.
Renumbered(s, first) == [r \in Records |-> IF s[r] = 0 THEN 0 ELSE s[r] + first - 1]

\* The first summarize succeeds: the records appended so far are renumbered.
Recover ==
  /\ ~ready
  /\ ready' = TRUE
  /\ indexRows' = Indexed(table)
  /\ indexNext' = First
  /\ seq' = Renumbered(seq, First)
  /\ nextSequence' = nextSequence + First - 1
  /\ summary' = Indexed(table)
  /\ UNCHANGED <<backend, taskVars, local, dbVars, readVars, boundVars, orderVars, numbered>>

\* It fails: this run keeps its records in memory and leaves the database alone.
Degrade ==
  /\ ~ready /\ faults < MaxFaults
  /\ faults' = faults + 1
  /\ ready' = TRUE
  /\ backend' = "memory"
  /\ UNCHANGED <<nextSequence, seq, taskVars, summary, local, indexVars, dbVars, readVars,
                 restarts, orderVars, numbered>>

-----------------------------------------------------------------------------
(* Calls that queue a task *)

Push(kind, r, b) ==
  /\ Len(queue) < MaxQueue
  /\ queue' = Append(queue, [kind |-> kind, record |-> r, bytes |-> b])

\* append hands out a sequence at once and queues the write.
AppendRecord(r, b) ==
  /\ turn[r] = 0
  /\ Push("append", r, b)
  /\ seq' = [seq EXCEPT ![r] = nextSequence]
  /\ nextSequence' = nextSequence + 1
  /\ turn' = [turn EXCEPT ![r] = appends + 1]
  /\ appends' = appends + 1
  /\ UNCHANGED <<ready, backend, step, passed, summary, local, indexVars, dbVars, readVars,
                 boundVars, numbered>>

\* update may name any record appended before, in this process or an earlier one.
UpdateRecord(r, b) ==
  /\ turn[r] # 0
  /\ Push("update", r, b)
  /\ UNCHANGED <<storeVars, step, passed, summary, local, indexVars, dbVars, readVars, boundVars,
                 orderVars, numbered>>

ClearRecords ==
  /\ Push("clear", None, 0)
  /\ UNCHANGED <<storeVars, step, passed, summary, local, indexVars, dbVars, readVars, boundVars,
                 orderVars, numbered>>

-----------------------------------------------------------------------------
(* The task at the head of the queue *)

Current == Head(queue)

\* The task settles, whether it succeeded or not: the next one may start.
Finish ==
  /\ queue' = Tail(queue) /\ step' = "idle" /\ passed' = 0
  /\ ahead' = IF ahead > 0 THEN ahead - 1 ELSE 0

Await(s) == step' = s /\ UNCHANGED <<queue, passed, ahead>>

\* A task starts when the store is ready and every earlier task has settled.
Dispatch ==
  /\ ready /\ queue # <<>> /\ step = "idle"
  /\ step' = "writing"
  /\ passed' = IF Current.kind = "update" THEN 0 ELSE nextSequence
  /\ UNCHANGED <<storeVars, queue, summary, local, indexVars, dbVars, readVars, boundVars,
                 orderVars, numbered>>

\* The rows of the current persistence become S.
StoreRows(S) ==
  IF backend = "database" THEN table' = S /\ UNCHANGED local ELSE local' = S /\ UNCHANGED table

\* The index becomes S.
SetIndex(S, next) == indexRows' = S /\ indexNext' = next

\* reclaimOverflow: does the summary S exceed a limit?
Overflow(S) == ~Fits(S)

\* What an append or an update goes on with once it has its summary.
Summarized ==
  /\ summary' = indexRows'
  /\ IF Overflow(indexRows') THEN Await("reclaim") ELSE Finish

WriteAppend ==
  /\ step = "writing" /\ Current.kind = "append"
  /\ LET r == Current.record
         x == [sequence |-> seq[r], record |-> r, bytes |-> Current.bytes]
     IN  /\ StoreRows(Put(Rows, x))
         /\ SetIndex(Put(indexRows, Entry(x)), Max({indexNext, passed, seq[r] + 1}))
         /\ numbered' = IF backend = "database"
                        THEN numbered \cup {[sequence |-> seq[r], record |-> r]} ELSE numbered
  /\ Await("scope")
  /\ UNCHANGED <<storeVars, summary, scopeNext, reading, rounds, walk, reads, due, boundVars,
                 orderVars>>

\* Mutant of Found: the row as the caller knew it, stored or not.
FoundAnyway(r) == {[sequence |-> seq[r], record |-> r, bytes |-> b] : b \in Sizes}

\* find by id, and has: a row reclaimed meanwhile is not written again.
Found(r) == {x \in Rows : x.record = r /\ \E y \in indexRows : y.sequence = x.sequence}

WriteUpdate ==
  /\ step = "writing" /\ Current.kind = "update"
  /\ IF Found(Current.record) = {}
     THEN Finish /\ UNCHANGED <<table, local, indexVars, summary>>
     ELSE LET x == CHOOSE x \in Found(Current.record) : TRUE
              new == [x EXCEPT !.bytes = Current.bytes]
          IN  /\ StoreRows(Put(Rows, new))
              /\ SetIndex(Put(indexRows, Entry(new)), Max({indexNext, x.sequence + 1}))
              /\ Summarized
  /\ UNCHANGED <<storeVars, scopeNext, reading, rounds, walk, reads, due, boundVars, orderVars,
                 numbered>>

WriteClear ==
  /\ step = "writing" /\ Current.kind = "clear"
  /\ StoreRows({})
  /\ SetIndex({}, Max({indexNext, passed}))
  /\ Await("scope")
  /\ UNCHANGED <<storeVars, summary, scopeNext, reading, rounds, walk, reads, due, boundVars,
                 orderVars, numbered>>

\* saveScope (in memory there is none) and the return of append or clear.
SaveScope ==
  /\ step = "scope"
  /\ scopeNext' = IF backend = "database" THEN indexNext ELSE scopeNext
  /\ UNCHANGED indexVars
  /\ IF Current.kind = "append" THEN Summarized ELSE summary' = indexRows /\ Finish
  /\ UNCHANGED <<storeVars, local, table, reading, rounds, walk, reads, due, boundVars, orderVars,
                 numbered>>

\* Mutant of Reclaim: the index keeps what was removed.
ReclaimUncounted ==
  /\ step = "reclaim"
  /\ StoreRows(NewerThan(Rows, Cutoff(indexRows)))
  /\ UNCHANGED indexVars
  /\ summary' = indexRows
  /\ Finish
  /\ UNCHANGED <<storeVars, scopeNext, reading, rounds, walk, reads, due, boundVars, orderVars,
                 numbered>>

\* The rows up to the cutoff are removed, then the index drops them.
Reclaim ==
  /\ step = "reclaim"
  /\ StoreRows(NewerThan(Rows, Cutoff(indexRows)))
  /\ SetIndex(NewerThan(indexRows, Cutoff(indexRows)), indexNext)
  /\ summary' = indexRows'
  /\ Finish
  /\ UNCHANGED <<storeVars, scopeNext, reading, rounds, walk, reads, due, boundVars, orderVars,
                 numbered>>

\* A database call of the task fails: push and the catch of update and clear swallow it.
CallFails ==
  /\ step \in {"writing", "scope", "reclaim"} /\ backend = "database"
  /\ faults < MaxFaults
  /\ faults' = faults + 1
  /\ Finish
  /\ UNCHANGED <<storeVars, summary, local, indexVars, dbVars, reading, rounds, walk, reads, due,
                 restarts, orderVars, numbered>>

-----------------------------------------------------------------------------
(* Reading: getRecords, page after page *)

otherVars == <<storeVars, taskVars, summary, local, indexVars, dbVars, restarts, orderVars, numbered>>

Appended == {r \in Records : seq[r] # 0}

CallRead ==
  /\ reading = "idle" /\ reads < MaxReads
  /\ reads' = reads + 1
  /\ reading' = "called"
  /\ due' = Appended
  /\ \E d \in BOOLEAN : walk' = [NoWalk EXCEPT !.desc = d]
  /\ UNCHANGED <<otherVars, ahead, rounds, faults>>

\* settle awaits ready, then the tail of the queue as it is now.
Snapshot ==
  /\ reading = "called" /\ ready
  /\ reading' = "settling" /\ ahead' = Len(queue) /\ rounds' = 0
  /\ UNCHANGED <<otherVars, walk, reads, due, faults>>

Settled == queue = <<>> \/ rounds + 1 = MaxRounds

\* Mutant of Round: only a queue that has not grown ends the wait.
RoundForever ==
  /\ reading = "settling" /\ ahead = 0
  /\ IF queue = <<>> THEN reading' = "settled" /\ UNCHANGED ahead
                     ELSE ahead' = Len(queue) /\ UNCHANGED reading
  /\ UNCHANGED <<otherVars, rounds, walk, reads, due, faults>>

\* The tail it waited for has settled: another round if the queue has grown since.
Round ==
  /\ reading = "settling" /\ ahead = 0
  /\ IF Settled THEN reading' = "settled" /\ UNCHANGED <<ahead, rounds>>
     ELSE ahead' = Len(queue) /\ rounds' = rounds + 1 /\ UNCHANGED reading
  /\ UNCHANGED <<otherVars, walk, reads, due, faults>>

Expired(c, S) == c # 0 /\ S # {} /\ c < Min({x.sequence : x \in S})

CheckCursor ==
  /\ reading = "settled"
  /\ reading' = IF Expired(walk.cursor, summary) THEN "expired" ELSE "querying"
  /\ UNCHANGED <<otherVars, ahead, rounds, walk, reads, due, faults>>

\* Mutant of Beyond: the row at the cursor is part of the next page.
BeyondInclusive(w) ==
  {x \in Rows : w.cursor # 0 => IF w.desc THEN x.sequence <= w.cursor ELSE x.sequence >= w.cursor}

\* sequenceCursorCondition.
Beyond(w) ==
  {x \in Rows : w.cursor # 0 => IF w.desc THEN x.sequence < w.cursor ELSE x.sequence > w.cursor}

\* The first PageSize of S in the order of the walk.
Page(S, desc) ==
  {x \in S : Cardinality({y \in S : IF desc THEN y.sequence > x.sequence
                                             ELSE y.sequence < x.sequence}) < PageSize}

\* A page arrives; the caller asks for the next one with the cursor of this one.
Query ==
  /\ reading = "querying"
  /\ LET rest == Beyond(walk)
         page == Page(rest, walk.desc)
         last == {x.sequence : x \in page}
     IN  /\ walk' = [walk EXCEPT
                       !.cursor = IF page = {} THEN @ ELSE IF walk.desc THEN Min(last) ELSE Max(last),
                       !.seen = @ \cup RecordsOf(page),
                       !.twice = @ \/ walk.seen \cap RecordsOf(page) # {},
                       !.base = IF walk.cursor = 0 THEN RecordsOf(Rows) ELSE @]
         /\ IF page = rest THEN reading' = "done" /\ UNCHANGED due
                           ELSE reading' = "called" /\ due' = Appended
  /\ UNCHANGED <<otherVars, ahead, rounds, reads, faults>>

QueryFails ==
  /\ reading = "querying" /\ backend = "database"
  /\ faults < MaxFaults
  /\ faults' = faults + 1
  /\ reading' = "idle" /\ walk' = NoWalk /\ due' = {}
  /\ UNCHANGED <<otherVars, ahead, rounds, reads>>

EndRead ==
  /\ reading \in {"done", "expired"}
  /\ reading' = "idle" /\ walk' = NoWalk /\ due' = {}
  /\ UNCHANGED <<otherVars, ahead, rounds, reads, faults>>

-----------------------------------------------------------------------------
Calls == \/ \E r \in Records, b \in Sizes : AppendRecord(r, b) \/ UpdateRecord(r, b)
         \/ ClearRecords
Work  == Dispatch \/ WriteAppend \/ WriteUpdate \/ WriteClear \/ SaveScope \/ Reclaim
Reads == CallRead \/ Snapshot \/ Round \/ CheckCursor \/ Query \/ QueryFails \/ EndRead
Next  == Calls \/ Work \/ CallFails \/ Reads \/ Recover \/ Degrade \/ Restart

Spec == Init /\ [][Next]_vars

\* The database answers, the queue runs its tasks and a settled promise resumes its
\* reader.  Nobody has to call anything.
FairSpec == /\ Spec
            /\ WF_vars(Recover) /\ WF_vars(Work)
            /\ WF_vars(Snapshot) /\ WF_vars(Round) /\ WF_vars(CheckCursor) /\ WF_vars(Query)

-----------------------------------------------------------------------------
(* Properties *)

StoreTypeOK ==
  /\ ready \in BOOLEAN /\ backend \in {"database", "memory"}
  /\ nextSequence \in Nat /\ seq \in [Records -> Nat]
TaskTypeOK ==
  queue \in Seq(Task) /\ step \in {"idle", "writing", "scope", "reclaim"} /\ passed \in Nat
RowTypeOK ==
  /\ summary \subseteq IndexRow /\ indexRows \subseteq IndexRow /\ indexNext \in Nat
  /\ local \subseteq Row /\ table \subseteq Row /\ scopeNext \in Nat
ReadTypeOK ==
  /\ reading \in {"idle", "called", "settling", "settled", "querying", "done", "expired"}
  /\ ahead \in Nat /\ rounds \in Nat /\ reads \in Nat /\ due \subseteq Records
  /\ walk \in [desc : BOOLEAN, cursor : Nat, seen : SUBSET Records, base : SUBSET Records,
               twice : BOOLEAN]
HistoryTypeOK ==
  /\ restarts \in Nat /\ faults \in Nat
  /\ turn \in [Records -> Nat] /\ appends \in Nat
  /\ numbered \subseteq [sequence : Nat, record : Records]
TypeOK == StoreTypeOK /\ TaskTypeOK /\ RowTypeOK /\ ReadTypeOK /\ HistoryTypeOK

\* The records whose append has not settled.
Queued == {queue[i].record : i \in {j \in DOMAIN queue : queue[j].kind = "append"}}

\* No two records of a scope are ever stored under one sequence, whatever is cleared,
\* fails or is recovered in a process ("sequence 不因清理而回退，避免跨清理复用"): a clear
\* must keep the next number, and numbers given before the recovery are given anew.
SequenceNeverReused ==
  restarts = 0 => \A x, y \in numbered : x.sequence = y.sequence => x.record = y.record

\* A stored row is never overwritten by the row of another record: whatever was lost,
\* the provisional numbers of a start and the numbers of a clear never hit a row.
RowsKeepTheirRecord ==
  [][\A x \in table, y \in table' : x.sequence = y.sequence => x.record = y.record]_table

\* A number stands for one record: in the table at any time, and in one process for good.
NumbersAreKept == RowsKeepTheirRecord /\ []SequenceNeverReused

\* The rows of a scope are in the order of the append calls, restarts included, so the
\* sequence is an order the pages may rely on.
RowsInAppendOrder ==
  \A x, y \in table : x.sequence < y.sequence <=> turn[x.record] < turn[y.record]

\* The cached index counts exactly the rows of the persistence, through failures of
\* every call: capacity and reclaiming never work on rows that are not there.
IndexMirrorsRows == ready => indexRows = Indexed(Rows)

\* The rows fit the limits whenever a task that wrote a row ends without a failure, and
\* the last row it removed would not have fitted.
CompletedWriteFits ==
  [][(/\ step \in {"writing", "scope", "reclaim"} /\ step' = "idle"
      /\ Current.kind = "append" /\ faults' = faults /\ restarts' = restarts)
     => /\ Fits(Rows')
        /\ Rows' # Rows => ~Fits(NewerThan(Rows, Max({x.sequence : x \in Rows \ Rows'}) - 1))]_vars

\* A failing call costs one record at most: every other append that settled was stored.
AFailureLosesOneRecord ==
  backend = "database" =>
    Cardinality(Appended \ (Queued \cup RecordsOf(numbered))) <= faults

\* Appends settle one by one: each is stored unless its own call failed, and leaves rows that
\* fit (SerialWriteQueue, reclaim).
AppendsSettle == []AFailureLosesOneRecord /\ CompletedWriteFits

\* A read sees the writes before it: no record appended before the call is still waiting
\* when the page is read, however long the queue grew meanwhile.
ReadSeesEarlierAppends ==
  reading \in {"settled", "querying"} => due \cap Queued = {}

\* A walk to the last page returns each record once, and every record that was there at
\* its first page and still is at its end, while records are appended and reclaimed.
WalkIsComplete ==
  /\ ~walk.twice
  /\ reading = "done" => walk.base \cap RecordsOf(Rows) \subseteq walk.seen

\* cursor_expired is reported only for a cursor whose row is gone.
ExpiredCursorIsGone ==
  reading = "expired" => \A x \in Rows : x.sequence # walk.cursor

\* A reader is never misled: its pages are current, its walk is complete, and is broken off
\* only when it has to be.
ReadsAreSound == ReadSeesEarlierAppends /\ WalkIsComplete /\ ExpiredCursorIsGone

\* A read gets its page, even while the queue keeps growing.
ReadTerminates == reading \in {"called", "settling"} ~> reading \notin {"called", "settling"}

\* The store implements the evidence log.
Log == INSTANCE EvidenceLog WITH kept <- RecordsOf(table), written <- RecordsOf(numbered)

ImplementsLog == Log!Spec
=============================================================================
