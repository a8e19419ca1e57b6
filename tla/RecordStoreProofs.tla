------------------------- MODULE RecordStoreProofs -------------------------
(* Proofs about RecordStore, for any records, sizes and limits and any bounds. *)
EXTENDS RecordStore, FiniteSetTheorems, WellFoundedInduction, TLAPS

\* Position i of the queue holds an append that has not written its row.
Waits(i) == /\ i \in DOMAIN queue /\ queue[i].kind = "append"
            /\ i = 1 => step \in {"idle", "writing"}
Of(i)    == queue[i].record

\* The numbers of S have a bound, as those of any finite set have.
Bounded(S) == \E n \in Nat : \A x \in S : x.sequence < n

\* Only a ready store runs tasks; before, it holds no rows of its own.
StepOK == /\ step # "idle" => ready /\ queue # <<>>
          /\ ~ready => indexRows = {} /\ local = {} /\ backend = "database"

\* The numbers of a process follow the order of the append calls.
OrderOK ==
  /\ nextSequence >= 1
  /\ \A r \in Records : seq[r] < nextSequence /\ turn[r] <= appends
  /\ \A r, q \in Records : turn[r] = turn[q] /\ turn[r] # 0 => r = q
  /\ \A r \in Records : seq[r] # 0 => turn[r] # 0
  /\ \A r, q \in Records :
       seq[r] # 0 /\ seq[q] # 0 => (seq[r] < seq[q] <=> turn[r] < turn[q])

\* The queue holds the appends in the order of the calls, behind all that was stored.
QueueOK ==
  /\ \A i \in DOMAIN queue : Waits(i) => seq[Of(i)] # 0
  /\ \A i, j \in DOMAIN queue : Waits(i) /\ Waits(j) /\ i < j => turn[Of(i)] < turn[Of(j)]
  /\ \A x \in numbered, i \in DOMAIN queue : Waits(i) => turn[x.record] < turn[Of(i)]

\* The rows are below every number that is waiting or still to be handed out.
TableOK ==
  /\ \A x \in numbered : turn[x.record] # 0
  /\ RecordsOf(table) \subseteq RecordsOf(numbered)
  /\ RowsInAppendOrder
  /\ Bounded(table) /\ Bounded(local)
  /\ ready /\ backend = "database" => \A x \in table : x.sequence < nextSequence
  /\ ready /\ backend = "database" =>
       \A x \in table, i \in DOMAIN queue : Waits(i) => x.sequence < seq[Of(i)]

\* The order of calls, queue and rows, and the index.
IInv == TypeOK /\ StepOK /\ OrderOK /\ QueueOK /\ TableOK /\ IndexMirrorsRows

\* The appends that wait after a step waited before it, in the same order.
Shrinks == \E k \in {0, 1} : \A i \in DOMAIN queue' :
             Waits(i)' => i + k \in DOMAIN queue /\ Waits(i + k) /\ Of(i)' = Of(i + k)

\* Every row of T has the number and the record of a row of S.
Covers(S, T) == \A y \in T : \E z \in S : z.sequence = y.sequence /\ z.record = y.record

-----------------------------------------------------------------------------
(* The largest and the smallest number of a set *)

\* A set of numbers that is not empty has a smallest one.
LEMMA MinOf == ASSUME NEW S \in SUBSET Nat, S # {} PROVE Min(S) \in S /\ \A y \in S : Min(S) <= y
<1>1. PICK x \in S : \A y \in S : ~(<<y, x>> \in OpToRel(<, Nat))
  BY NatLessThanWellFounded, WFMin
<1>2. ASSUME NEW y \in S PROVE x <= y
  <2>1. <<y, x>> \in Nat \X Nat /\ <<y, x>>[1] = y /\ <<y, x>>[2] = x
    OBVIOUS
  <2>2. ~(y < x)
    BY <1>1, <2>1, Zenon DEF OpToRel
  <2> QED BY <2>2
<1> QED BY <1>2 DEF Min

\* A set of numbers that is not empty and has an upper bound has a largest one.
LEMMA MaxOf ==
  ASSUME NEW S \in SUBSET Nat, S # {}, NEW n \in Nat, \A y \in S : y <= n
  PROVE  Max(S) \in S /\ \A y \in S : y <= Max(S)
<1> DEFINE U == {m \in Nat : \A y \in S : y <= m}
           m == Min(U)
<1>1. m \in U /\ \A u \in U : m <= u
  BY MinOf
<1> HIDE DEF m
<1>2. m \in S
  <2> SUFFICES ASSUME m \notin S PROVE FALSE
    OBVIOUS
  <2>1. PICK s \in S : TRUE
    OBVIOUS
  <2>2. m - 1 \in Nat /\ \A y \in S : y <= m - 1
    BY <1>1, <2>1
  <2> QED BY <1>1, <2>2
<1> QED BY <1>1, <1>2 DEF Max

\* The same for the numbers of the rows of a table.
LEMMA MaxOfSequences ==
  ASSUME NEW S \in SUBSET Row, Bounded(S), NEW T \in SUBSET Nat, T # {},
         T \subseteq {x.sequence : x \in S}
  PROVE  Max(T) \in Nat
<1>1. PICK n \in Nat : \A x \in S : x.sequence < n
  BY DEF Bounded
<1>2. \A y \in T : y <= n
  BY <1>1 DEF Row
<1> QED BY <1>2, MaxOf

\* A put moves the counter of the index past the new row and never back.
LEMMA MaxOfThree ==
  ASSUME NEW a \in Nat, NEW b \in Nat, NEW c \in Nat
  PROVE  Max({a, b, c}) \in Nat /\ a <= Max({a, b, c}) /\ Max({a, b}) \in Nat
<1>1. \E n \in Nat : \A y \in {a, b, c} : y <= n
  <2>1. \A y \in {a, b, c} : y <= a + b + c
    OBVIOUS
  <2> QED BY <2>1
<1>2. \E n \in Nat : \A y \in {a, b} : y <= n
  <2>1. \A y \in {a, b} : y <= a + b
    OBVIOUS
  <2> QED BY <2>1
<1>3. Max({a, b, c}) \in {a, b, c} /\ \A y \in {a, b, c} : y <= Max({a, b, c})
  BY <1>1, MaxOf
<1>4. Max({a, b}) \in {a, b}
  BY <1>2, MaxOf
<1> QED BY <1>3, <1>4

\* The recovered number is positive and beyond every stored row.
LEMMA FirstIsFree ==
  ASSUME RowTypeOK, Bounded(table)
  PROVE  First \in Nat /\ First >= 1 /\ \A x \in table : x.sequence < First
<1> DEFINE S == {1, scopeNext} \cup {x.sequence + 1 : x \in table}
<1>1. PICK n \in Nat : \A x \in table : x.sequence < n
  BY DEF Bounded
<1>2. S \in SUBSET Nat /\ S # {}
  BY DEF RowTypeOK, Row
<1>3. n + scopeNext + 1 \in Nat /\ \A y \in S : y <= n + scopeNext + 1
  BY <1>1 DEF RowTypeOK, Row
<1>4. Max(S) \in S /\ \A y \in S : y <= Max(S)
  <2> HIDE DEF S
  <2> QED BY <1>2, <1>3, MaxOf
<1>5. First = Max(S)
  BY DEF First
<1>6. ASSUME NEW x \in table PROVE x.sequence + 1 \in S /\ x.sequence \in Nat
  BY DEF RowTypeOK, Row
<1>7. 1 \in S
  OBVIOUS
<1> HIDE DEF S
<1>8. First \in Nat /\ 1 <= First
  BY <1>2, <1>4, <1>5, <1>7
<1>9. ASSUME NEW x \in table PROVE x.sequence < First
  <2>1. x.sequence + 1 <= First
    BY <1>4, <1>5, <1>6
  <2> QED BY <1>6, <1>8, <2>1
<1> QED BY <1>8, <1>9

\* The cutoff of rows is the smallest of their numbers that leaves rows that fit, or none.
LEMMA CutoffOf ==
  ASSUME NEW S \in SUBSET Row, Bounded(S), S # {}
  PROVE  LET N == {x.sequence : x \in S}
             c == Cutoff(Indexed(S))
             I(d) == NewerThan(Indexed(S), d)
         IN  /\ c \in N /\ c \in Nat
             /\ I(c) = {} \/ Fits(I(c))
             /\ \A d \in N : d < c => ~Fits(I(d))
<1> DEFINE T == Indexed(S)
           N == {x.sequence : x \in T}
           C == {c \in N : NewerThan(T, c) = {} \/ Fits(NewerThan(T, c))}
<1>1. N = {x.sequence : x \in S}
  <2>1. \A x \in S : Entry(x) \in T /\ Entry(x).sequence = x.sequence
    BY DEF Indexed, Entry
  <2>2. \A y \in T : \E x \in S : y.sequence = x.sequence
    BY DEF Indexed, Entry
  <2> HIDE DEF T
  <2> QED BY <2>1, <2>2
<1>2. PICK n \in Nat : \A x \in S : x.sequence < n
  BY DEF Bounded
<1>4. \A y \in T : y.sequence \in N
  OBVIOUS
<1> HIDE DEF N, T
<1>3. N \in SUBSET Nat /\ N # {} /\ \A y \in N : y <= n
  BY <1>1, <1>2 DEF Row
<1>5. Max(N) \in N /\ \A y \in N : y <= Max(N)
  BY <1>3, MaxOf
<1>6. NewerThan(T, Max(N)) = {}
  <2>1. \A y \in T : y.sequence \in Nat /\ Max(N) \in Nat /\ y.sequence <= Max(N)
    BY <1>3, <1>4, <1>5
  <2> HIDE DEF N
  <2> QED BY <2>1 DEF NewerThan
<1>7. C # {} /\ C \in SUBSET Nat
  BY <1>3, <1>5, <1>6
<1>8. Min(C) \in C /\ \A c \in C : Min(C) <= c
  <2> HIDE DEF C
  <2> QED BY <1>7, MinOf
<1>9. Cutoff(T) = Min(C)
  BY DEF Cutoff, N
<1>10. Cutoff(T) \in N /\ (NewerThan(T, Cutoff(T)) = {} \/ Fits(NewerThan(T, Cutoff(T))))
  BY <1>8, <1>9
<1>11. ASSUME NEW d \in N, d < Cutoff(T) PROVE ~Fits(NewerThan(T, d))
  <2>1. Min(C) \in Nat /\ d \in Nat
    BY <1>3, <1>7, <1>8
  <2>2. d \notin C
    <3> HIDE DEF C
    <3> QED BY <1>8, <1>9, <1>11, <2>1
  <2> QED BY <2>2
<1> QED BY <1>1, <1>3, <1>10, <1>11 DEF T

\* So it is a number.
LEMMA CutoffIsNumber ==
  ASSUME RowTypeOK, Bounded(table), table # {}
  PROVE  Cutoff(Indexed(table)) \in Nat
  BY CutoffOf DEF RowTypeOK

-----------------------------------------------------------------------------
(* Types *)

LEMMA InitTypes == Init => TypeOK
<1> SUFFICES ASSUME Init PROVE TypeOK
  OBVIOUS
<1> USE DEF Init
<1>1. StoreTypeOK
  BY DEF StoreTypeOK
<1>2. TaskTypeOK
  BY DEF TaskTypeOK
<1>3. RowTypeOK
  BY DEF RowTypeOK
<1>4. ReadTypeOK
  BY DEF ReadTypeOK, NoWalk
<1>5. HistoryTypeOK
  BY DEF HistoryTypeOK
<1> QED BY <1>1, <1>2, <1>3, <1>4, <1>5 DEF TypeOK

\* The task at the head has the type its kind calls for.
LEMMA CurrentType ==
  ASSUME TaskTypeOK, queue # <<>>
  PROVE  /\ Current \in Task /\ Tail(queue) \in Seq(Task)
         /\ Current.kind # "clear" => Current.record \in Records /\ Current.bytes \in Sizes
<1>1. Current \in Task /\ Tail(queue) \in Seq(Task)
  BY DEF TaskTypeOK, Current
<1> QED BY <1>1 DEF Task

LEMMA FinishTypes ==
  ASSUME TaskTypeOK, ahead \in Nat, queue # <<>>, Finish
  PROVE  TaskTypeOK' /\ ahead' \in Nat
  BY CurrentType DEF TaskTypeOK, Finish

LEMMA AwaitTypes ==
  ASSUME TaskTypeOK, ahead \in Nat, NEW s \in {"scope", "reclaim"}, Await(s)
  PROVE  TaskTypeOK' /\ ahead' \in Nat
  BY DEF TaskTypeOK, Await

LEMMA PushTypes ==
  ASSUME TaskTypeOK, NEW k, NEW r, NEW b, [kind |-> k, record |-> r, bytes |-> b] \in Task,
         Push(k, r, b), UNCHANGED <<step, passed>>
  PROVE  TaskTypeOK'
  BY DEF TaskTypeOK, Push

\* Putting a row of the right type, and cutting, keep the type of the rows.
LEMMA RowTypes ==
  ASSUME RowTypeOK, NEW x \in Row, NEW c
  PROVE  /\ Put(Rows, x) \subseteq Row /\ NewerThan(Rows, c) \subseteq Row
         /\ Entry(x) \in IndexRow
         /\ Put(indexRows, Entry(x)) \subseteq IndexRow /\ NewerThan(indexRows, c) \subseteq IndexRow
         /\ Indexed(table) \subseteq IndexRow
  BY DEF RowTypeOK, Put, NewerThan, Entry, Indexed, Row, IndexRow, Rows

LEMMA StoreRowsTypes ==
  ASSUME RowTypeOK, NEW S \in SUBSET Row, StoreRows(S)
  PROVE  table' \subseteq Row /\ local' \subseteq Row
  BY DEF StoreRows, RowTypeOK

LEMMA CallTypes == TypeOK /\ Calls => TypeOK'
<1> SUFFICES ASSUME TypeOK, Calls PROVE TypeOK'
  OBVIOUS
<1> USE DEF TypeOK, StoreTypeOK, RowTypeOK, ReadTypeOK, HistoryTypeOK, storeVars, indexVars, dbVars,
            readVars, boundVars, orderVars
<1>1. ASSUME NEW r \in Records, NEW b \in Sizes, AppendRecord(r, b) PROVE TypeOK'
  <2>1. [kind |-> "append", record |-> r, bytes |-> b] \in Task
    BY DEF Task
  <2>2. TaskTypeOK'
    BY <1>1, <2>1, PushTypes DEF AppendRecord
  <2> QED BY <1>1, <2>2 DEF AppendRecord
<1>2. ASSUME NEW r \in Records, NEW b \in Sizes, UpdateRecord(r, b) PROVE TypeOK'
  <2>1. [kind |-> "update", record |-> r, bytes |-> b] \in Task
    BY DEF Task
  <2>2. TaskTypeOK'
    BY <1>2, <2>1, PushTypes DEF UpdateRecord
  <2> QED BY <1>2, <2>2 DEF UpdateRecord
<1>3. ASSUME ClearRecords PROVE TypeOK'
  <2>1. [kind |-> "clear", record |-> None, bytes |-> 0] \in Task
    BY DEF Task
  <2>2. TaskTypeOK'
    BY <1>3, <2>1, PushTypes DEF ClearRecords
  <2> QED BY <1>3, <2>2 DEF ClearRecords
<1> QED BY <1>1, <1>2, <1>3 DEF Calls

LEMMA LifeTypes == TypeOK /\ Bounded(table) /\ (Recover \/ Degrade \/ Restart) => TypeOK'
<1> SUFFICES ASSUME TypeOK, Bounded(table), Recover \/ Degrade \/ Restart PROVE TypeOK'
  OBVIOUS
<1> USE DEF TypeOK, StoreTypeOK, ReadTypeOK, HistoryTypeOK, TaskTypeOK, storeVars, taskVars,
            indexVars, dbVars, readVars, boundVars, orderVars
<1>1. CASE Recover
  <2>1. First \in Nat /\ First >= 1
    BY FirstIsFree
  <2>2. Indexed(table) \subseteq IndexRow
    BY DEF RowTypeOK, Indexed, Entry, Row, IndexRow
  <2>3. RowTypeOK'
    BY <1>1, <2>1, <2>2 DEF Recover, RowTypeOK
  <2>4. StoreTypeOK'
    BY <1>1, <2>1 DEF Recover, Renumbered
  <2> QED BY <1>1, <2>3, <2>4 DEF Recover
<1>2. CASE Degrade
  BY <1>2 DEF Degrade, RowTypeOK
<1>3. CASE Restart
  <2>0. <<>> \in Seq(Task) /\ "idle" \in {"idle", "writing", "scope", "reclaim"} /\ 0 \in Nat
    OBVIOUS
  <2>1. StoreTypeOK' /\ TaskTypeOK'
    <3>1. TaskTypeOK'
      BY <1>3, <2>0 DEF Restart
    <3>2. StoreTypeOK'
      BY <1>3 DEF Restart
    <3> QED BY <3>1, <3>2
  <2>2. RowTypeOK'
    BY <1>3 DEF Restart, RowTypeOK
  <2>3. ReadTypeOK'
    BY <1>3 DEF Restart, NoWalk
  <2> QED BY <1>3, <2>1, <2>2, <2>3 DEF Restart
<1> QED BY <1>1, <1>2, <1>3

\* The end of an append or an update.
LEMMA SummarizedTypes ==
  ASSUME TaskTypeOK, ahead \in Nat, queue # <<>>, indexRows' \subseteq IndexRow, Summarized
  PROVE  TaskTypeOK' /\ ahead' \in Nat /\ summary' \subseteq IndexRow
  BY FinishTypes, AwaitTypes DEF Summarized

LEMMA WorkTypes == TypeOK /\ StepOK /\ (Work \/ CallFails) => TypeOK'
<1> SUFFICES ASSUME TypeOK, StepOK, Work \/ CallFails PROVE TypeOK'
  OBVIOUS
<1> USE DEF TypeOK, StoreTypeOK, ReadTypeOK, HistoryTypeOK, storeVars, taskVars, indexVars, dbVars,
            readVars, boundVars, orderVars
<1>1. CASE Dispatch
  <2>1. TaskTypeOK'
    BY <1>1 DEF Dispatch, TaskTypeOK
  <2> QED BY <1>1, <2>1 DEF Dispatch, RowTypeOK
<1>2. CASE WriteAppend
  <2> DEFINE r == Current.record
             x == [sequence |-> seq[r], record |-> r, bytes |-> Current.bytes]
  <2>1. r \in Records /\ Current.bytes \in Sizes
    BY <1>2, CurrentType DEF WriteAppend, StepOK
  <2>2. x \in Row
    BY <2>1 DEF Row
  <2>3. indexNext' \in Nat
    <3>1. seq[r] + 1 \in Nat /\ indexNext \in Nat /\ passed \in Nat
      BY <2>1 DEF RowTypeOK, TaskTypeOK
    <3>2. Max({indexNext, passed, seq[r] + 1}) \in Nat
      BY <3>1, MaxOfThree
    <3>3. indexNext' = Max({indexNext, passed, seq[r] + 1})
      BY <1>2 DEF WriteAppend, SetIndex
    <3> QED BY <3>2, <3>3
  <2>4. RowTypeOK'
    BY <1>2, <2>2, <2>3, RowTypes, StoreRowsTypes DEF WriteAppend, SetIndex, RowTypeOK
  <2>5. TaskTypeOK' /\ ahead' \in Nat
    BY <1>2, AwaitTypes DEF WriteAppend
  <2>6. numbered' \subseteq [sequence : Nat, record : Records]
    BY <1>2, <2>1 DEF WriteAppend
  <2> QED BY <1>2, <2>4, <2>5, <2>6 DEF WriteAppend
<1>3. CASE WriteUpdate
  <2>1. CASE Found(Current.record) = {}
    <3>1. TaskTypeOK' /\ ahead' \in Nat
      BY <1>3, <2>1, FinishTypes DEF WriteUpdate, StepOK
    <3>2. RowTypeOK'
      BY <1>3, <2>1 DEF WriteUpdate, RowTypeOK
    <3> QED BY <1>3, <3>1, <3>2 DEF WriteUpdate
  <2>2. CASE Found(Current.record) # {}
    <3> DEFINE x == CHOOSE x \in Found(Current.record) : TRUE
               new == [x EXCEPT !.bytes = Current.bytes]
    <3>1. x \in Row
      BY <2>2 DEF Found, Rows, RowTypeOK
    <3>2. new \in Row
      BY <1>3, <3>1, CurrentType DEF WriteUpdate, StepOK, Row
    <3>3. /\ StoreRows(Put(Rows, new))
          /\ SetIndex(Put(indexRows, Entry(new)), Max({indexNext, x.sequence + 1}))
          /\ Summarized
      BY <1>3, <2>2 DEF WriteUpdate
    <3>4. x.sequence + 1 \in Nat
      BY <3>1 DEF Row
    <3> HIDE DEF x, new
    <3>5. indexNext' \in Nat /\ indexRows' \subseteq IndexRow
      BY <3>2, <3>3, <3>4, MaxOfThree, RowTypes DEF SetIndex, RowTypeOK
    <3>6. table' \subseteq Row /\ local' \subseteq Row
      BY <3>2, <3>3, RowTypes, StoreRowsTypes
    <3>7. TaskTypeOK' /\ ahead' \in Nat /\ summary' \subseteq IndexRow
      BY <1>3, <3>3, <3>5, SummarizedTypes DEF WriteUpdate, StepOK
    <3>8. RowTypeOK'
      BY <1>3, <3>5, <3>6, <3>7 DEF WriteUpdate, RowTypeOK
    <3> QED BY <1>3, <3>7, <3>8 DEF WriteUpdate
  <2> QED BY <2>1, <2>2
<1>4. CASE WriteClear
  <2>1. indexNext' \in Nat
    BY <1>4, MaxOfThree DEF WriteClear, SetIndex, RowTypeOK, TaskTypeOK
  <2>2. RowTypeOK'
    BY <1>4, <2>1, StoreRowsTypes DEF WriteClear, SetIndex, RowTypeOK
  <2>3. TaskTypeOK' /\ ahead' \in Nat
    BY <1>4, AwaitTypes DEF WriteClear
  <2> QED BY <1>4, <2>2, <2>3 DEF WriteClear
<1>5. CASE SaveScope
  <2>1. indexRows' = indexRows /\ indexNext' = indexNext /\ scopeNext' \in Nat
    BY <1>5 DEF SaveScope, RowTypeOK
  <2>2. TaskTypeOK' /\ ahead' \in Nat /\ summary' \subseteq IndexRow
    BY <1>5, <2>1, SummarizedTypes, FinishTypes DEF SaveScope, StepOK, RowTypeOK
  <2>3. RowTypeOK'
    BY <1>5, <2>1, <2>2 DEF SaveScope, RowTypeOK
  <2> QED BY <1>5, <2>2, <2>3 DEF SaveScope
<1>6. CASE Reclaim
  <2>1. TaskTypeOK' /\ ahead' \in Nat
    BY <1>6, FinishTypes DEF Reclaim, StepOK
  <2>2. NewerThan(Rows, Cutoff(indexRows)) \subseteq Row
        /\ NewerThan(indexRows, Cutoff(indexRows)) \subseteq IndexRow
    BY DEF NewerThan, Rows, RowTypeOK
  <2>3. RowTypeOK'
    BY <1>6, <2>2, StoreRowsTypes DEF Reclaim, SetIndex, RowTypeOK
  <2> QED BY <1>6, <2>1, <2>3 DEF Reclaim
<1>7. CASE CallFails
  <2>1. TaskTypeOK' /\ ahead' \in Nat
    BY <1>7, FinishTypes DEF CallFails, StepOK
  <2> QED BY <1>7, <2>1 DEF CallFails, RowTypeOK
<1> QED BY <1>1, <1>2, <1>3, <1>4, <1>5, <1>6, <1>7 DEF Work

LEMMA ReadTypes == TypeOK /\ Bounded(table) /\ Bounded(local) /\ Reads => TypeOK'
<1> SUFFICES ASSUME TypeOK, Bounded(table), Bounded(local), Reads PROVE TypeOK'
  OBVIOUS
<1> USE DEF TypeOK, StoreTypeOK, TaskTypeOK, RowTypeOK, HistoryTypeOK, otherVars, storeVars,
            taskVars, indexVars, dbVars, orderVars
<1>1. CASE CallRead
  <2>1. PICK d \in BOOLEAN : walk' = [NoWalk EXCEPT !.desc = d]
    BY <1>1 DEF CallRead
  <2>2. NoWalk \in [desc : BOOLEAN, cursor : Nat, seen : SUBSET Records, base : SUBSET Records,
                    twice : BOOLEAN]
    BY DEF NoWalk
  <2>3. walk' \in [desc : BOOLEAN, cursor : Nat, seen : SUBSET Records, base : SUBSET Records,
                   twice : BOOLEAN]
    BY <2>1, <2>2
  <2>4. due' \subseteq Records /\ reading' = "called" /\ reads' \in Nat
        /\ UNCHANGED <<ahead, rounds>>
    BY <1>1 DEF CallRead, ReadTypeOK, Appended
  <2>5. ReadTypeOK'
    BY <2>3, <2>4 DEF ReadTypeOK
  <2> QED BY <1>1, <2>5 DEF CallRead
<1>2. CASE Snapshot
  BY <1>2 DEF Snapshot, ReadTypeOK
<1>3. CASE Round
  BY <1>3 DEF Round, ReadTypeOK
<1>4. CASE CheckCursor
  BY <1>4 DEF CheckCursor, ReadTypeOK
<1>5. CASE Query
  <2> DEFINE page == Page(Beyond(walk), walk.desc)
             last == {x.sequence : x \in page}
  <2>1. page \subseteq Rows /\ Rows \subseteq Row /\ Bounded(Rows)
    BY DEF Page, Beyond, Rows
  <2>2. last \in SUBSET Nat
    BY <2>1 DEF Row
  <2>3. page # {} => Min(last) \in Nat /\ Max(last) \in Nat
    <3> SUFFICES ASSUME page # {} PROVE Min(last) \in Nat /\ Max(last) \in Nat
      OBVIOUS
    <3>1. last # {} /\ last \subseteq {x.sequence : x \in Rows}
      BY <2>1
    <3> HIDE DEF last
    <3> QED BY <2>1, <2>2, <3>1, MinOf, MaxOfSequences
  <2>4. RecordsOf(page) \subseteq Records /\ RecordsOf(Rows) \subseteq Records
    BY <2>1 DEF RecordsOf, Row
  <2>5. PICK c \in Nat, b \in SUBSET Records, t \in BOOLEAN :
          walk' = [walk EXCEPT !.cursor = c, !.seen = @ \cup RecordsOf(page),
                               !.twice = t, !.base = b]
    <3> HIDE DEF page
    <3> DEFINE cc == IF page = {} THEN walk.cursor
                     ELSE IF walk.desc THEN Min(last) ELSE Max(last)
               bb == IF walk.cursor = 0 THEN RecordsOf(Rows) ELSE walk.base
               tt == walk.twice \/ walk.seen \cap RecordsOf(page) # {}
    <3>1. cc \in Nat /\ bb \in SUBSET Records /\ tt \in BOOLEAN
      BY <2>3, <2>4 DEF ReadTypeOK
    <3>2. walk' = [walk EXCEPT !.cursor = cc, !.seen = @ \cup RecordsOf(page),
                               !.twice = tt, !.base = bb]
      BY <1>5 DEF Query, page
    <3> QED BY <3>1, <3>2
  <2>6. walk' \in [desc : BOOLEAN, cursor : Nat, seen : SUBSET Records, base : SUBSET Records,
                   twice : BOOLEAN]
    BY <2>4, <2>5 DEF ReadTypeOK
  <2>7. reading' \in {"done", "called"} /\ due' \subseteq Records
    BY <1>5 DEF Query, ReadTypeOK, Appended
  <2>8. ReadTypeOK'
    BY <1>5, <2>6, <2>7 DEF Query, ReadTypeOK
  <2> QED BY <1>5, <2>8 DEF Query
<1>6. CASE QueryFails
  BY <1>6 DEF QueryFails, ReadTypeOK, NoWalk
<1>7. CASE EndRead
  BY <1>7 DEF EndRead, ReadTypeOK, NoWalk
<1> QED BY <1>1, <1>2, <1>3, <1>4, <1>5, <1>6, <1>7 DEF Reads

-----------------------------------------------------------------------------
(* The queue *)

\* How the queue changes: a task ends, awaits its next call, stays, or is pushed.
LEMMA FinishShrinks == ASSUME TaskTypeOK, queue # <<>>, Finish PROVE Shrinks
<1>1. ASSUME NEW i \in DOMAIN queue', Waits(i)'
      PROVE  i + 1 \in DOMAIN queue /\ Waits(i + 1) /\ Of(i)' = Of(i + 1)
  <2>1. queue \in Seq(Task) /\ queue' = Tail(queue)
    BY DEF TaskTypeOK, Finish
  <2>2. i \in Nat /\ i >= 1 /\ i + 1 \in DOMAIN queue /\ queue'[i] = queue[i + 1]
    BY <2>1
  <2> QED BY <1>1, <2>2 DEF Waits, Of
<1> QED BY <1>1 DEF Shrinks

LEMMA AwaitShrinks ==
  ASSUME TaskTypeOK, NEW s \in {"scope", "reclaim"}, Await(s)
  PROVE  Shrinks /\ \A i \in DOMAIN queue' : Waits(i)' => i # 1 /\ i \in DOMAIN queue /\ Waits(i)
<1>1. ASSUME NEW i \in DOMAIN queue', Waits(i)'
      PROVE  i # 1 /\ i + 0 = i /\ i \in DOMAIN queue /\ Waits(i) /\ Of(i)' = Of(i)
  <2>1. queue' = queue /\ step' = s /\ queue \in Seq(Task)
    BY DEF Await, TaskTypeOK
  <2> QED BY <1>1, <2>1 DEF Waits, Of
<1> QED BY <1>1 DEF Shrinks

LEMMA SameShrinks ==
  ASSUME TaskTypeOK, queue' = queue, step' = step \/ (step = "idle" /\ step' = "writing")
  PROVE  Shrinks
<1>1. ASSUME NEW i \in DOMAIN queue', Waits(i)'
      PROVE  i + 0 = i /\ i \in DOMAIN queue /\ Waits(i) /\ Of(i)' = Of(i)
  BY <1>1 DEF Waits, Of, TaskTypeOK
<1> QED BY <1>1 DEF Shrinks

\* A pushed task is the last one and changes no other.
LEMMA PushKeeps ==
  ASSUME TaskTypeOK, StepOK, NEW k, NEW r, NEW b, Push(k, r, b), step' = step,
         NEW i \in DOMAIN queue', Waits(i)'
  PROVE  /\ i \in Nat /\ i + 0 = i
         /\ \/ i \in DOMAIN queue /\ Waits(i) /\ Of(i)' = Of(i)
            \/ i = Len(queue) + 1 /\ k = "append" /\ Of(i)' = r /\ i \notin DOMAIN queue
<1> DEFINE t == [kind |-> k, record |-> r, bytes |-> b]
<1>1. queue' = Append(queue, t) /\ queue \in Seq(Task)
  BY DEF Push, TaskTypeOK
<1>2. i \in 1 .. (Len(queue) + 1) /\ DOMAIN queue = 1 .. Len(queue) /\ Len(queue) \in Nat
  BY <1>1
<1>3. CASE i = Len(queue) + 1
  <2>1. queue'[i] = t
    BY <1>1, <1>3
  <2>2. t.kind = k /\ t.record = r
    OBVIOUS
  <2> QED BY <1>2, <1>3, <2>1, <2>2 DEF Waits, Of
<1>4. CASE i # Len(queue) + 1
  <2>1. i \in DOMAIN queue /\ queue'[i] = queue[i]
    BY <1>1, <1>2, <1>4
  <2> QED BY <1>2, <2>1 DEF Waits, Of
<1> QED BY <1>3, <1>4

LEMMA PushShrinks ==
  ASSUME TaskTypeOK, StepOK, NEW k \in {"update", "clear"}, NEW r, NEW b, Push(k, r, b), step' = step
  PROVE  Shrinks
<1>1. ASSUME NEW i \in DOMAIN queue', Waits(i)'
      PROVE  i + 0 \in DOMAIN queue /\ Waits(i + 0) /\ Of(i)' = Of(i + 0)
  BY <1>1, PushKeeps
<1> QED BY <1>1 DEF Shrinks

-----------------------------------------------------------------------------
(* The steps that add neither a record nor a row *)

LEMMA ShrinkStep ==
  ASSUME TypeOK, TaskTypeOK', OrderOK, QueueOK, TableOK, Shrinks,
         UNCHANGED <<ready, backend, nextSequence, seq, turn, appends, numbered>>,
         Covers(table, table'), Covers(local, local')
  PROVE  OrderOK' /\ QueueOK' /\ TableOK'
<1>1. OrderOK'
  BY DEF OrderOK
<1>2. PICK k \in {0, 1} : \A i \in DOMAIN queue' :
        Waits(i)' => i + k \in DOMAIN queue /\ Waits(i + k) /\ Of(i)' = Of(i + k)
  BY DEF Shrinks
<1>3. QueueOK'
  <2>1. ASSUME NEW i \in DOMAIN queue', NEW j \in DOMAIN queue', Waits(i)', Waits(j)', i < j
        PROVE  turn'[Of(i)'] < turn'[Of(j)']
    <3>1. Waits(i + k) /\ Waits(j + k) /\ Of(i)' = Of(i + k) /\ Of(j)' = Of(j + k)
          /\ i + k \in DOMAIN queue /\ j + k \in DOMAIN queue
      BY <1>2, <2>1
    <3>2. i + k \in Nat /\ j + k \in Nat /\ DOMAIN queue = 1 .. Len(queue)
      BY <3>1 DEF TypeOK, TaskTypeOK
    <3>3. i + k < j + k
      <4>1. i \in Nat /\ j \in Nat
        BY DEF TaskTypeOK
      <4> QED BY <2>1, <4>1
    <3> QED BY <3>1, <3>3 DEF QueueOK
  <2>2. ASSUME NEW i \in DOMAIN queue', Waits(i)'
        PROVE  seq'[Of(i)'] # 0 /\ \A x \in numbered' : turn'[x.record] < turn'[Of(i)']
    BY <1>2, <2>2 DEF QueueOK
  <2> QED BY <2>1, <2>2 DEF QueueOK
<1>4. TableOK'
  <2>1. ASSUME NEW S, NEW T, Bounded(S), Covers(S, T) PROVE Bounded(T)
    BY <2>1 DEF Bounded, Covers
  <2>2. Bounded(table') /\ Bounded(local')
    BY <2>1 DEF TableOK
  <2>3. RecordsOf(table') \subseteq RecordsOf(numbered')
    BY DEF TableOK, Covers, RecordsOf
  <2>4. RowsInAppendOrder'
    BY DEF TableOK, Covers, RowsInAppendOrder
  <2>5. ready' /\ backend' = "database" => \A x \in table' : x.sequence < nextSequence'
    BY DEF TableOK, Covers
  <2>6. ASSUME ready', backend' = "database", NEW x \in table', NEW i \in DOMAIN queue', Waits(i)'
        PROVE  x.sequence < seq'[Of(i)']
    BY <1>2, <2>6 DEF TableOK, Covers
  <2>7. \A x \in numbered' : turn'[x.record] # 0
    BY DEF TableOK
  <2>8. (Bounded(table) /\ Bounded(local))'
    BY <2>2 DEF Bounded
  <2> QED BY <2>3, <2>4, <2>5, <2>6, <2>7, <2>8 DEF TableOK, RecordsOf
<1> QED BY <1>1, <1>3, <1>4

\* What Put and NewerThan cover.
LEMMA CutCovers == ASSUME NEW S, NEW c PROVE Covers(S, NewerThan(S, c))
  BY DEF Covers, NewerThan

\* What is written covers what was there.
LEMMA PutCovers ==
  ASSUME NEW S, NEW x \in S, NEW y, y.sequence = x.sequence, y.record = x.record
  PROVE  Covers(S, Put(S, y))
  BY DEF Covers, Put

LEMMA StoreRowsCovers ==
  ASSUME NEW S, StoreRows(S), Covers(Rows, S)
  PROVE  Covers(table, table') /\ Covers(local, local')
  BY DEF StoreRows, Rows, Covers

LEMMA StoreRowsRows ==
  ASSUME NEW S, StoreRows(S), backend' = backend
  PROVE  Rows' = S
  BY DEF StoreRows, Rows

\* The index follows a put and a cut of the rows it mirrors.
LEMMA PutMirrors ==
  ASSUME NEW S \in SUBSET Row, NEW x \in Row
  PROVE  Indexed(Put(S, x)) = Put(Indexed(S), Entry(x))
  BY DEF Indexed, Put, Entry, Row

LEMMA CutMirrors ==
  ASSUME NEW S \in SUBSET Row, NEW c
  PROVE  Indexed(NewerThan(S, c)) = NewerThan(Indexed(S), c)
  BY DEF Indexed, NewerThan, Entry, Row

LEMMA CoversSelf == \A S : Covers(S, S) /\ Covers(S, {})
  BY DEF Covers

LEMMA PushStep ==
  ASSUME IInv, TypeOK', (\E r \in Records, b \in Sizes : UpdateRecord(r, b)) \/ ClearRecords
  PROVE  IInv'
<1> USE DEF storeVars, indexVars, dbVars, orderVars
<1>1. UNCHANGED <<ready, backend, nextSequence, seq, turn, appends, numbered, table, local, step,
                  indexRows>>
  BY DEF UpdateRecord, ClearRecords
<1>2. Shrinks /\ queue' # <<>>
  <2>1. \E k \in {"update", "clear"} : \E q, c : Push(k, q, c)
    BY DEF UpdateRecord, ClearRecords
  <2>0. PICK k \in {"update", "clear"} : \E q, c : Push(k, q, c)
    BY <2>1
  <2>2. PICK q, c : Push(k, q, c)
    BY <2>0
  <2>3. queue' # <<>>
    BY <2>2 DEF Push, IInv, TypeOK, TaskTypeOK
  <2> QED BY <1>1, <2>2, <2>3, PushShrinks DEF IInv, TypeOK
<1>3. OrderOK' /\ QueueOK' /\ TableOK'
  BY <1>1, <1>2, ShrinkStep, CoversSelf DEF IInv, TypeOK
<1>4. StepOK'
  BY <1>1, <1>2 DEF IInv, StepOK
<1>5. IndexMirrorsRows'
  BY <1>1 DEF IInv, IndexMirrorsRows, Rows
<1> QED BY <1>3, <1>4, <1>5 DEF IInv

\* A record that is appended is the newest of all and goes behind the queue.
LEMMA AppendStep ==
  ASSUME IInv, TypeOK', NEW r \in Records, NEW b \in Sizes, AppendRecord(r, b)
  PROVE  IInv'
<1> USE DEF storeVars, indexVars, dbVars, orderVars, IInv, TypeOK, StoreTypeOK, HistoryTypeOK
<1>1. /\ UNCHANGED <<ready, backend, numbered, table, local, step, indexRows>>
      /\ turn[r] = 0 /\ Push("append", r, b)
      /\ seq' = [seq EXCEPT ![r] = nextSequence]
      /\ nextSequence' = nextSequence + 1
      /\ turn' = [turn EXCEPT ![r] = appends + 1]
      /\ appends' = appends + 1
  BY DEF AppendRecord
<1>2. /\ \A q \in Records : q # r => turn'[q] = turn[q] /\ seq'[q] = seq[q]
      /\ turn'[r] = appends + 1 /\ seq'[r] = nextSequence /\ nextSequence # 0
      /\ \A q \in Records : turn[q] < turn'[r] /\ seq[q] < seq'[r]
  BY <1>1 DEF OrderOK
<1>3. OrderOK'
  BY <1>1, <1>2 DEF OrderOK
<1>4. ASSUME NEW i \in DOMAIN queue, Waits(i) PROVE Of(i) \in Records /\ Of(i) # r
  <2>1. queue[i] \in Task
    BY DEF TaskTypeOK
  <2>2. Of(i) \in Records
    BY <1>4, <2>1 DEF Task, Waits, Of
  <2>3. seq[Of(i)] # 0
    BY <1>4 DEF QueueOK
  <2> QED BY <1>1, <2>2, <2>3 DEF OrderOK
<1>5. \A x \in numbered : x.record \in Records /\ x.record # r
  BY <1>1 DEF TableOK
<1>6. ASSUME NEW i \in DOMAIN queue', Waits(i)'
      PROVE  /\ i \in Nat
             /\ \/ i \in DOMAIN queue /\ Waits(i) /\ Of(i)' = Of(i)
                \/ i = Len(queue) + 1 /\ Of(i)' = r /\ i \notin DOMAIN queue
  BY <1>1, <1>6, PushKeeps
<1>7. QueueOK'
  <2>1. ASSUME NEW i \in DOMAIN queue', Waits(i)' PROVE seq'[Of(i)'] # 0
    BY <1>2, <1>4, <1>6, <2>1 DEF QueueOK
  <2>2. ASSUME NEW i \in DOMAIN queue', NEW j \in DOMAIN queue', Waits(i)', Waits(j)', i < j
        PROVE  turn'[Of(i)'] < turn'[Of(j)']
    <3>1. i \in DOMAIN queue /\ Waits(i) /\ Of(i)' = Of(i)
      <4>a. i \in Nat /\ (j \in DOMAIN queue \/ j = Len(queue) + 1) /\ j \in Nat
        BY <1>6, <2>2
      <4>1. Len(queue) \in Nat /\ DOMAIN queue = 1 .. Len(queue)
        BY DEF TaskTypeOK
      <4>2. j <= Len(queue) + 1
        BY <4>1, <4>a
      <4>3. i # Len(queue) + 1
        BY <2>2, <4>1, <4>2, <4>a
      <4> QED BY <1>6, <2>2, <4>3
    <3>2. CASE Of(j)' = r
      BY <1>2, <1>4, <3>1, <3>2
    <3>3. CASE Of(j)' # r
      BY <1>2, <1>4, <1>6, <2>2, <3>1, <3>3 DEF QueueOK
    <3> QED BY <3>2, <3>3
  <2>3. ASSUME NEW x \in numbered', NEW i \in DOMAIN queue', Waits(i)'
        PROVE  turn'[x.record] < turn'[Of(i)']
    <3>1. CASE Of(i)' = r
      BY <1>1, <1>2, <1>5, <3>1
    <3>2. CASE Of(i)' # r
      BY <1>1, <1>2, <1>4, <1>5, <1>6, <2>3, <3>2 DEF QueueOK
    <3> QED BY <3>1, <3>2
  <2> QED BY <2>1, <2>2, <2>3 DEF QueueOK
<1>8. \A x \in table : x.record \in Records /\ x.record # r
  BY <1>5 DEF TableOK, RecordsOf
<1>9. TableOK'
  <2>1. \A x \in numbered' : turn'[x.record] # 0
    BY <1>1, <1>2, <1>5 DEF TableOK
  <2>2. RowsInAppendOrder'
    BY <1>1, <1>2, <1>8 DEF TableOK, RowsInAppendOrder
  <2>3. ready' /\ backend' = "database" => \A x \in table' : x.sequence < nextSequence'
    BY <1>1 DEF TableOK, RowTypeOK, Row
  <2>4. ASSUME ready', backend' = "database", NEW x \in table', NEW i \in DOMAIN queue', Waits(i)'
        PROVE  x.sequence < seq'[Of(i)']
    <3>1. CASE Of(i)' = r
      BY <1>1, <1>2, <2>4, <3>1 DEF TableOK
    <3>2. CASE Of(i)' # r
      BY <1>1, <1>2, <1>4, <1>6, <2>4, <3>2 DEF TableOK
    <3> QED BY <3>1, <3>2
  <2>5. RecordsOf(table') \subseteq RecordsOf(numbered') /\ (Bounded(table) /\ Bounded(local))'
    BY <1>1 DEF TableOK, Bounded, RecordsOf
  <2> QED BY <2>1, <2>2, <2>3, <2>4, <2>5 DEF TableOK, RecordsOf
<1>10. StepOK'
  <2>1. queue' # <<>>
    BY <1>1 DEF Push, TaskTypeOK
  <2> QED BY <1>1, <2>1 DEF StepOK
<1>11. IndexMirrorsRows'
  BY <1>1 DEF IndexMirrorsRows, Rows
<1> QED BY <1>3, <1>7, <1>9, <1>10, <1>11

\* What every step of the queue but the write of an append shares.
LEMMA KeepStep ==
  ASSUME IInv, TypeOK', Shrinks,
         UNCHANGED <<ready, backend, nextSequence, seq, turn, appends, numbered>>,
         step' # "idle" => ready /\ queue' # <<>>, ready,
         Covers(table, table'), Covers(local, local'), indexRows' = Indexed(Rows')
  PROVE  IInv'
<1>1. OrderOK' /\ QueueOK' /\ TableOK'
  BY ShrinkStep DEF IInv, TypeOK
<1>2. StepOK' /\ IndexMirrorsRows'
  BY DEF IInv, StepOK, IndexMirrorsRows
<1> QED BY <1>1, <1>2 DEF IInv

LEMMA DispatchStep == ASSUME IInv, TypeOK', Dispatch PROVE IInv'
<1>1. Shrinks
  BY SameShrinks DEF Dispatch, IInv, TypeOK
<1>2. Rows' = Rows /\ indexRows' = Indexed(Rows')
  BY DEF Dispatch, Rows, dbVars, storeVars, indexVars, IInv, IndexMirrorsRows
<1> QED BY <1>1, <1>2, KeepStep, CoversSelf DEF Dispatch, dbVars, storeVars, orderVars

\* The row of an append is the newest of its table, and nothing of the queue is older.
LEMMA WriteAppendStep == ASSUME IInv, TypeOK', WriteAppend PROVE IInv'
<1> USE DEF storeVars, orderVars, IInv, TypeOK, StoreTypeOK, HistoryTypeOK
<1> DEFINE r == Current.record
           x == [sequence |-> seq[r], record |-> r, bytes |-> Current.bytes]
<1>1. /\ step = "writing" /\ Current.kind = "append" /\ ready /\ queue # <<>> /\ Await("scope")
      /\ UNCHANGED <<ready, backend, nextSequence, seq, turn, appends>>
      /\ StoreRows(Put(Rows, x)) /\ indexRows' = Put(indexRows, Entry(x))
      /\ numbered' = IF backend = "database"
                     THEN numbered \cup {[sequence |-> seq[r], record |-> r]} ELSE numbered
  BY DEF WriteAppend, StepOK, SetIndex
<1>2. 1 \in DOMAIN queue /\ Waits(1) /\ Of(1) = r /\ r \in Records /\ Current.bytes \in Sizes
  <2>1. 1 \in DOMAIN queue /\ queue[1] = Current
    BY <1>1 DEF TaskTypeOK, Current
  <2>2. r \in Records /\ Current.bytes \in Sizes
    BY <1>1, CurrentType
  <2> QED BY <1>1, <2>1, <2>2 DEF Waits, Of
<1>3. seq[r] # 0 /\ turn[r] # 0 /\ seq[r] < nextSequence
  BY <1>2 DEF QueueOK, OrderOK
<1>4. x \in Row /\ x.sequence = seq[r] /\ x.record = r
  BY <1>2 DEF Row
<1>5. ASSUME NEW i \in DOMAIN queue', Waits(i)'
      PROVE  /\ i \in DOMAIN queue /\ Waits(i) /\ Of(i)' = Of(i) /\ Of(i) \in Records
             /\ turn[r] < turn[Of(i)] /\ seq[r] < seq[Of(i)]
  <2>1. i # 1 /\ i \in DOMAIN queue /\ Waits(i)
    BY <1>1, <1>5, AwaitShrinks
  <2>2. Of(i)' = Of(i) /\ 1 < i
    BY <1>1, <2>1 DEF Await, Of, TaskTypeOK
  <2>3. Of(i) \in Records
    <3>1. queue[i] \in Task
      BY <2>1 DEF TaskTypeOK
    <3> QED BY <2>1, <3>1 DEF Task, Waits, Of
  <2>4. turn[r] < turn[Of(i)]
    BY <1>2, <2>1, <2>2 DEF QueueOK
  <2>5. seq[Of(i)] # 0
    BY <2>1 DEF QueueOK
  <2> QED BY <1>2, <1>3, <2>1, <2>2, <2>3, <2>4, <2>5 DEF OrderOK
<1> HIDE DEF x, r
<1>6. OrderOK'
  BY <1>1 DEF OrderOK
<1>7. \A n \in numbered' : n \in numbered \/ n.record = r
  BY <1>1
<1>8. QueueOK'
  <2>1. ASSUME NEW i \in DOMAIN queue', NEW j \in DOMAIN queue', Waits(i)', Waits(j)', i < j
        PROVE  turn'[Of(i)'] < turn'[Of(j)']
    BY <1>1, <1>5, <2>1 DEF QueueOK
  <2>2. ASSUME NEW i \in DOMAIN queue', Waits(i)'
        PROVE  seq'[Of(i)'] # 0 /\ \A n \in numbered' : turn'[n.record] < turn'[Of(i)']
    BY <1>1, <1>5, <1>7, <2>2 DEF QueueOK
  <2> QED BY <2>1, <2>2 DEF QueueOK
<1>9. Rows' = Put(Rows, x) /\ Rows \subseteq Row
  BY <1>1, StoreRowsRows DEF RowTypeOK, Rows
<1>10. Bounded(Put(Rows, x))
  <2>1. PICK n \in Nat : \A y \in Rows : y.sequence < n
    BY DEF TableOK, Bounded, Rows
  <2>2. seq[r] \in Nat /\ n + seq[r] + 1 \in Nat
    BY <1>2
  <2>3. ASSUME NEW y \in Put(Rows, x) PROVE y.sequence < n + seq[r] + 1
    <3>1. CASE y = x
      BY <1>4, <2>2, <3>1
    <3>2. CASE y \in Rows
      <4>1. y.sequence \in Nat /\ y.sequence < n
        BY <1>9, <2>1, <3>2 DEF Row
      <4> QED BY <2>2, <4>1
    <3> QED BY <3>1, <3>2 DEF Put
  <2> QED BY <2>2, <2>3 DEF Bounded
<1>11. TableOK'
  <2>1. \A n \in numbered' : turn'[n.record] # 0
    BY <1>1, <1>3, <1>7 DEF TableOK
  <2>2. CASE backend # "database"
    <3>1. table' = table /\ numbered' = numbered /\ local' = Put(Rows, x)
      BY <1>1, <2>2 DEF StoreRows
    <3>2. (Bounded(table) /\ Bounded(local))'
      BY <1>10, <3>1 DEF TableOK, Bounded
    <3> QED BY <1>1, <2>1, <2>2, <3>1, <3>2 DEF TableOK, RecordsOf, RowsInAppendOrder
  <2>3. CASE backend = "database"
    <3>1. table' = Put(table, x) /\ local' = local /\ Rows = table
      BY <1>1, <2>3 DEF StoreRows, Rows
    <3>2. numbered' = numbered \cup {[sequence |-> seq[r], record |-> r]}
      BY <1>1, <2>3
    <3>3. RecordsOf(table') \subseteq RecordsOf(numbered')
      <4>1. [sequence |-> seq[r], record |-> r].record = r
        OBVIOUS
      <4>2. RecordsOf(table') \subseteq RecordsOf(table) \cup {r}
        BY <1>4, <3>1 DEF RecordsOf, Put
      <4>3. RecordsOf(numbered) \cup {r} \subseteq RecordsOf(numbered')
        BY <3>2, <4>1 DEF RecordsOf
      <4> QED BY <4>2, <4>3 DEF TableOK
    <3>4. ASSUME NEW y \in table
          PROVE  y.sequence < seq[r] /\ turn[y.record] < turn[r] /\ y.sequence \in Nat
                 /\ y.record \in Records
      <4>1. PICK n \in numbered : n.record = y.record
        BY DEF TableOK, RecordsOf
      <4>2. turn[y.record] < turn[r]
        BY <1>2, <4>1 DEF QueueOK
      <4>3. y.sequence < seq[r]
        BY <1>1, <1>2, <2>3 DEF TableOK
      <4> QED BY <4>2, <4>3 DEF RowTypeOK, Row
    <3>5. \A y \in table' : y \in table \/ y = x
      BY <3>1 DEF Put
    <3>6. RowsInAppendOrder'
      <4>1. ASSUME NEW y \in table', NEW z \in table'
            PROVE  y.sequence < z.sequence <=> turn'[y.record] < turn'[z.record]
        <5>1. CASE y \in table /\ z \in table
          BY <1>1, <5>1 DEF TableOK, RowsInAppendOrder
        <5>2. CASE y = x /\ z \in table
          BY <1>1, <1>2, <1>4, <3>4, <5>2
        <5>3. CASE y \in table /\ z = x
          BY <1>1, <1>4, <3>4, <5>3
        <5>4. CASE y = x /\ z = x
          BY <1>1, <1>2, <1>4, <5>4
        <5> QED BY <3>5, <5>1, <5>2, <5>3, <5>4
      <4> QED BY <4>1 DEF RowsInAppendOrder
    <3>7. (Bounded(table) /\ Bounded(local))'
      BY <1>10, <3>1 DEF TableOK, Bounded
    <3>8. \A y \in table' : y.sequence < nextSequence'
      BY <1>1, <1>3, <1>4, <2>3, <3>5 DEF TableOK
    <3>9. ASSUME NEW y \in table', NEW i \in DOMAIN queue', Waits(i)'
          PROVE  y.sequence < seq'[Of(i)']
      BY <1>1, <1>4, <1>5, <2>3, <3>5, <3>9 DEF TableOK
    <3> QED BY <2>1, <3>3, <3>6, <3>7, <3>8, <3>9 DEF TableOK, RecordsOf
  <2> QED BY <2>2, <2>3
<1>12. StepOK'
  BY <1>1 DEF StepOK, Await
<1>13. IndexMirrorsRows'
  BY <1>1, <1>4, <1>9, PutMirrors DEF IndexMirrorsRows
<1> QED BY <1>6, <1>8, <1>11, <1>12, <1>13

LEMMA WriteUpdateStep == ASSUME IInv, TypeOK', WriteUpdate PROVE IInv'
<1> USE DEF storeVars, orderVars, IInv, TypeOK
<1>1. /\ ready /\ queue # <<>>
      /\ UNCHANGED <<ready, backend, nextSequence, seq, turn, appends, numbered>>
  BY DEF WriteUpdate, StepOK
<1>2. CASE Found(Current.record) = {}
  <2>1. Finish /\ UNCHANGED <<table, local, indexRows>>
    BY <1>2 DEF WriteUpdate, indexVars
  <2>2. Shrinks /\ step' = "idle"
    BY <1>1, <2>1, FinishShrinks DEF Finish
  <2>3. indexRows' = Indexed(Rows')
    BY <1>1, <2>1 DEF IndexMirrorsRows, Rows
  <2> QED BY <1>1, <2>1, <2>2, <2>3, KeepStep, CoversSelf
<1>3. CASE Found(Current.record) # {}
  <2> DEFINE x == CHOOSE x \in Found(Current.record) : TRUE
             new == [x EXCEPT !.bytes = Current.bytes]
  <2>1. x \in Rows /\ x \in Row
    BY <1>3 DEF Found, Rows, RowTypeOK
  <2>2. new \in Row /\ new.sequence = x.sequence /\ new.record = x.record
    BY <2>1, CurrentType DEF WriteUpdate, StepOK, Row
  <2>3. StoreRows(Put(Rows, new)) /\ indexRows' = Put(indexRows, Entry(new)) /\ Summarized
    BY <1>3 DEF WriteUpdate, SetIndex
  <2> HIDE DEF x, new
  <2>4. Shrinks /\ (step' # "idle" => queue' # <<>>)
    <3>1. CASE Finish
      BY <1>1, <3>1, FinishShrinks DEF Finish
    <3>2. CASE Await("reclaim")
      BY <1>1, <3>2, AwaitShrinks DEF Await
    <3> QED BY <2>3, <3>1, <3>2 DEF Summarized
  <2>5. Covers(table, table') /\ Covers(local, local')
    BY <2>1, <2>2, <2>3, PutCovers, StoreRowsCovers
  <2>6. Rows' = Put(Rows, new) /\ Rows \subseteq Row
    BY <1>1, <2>3, StoreRowsRows DEF RowTypeOK, Rows
  <2>7. indexRows' = Indexed(Rows')
    BY <1>1, <2>2, <2>3, <2>6, PutMirrors DEF IndexMirrorsRows
  <2> QED BY <1>1, <2>4, <2>5, <2>7, KeepStep
<1> QED BY <1>2, <1>3

LEMMA WriteClearStep == ASSUME IInv, TypeOK', WriteClear PROVE IInv'
<1> USE DEF storeVars, orderVars, IInv, TypeOK
<1>1. /\ ready /\ queue # <<>> /\ Await("scope") /\ StoreRows({}) /\ indexRows' = {}
      /\ UNCHANGED <<ready, backend, nextSequence, seq, turn, appends, numbered>>
  BY DEF WriteClear, StepOK, SetIndex
<1>2. Shrinks /\ queue' = queue
  BY <1>1, AwaitShrinks DEF Await
<1>3. Covers(table, table') /\ Covers(local, local')
  BY <1>1, CoversSelf, StoreRowsCovers
<1>4. indexRows' = Indexed(Rows')
  BY <1>1, StoreRowsRows DEF Indexed
<1> QED BY <1>1, <1>2, <1>3, <1>4, KeepStep

LEMMA SaveScopeStep == ASSUME IInv, TypeOK', SaveScope PROVE IInv'
<1> USE DEF storeVars, orderVars, indexVars, IInv, TypeOK
<1>1. /\ ready /\ queue # <<>>
      /\ UNCHANGED <<ready, backend, nextSequence, seq, turn, appends, numbered, table, local,
                     indexRows>>
      /\ Finish \/ Await("reclaim")
  BY DEF SaveScope, StepOK, Summarized
<1>2. Shrinks /\ (step' # "idle" => queue' # <<>>)
  <2>1. CASE Finish
    BY <1>1, <2>1, FinishShrinks DEF Finish
  <2>2. CASE Await("reclaim")
    BY <1>1, <2>2, AwaitShrinks DEF Await
  <2> QED BY <1>1, <2>1, <2>2
<1>3. indexRows' = Indexed(Rows')
  BY <1>1 DEF IndexMirrorsRows, Rows
<1> QED BY <1>1, <1>2, <1>3, KeepStep, CoversSelf

LEMMA ReclaimStep == ASSUME IInv, TypeOK', Reclaim PROVE IInv'
<1> USE DEF storeVars, orderVars, IInv, TypeOK
<1> DEFINE c == Cutoff(indexRows)
<1>1. /\ ready /\ queue # <<>> /\ Finish /\ StoreRows(NewerThan(Rows, c))
      /\ indexRows' = NewerThan(indexRows, c)
      /\ UNCHANGED <<ready, backend, nextSequence, seq, turn, appends, numbered>>
  BY DEF Reclaim, StepOK, SetIndex
<1> HIDE DEF c
<1>2. Shrinks /\ step' = "idle"
  BY <1>1, FinishShrinks DEF Finish
<1>3. Covers(table, table') /\ Covers(local, local')
  BY <1>1, CutCovers, StoreRowsCovers
<1>4. indexRows' = Indexed(Rows')
  <2>1. Rows' = NewerThan(Rows, c) /\ Rows \subseteq Row
    BY <1>1, StoreRowsRows DEF RowTypeOK, Rows
  <2> QED BY <1>1, <2>1, CutMirrors DEF IndexMirrorsRows
<1> QED BY <1>1, <1>2, <1>3, <1>4, KeepStep

LEMMA FailStep == ASSUME IInv, TypeOK', CallFails PROVE IInv'
<1> USE DEF storeVars, orderVars, indexVars, dbVars, IInv, TypeOK
<1>1. /\ ready /\ queue # <<>> /\ Finish
      /\ UNCHANGED <<ready, backend, nextSequence, seq, turn, appends, numbered, table, local,
                     indexRows>>
  BY DEF CallFails, StepOK
<1>2. Shrinks /\ step' = "idle"
  BY <1>1, FinishShrinks DEF Finish
<1>3. indexRows' = Indexed(Rows')
  BY <1>1 DEF IndexMirrorsRows, Rows
<1> QED BY <1>1, <1>2, <1>3, KeepStep, CoversSelf

\* A reader changes nothing the invariant is about.
LEMMA ReadStep == ASSUME IInv, TypeOK', Reads PROVE IInv'
<1> USE DEF storeVars, taskVars, orderVars, indexVars, dbVars, IInv, TypeOK
<1>1. UNCHANGED <<ready, backend, nextSequence, seq, turn, appends, numbered, table, local,
                  indexRows, queue, step>>
  BY DEF Reads, CallRead, Snapshot, Round, CheckCursor, Query, QueryFails, EndRead, otherVars
<1>2. Shrinks
  BY <1>1, SameShrinks
<1>3. OrderOK' /\ QueueOK' /\ TableOK'
  BY <1>1, <1>2, ShrinkStep, CoversSelf
<1>4. StepOK' /\ IndexMirrorsRows'
  BY <1>1 DEF StepOK, IndexMirrorsRows, Rows
<1> QED BY <1>3, <1>4

-----------------------------------------------------------------------------
(* Start and end of a process *)

LEMMA InitIInv == Init => IInv
<1> SUFFICES ASSUME Init PROVE IInv
  OBVIOUS
<1> USE DEF Init
<1>1. TypeOK
  BY InitTypes
<1>2. StepOK
  BY DEF StepOK
<1>3. OrderOK
  BY DEF OrderOK
<1>4. QueueOK
  BY DEF QueueOK
<1>5. Bounded(table) /\ Bounded(local)
  BY DEF Bounded
<1>6. TableOK
  BY <1>5 DEF TableOK, RecordsOf, RowsInAppendOrder
<1>7. IndexMirrorsRows
  BY DEF IndexMirrorsRows
<1> QED BY <1>1, <1>2, <1>3, <1>4, <1>6, <1>7 DEF IInv

\* The recovery lifts every provisional number above the stored ones by the same amount.
LEMMA RecoverStep == ASSUME IInv, TypeOK', Recover PROVE IInv'
<1> USE DEF storeVars, taskVars, orderVars, dbVars, IInv, TypeOK, StoreTypeOK, HistoryTypeOK
<1>1. /\ ~ready /\ ready' /\ backend = "database" /\ step = "idle"
      /\ UNCHANGED <<backend, queue, step, turn, appends, numbered, table, local>>
      /\ seq' = Renumbered(seq, First) /\ nextSequence' = nextSequence + First - 1
      /\ indexRows' = Indexed(table)
  BY DEF Recover, StepOK
<1>2. First \in Nat /\ First >= 1 /\ \A x \in table : x.sequence < First
  BY FirstIsFree DEF TableOK
<1>3. \A r \in Records : seq'[r] = IF seq[r] = 0 THEN 0 ELSE seq[r] + First - 1
  BY <1>1 DEF Renumbered
<1>4. OrderOK'
  <2>1. nextSequence' >= 1 /\ \A r \in Records : seq'[r] < nextSequence' /\ turn'[r] <= appends'
    BY <1>1, <1>2, <1>3 DEF OrderOK
  <2>2. \A r \in Records : seq'[r] # 0 <=> seq[r] # 0
    BY <1>2, <1>3
  <2>3. \A r, q \in Records : seq'[r] # 0 /\ seq'[q] # 0 => (seq'[r] < seq'[q] <=> seq[r] < seq[q])
    BY <1>2, <1>3
  <2>4. \A r \in Records : seq'[r] # 0 => turn'[r] # 0
    BY <1>1, <2>2 DEF OrderOK
  <2>5. \A r, q \in Records :
          seq'[r] # 0 /\ seq'[q] # 0 => (seq'[r] < seq'[q] <=> turn'[r] < turn'[q])
    BY <1>1, <2>2, <2>3 DEF OrderOK
  <2>6. \A r, q \in Records : turn'[r] = turn'[q] /\ turn'[r] # 0 => r = q
    BY <1>1 DEF OrderOK
  <2> QED BY <2>1, <2>4, <2>5, <2>6 DEF OrderOK
<1>5. ASSUME NEW i \in DOMAIN queue', Waits(i)'
      PROVE  /\ i \in DOMAIN queue /\ Waits(i) /\ Of(i)' = Of(i) /\ Of(i) \in Records
             /\ seq'[Of(i)] # 0 /\ First <= seq'[Of(i)]
  <2>1. i \in DOMAIN queue /\ Waits(i) /\ Of(i)' = Of(i)
    BY <1>1, <1>5 DEF Waits, Of
  <2>2. queue[i] \in Task
    BY <2>1 DEF TaskTypeOK
  <2>3. Of(i) \in Records
    BY <2>1, <2>2 DEF Task, Waits, Of
  <2>4. seq[Of(i)] # 0 /\ seq[Of(i)] \in Nat
    BY <2>1, <2>3 DEF QueueOK
  <2> QED BY <1>2, <1>3, <2>1, <2>3, <2>4
<1>6. QueueOK'
  BY <1>1, <1>5 DEF QueueOK
<1>7. TableOK'
  <2>1. \A x \in table' : x.sequence < First /\ x.sequence \in Nat
    BY <1>1, <1>2 DEF RowTypeOK, Row
  <2>2. First <= nextSequence'
    BY <1>1, <1>2 DEF OrderOK
  <2>3. \A x \in table' : x.sequence < nextSequence'
    BY <1>2, <2>1, <2>2
  <2>4. ASSUME NEW x \in table', NEW i \in DOMAIN queue', Waits(i)'
        PROVE  x.sequence < seq'[Of(i)']
    <3>1. seq'[Of(i)] \in Nat /\ First <= seq'[Of(i)] /\ Of(i)' = Of(i)
      BY <1>5, <2>4
    <3> QED BY <1>2, <2>1, <3>1
  <2>5. (Bounded(table) /\ Bounded(local))'
    BY <1>1 DEF TableOK, Bounded
  <2> QED BY <1>1, <2>3, <2>4, <2>5 DEF TableOK, RecordsOf, RowsInAppendOrder
<1>8. StepOK' /\ IndexMirrorsRows'
  BY <1>1 DEF StepOK, IndexMirrorsRows, Rows
<1> QED BY <1>4, <1>6, <1>7, <1>8

\* A degraded store starts from nothing and leaves the table.
LEMMA DegradeStep == ASSUME IInv, TypeOK', Degrade PROVE IInv'
<1> USE DEF taskVars, orderVars, indexVars, dbVars, IInv, TypeOK
<1>1. /\ ~ready /\ ready' /\ backend' = "memory" /\ step = "idle" /\ local = {} /\ indexRows = {}
      /\ UNCHANGED <<queue, step, nextSequence, seq, turn, appends, numbered, table, local,
                     indexRows>>
  BY DEF Degrade, StepOK
<1>2. OrderOK'
  BY <1>1 DEF OrderOK
<1>3. QueueOK'
  BY <1>1 DEF QueueOK, Waits, Of
<1>4. (Bounded(table) /\ Bounded(local))'
  BY <1>1 DEF TableOK, Bounded
<1>5. TableOK'
  BY <1>1, <1>4 DEF TableOK, RecordsOf, RowsInAppendOrder
<1>6. StepOK' /\ IndexMirrorsRows'
  BY <1>1 DEF StepOK, IndexMirrorsRows, Rows, Indexed
<1> QED BY <1>2, <1>3, <1>5, <1>6

LEMMA RestartStep == ASSUME IInv, TypeOK', Restart PROVE IInv'
<1> USE DEF orderVars, dbVars, IInv, TypeOK, StoreTypeOK, HistoryTypeOK
<1>1. /\ ~ready' /\ backend' = "database" /\ step' = "idle" /\ local' = {} /\ indexRows' = {}
      /\ queue' = <<>> /\ nextSequence' = 1 /\ seq' = [r \in Records |-> 0]
      /\ UNCHANGED <<turn, appends, numbered, table>>
  BY DEF Restart
<1>2. OrderOK'
  BY <1>1 DEF OrderOK
<1>3. QueueOK'
  BY <1>1 DEF QueueOK
<1>4. (Bounded(table) /\ Bounded(local))'
  BY <1>1 DEF TableOK, Bounded
<1>5. TableOK'
  BY <1>1, <1>4 DEF TableOK, RecordsOf, RowsInAppendOrder
<1>6. StepOK' /\ IndexMirrorsRows'
  BY <1>1 DEF StepOK, IndexMirrorsRows
<1> QED BY <1>2, <1>3, <1>5, <1>6

LEMMA StepTypes == IInv /\ [Next]_vars => TypeOK'
<1> SUFFICES ASSUME IInv, [Next]_vars PROVE TypeOK'
  OBVIOUS
<1>1. TypeOK /\ StepOK /\ Bounded(table) /\ Bounded(local)
  BY DEF IInv, TableOK
<1>2. CASE UNCHANGED vars
  BY <1>1, <1>2 DEF vars, TypeOK, StoreTypeOK, TaskTypeOK, RowTypeOK, ReadTypeOK, HistoryTypeOK,
     storeVars, taskVars, indexVars, dbVars, readVars, boundVars, orderVars
<1>3. CASE Next
  BY <1>1, <1>3, CallTypes, WorkTypes, ReadTypes, LifeTypes DEF Next
<1> QED BY <1>2, <1>3

LEMMA StepIInv == IInv /\ [Next]_vars => IInv'
<1> SUFFICES ASSUME IInv, [Next]_vars PROVE IInv'
  OBVIOUS
<1>1. TypeOK'
  BY StepTypes
<1>2. CASE Calls
  BY <1>1, <1>2, AppendStep, PushStep DEF Calls
<1>3. CASE Work
  BY <1>1, <1>3, DispatchStep, WriteAppendStep, WriteUpdateStep, WriteClearStep, SaveScopeStep,
     ReclaimStep DEF Work
<1>4. CASE CallFails
  BY <1>1, <1>4, FailStep
<1>5. CASE Reads
  BY <1>1, <1>5, ReadStep
<1>6. CASE Recover \/ Degrade \/ Restart
  BY <1>1, <1>6, RecoverStep, DegradeStep, RestartStep
<1>7. CASE UNCHANGED vars
  BY <1>1, <1>7 DEF IInv, vars, StepOK, OrderOK, QueueOK, TableOK, IndexMirrorsRows, Waits, Of,
     Rows, Bounded, RecordsOf, RowsInAppendOrder,
     storeVars, taskVars, indexVars, dbVars, orderVars
<1> QED BY <1>2, <1>3, <1>4, <1>5, <1>6, <1>7 DEF Next

\* The inductive invariant of the store holds.
THEOREM IInvHolds == Spec => []IInv
  BY InitIInv, StepIInv, PTL DEF Spec

\* Type correctness of the store, its tables and its reader.
THEOREM TypeCorrect == Spec => []TypeOK
  BY IInvHolds, PTL DEF IInv

\* The rows are in the order of the append calls, whatever is lost, reclaimed or cleared.
THEOREM RowsAreOrdered == Spec => []RowsInAppendOrder
  BY IInvHolds, PTL DEF IInv, TableOK

\* The index counts exactly the rows.
THEOREM IndexIsExact == Spec => []IndexMirrorsRows
  BY IInvHolds, PTL DEF IInv

-----------------------------------------------------------------------------
(* What the steps do to the table *)

\* Two rows of one sequence are rows of one record.
LEMMA RowsUnique ==
  ASSUME IInv, NEW x \in table, NEW y \in table, x.sequence = y.sequence
  PROVE  x.record = y.record
<1>1. PICK n \in numbered : n.record = x.record
  BY DEF IInv, TableOK, RecordsOf
<1>2. turn[x.record] # 0
  BY <1>1 DEF IInv, TableOK
<1>3. x.sequence \in Nat /\ x.record \in Records /\ y.record \in Records
  BY DEF IInv, TypeOK, RowTypeOK, Row
<1>4. ~(turn[x.record] < turn[y.record]) /\ ~(turn[y.record] < turn[x.record])
  BY <1>3 DEF IInv, TableOK, RowsInAppendOrder
<1>5. turn[x.record] = turn[y.record]
  BY <1>3, <1>4 DEF IInv, TypeOK, HistoryTypeOK
<1> QED BY <1>2, <1>3, <1>5 DEF IInv, OrderOK

\* The write of an append adds one row that is newer than all.
LEMMA AppendWrites ==
  ASSUME IInv, WriteAppend, backend = "database"
  PROVE  \E x \in Row : /\ table' = table \cup {x}
                        /\ numbered' = numbered \cup {[sequence |-> x.sequence, record |-> x.record]}
                        /\ x.record \in Records /\ turn[x.record] # 0
                        /\ \A y \in table : y.sequence < x.sequence
                        /\ \A n \in numbered : turn[n.record] < turn[x.record]
<1> USE DEF IInv, TypeOK, StoreTypeOK
<1> DEFINE r == Current.record
           x == [sequence |-> seq[r], record |-> r, bytes |-> Current.bytes]
<1>1. /\ step = "writing" /\ Current.kind = "append" /\ ready /\ queue # <<>>
      /\ table' = Put(table, x)
      /\ numbered' = numbered \cup {[sequence |-> seq[r], record |-> r]}
  BY DEF WriteAppend, StepOK, StoreRows, Rows
<1>2. 1 \in DOMAIN queue /\ Waits(1) /\ Of(1) = r /\ r \in Records /\ Current.bytes \in Sizes
  <2>1. 1 \in DOMAIN queue /\ queue[1] = Current
    BY <1>1 DEF TaskTypeOK, Current
  <2>2. r \in Records /\ Current.bytes \in Sizes
    BY <1>1, CurrentType
  <2> QED BY <1>1, <2>1, <2>2 DEF Waits, Of
<1>3. x \in Row /\ x.sequence = seq[r] /\ x.record = r
  BY <1>2 DEF Row
<1>4. \A y \in table : y.sequence < seq[r] /\ y.sequence # seq[r]
  <2>1. \A y \in table : y.sequence < seq[r]
    BY <1>1, <1>2 DEF TableOK
  <2>2. \A y \in table : y.sequence \in Nat
    BY DEF RowTypeOK, Row
  <2>3. seq[r] \in Nat
    BY <1>2
  <2> QED BY <2>1, <2>2, <2>3
<1>5. table' = table \cup {x}
  BY <1>1, <1>3, <1>4 DEF Put
<1>6. turn[r] # 0 /\ \A n \in numbered : turn[n.record] < turn[r]
  BY <1>2 DEF QueueOK, OrderOK
<1> QED BY <1>1, <1>2, <1>3, <1>4, <1>5, <1>6

\* Every other step leaves rows that were there, and drops older ones only.
LEMMA OthersKeep ==
  ASSUME IInv, [Next]_vars, ~(WriteAppend /\ backend = "database")
  PROVE  /\ Covers(table, table')
         /\ \/ \A x \in table : \E y \in table' : y.record = x.record
            \/ \E c \in Nat : table' = NewerThan(table, c)
            \/ table' = {}
         /\ numbered' = numbered
<1> USE DEF IInv, TypeOK, storeVars, taskVars, dbVars, indexVars, orderVars
<1>1. CASE UNCHANGED <<table, numbered>>
  BY <1>1, CoversSelf
<1>2. CASE Calls \/ Dispatch \/ SaveScope \/ CallFails \/ Reads \/ Recover \/ Degrade \/ Restart
           \/ UNCHANGED vars
  <2>1. UNCHANGED <<table, numbered>>
    BY <1>2 DEF Calls, AppendRecord, UpdateRecord, ClearRecords, Dispatch, SaveScope, CallFails,
       Reads, CallRead, Snapshot, Round, CheckCursor, Query, QueryFails, EndRead, otherVars,
       Recover, Degrade, Restart, vars
  <2> QED BY <1>1, <2>1
<1>3. CASE WriteAppend
  <2>1. UNCHANGED <<table, numbered>>
    BY <1>3 DEF WriteAppend, StoreRows
  <2> QED BY <1>1, <2>1
<1>4. CASE WriteUpdate
  <2>1. CASE Found(Current.record) = {}
    BY <1>1, <1>4, <2>1 DEF WriteUpdate
  <2>2. CASE Found(Current.record) # {} /\ backend # "database"
    BY <1>1, <1>4, <2>2 DEF WriteUpdate, StoreRows
  <2>3. CASE Found(Current.record) # {} /\ backend = "database"
    <3> DEFINE x == CHOOSE x \in Found(Current.record) : TRUE
               new == [x EXCEPT !.bytes = Current.bytes]
    <3>1. x \in table /\ x \in Row
      BY <2>3 DEF Found, Rows, RowTypeOK
    <3>2. new.sequence = x.sequence /\ new.record = x.record
      BY <3>1 DEF Row
    <3>3. table' = Put(table, new) /\ numbered' = numbered
      BY <1>4, <2>3 DEF WriteUpdate, StoreRows, Rows
    <3> HIDE DEF x, new
    <3>4. Covers(table, table')
      BY <3>1, <3>2, <3>3, PutCovers
    <3>5. ASSUME NEW z \in table PROVE \E y \in table' : y.record = z.record
      <4>1. CASE z.sequence = new.sequence
        <5>1. z.record = x.record
          BY <3>1, <3>2, <4>1, RowsUnique
        <5>2. new \in table'
          BY <3>3 DEF Put
        <5> QED BY <3>2, <5>1, <5>2
      <4>2. CASE z.sequence # new.sequence
        BY <3>3, <4>2 DEF Put
      <4> QED BY <4>1, <4>2
    <3> QED BY <3>3, <3>4, <3>5
  <2> QED BY <2>1, <2>2, <2>3
<1>5. CASE WriteClear
  <2>1. numbered' = numbered /\ (table' = {} \/ table' = table)
    BY <1>5 DEF WriteClear, StoreRows
  <2> QED BY <1>1, <2>1, CoversSelf
<1>6. CASE Reclaim
  <2> DEFINE c == Cutoff(indexRows)
  <2>1. numbered' = numbered /\ (table' = NewerThan(table, c) \/ table' = table)
    BY <1>6 DEF Reclaim, StoreRows, Rows
  <2>2. CASE table' = table
    BY <1>1, <2>1, <2>2
  <2>3. CASE table' = NewerThan(table, c)
    <3>1. Covers(table, table')
      BY <2>3, CutCovers
    <3>2. CASE table = {}
      BY <2>1, <2>3, <3>1, <3>2 DEF NewerThan
    <3>3. CASE table # {}
      <4>1. CASE backend # "database"
        BY <1>1, <1>6, <2>1, <4>1 DEF Reclaim, StoreRows
      <4>2. CASE backend = "database"
        <5>1. indexRows = Indexed(table) /\ Bounded(table)
          BY <1>6, <4>2 DEF Reclaim, StepOK, IndexMirrorsRows, Rows, TableOK
        <5>2. c \in Nat
          BY <3>3, <5>1, CutoffIsNumber
        <5> QED BY <2>1, <2>3, <3>1, <5>2
      <4> QED BY <4>1, <4>2
    <3> QED BY <3>2, <3>3
  <2> QED BY <2>1, <2>2, <2>3
<1> QED BY <1>2, <1>3, <1>4, <1>5, <1>6 DEF Next, Work

-----------------------------------------------------------------------------
(* Theorems about the steps *)

\* No step stores the row of one record under the sequence of the row of another.
LEMMA StepKeepsRecords ==
  ASSUME IInv, [Next]_vars, NEW x \in table, NEW y \in table', x.sequence = y.sequence
  PROVE  x.record = y.record
<1>1. CASE WriteAppend /\ backend = "database"
  <2>1. PICK w \in Row : table' = table \cup {w} /\ \A z \in table : z.sequence < w.sequence
    BY <1>1, AppendWrites
  <2>2. x.sequence < w.sequence /\ x.sequence \in Nat /\ w.sequence \in Nat
    BY <2>1 DEF IInv, TypeOK, RowTypeOK, Row
  <2>3. y \in table
    BY <2>1, <2>2
  <2> QED BY <2>3, RowsUnique
<1>2. CASE ~(WriteAppend /\ backend = "database")
  <2>1. PICK z \in table : z.sequence = y.sequence /\ z.record = y.record
    BY <1>2, OthersKeep DEF Covers
  <2> QED BY <2>1, RowsUnique
<1> QED BY <1>1, <1>2

\* Neither a restart with records that wait for their final number, nor a clear, nor a lost
\* write makes a record overwrite another one.
THEOREM NothingOverwritten == Spec => RowsKeepTheirRecord
<1>1. IInv /\ [Next]_vars =>
        [\A x \in table, y \in table' : x.sequence = y.sequence => x.record = y.record]_table
  BY StepKeepsRecords
<1> QED BY <1>1, IInvHolds, PTL DEF Spec, RowsKeepTheirRecord

-----------------------------------------------------------------------------
(* Numbers in one process *)

\* Until the first restart a record is stored under the number it has.
LifeOK ==
  restarts = 0 => /\ ~ready => numbered = {}
                  /\ \A x \in numbered : seq[x.record] = x.sequence /\ x.sequence # 0
\* With everything it needs.
LifeInv == IInv /\ LifeOK

LEMMA StepLife == LifeInv /\ [Next]_vars => LifeOK'
<1> SUFFICES ASSUME LifeInv, [Next]_vars PROVE LifeOK'
  OBVIOUS
<1> USE DEF LifeInv, LifeOK
<1>1. ASSUME NEW r \in Records, NEW b \in Sizes, AppendRecord(r, b) PROVE LifeOK'
  <2>1. \A x \in numbered : x.record # r
    BY <1>1 DEF IInv, TableOK, AppendRecord
  <2>2. seq' = [seq EXCEPT ![r] = nextSequence]
        /\ UNCHANGED <<restarts, ready, numbered>>
    BY <1>1 DEF AppendRecord, boundVars
  <2>3. \A x \in numbered : x.record \in Records /\ seq'[x.record] = seq[x.record]
    BY <2>1, <2>2 DEF IInv, TypeOK, StoreTypeOK, HistoryTypeOK
  <2> QED BY <2>2, <2>3
<1>2. CASE WriteAppend
  <2>1. ready /\ queue # <<>> /\ Current = queue[1] /\ 1 \in DOMAIN queue
    BY <1>2 DEF WriteAppend, IInv, StepOK, Current, TypeOK, TaskTypeOK
  <2>2. seq[Current.record] # 0
    BY <1>2, <2>1 DEF WriteAppend, IInv, QueueOK, Waits, Of
  <2>3. UNCHANGED <<restarts, ready, seq>>
    BY <1>2 DEF WriteAppend, storeVars, boundVars
  <2>4. numbered' \subseteq
          numbered \cup {[sequence |-> seq[Current.record], record |-> Current.record]}
    BY <1>2 DEF WriteAppend
  <2> QED BY <2>1, <2>2, <2>3, <2>4
<1>3. CASE Recover
  BY <1>3 DEF Recover, boundVars
<1>4. CASE Restart
  <2>1. restarts' # 0
    BY <1>4 DEF Restart, IInv, TypeOK, HistoryTypeOK
  <2> QED BY <2>1
<1>5. CASE (\E r \in Records, b \in Sizes : UpdateRecord(r, b)) \/ ClearRecords \/ Dispatch
           \/ WriteUpdate \/ WriteClear \/ SaveScope \/ Reclaim \/ CallFails \/ Reads
           \/ Degrade \/ UNCHANGED vars
  <2>1. UNCHANGED <<restarts, numbered, seq>> /\ (ready' = ready \/ ready' = TRUE)
    BY <1>5 DEF UpdateRecord, ClearRecords, Dispatch, WriteUpdate, WriteClear, SaveScope, Reclaim,
      CallFails, Reads, CallRead, Snapshot, Round, CheckCursor, Query, QueryFails, EndRead, Degrade,
      vars, storeVars, boundVars, otherVars
  <2> QED BY <2>1
<1> QED BY <1>1, <1>2, <1>3, <1>4, <1>5 DEF Next, Calls, Work

\* In one process no number is ever given to two records, whatever is cleared, fails or is
\* recovered; and no step stores a record under the number of a row of another one.
THEOREM NumbersHold == Spec => NumbersAreKept
<1>1. Init => LifeOK
  BY DEF Init, LifeOK
<1>2. LifeInv => SequenceNeverReused
  <2> SUFFICES ASSUME LifeInv, restarts = 0, NEW x \in numbered, NEW y \in numbered,
                      x.sequence = y.sequence
               PROVE  x.record = y.record
    BY DEF SequenceNeverReused
  <2>1. x.record \in Records /\ y.record \in Records
    BY DEF LifeInv, IInv, TypeOK, HistoryTypeOK
  <2>2. seq[x.record] = seq[y.record] /\ seq[x.record] # 0 /\ seq[x.record] \in Nat
    BY <2>1 DEF LifeInv, LifeOK, IInv, TypeOK, StoreTypeOK
  <2>3. turn[x.record] \in Nat /\ turn[y.record] \in Nat /\ turn[x.record] # 0
    BY <2>1, <2>2 DEF LifeInv, IInv, OrderOK, TypeOK, HistoryTypeOK
  <2>4. turn[x.record] = turn[y.record]
    BY <2>1, <2>2, <2>3 DEF LifeInv, IInv, OrderOK
  <2> QED BY <2>1, <2>3, <2>4 DEF LifeInv, IInv, OrderOK
<1>3. IInv /\ LifeOK /\ [Next]_vars => LifeOK'
  BY StepLife DEF LifeInv
<1>4. IInv /\ LifeOK => SequenceNeverReused
  BY <1>2 DEF LifeInv
<1>5. Spec => []SequenceNeverReused
  BY <1>1, <1>3, <1>4, IInvHolds, PTL DEF Spec
<1> QED BY <1>5, NothingOverwritten DEF NumbersAreKept

-----------------------------------------------------------------------------
(* The store implements the evidence log *)

LEMMA InitLog == Init => Log!Init
  BY DEF Init, Log!Init, RecordsOf

\* The call of an append is the append of the log.
LEMMA AppendIsLogAppend ==
  ASSUME NEW r \in Records, NEW b \in Sizes, AppendRecord(r, b)
  PROVE  Log!Append(r)
  BY DEF AppendRecord, Log!Append, dbVars

\* Its write is the store of the log.
LEMMA WriteIsLogStore ==
  ASSUME IInv, WriteAppend, backend = "database"
  PROVE  \E r \in Records : Log!Store(r)
<1>1. PICK x \in Row :
        /\ table' = table \cup {x}
        /\ numbered' = numbered \cup {[sequence |-> x.sequence, record |-> x.record]}
        /\ x.record \in Records /\ turn[x.record] # 0
        /\ \A n \in numbered : turn[n.record] < turn[x.record]
  BY AppendWrites
<1>2. UNCHANGED <<turn, appends>>
  BY DEF WriteAppend, orderVars
<1>3. RecordsOf(table)' = RecordsOf(table) \cup {x.record}
  BY <1>1 DEF RecordsOf
<1>4. RecordsOf(numbered)' = RecordsOf(numbered) \cup {x.record}
  <2> DEFINE n == [sequence |-> x.sequence, record |-> x.record]
  <2>1. n.record = x.record /\ numbered' = numbered \cup {n}
    BY <1>1
  <2> HIDE DEF n
  <2> QED BY <2>1 DEF RecordsOf
<1>5. \A r \in RecordsOf(numbered) : turn[r] < turn[x.record]
  BY <1>1 DEF RecordsOf
<1>6. Log!Store(x.record)
  BY <1>1, <1>2, <1>3, <1>4, <1>5 DEF Log!Store
<1> QED BY <1>1, <1>6

\* A record that leaves the table is older than every record that stays.
LEMMA GoneAreOlder ==
  ASSUME IInv, NEW c \in Nat, table' = NewerThan(table, c),
         NEW x \in RecordsOf(table) \ RecordsOf(table)', NEW y \in RecordsOf(table)'
  PROVE  turn[x] < turn[y]
<1>1. PICK v \in table : v.record = x
  BY DEF RecordsOf
<1>2. PICK w \in table : w.record = y /\ w.sequence > c
  BY DEF RecordsOf, NewerThan
<1>3. ~(v.sequence > c)
  BY <1>1 DEF RecordsOf, NewerThan
<1>4. v.sequence \in Nat /\ w.sequence \in Nat
  BY DEF IInv, TypeOK, RowTypeOK, Row
<1>5. v.sequence < w.sequence
  BY <1>2, <1>3, <1>4
<1> QED BY <1>1, <1>2, <1>5 DEF IInv, TableOK, RowsInAppendOrder

\* Every other step forgets the oldest records, all of them, or none.
LEMMA OthersForget ==
  ASSUME IInv, [Next]_vars, ~(WriteAppend /\ backend = "database"), UNCHANGED <<turn, appends>>
  PROVE  \E gone \in SUBSET RecordsOf(table) : Log!Forget(gone)
<1> DEFINE gone == RecordsOf(table) \ RecordsOf(table)'
<1>1. Covers(table, table') /\ numbered' = numbered
  BY OthersKeep
<1>2. RecordsOf(table)' \subseteq RecordsOf(table)
  BY <1>1 DEF Covers, RecordsOf
<1>3. RecordsOf(table)' = RecordsOf(table) \ gone
  BY <1>2
<1>4. RecordsOf(numbered)' = RecordsOf(numbered)
  BY <1>1 DEF RecordsOf
<1>5. ASSUME NEW x \in gone, NEW y \in RecordsOf(table)' PROVE turn[x] < turn[y]
  <2>1. CASE \A z \in table : \E w \in table' : w.record = z.record
    BY <2>1, <1>5 DEF RecordsOf
  <2>2. CASE table' = {}
    BY <2>2, <1>5 DEF RecordsOf
  <2>3. CASE \E c \in Nat : table' = NewerThan(table, c)
    BY <2>3, <1>5, GoneAreOlder
  <2> QED BY <2>1, <2>2, <2>3, OthersKeep
<1>6. Log!Forget(gone)
  BY <1>3, <1>4, <1>5 DEF Log!Forget
<1> QED BY <1>6

\* turn and appends change in an append only.
LEMMA OrderStays ==
  ASSUME [Next]_vars, ~(\E r \in Records, b \in Sizes : AppendRecord(r, b))
  PROVE  UNCHANGED <<turn, appends>>
<1> USE DEF orderVars
<1>1. CASE Calls
  BY <1>1 DEF Calls, UpdateRecord, ClearRecords
<1>2. CASE Work
  BY <1>2 DEF Work, Dispatch, WriteAppend, WriteUpdate, WriteClear, SaveScope, Reclaim
<1>3. CASE Reads
  BY <1>3 DEF Reads, CallRead, Snapshot, Round, CheckCursor, Query, QueryFails, EndRead, otherVars
<1>4. CASE CallFails \/ Recover \/ Degrade \/ Restart \/ UNCHANGED vars
  BY <1>4 DEF CallFails, Recover, Degrade, Restart, vars
<1> QED BY <1>1, <1>2, <1>3, <1>4 DEF Next

\* Every step of the store is a step of the log.
LEMMA StepLog == IInv /\ [Next]_vars => [Log!Next]_Log!vars
<1> SUFFICES ASSUME IInv, [Next]_vars PROVE [Log!Next]_Log!vars
  OBVIOUS
<1>1. CASE \E r \in Records, b \in Sizes : AppendRecord(r, b)
  BY <1>1, AppendIsLogAppend DEF Log!Next
<1>2. CASE ~(\E r \in Records, b \in Sizes : AppendRecord(r, b))
  <2>1. CASE WriteAppend /\ backend = "database"
    BY <2>1, WriteIsLogStore DEF Log!Next
  <2>2. CASE ~(WriteAppend /\ backend = "database")
    BY <1>2, <2>2, OrderStays, OthersForget DEF Log!Next
  <2> QED BY <2>1, <2>2
<1> QED BY <1>1, <1>2

\* The rows of the database are the evidence log: records are stored in the order of their
\* appends, each once, and only the oldest are forgotten, whatever fails and restarts.
THEOREM StoreImplementsLog == Spec => ImplementsLog
  BY InitLog, StepLog, IInvHolds, PTL DEF Spec, ImplementsLog, Log!Spec

-----------------------------------------------------------------------------
(* A read waits for the writes before it *)

\* Position i of the queue holds an append the read has to wait for.
IsDue(i) == queue[i].kind = "append" /\ queue[i].record \in due

\* The reader waits for the positions up to ahead, and every due append is among them.
ReadInv ==
  /\ \A r \in due : turn[r] # 0
  /\ reading = "settling" => \A i \in DOMAIN queue : IsDue(i) => i <= ahead
  /\ reading \in {"settled", "querying"} => \A i \in DOMAIN queue : ~IsDue(i)

LEMMA InitRead == Init => ReadInv
  BY DEF Init, ReadInv, IsDue

\* Once an append is made its turn is never 0 again.
LEMMA TurnsStay ==
  ASSUME IInv, [Next]_vars, NEW r \in Records, turn[r] # 0
  PROVE  turn'[r] = turn[r]
<1>1. CASE \E q \in Records, b \in Sizes : AppendRecord(q, b)
  <2>1. PICK q \in Records : turn[q] = 0 /\ turn' = [turn EXCEPT ![q] = appends + 1]
    BY <1>1 DEF AppendRecord
  <2> QED BY <2>1 DEF IInv, TypeOK, HistoryTypeOK
<1>2. CASE ~(\E q \in Records, b \in Sizes : AppendRecord(q, b))
  BY <1>2, OrderStays
<1> QED BY <1>1, <1>2

\* A step that leaves the reader and the queue alone.
LEMMA ReadSame ==
  ASSUME ReadInv, UNCHANGED <<queue, reading, ahead, due>>, \A r \in due : turn'[r] # 0
  PROVE  ReadInv'
  BY DEF ReadInv, IsDue

\* A pushed task is not an append the read waits for.
LEMMA ReadPush ==
  ASSUME IInv, ReadInv, NEW k, NEW r, NEW b, Push(k, r, b), k = "append" => r \notin due,
         UNCHANGED <<reading, ahead, due>>, \A q \in due : turn'[q] # 0
  PROVE  ReadInv'
<1> DEFINE t == [kind |-> k, record |-> r, bytes |-> b]
<1>1. queue' = Append(queue, t) /\ queue \in Seq(Task)
  BY DEF Push, IInv, TypeOK, TaskTypeOK
<1>2. ASSUME NEW i \in DOMAIN queue', IsDue(i)' PROVE i \in DOMAIN queue /\ IsDue(i)
  <2>1. i \in 1 .. (Len(queue) + 1) /\ DOMAIN queue = 1 .. Len(queue) /\ Len(queue) \in Nat
    BY <1>1
  <2>2. CASE i = Len(queue) + 1
    <3>1. queue'[i] = t
      BY <1>1, <2>2
    <3>2. t.kind = k /\ t.record = r
      OBVIOUS
    <3> QED BY <1>2, <3>1, <3>2 DEF IsDue
  <2>3. CASE i # Len(queue) + 1
    <3>1. i \in DOMAIN queue /\ queue'[i] = queue[i]
      BY <1>1, <2>1, <2>3
    <3> QED BY <1>2, <3>1 DEF IsDue
  <2> QED BY <2>2, <2>3
<1> HIDE DEF t
<1> QED BY <1>2 DEF ReadInv

\* A task that ends moves the rest of the queue, and what the reader waits for, up by one.
LEMMA ReadFinish ==
  ASSUME IInv, ReadInv, queue # <<>>, Finish, UNCHANGED <<reading, due>>,
         \A q \in due : turn'[q] # 0
  PROVE  ReadInv'
<1>1. queue' = Tail(queue) /\ queue \in Seq(Task) /\ ahead \in Nat
      /\ ahead' = IF ahead > 0 THEN ahead - 1 ELSE 0
  BY DEF Finish, IInv, TypeOK, TaskTypeOK, ReadTypeOK
<1>2. ASSUME NEW i \in DOMAIN queue', IsDue(i)'
      PROVE  i \in Nat /\ i >= 1 /\ i + 1 \in DOMAIN queue /\ IsDue(i + 1)
  <2>1. i \in Nat /\ i >= 1 /\ i + 1 \in DOMAIN queue /\ queue'[i] = queue[i + 1]
    BY <1>1
  <2> QED BY <1>2, <2>1 DEF IsDue
<1>3. ASSUME reading = "settling", NEW i \in DOMAIN queue', IsDue(i)' PROVE i <= ahead'
  <2>1. i + 1 <= ahead /\ i \in Nat
    BY <1>2, <1>3 DEF ReadInv
  <2> QED BY <1>1, <2>1
<1>4. ASSUME reading \in {"settled", "querying"}, NEW i \in DOMAIN queue', IsDue(i)' PROVE FALSE
  BY <1>2, <1>4 DEF ReadInv
<1> QED BY <1>3, <1>4 DEF ReadInv

\* A task of which the next call begins.
LEMMA ReadAwait ==
  ASSUME ReadInv, NEW s, Await(s), UNCHANGED <<reading, due>>, \A q \in due : turn'[q] # 0
  PROVE  ReadInv'
  BY ReadSame DEF Await

LEMMA ReadSummarized ==
  ASSUME IInv, ReadInv, queue # <<>>, Summarized, UNCHANGED <<reading, due>>,
         \A q \in due : turn'[q] # 0
  PROVE  ReadInv'
  BY ReadFinish, ReadAwait DEF Summarized

\* The steps of the reader itself.
LEMMA ReaderStep == ASSUME IInv, ReadInv, Reads PROVE ReadInv'
<1> USE DEF otherVars, taskVars, orderVars
<1>1. \A r \in Appended : turn[r] # 0
  BY DEF Appended, IInv, OrderOK
<1>2. queue' = queue /\ turn' = turn
  BY DEF Reads, CallRead, Snapshot, Round, CheckCursor, Query, QueryFails, EndRead
<1>3. queue \in Seq(Task)
  BY DEF IInv, TypeOK, TaskTypeOK
<1>4. CASE CallRead
  BY <1>1, <1>2, <1>4 DEF CallRead, ReadInv, IsDue
<1>5. CASE Snapshot
  <2>1. reading' = "settling" /\ ahead' = Len(queue) /\ due' = due
    BY <1>5 DEF Snapshot
  <2>2. \A i \in DOMAIN queue : i <= Len(queue)
    BY <1>3
  <2> QED BY <1>2, <2>1, <2>2 DEF ReadInv, IsDue
<1>6. CASE Round
  <2>1. reading = "settling" /\ ahead = 0 /\ due' = due
    BY <1>6 DEF Round
  <2>2. \A i \in DOMAIN queue : ~IsDue(i) /\ i <= Len(queue)
    BY <1>3, <2>1 DEF ReadInv
  <2> QED BY <1>2, <2>1, <2>2 DEF ReadInv, IsDue
<1>7. CASE CheckCursor
  BY <1>2, <1>7 DEF CheckCursor, ReadInv, IsDue
<1>8. CASE Query
  <2>1. reading' \in {"done", "called"} /\ due' \in {due, Appended}
    BY <1>8 DEF Query
  <2> QED BY <1>1, <1>2, <2>1 DEF ReadInv
<1>9. CASE QueryFails \/ EndRead
  BY <1>9 DEF QueryFails, EndRead, ReadInv
<1> QED BY <1>4, <1>5, <1>6, <1>7, <1>8, <1>9 DEF Reads

\* The tasks of the queue.
LEMMA WorkKeepsRead == ASSUME IInv, ReadInv, Work \/ CallFails, \A q \in due : turn'[q] # 0
                       PROVE ReadInv'
<1>1. due' = due /\ reading' = reading
  BY DEF Work, Dispatch, WriteAppend, WriteUpdate, WriteClear, SaveScope, Reclaim, CallFails, readVars
<1>2. step # "idle" => queue # <<>>
  BY DEF IInv, StepOK
<1>3. CASE Dispatch
  BY <1>3, ReadSame DEF Dispatch, readVars
<1>4. CASE WriteAppend \/ WriteClear
  BY <1>1, <1>4, ReadAwait DEF WriteAppend, WriteClear
<1>5. CASE WriteUpdate
  BY <1>1, <1>2, <1>5, ReadFinish, ReadSummarized DEF WriteUpdate
<1>6. CASE SaveScope
  BY <1>1, <1>2, <1>6, ReadFinish, ReadSummarized DEF SaveScope
<1>7. CASE Reclaim \/ CallFails
  BY <1>1, <1>2, <1>7, ReadFinish DEF Reclaim, CallFails
<1> QED BY <1>3, <1>4, <1>5, <1>6, <1>7 DEF Work

LEMMA StepRead == IInv /\ ReadInv /\ [Next]_vars => ReadInv'
<1> SUFFICES ASSUME IInv, ReadInv, [Next]_vars PROVE ReadInv'
  OBVIOUS
<1> USE DEF readVars, taskVars
<1>1. \A q \in due : turn'[q] # 0
  <2>1. \A q \in due : q \in Records /\ turn[q] # 0
    BY DEF ReadInv, IInv, TypeOK, ReadTypeOK
  <2> QED BY <2>1, TurnsStay
<1>2. CASE Calls
  <2>1. ASSUME NEW r \in Records, NEW b \in Sizes, AppendRecord(r, b) PROVE ReadInv'
    <3>1. r \notin due
      BY <2>1 DEF AppendRecord, ReadInv
    <3> QED BY <1>1, <2>1, <3>1, ReadPush DEF AppendRecord
  <2>2. ASSUME NEW r \in Records, NEW b \in Sizes, UpdateRecord(r, b) PROVE ReadInv'
    BY <1>1, <2>2, ReadPush DEF UpdateRecord
  <2>3. ASSUME ClearRecords PROVE ReadInv'
    BY <1>1, <2>3, ReadPush DEF ClearRecords
  <2> QED BY <1>2, <2>1, <2>2, <2>3 DEF Calls
<1>3. CASE Work \/ CallFails
  BY <1>1, <1>3, WorkKeepsRead
<1>4. CASE Reads
  BY <1>4, ReaderStep
<1>5. CASE Recover \/ Degrade \/ UNCHANGED vars
  BY <1>1, <1>5, ReadSame DEF Recover, Degrade, vars
<1>6. CASE Restart
  BY <1>6 DEF Restart, ReadInv
<1> QED BY <1>2, <1>3, <1>4, <1>5, <1>6 DEF Next

\* Nothing due waits once the reader has settled.
LEMMA ReadInvImplies == ReadInv => ReadSeesEarlierAppends
  BY DEF ReadInv, ReadSeesEarlierAppends, Queued, IsDue

\* No append made before a read was called still waits when its page is read: the tail of the
\* queue it waits for is behind all of them, even when settle gives up after MaxRounds.
THEOREM ReadsAreCurrent == Spec => []ReadSeesEarlierAppends
<1>1. Spec => []ReadInv
  BY InitRead, StepRead, IInvHolds, PTL DEF Spec
<1> QED BY <1>1, ReadInvImplies, PTL

-----------------------------------------------------------------------------
(* The rows a reader may meet *)

\* The number n was given before every number that is waiting or still to be given.
Older(n) == n < nextSequence /\ \A i \in DOMAIN queue : Waits(i) => n < seq[Of(i)]

\* The record r was appended and its append has written its row or has failed.
Written(r) == turn[r] # 0 /\ \A i \in DOMAIN queue : Waits(i) => Of(i) # r

\* The rows of a degraded store are those of this process.
LocalOK ==
  backend = "memory" => \A x \in local :
    /\ x.sequence = seq[x.record] /\ x.sequence # 0
    /\ \A i \in DOMAIN queue : Waits(i) => turn[x.record] < turn[Of(i)]

\* There are finitely many rows, and none is numbered 0.
RowsOK ==
  /\ \A x \in table : x.sequence # 0
  /\ IsFiniteSet(table) /\ IsFiniteSet(local)

\* The record of a waiting append.
LEMMA WaitingRecord ==
  ASSUME IInv, NEW i \in DOMAIN queue, Waits(i)
  PROVE  Of(i) \in Records /\ seq[Of(i)] # 0 /\ turn[Of(i)] # 0 /\ seq[Of(i)] \in Nat
<1>1. queue[i] \in Task
  BY DEF IInv, TypeOK, TaskTypeOK
<1>2. Of(i) \in Records
  BY <1>1 DEF Task, Waits, Of
<1> QED BY <1>2 DEF IInv, QueueOK, OrderOK, TypeOK, StoreTypeOK

\* The steps that neither append, write an append nor begin or end a process.
LEMMA OtherSteps ==
  ASSUME IInv, [Next]_vars, ~(\E r \in Records, b \in Sizes : AppendRecord(r, b)), ~WriteAppend,
         ~Recover, ~Degrade, ~Restart
  PROVE  /\ UNCHANGED <<ready, backend, nextSequence, seq, turn, numbered>>
         /\ Shrinks
         /\ \/ UNCHANGED <<table, local>>
            \/ \E S : /\ StoreRows(S) /\ Covers(Rows, S)
                      /\ IsFiniteSet(Rows) => IsFiniteSet(S)
<1> USE DEF IInv, TypeOK, storeVars, taskVars, dbVars, indexVars, orderVars
<1>1. CASE (\E r \in Records, b \in Sizes : UpdateRecord(r, b)) \/ ClearRecords
  <2>1. UNCHANGED <<ready, backend, nextSequence, seq, turn, numbered, table, local, step>>
    BY <1>1 DEF UpdateRecord, ClearRecords
  <2>2. \E k \in {"update", "clear"} : \E q, c : Push(k, q, c)
    BY <1>1 DEF UpdateRecord, ClearRecords
  <2> QED BY <2>1, <2>2, PushShrinks
<1>2. CASE Dispatch \/ Reads \/ UNCHANGED vars
  <2>1. UNCHANGED <<ready, backend, nextSequence, seq, turn, numbered, table, local, queue>>
        /\ (step' = step \/ (step = "idle" /\ step' = "writing"))
    BY <1>2
    DEF Dispatch, Reads, CallRead, Snapshot, Round, CheckCursor, Query, QueryFails, EndRead,
        otherVars, vars
  <2> QED BY <2>1, SameShrinks
<1>3. CASE CallFails
  BY <1>3, FinishShrinks DEF CallFails, StepOK
<1>4. CASE SaveScope
  <2>1. Finish \/ Await("reclaim")
    BY <1>4 DEF SaveScope, Summarized
  <2> QED BY <1>4, <2>1, FinishShrinks, AwaitShrinks DEF SaveScope, StepOK
<1>5. CASE WriteClear
  <2>1. StoreRows({}) /\ Await("scope")
    BY <1>5 DEF WriteClear
  <2> QED BY <1>5, <2>1, AwaitShrinks, CoversSelf, FS_EmptySet DEF WriteClear
<1>6. CASE Reclaim
  <2> DEFINE c == Cutoff(indexRows)
  <2>1. StoreRows(NewerThan(Rows, c)) /\ Finish
    BY <1>6 DEF Reclaim
  <2> HIDE DEF c
  <2>2. IsFiniteSet(Rows) => IsFiniteSet(NewerThan(Rows, c))
    BY FS_Subset DEF NewerThan
  <2>3. Covers(Rows, NewerThan(Rows, c))
    BY CutCovers
  <2> QED BY <1>6, <2>1, <2>2, <2>3, FinishShrinks DEF Reclaim, StepOK
<1>7. CASE WriteUpdate
  <2>1. /\ queue # <<>> /\ UNCHANGED <<ready, backend, nextSequence, seq, turn, numbered>>
        /\ Finish \/ Await("reclaim")
    BY <1>7 DEF WriteUpdate, StepOK, Summarized
  <2>2. Shrinks
    BY <2>1, FinishShrinks, AwaitShrinks
  <2>3. CASE Found(Current.record) = {}
    BY <1>7, <2>1, <2>2, <2>3 DEF WriteUpdate
  <2>4. CASE Found(Current.record) # {}
    <3> DEFINE x == CHOOSE x \in Found(Current.record) : TRUE
               new == [x EXCEPT !.bytes = Current.bytes]
    <3>1. x \in Rows /\ x \in Row
      BY <2>4 DEF Found, Rows, RowTypeOK
    <3>2. new.sequence = x.sequence /\ new.record = x.record
      BY <3>1 DEF Row
    <3>3. StoreRows(Put(Rows, new))
      BY <1>7, <2>4 DEF WriteUpdate
    <3> HIDE DEF x, new
    <3>4. Covers(Rows, Put(Rows, new))
      BY <3>1, <3>2, PutCovers
    <3>5. IsFiniteSet(Rows) => IsFiniteSet(Put(Rows, new))
      <4>1. {y \in Rows : y.sequence # new.sequence} \subseteq Rows
        OBVIOUS
      <4> QED BY <4>1, FS_Subset, FS_AddElement DEF Put
    <3> QED BY <2>1, <2>2, <3>3, <3>4, <3>5
  <2> QED BY <2>3, <2>4
<1> QED BY <1>1, <1>2, <1>3, <1>4, <1>5, <1>6, <1>7 DEF Next, Calls, Work

\* The write of an append, whatever the backend.
LEMMA AppendRow ==
  ASSUME IInv, WriteAppend
  PROVE  /\ UNCHANGED <<ready, backend, nextSequence, seq, turn>>
         /\ \A i \in DOMAIN queue' :
              Waits(i)' => i # 1 /\ i \in DOMAIN queue /\ Waits(i) /\ Of(i)' = Of(i)
         /\ 1 \in DOMAIN queue /\ Waits(1)
         /\ \E x \in Row : /\ x.record = Of(1) /\ x.sequence = seq[Of(1)]
                           /\ StoreRows(Put(Rows, x))
<1> USE DEF IInv, TypeOK, storeVars, orderVars
<1> DEFINE r == Current.record
           x == [sequence |-> seq[r], record |-> r, bytes |-> Current.bytes]
<1>1. /\ step = "writing" /\ Current.kind = "append" /\ queue # <<>> /\ Await("scope")
      /\ UNCHANGED <<ready, backend, nextSequence, seq, turn>>
      /\ StoreRows(Put(Rows, x))
  BY DEF WriteAppend, StepOK
<1>2. 1 \in DOMAIN queue /\ Waits(1) /\ Of(1) = r
  <2>1. 1 \in DOMAIN queue /\ queue[1] = Current
    BY <1>1 DEF TaskTypeOK, Current
  <2> QED BY <1>1, <2>1 DEF Waits, Of
<1>3. x \in Row /\ x.sequence = seq[r] /\ x.record = r
  BY <1>1, <1>2, WaitingRecord, CurrentType DEF Row
<1>4. queue' = queue
  BY <1>1 DEF Await
<1>5. ASSUME NEW i \in DOMAIN queue', Waits(i)'
      PROVE  i # 1 /\ i \in DOMAIN queue /\ Waits(i) /\ Of(i)' = Of(i)
  BY <1>1, <1>4, <1>5, AwaitShrinks DEF Of
<1> QED BY <1>1, <1>2, <1>3, <1>5

\* A waiting append keeps the numbers and the records it has to stay behind.
LEMMA OlderStays ==
  ASSUME IInv, [Next]_vars, ready, ready', NEW n \in Nat, Older(n)
  PROVE  Older(n)'
<1>1. ~Recover /\ ~Degrade /\ ~Restart
  BY DEF Recover, Degrade, Restart
<1>2. CASE \E r \in Records, b \in Sizes : AppendRecord(r, b)
  <2>1. PICK r \in Records, b \in Sizes : AppendRecord(r, b)
    BY <1>2
  <2>2. /\ turn[r] = 0 /\ Push("append", r, b) /\ step' = step /\ nextSequence' = nextSequence + 1
        /\ seq' = [seq EXCEPT ![r] = nextSequence] /\ nextSequence \in Nat
        /\ seq \in [Records -> Nat]
    BY <2>1 DEF AppendRecord, IInv, TypeOK, StoreTypeOK
  <2>3. ASSUME NEW i \in DOMAIN queue', Waits(i)' PROVE n < seq'[Of(i)']
    <3>1. CASE i \in DOMAIN queue /\ Waits(i) /\ Of(i)' = Of(i)
      <4>1. Of(i) \in Records /\ Of(i) # r
        BY <2>2, <3>1, WaitingRecord
      <4> QED BY <2>2, <3>1, <4>1 DEF Older
    <3>2. CASE Of(i)' = r
      BY <2>2, <3>2 DEF Older
    <3> QED BY <2>2, <2>3, <3>1, <3>2, PushKeeps DEF IInv, TypeOK
  <2> QED BY <2>2, <2>3 DEF Older
<1>3. CASE WriteAppend
  BY <1>3, AppendRow DEF Older
<1>4. CASE ~(\E r \in Records, b \in Sizes : AppendRecord(r, b)) /\ ~WriteAppend
  <2>1. UNCHANGED <<nextSequence, seq>> /\ Shrinks
    BY <1>1, <1>4, OtherSteps
  <2> QED BY <2>1 DEF Older, Shrinks
<1> QED BY <1>2, <1>3, <1>4

LEMMA WrittenStays ==
  ASSUME IInv, [Next]_vars, NEW q \in Records, Written(q)
  PROVE  Written(q)'
<1>0. turn'[q] # 0
  BY TurnsStay DEF Written
<1>1. CASE Recover \/ Degrade
  <2>1. queue' = queue /\ step' = step
    BY <1>1 DEF Recover, Degrade, taskVars
  <2> QED BY <1>0, <2>1 DEF Written, Waits, Of
<1>2. CASE Restart
  <2>1. queue' = <<>>
    BY <1>2 DEF Restart
  <2> QED BY <1>0, <2>1 DEF Written
<1>3. CASE \E r \in Records, b \in Sizes : AppendRecord(r, b)
  <2>1. PICK r \in Records, b \in Sizes : AppendRecord(r, b)
    BY <1>3
  <2>2. turn[r] = 0 /\ Push("append", r, b) /\ step' = step /\ r # q
    BY <2>1 DEF AppendRecord, Written
  <2>3. ASSUME NEW i \in DOMAIN queue', Waits(i)' PROVE Of(i)' # q
    <3>1. (i \in DOMAIN queue /\ Waits(i) /\ Of(i)' = Of(i)) \/ Of(i)' = r
      BY <2>2, <2>3, PushKeeps DEF IInv, TypeOK
    <3> QED BY <2>2, <3>1 DEF Written
  <2> QED BY <1>0, <2>3 DEF Written
<1>4. CASE WriteAppend
  BY <1>0, <1>4, AppendRow DEF Written
<1>5. CASE ~(\E r \in Records, b \in Sizes : AppendRecord(r, b)) /\ ~WriteAppend
           /\ ~Recover /\ ~Degrade /\ ~Restart
  <2>1. Shrinks
    BY <1>5, OtherSteps
  <2> QED BY <1>0, <2>1 DEF Written, Shrinks
<1> QED BY <1>1, <1>2, <1>3, <1>4, <1>5

\* Every row is older than what waits, and a record and its number stand for each other.
RowsStand ==
  /\ \A x \in Rows : x \in Row /\ Older(x.sequence) /\ Written(x.record)
  /\ \A x, y \in Rows : x.sequence = y.sequence <=> x.record = y.record

LEMMA RowFacts == IInv /\ LocalOK /\ ready => RowsStand
<1> SUFFICES ASSUME IInv, LocalOK, ready PROVE RowsStand
  OBVIOUS
<1> USE DEF IInv, TypeOK, RowsStand
<1>1. CASE backend = "database"
  <2>0. Rows = table
    BY <1>1 DEF Rows
  <2>1. ASSUME NEW x \in table
        PROVE  x \in Row /\ Older(x.sequence) /\ Written(x.record)
    <3>1. PICK n \in numbered : n.record = x.record
      BY DEF TableOK, RecordsOf
    <3>2. turn[x.record] # 0
      BY <3>1 DEF TableOK
    <3>3. ASSUME NEW i \in DOMAIN queue, Waits(i) PROVE Of(i) # x.record
      <4>1. turn[x.record] < turn[Of(i)] /\ Of(i) \in Records
        BY <3>1, <3>3, WaitingRecord DEF QueueOK
      <4> QED BY <4>1 DEF HistoryTypeOK
    <3>4. Older(x.sequence)
      BY <1>1 DEF Older, TableOK
    <3> QED BY <3>2, <3>3, <3>4 DEF Written, RowTypeOK
  <2>2. ASSUME NEW x \in table, NEW y \in table, x.record = y.record
        PROVE  x.sequence = y.sequence
    <3>1. x.sequence \in Nat /\ y.sequence \in Nat /\ x.record \in Records
      BY DEF RowTypeOK, Row
    <3>2. ~(x.sequence < y.sequence) /\ ~(y.sequence < x.sequence)
      BY <2>2, <3>1 DEF TableOK, RowsInAppendOrder, HistoryTypeOK
    <3> QED BY <3>1, <3>2
  <2> QED BY <2>0, <2>1, <2>2, RowsUnique
<1>2. CASE backend = "memory"
  <2>0. Rows = local
    BY <1>2 DEF Rows
  <2>1. ASSUME NEW x \in local
        PROVE  /\ x \in Row /\ Older(x.sequence) /\ Written(x.record)
               /\ x.record \in Records /\ x.sequence = seq[x.record] /\ x.sequence # 0
    <3>1. x \in Row /\ x.record \in Records /\ x.sequence = seq[x.record] /\ x.sequence # 0
      BY <1>2 DEF RowTypeOK, Row, LocalOK
    <3>2. turn[x.record] # 0 /\ seq[x.record] < nextSequence
      BY <3>1 DEF OrderOK
    <3>3. ASSUME NEW i \in DOMAIN queue, Waits(i)
          PROVE  Of(i) # x.record /\ seq[x.record] < seq[Of(i)]
      <4>1. turn[x.record] < turn[Of(i)] /\ Of(i) \in Records /\ seq[Of(i)] # 0
        BY <1>2, <3>3, WaitingRecord DEF LocalOK
      <4>2. seq[x.record] < seq[Of(i)]
        BY <3>1, <4>1 DEF OrderOK
      <4> QED BY <3>1, <4>1, <4>2 DEF HistoryTypeOK
    <3> QED BY <3>1, <3>2, <3>3 DEF Older, Written
  <2>2. ASSUME NEW x \in local, NEW y \in local, x.sequence = y.sequence
        PROVE  x.record = y.record
    <3>1. seq[x.record] = seq[y.record] /\ seq[x.record] # 0 /\ seq[x.record] \in Nat
      BY <2>1, <2>2 DEF StoreTypeOK
    <3>2. turn[x.record] \in Nat /\ turn[y.record] \in Nat
      BY <2>1 DEF HistoryTypeOK
    <3>3. ~(turn[x.record] < turn[y.record]) /\ ~(turn[y.record] < turn[x.record])
      BY <2>1, <3>1 DEF OrderOK
    <3>4. turn[x.record] = turn[y.record] /\ turn[x.record] # 0
      BY <2>1, <3>1, <3>2, <3>3 DEF OrderOK
    <3> QED BY <2>1, <3>4 DEF OrderOK
  <2> QED BY <2>0, <2>1, <2>2
<1> QED BY <1>1, <1>2 DEF StoreTypeOK

\* A row is one that was there before, or is newer than all that was known.
Known(y) == \E z \in Rows : z.sequence = y.sequence /\ z.record = y.record
\* A newer row has a number and a record that come after all known ones.
Newer(y) == /\ y.sequence # 0 /\ \A n \in Nat : Older(n) => n < y.sequence
            /\ \A r \in Records : Written(r) => r # y.record

LEMMA RowsGrow ==
  ASSUME IInv, [Next]_vars, ready, ready', NEW y \in Rows'
  PROVE  Known(y) \/ Newer(y)
<1>1. ~Recover /\ ~Degrade /\ ~Restart
  BY DEF Recover, Degrade, Restart
<1>2. CASE \E r \in Records, b \in Sizes : AppendRecord(r, b)
  <2>1. Rows' = Rows
    BY <1>2 DEF AppendRecord, Rows, dbVars
  <2> QED BY <2>1 DEF Known
<1>3. CASE WriteAppend
  <2>1. PICK x \in Row : /\ x.record = Of(1) /\ x.sequence = seq[Of(1)]
                         /\ StoreRows(Put(Rows, x)) /\ backend' = backend
    BY <1>3, AppendRow
  <2>2. 1 \in DOMAIN queue /\ Waits(1) /\ seq[Of(1)] # 0
    BY <1>3, AppendRow, WaitingRecord
  <2>3. y \in Rows \/ y = x
    BY <2>1, StoreRowsRows DEF Put
  <2>4. Newer(x)
    BY <2>1, <2>2 DEF Newer, Older, Written
  <2> QED BY <2>3, <2>4 DEF Known
<1>4. CASE ~(\E r \in Records, b \in Sizes : AppendRecord(r, b)) /\ ~WriteAppend
  <2>1. /\ backend' = backend
        /\ UNCHANGED <<table, local>> \/ \E S : StoreRows(S) /\ Covers(Rows, S)
    BY <1>1, <1>4, OtherSteps
  <2>2. Covers(Rows, Rows')
    BY <2>1, StoreRowsRows, CoversSelf DEF Rows
  <2> QED BY <2>2 DEF Covers, Known
<1> QED BY <1>2, <1>3, <1>4

\* Rows keep the number their append got, are never numbered 0, and are finitely many.
LEMMA StepLocal == ASSUME IInv, LocalOK, [Next]_vars PROVE LocalOK'
<1> USE DEF IInv, TypeOK
<1> SUFFICES ASSUME backend' = "memory", NEW x \in local'
             PROVE  /\ x.sequence = seq'[x.record] /\ x.sequence # 0
                    /\ \A i \in DOMAIN queue' : Waits(i)' => turn'[x.record] < turn'[Of(i)']
  BY DEF LocalOK
<1>1. CASE Recover \/ Degrade \/ Restart
  <2>1. CASE Degrade
    BY <2>1 DEF Degrade, StepOK
  <2> QED BY <1>1, <2>1 DEF Recover, Restart, StepOK
<1>2. CASE ~Recover /\ ~Degrade /\ ~Restart
  <2>1. backend = "memory" => \A z \in local : z.record \in Records /\ turn[z.record] # 0
    BY DEF LocalOK, OrderOK, RowTypeOK, Row
  <2>2. CASE \E r \in Records, b \in Sizes : AppendRecord(r, b)
    <3>1. PICK r \in Records, b \in Sizes : AppendRecord(r, b)
      BY <2>2
    <3>2. /\ turn[r] = 0 /\ Push("append", r, b) /\ step' = step /\ local' = local /\ backend' = backend
          /\ seq' = [seq EXCEPT ![r] = nextSequence] /\ turn' = [turn EXCEPT ![r] = appends + 1]
      BY <3>1 DEF AppendRecord
    <3>3. /\ x \in local /\ x.record \in Records /\ x.record # r /\ backend = "memory"
          /\ seq'[x.record] = seq[x.record] /\ turn'[x.record] = turn[x.record]
      BY <2>1, <3>2 DEF StoreTypeOK, HistoryTypeOK
    <3>4. ASSUME NEW i \in DOMAIN queue', Waits(i)' PROVE turn'[x.record] < turn'[Of(i)']
      <4>1. CASE i \in DOMAIN queue /\ Waits(i) /\ Of(i)' = Of(i)
        <5>1. Of(i) \in Records /\ Of(i) # r
          BY <3>2, <4>1, WaitingRecord
        <5> QED BY <3>2, <3>3, <4>1, <5>1 DEF LocalOK, HistoryTypeOK
      <4>2. CASE Of(i)' = r
        BY <3>2, <3>3, <4>2 DEF OrderOK, HistoryTypeOK
      <4> QED BY <3>2, <3>4, <4>1, <4>2, PushKeeps
    <3> QED BY <3>3, <3>4 DEF LocalOK
  <2>3. CASE WriteAppend
    <3>1. PICK w \in Row : w.record = Of(1) /\ w.sequence = seq[Of(1)] /\ StoreRows(Put(Rows, w))
      BY <2>3, AppendRow
    <3>2. /\ UNCHANGED <<seq, turn, backend>> /\ 1 \in DOMAIN queue /\ Waits(1) /\ seq[Of(1)] # 0
          /\ \A i \in DOMAIN queue' : Waits(i)' => i # 1 /\ i \in DOMAIN queue /\ Waits(i) /\ Of(i)' = Of(i)
      BY <2>3, AppendRow, WaitingRecord
    <3>3. x = w \/ x \in local
      BY <3>1, <3>2 DEF StoreRows, Rows, Put
    <3>4. \A i \in DOMAIN queue' : Waits(i)' => turn[Of(1)] < turn[Of(i)]
      BY <3>2 DEF QueueOK, TaskTypeOK
    <3> QED BY <3>1, <3>2, <3>3, <3>4 DEF LocalOK
  <2>4. CASE ~(\E r \in Records, b \in Sizes : AppendRecord(r, b)) /\ ~WriteAppend
    <3>1. /\ UNCHANGED <<backend, seq, turn>> /\ Shrinks
          /\ UNCHANGED <<table, local>> \/ \E S : StoreRows(S) /\ Covers(Rows, S)
      BY <1>2, <2>4, OtherSteps
    <3>2. PICK z \in local : z.sequence = x.sequence /\ z.record = x.record
      BY <3>1 DEF StoreRows, Rows, Covers
    <3> QED BY <3>1, <3>2 DEF LocalOK, Shrinks
  <2> QED BY <2>2, <2>3, <2>4
<1> QED BY <1>1, <1>2

\* The table stays finite and numbered from 1.
LEMMA StepRows == ASSUME IInv, RowsOK, [Next]_vars PROVE RowsOK'
<1> USE DEF IInv, TypeOK
<1>1. CASE Recover \/ Degrade \/ (\E r \in Records, b \in Sizes : AppendRecord(r, b))
  BY <1>1 DEF Recover, Degrade, AppendRecord, RowsOK, dbVars
<1>2. CASE Restart
  BY <1>2, FS_EmptySet DEF Restart, RowsOK, dbVars
<1>3. CASE WriteAppend
  <2>1. PICK w \in Row : w.record = Of(1) /\ w.sequence = seq[Of(1)] /\ StoreRows(Put(Rows, w))
    BY <1>3, AppendRow
  <2>2. w.sequence # 0
    BY <1>3, <2>1, AppendRow, WaitingRecord
  <2>3. IsFiniteSet(Put(Rows, w))
    <3>1. {y \in Rows : y.sequence # w.sequence} \subseteq Rows /\ IsFiniteSet(Rows)
      BY DEF RowsOK, Rows
    <3> QED BY <3>1, FS_Subset, FS_AddElement DEF Put
  <2> QED BY <2>1, <2>2, <2>3 DEF StoreRows, RowsOK, Rows, Put
<1>4. CASE ~(\E r \in Records, b \in Sizes : AppendRecord(r, b)) /\ ~WriteAppend
           /\ ~Recover /\ ~Degrade /\ ~Restart
  <2>1. CASE UNCHANGED <<table, local>>
    BY <2>1 DEF RowsOK
  <2>2. ASSUME NEW S, StoreRows(S), Covers(Rows, S), IsFiniteSet(Rows) => IsFiniteSet(S)
        PROVE  RowsOK'
    <3>1. IsFiniteSet(S)
      BY <2>2 DEF RowsOK, Rows
    <3> QED BY <2>2, <3>1 DEF StoreRows, RowsOK, Rows, Covers
  <2> QED BY <1>4, <2>1, <2>2, OtherSteps
<1> QED BY <1>1, <1>2, <1>3, <1>4

-----------------------------------------------------------------------------
(* The summary a cursor is checked against *)

\* What the summary counts is older than all that waits, and it may only lack the newest rows.
SummaryOK ==
  /\ ~ready => summary = {}
  /\ ready => \A y \in summary : Older(y.sequence)
  /\ ready => \A x \in Rows : \/ \E y \in summary : y.sequence = x.sequence
                              \/ \A y \in summary : y.sequence < x.sequence

\* A summary that was just taken from the index.
LEMMA FreshSummary ==
  ASSUME IInv', LocalOK', ready', summary' = indexRows'
  PROVE  SummaryOK'
<1>1. indexRows' = Indexed(Rows')
  BY DEF IInv, IndexMirrorsRows
<1>2. \A y \in summary' : \E x \in Rows' : y.sequence = x.sequence
  BY <1>1 DEF Indexed, Entry
<1>3. \A x \in Rows' : \E y \in summary' : y.sequence = x.sequence
  <2>1. \A x \in Rows' : Entry(x) \in summary' /\ Entry(x).sequence = x.sequence
    BY <1>1 DEF Indexed, Entry
  <2> QED BY <2>1
<1>4. RowsStand'
  BY RowFacts, PTL
<1>5. \A y \in summary' : Older(y.sequence)'
  BY <1>2, <1>4 DEF RowsStand, Older
<1> QED BY <1>3, <1>5 DEF SummaryOK

\* Every step leaves the summary or takes it from the index.
LEMMA SummarySteps ==
  ASSUME IInv, [Next]_vars, ~Restart
  PROVE  \/ summary' = summary /\ (ready' => ready \/ Degrade)
         \/ summary' = indexRows' /\ ready'
<1> USE DEF storeVars, indexVars
<1>1. CASE Calls \/ Dispatch \/ WriteAppend \/ WriteClear \/ CallFails \/ Reads \/ Degrade
           \/ UNCHANGED vars
  BY <1>1
  DEF Calls, AppendRecord, UpdateRecord, ClearRecords, Dispatch, WriteAppend, WriteClear, CallFails,
      Reads, CallRead, Snapshot, Round, CheckCursor, Query, QueryFails, EndRead, otherVars, Degrade,
      vars
<1>2. CASE WriteUpdate \/ SaveScope \/ Reclaim
  <2>1. ready' /\ ready
    BY <1>2 DEF WriteUpdate, SaveScope, Reclaim, IInv, StepOK
  <2> QED BY <1>2, <2>1 DEF WriteUpdate, SaveScope, Reclaim, Summarized
<1>3. CASE Recover
  BY <1>3 DEF Recover
<1> QED BY <1>1, <1>2, <1>3 DEF Next, Work

LEMMA StepSummary == ASSUME IInv, LocalOK, SummaryOK, [Next]_vars PROVE SummaryOK'
<1>1. IInv' /\ LocalOK'
  BY StepIInv, StepLocal
<1>2. CASE Restart
  BY <1>2 DEF Restart, SummaryOK
<1>3. CASE Degrade
  <2>1. summary' = {}
    BY <1>3 DEF Degrade, SummaryOK
  <2> QED BY <2>1 DEF SummaryOK
<1>4. CASE ~Restart /\ summary' = indexRows' /\ ready'
  BY <1>1, <1>4, FreshSummary
<1>5. CASE ~Restart /\ ~Degrade /\ summary' = summary /\ (ready' => ready)
  <2>1. CASE ~ready
    BY <1>5, <2>1 DEF SummaryOK
  <2>2. CASE ready
    <3>1. ready'
      BY <1>5, <2>2
      DEF Next, vars, storeVars, Calls, AppendRecord, UpdateRecord, ClearRecords, Work, Dispatch,
          WriteAppend, WriteUpdate, WriteClear, SaveScope, Reclaim, CallFails, Reads, CallRead,
          Snapshot, Round, CheckCursor, Query, QueryFails, EndRead, otherVars, Recover
    <3>2. \A y \in summary : y.sequence \in Nat /\ Older(y.sequence)
      BY <2>2 DEF SummaryOK, IInv, TypeOK, RowTypeOK, IndexRow
    <3>3. \A n \in Nat : Older(n) => Older(n)'
      BY <2>2, <3>1, OlderStays
    <3>4. \A y \in summary' : Older(y.sequence)'
      BY <1>5, <3>2, <3>3 DEF Older
    <3>5. ASSUME NEW x \in Rows'
          PROVE  \/ \E y \in summary : y.sequence = x.sequence
                 \/ \A y \in summary : y.sequence < x.sequence
      <4>1. CASE Known(x)
        BY <2>2, <4>1 DEF Known, SummaryOK
      <4>2. CASE Newer(x)
        BY <3>2, <4>2 DEF Newer
      <4> QED BY <2>2, <3>1, <4>1, <4>2, RowsGrow
    <3> QED BY <1>5, <3>1, <3>4, <3>5 DEF SummaryOK
  <2> QED BY <2>1, <2>2
<1> QED BY <1>2, <1>3, <1>4, <1>5, SummarySteps

-----------------------------------------------------------------------------
(* A walk *)

\* Whatever the reader was given or counts on has been written, no row beyond the cursor has
\* been given before, and none it counts on lies behind the cursor without having been given.
WalkOK ==
  /\ ~ready => reading \in {"idle", "called"} /\ walk.cursor = 0 /\ walk.seen = {} /\ walk.base = {}
  /\ ~walk.twice
  /\ walk.cursor # 0 => Older(walk.cursor)
  /\ \A r \in walk.seen \cup walk.base : Written(r)
  /\ \A x \in Beyond(walk) : x.record \notin walk.seen
  /\ \A x \in Rows : x.record \in walk.base => x.record \in walk.seen \/ x \in Beyond(walk)
  /\ reading = "done" => \A x \in Rows : x.record \in walk.base => x.record \in walk.seen
  /\ reading = "expired" => walk.cursor # 0 /\ \A x \in Rows : x.sequence # walk.cursor

\* Rows that are not on a page lie beyond every row of it.
LEMMA PageCuts ==
  ASSUME NEW S \in SUBSET Row, IsFiniteSet(S), NEW desc \in BOOLEAN,
         NEW x \in Page(S, desc), NEW y \in S, y \notin Page(S, desc)
  PROVE  IF desc THEN y.sequence < x.sequence ELSE x.sequence < y.sequence
<1> DEFINE Before(z) == {w \in S : IF desc THEN w.sequence > z.sequence ELSE w.sequence < z.sequence}
<1>1. x \in S /\ x.sequence \in Nat /\ y.sequence \in Nat /\ \A z \in S : z.sequence \in Nat
  BY DEF Page, Row
<1>2. Cardinality(Before(x)) < PageSize /\ ~(Cardinality(Before(y)) < PageSize)
  BY DEF Page
<1>3. IsFiniteSet(Before(x)) /\ IsFiniteSet(Before(y))
  BY FS_Subset
<1>4. ~(Before(y) \subseteq Before(x))
  <2> SUFFICES ASSUME Before(y) \subseteq Before(x) PROVE FALSE
    OBVIOUS
  <2> HIDE DEF Before
  <2>1. Cardinality(Before(y)) <= Cardinality(Before(x))
    BY <1>3, FS_Subset
  <2>2. Cardinality(Before(y)) \in Nat /\ Cardinality(Before(x)) \in Nat
    BY <1>3, FS_CardinalityType
  <2> QED BY <1>2, <2>1, <2>2, RecordsAssumption
<1> QED BY <1>1, <1>4

\* The cursor of a page is the number of its last row.
LEMMA CursorEnds ==
  ASSUME NEW S \in SUBSET Row, Bounded(S), S # {}, NEW desc \in BOOLEAN, NEW c,
         c = IF desc THEN Min({x.sequence : x \in S}) ELSE Max({x.sequence : x \in S})
  PROVE  /\ c \in Nat /\ \E x \in S : x.sequence = c
         /\ \A x \in S : IF desc THEN c <= x.sequence ELSE x.sequence <= c
<1> DEFINE N == {x.sequence : x \in S}
<1>1. PICK n \in Nat : \A x \in S : x.sequence < n
  BY DEF Bounded
<1>2. N \in SUBSET Nat /\ N # {} /\ \A m \in N : m <= n
  BY <1>1 DEF Row
<1>3. Min(N) \in N /\ Max(N) \in N /\ \A m \in N : Min(N) <= m /\ m <= Max(N)
  <2> HIDE DEF N
  <2> QED BY <1>2, MinOf, MaxOf
<1> QED BY <1>2, <1>3

\* A walk that has not read a page yet.
LEMMA WalkBegins ==
  ASSUME reading' \in {"idle", "called"}, walk'.cursor = 0, walk'.seen = {}, walk'.base = {},
         ~walk'.twice
  PROVE  WalkOK'
  BY DEF WalkOK

\* Steps of the store: what is new lies beyond the cursor and is not counted on.
LEMMA WalkKept ==
  ASSUME IInv, WalkOK, [Next]_vars, ready, ready', UNCHANGED <<walk, reading>>
  PROVE  WalkOK'
<1>1. /\ walk.cursor \in Nat /\ walk.seen \subseteq Records /\ walk.base \subseteq Records
      /\ walk.desc \in BOOLEAN
  BY DEF IInv, TypeOK, ReadTypeOK
<1>2. walk.cursor # 0 => Older(walk.cursor)'
  BY <1>1, OlderStays DEF WalkOK
<1>3. \A r \in walk.seen \cup walk.base : Written(r)'
  BY <1>1, WrittenStays DEF WalkOK
<1>4. ASSUME NEW y \in Rows', NEW z \in Rows, z.sequence = y.sequence, z.record = y.record
      PROVE  /\ y \in Beyond(walk)' <=> z \in Beyond(walk)
  BY <1>4 DEF Beyond
<1>5. ASSUME NEW y \in Rows', Newer(y)
      PROVE  /\ y.record \notin walk.seen \cup walk.base
             /\ walk.cursor # 0 => walk.cursor < y.sequence
  BY <1>1, <1>5 DEF Newer, WalkOK
<1>6. \A y \in Rows' : Known(y) \/ Newer(y)
  BY RowsGrow
<1>7. \A y \in Beyond(walk)' : y.record \notin walk.seen
  <2> SUFFICES ASSUME NEW y \in Rows', y \in Beyond(walk)' PROVE y.record \notin walk.seen
    BY DEF Beyond
  <2> QED BY <1>4, <1>5, <1>6 DEF WalkOK, Known
<1>8. ASSUME NEW y \in Rows', y.record \in walk.base
      PROVE  /\ y.record \in walk.seen \/ y \in Beyond(walk)'
             /\ reading = "done" => y.record \in walk.seen
  BY <1>4, <1>5, <1>6, <1>8 DEF WalkOK, Known
<1>9. ASSUME reading = "expired", NEW y \in Rows' PROVE y.sequence # walk.cursor
  <2>1. walk.cursor # 0 /\ \A x \in Rows : x.sequence # walk.cursor
    BY <1>9 DEF WalkOK
  <2>2. CASE Known(y)
    BY <2>1, <2>2 DEF Known
  <2>3. CASE Newer(y)
    BY <1>1, <1>2, <1>5, <2>1, <2>3
  <2> QED BY <1>6, <2>2, <2>3
<1> QED BY <1>2, <1>3, <1>7, <1>8, <1>9 DEF WalkOK, Older, Written, Beyond

\* A page: its rows are new to the reader, and the rest lies beyond its cursor.
LEMMA WalkQuery ==
  ASSUME IInv, LocalOK, RowsOK, WalkOK, Query
  PROVE  WalkOK'
<1> DEFINE rest == Beyond(walk)
           page == Page(rest, walk.desc)
           last == {x.sequence : x \in page}
           c    == IF page = {} THEN walk.cursor ELSE IF walk.desc THEN Min(last) ELSE Max(last)
<1> USE DEF otherVars, storeVars, taskVars, dbVars, orderVars, IInv, TypeOK
<1>1. /\ UNCHANGED <<ready, backend, nextSequence, seq, turn, queue, step, table, local>>
      /\ ready
  BY DEF Query, WalkOK
<1>2. RowsStand /\ Rows \subseteq Row /\ IsFiniteSet(Rows) /\ Bounded(Rows)
  BY <1>1, RowFacts DEF RowsStand, RowsOK, Rows, TableOK
<1>3. walk.desc \in BOOLEAN /\ walk.cursor \in Nat /\ walk.seen \in SUBSET Records
  BY DEF ReadTypeOK
<1>4. /\ walk' = [walk EXCEPT
                    !.cursor = c,
                    !.seen = @ \cup RecordsOf(page),
                    !.twice = @ \/ walk.seen \cap RecordsOf(page) # {},
                    !.base = IF walk.cursor = 0 THEN RecordsOf(Rows) ELSE @]
      /\ page = rest => reading' = "done"
      /\ page # rest => reading' = "called"
  BY DEF Query
<1>5. /\ walk'.cursor = c /\ walk'.desc = walk.desc
      /\ walk'.seen = walk.seen \cup RecordsOf(page)
      /\ walk'.twice <=> (walk.twice \/ walk.seen \cap RecordsOf(page) # {})
      /\ walk'.base = IF walk.cursor = 0 THEN RecordsOf(Rows) ELSE walk.base
  BY <1>4 DEF ReadTypeOK
<1>6. page \subseteq rest /\ rest \subseteq Rows /\ Bounded(page)
  BY <1>2 DEF Page, Beyond, Bounded
<1>7. page # {} => /\ c \in Nat /\ \E x \in page : x.sequence = c
                   /\ \A x \in page : IF walk.desc THEN c <= x.sequence ELSE x.sequence <= c
  <2> HIDE DEF page
  <2> QED BY <1>2, <1>3, <1>6, CursorEnds
<1>8. page # {} => c # 0
  BY <1>2, <1>6, <1>7 DEF RowsOK, LocalOK, Rows, StoreTypeOK
<1>9. \A x \in page, y \in rest \ page :
        IF walk.desc THEN y.sequence < x.sequence ELSE x.sequence < y.sequence
  <2>1. rest \in SUBSET Row /\ IsFiniteSet(rest)
    BY <1>2, <1>6, FS_Subset
  <2> HIDE DEF rest
  <2> QED BY <1>3, <2>1, PageCuts
<1> HIDE DEF c, page, last
<1>10. Rows' = Rows
  BY <1>1 DEF Rows
<1>11. \A x \in Rows : x \in Beyond(walk)' <=>
         (c # 0 => IF walk.desc THEN x.sequence < c ELSE x.sequence > c)
  BY <1>5, <1>10 DEF Beyond
<1>12. Beyond(walk)' \subseteq rest \ page
  <2> SUFFICES ASSUME NEW x \in Rows, x \in Beyond(walk)' PROVE x \in rest /\ x \notin page
    BY <1>10 DEF Beyond
  <2>1. CASE page = {}
    BY <1>11, <2>1 DEF Beyond, c
  <2>2. CASE page # {}
    <3>1. PICK z \in page : z.sequence = c
      BY <1>7, <2>2
    <3>2. x.sequence \in Nat /\ c \in Nat /\ c # 0
      BY <1>2, <1>7, <1>8, <2>2 DEF Row
    <3>3. walk.cursor # 0 => IF walk.desc THEN c < walk.cursor ELSE c > walk.cursor
      BY <1>6, <3>1 DEF Beyond
    <3>4. x \in rest
      BY <1>3, <1>11, <3>2, <3>3 DEF Beyond
    <3>5. x \notin page
      BY <1>3, <1>7, <1>11, <2>2, <3>2
    <3> QED BY <3>4, <3>5
  <2> QED BY <2>1, <2>2
<1>13. rest \ page \subseteq Beyond(walk)'
  <2> SUFFICES ASSUME NEW x \in rest \ page PROVE x \in Beyond(walk)'
    OBVIOUS
  <2>1. CASE page = {}
    BY <1>6, <1>11, <2>1 DEF Beyond, c
  <2>2. CASE page # {}
    <3>1. PICK z \in page : z.sequence = c
      BY <1>7, <2>2
    <3>2. IF walk.desc THEN x.sequence < z.sequence ELSE z.sequence < x.sequence
      BY <1>9, <3>1
    <3> QED BY <1>3, <1>6, <1>11, <3>1, <3>2
  <2> QED BY <2>1, <2>2
<1>14. walk.seen \cap RecordsOf(page) = {}
  BY <1>6 DEF WalkOK, RecordsOf
<1>15. \A x \in Beyond(walk)' : x.record \notin walk'.seen
  <2> SUFFICES ASSUME NEW x \in rest \ page, x \in Beyond(walk)', NEW z \in page, z.record = x.record
               PROVE  FALSE
    BY <1>5, <1>12 DEF WalkOK, RecordsOf
  <2>1. x.sequence = z.sequence
    BY <1>2, <1>6 DEF RowsStand
  <2>2. x.sequence \in Nat
    BY <1>2, <1>6 DEF Row
  <2> QED BY <1>3, <1>9, <2>1, <2>2
<1>16. ASSUME NEW x \in Rows, x.record \in walk'.base
       PROVE  x.record \in walk.seen \/ x \in rest
  BY <1>5, <1>16 DEF WalkOK, Beyond
<1>17. \A x \in Rows : x.record \in walk'.base =>
         x.record \in walk'.seen \/ (x \in rest /\ x \notin page)
  BY <1>5, <1>16 DEF RecordsOf
<1>18. \A r \in walk'.seen \cup walk'.base : Written(r)'
  <2>1. \A r \in RecordsOf(Rows) : Written(r)
    BY <1>2 DEF RowsStand, RecordsOf
  <2>2. RecordsOf(page) \subseteq RecordsOf(Rows)
    BY <1>6 DEF RecordsOf
  <2>3. \A r \in walk'.seen \cup walk'.base : Written(r)
    BY <1>5, <2>1, <2>2 DEF WalkOK
  <2> QED BY <1>1, <2>3 DEF Written, Waits, Of
<1>19. c # 0 => Older(c)
  <2>1. CASE page = {}
    BY <2>1 DEF WalkOK, c
  <2>2. CASE page # {}
    BY <1>2, <1>6, <1>7, <2>2 DEF RowsStand
  <2> QED BY <2>1, <2>2
<1>20. walk'.cursor # 0 => Older(walk.cursor)'
  BY <1>1, <1>5, <1>19 DEF Older, Waits, Of
<1>21. reading' = "done" => \A x \in Rows : x.record \in walk'.base => x.record \in walk'.seen
  BY <1>4, <1>17
<1>22. ~walk'.twice
  BY <1>5, <1>14 DEF WalkOK
<1>23. reading' \in {"done", "called"} /\ ready'
  BY <1>1, <1>4
<1> QED BY <1>10, <1>13, <1>15, <1>17, <1>18, <1>20, <1>21, <1>22, <1>23 DEF WalkOK

\* The other steps of the reader.
LEMMA WalkRead ==
  ASSUME IInv, LocalOK, RowsOK, SummaryOK, WalkOK, Reads
  PROVE  WalkOK'
<1> USE DEF otherVars, storeVars, taskVars, dbVars, orderVars
<1>1. CASE CallRead
  <2>1. walk'.cursor = 0 /\ walk'.seen = {} /\ walk'.base = {} /\ ~walk'.twice
    BY <1>1 DEF CallRead, NoWalk
  <2> QED BY <1>1, <2>1, WalkBegins DEF CallRead
<1>2. CASE QueryFails \/ EndRead
  BY <1>2, WalkBegins DEF QueryFails, EndRead, NoWalk
<1>3. CASE Query
  BY <1>3, WalkQuery
<1>4. CASE Snapshot \/ Round \/ CheckCursor
  <2>1. UNCHANGED <<ready, backend, nextSequence, seq, turn, queue, step, table, local, walk>> /\ ready
    BY <1>4 DEF Snapshot, Round, CheckCursor, WalkOK
  <2>2. reading' \in {"settling", "settled", "querying", "expired"}
    BY <1>4 DEF Snapshot, Round, CheckCursor
  <2>3. ASSUME reading' = "expired", NEW x \in Rows
        PROVE  x.sequence # walk.cursor
    <3>1. Expired(walk.cursor, summary)
      BY <1>4, <2>3 DEF Snapshot, Round, CheckCursor
    <3>2. /\ walk.cursor # 0 /\ summary # {} /\ walk.cursor \in Nat
          /\ walk.cursor < Min({y.sequence : y \in summary})
      BY <3>1 DEF Expired, IInv, TypeOK, ReadTypeOK
    <3> DEFINE N == {y.sequence : y \in summary}
    <3>3. N \in SUBSET Nat /\ N # {}
      BY <3>2 DEF IInv, TypeOK, RowTypeOK, IndexRow
    <3>4. \A m \in N : walk.cursor < m
      <4>1. walk.cursor < Min(N)
        BY <3>2
      <4> HIDE DEF N
      <4>2. Min(N) \in Nat /\ \A m \in N : Min(N) <= m /\ m \in Nat
        BY <3>3, MinOf
      <4> QED BY <3>2, <4>1, <4>2
    <3>5. \A y \in summary : y.sequence \in Nat /\ walk.cursor < y.sequence
      BY <3>3, <3>4
    <3> QED BY <2>1, <3>2, <3>5 DEF SummaryOK
  <2>4. Rows' = Rows /\ Beyond(walk)' = Beyond(walk)
    BY <2>1 DEF Beyond, Rows
  <2>5. \A i : (Waits(i)' <=> Waits(i)) /\ Of(i)' = Of(i)
    BY <2>1 DEF Waits, Of
  <2>6. (Older(walk.cursor) => Older(walk.cursor)') /\ \A r : Written(r) => Written(r)'
    BY <2>1, <2>5 DEF Older, Written
  <2>7. walk.cursor # 0 => Older(walk.cursor)'
    BY <2>6 DEF WalkOK
  <2>8. /\ \A r \in walk'.seen \cup walk'.base : Written(r)'
        /\ \A x \in Beyond(walk)' : x.record \notin walk'.seen
        /\ \A x \in Rows' : x.record \in walk'.base =>
             x.record \in walk'.seen \/ x \in Beyond(walk)'
        /\ ~walk'.twice
    BY <2>1, <2>4, <2>6 DEF WalkOK
  <2>9. reading' = "expired" => walk'.cursor # 0 /\ \A x \in Rows' : x.sequence # walk'.cursor
    <3>1. reading' = "expired" => walk.cursor # 0
      BY <1>4 DEF Snapshot, Round, CheckCursor, Expired
    <3> QED BY <2>1, <2>3, <2>4, <3>1
  <2> QED BY <2>1, <2>2, <2>7, <2>8, <2>9 DEF WalkOK
<1> QED BY <1>1, <1>2, <1>3, <1>4 DEF Reads

\* Every step of the store and of the reader keeps what holds of a walk.
LEMMA StepWalk ==
  ASSUME IInv, LocalOK, RowsOK, SummaryOK, WalkOK, [Next]_vars
  PROVE  WalkOK'
<1>1. CASE Reads
  BY <1>1, WalkRead
<1>2. CASE Restart
  BY <1>2, WalkBegins DEF Restart, NoWalk
<1>3. CASE ~Reads /\ ~Restart
  <2>1. UNCHANGED <<walk, reading>> /\ (ready => ready')
    BY <1>3
    DEF Next, vars, storeVars, readVars, Calls, AppendRecord, UpdateRecord, ClearRecords, Work,
        Dispatch, WriteAppend, WriteUpdate, WriteClear, SaveScope, Reclaim, CallFails, Recover, Degrade
  <2>2. CASE ready
    BY <2>1, <2>2, WalkKept
  <2>3. CASE ~ready
    BY <2>1, <2>3, WalkBegins DEF WalkOK
  <2> QED BY <2>2, <2>3
<1> QED BY <1>1, <1>2, <1>3

\* No row, no summary and no reader in the beginning.
LEMMA InitWalk == Init => LocalOK /\ RowsOK /\ SummaryOK /\ WalkOK
  BY FS_EmptySet DEF Init, LocalOK, RowsOK, SummaryOK, WalkOK, NoWalk, Beyond, Rows

\* A reader that pages through the records while they are appended, updated, reclaimed and
\* cleared gets current pages, each record once, every record that stays, and is told that its
\* cursor has expired only when the row of the cursor is gone.
THEOREM ReadsHold == Spec => []ReadsAreSound
<1>1. IInv /\ LocalOK /\ RowsOK /\ SummaryOK /\ WalkOK /\ [Next]_vars
      => LocalOK' /\ RowsOK' /\ SummaryOK' /\ WalkOK'
  BY StepLocal, StepRows, StepSummary, StepWalk
<1>2. WalkOK => WalkIsComplete /\ ExpiredCursorIsGone
  <2> SUFFICES ASSUME WalkOK PROVE WalkIsComplete /\ ExpiredCursorIsGone
    OBVIOUS
  <2>1. reading = "done" => walk.base \cap RecordsOf(Rows) \subseteq walk.seen
    BY DEF WalkOK, RecordsOf
  <2> QED BY <2>1 DEF WalkOK, WalkIsComplete, ExpiredCursorIsGone
<1> QED BY <1>1, <1>2, InitWalk, IInvHolds, ReadsAreCurrent, PTL DEF Spec, ReadsAreSound

-----------------------------------------------------------------------------
(* Appends settle *)

\* The appends of this process that have settled without a row.
Lost == Appended \ (Queued \cup RecordsOf(numbered))

\* No more appends are lost than calls have failed.
LossOK == backend = "database" => IsFiniteSet(Lost) /\ Cardinality(Lost) <= faults

\* The row of the head is stored when its next call begins, and only rows that do not fit are
\* reclaimed.
HeadOK ==
  /\ step \in {"scope", "reclaim"} /\ backend = "database" /\ Current.kind = "append" =>
       Current.record \in RecordsOf(numbered)
  /\ step = "reclaim" => ~Fits(indexRows)

\* The appends that have not settled, after each change of the queue.
LEMMA FinishQueued ==
  ASSUME TaskTypeOK, queue # <<>>, Finish, NEW r \in Queued, r \notin Queued'
  PROVE  Current.kind = "append" /\ r = Current.record
<1>1. queue \in Seq(Task) /\ queue' = Tail(queue) /\ Current = queue[1]
  BY DEF TaskTypeOK, Finish, Current
<1>2. PICK i \in DOMAIN queue : queue[i].kind = "append" /\ queue[i].record = r
  BY DEF Queued
<1>3. CASE i = 1
  BY <1>1, <1>2, <1>3
<1>4. CASE i # 1
  <2>1. i - 1 \in DOMAIN queue' /\ queue'[i - 1] = queue[i]
    BY <1>1, <1>2, <1>4
  <2> QED BY <1>2, <2>1 DEF Queued
<1> QED BY <1>3, <1>4

LEMMA PushQueued ==
  ASSUME TaskTypeOK, NEW k, NEW r, NEW b, Push(k, r, b)
  PROVE  /\ Queued \subseteq Queued' /\ (k = "append" => r \in Queued')
         /\ queue # <<>> => Current' = Current
<1> DEFINE t == [kind |-> k, record |-> r, bytes |-> b]
<1>1. queue' = Append(queue, t) /\ queue \in Seq(Task)
  BY DEF Push, TaskTypeOK
<1>2. /\ \A i \in DOMAIN queue : i \in DOMAIN queue' /\ queue'[i] = queue[i]
      /\ Len(queue) + 1 \in DOMAIN queue' /\ queue'[Len(queue) + 1] = t
  BY <1>1
<1>3. t.kind = k /\ t.record = r
  OBVIOUS
<1>4. queue # <<>> => Head(queue') = Head(queue)
  BY <1>1
<1> HIDE DEF t
<1>5. Queued \subseteq Queued'
  BY <1>2 DEF Queued
<1>6. k = "append" => r \in Queued'
  BY <1>2, <1>3 DEF Queued
<1> QED BY <1>4, <1>5, <1>6 DEF Current

\* A step that loses nothing.
LEMMA LossSame ==
  ASSUME LossOK, Lost' \subseteq Lost, backend' = "database" => backend = "database",
         faults \in Nat, faults' \in Nat, faults <= faults'
  PROVE  LossOK'
<1> SUFFICES ASSUME backend' = "database"
             PROVE  IsFiniteSet(Lost') /\ Cardinality(Lost') <= faults'
  BY DEF LossOK
<1>1. IsFiniteSet(Lost) /\ Cardinality(Lost) <= faults
  BY DEF LossOK
<1>2. IsFiniteSet(Lost') /\ Cardinality(Lost') <= Cardinality(Lost)
  BY <1>1, FS_Subset
<1>3. Cardinality(Lost) \in Nat /\ Cardinality(Lost') \in Nat
  BY <1>1, <1>2, FS_CardinalityType
<1> QED BY <1>1, <1>2, <1>3

\* A failed call loses the record of its task.
LEMMA LossOne ==
  ASSUME LossOK, NEW r, Lost' \subseteq Lost \cup {r}, backend' = backend, faults \in Nat,
         faults' = faults + 1
  PROVE  LossOK'
<1> SUFFICES ASSUME backend' = "database"
             PROVE  IsFiniteSet(Lost') /\ Cardinality(Lost') <= faults'
  BY DEF LossOK
<1>1. IsFiniteSet(Lost) /\ Cardinality(Lost) <= faults
  BY DEF LossOK
<1>2. IsFiniteSet(Lost \cup {r}) /\ Cardinality(Lost \cup {r}) <= Cardinality(Lost) + 1
  <2>1. Cardinality(Lost) \in Nat
    BY <1>1, FS_CardinalityType
  <2>2. /\ IsFiniteSet(Lost \cup {r})
        /\ Cardinality(Lost \cup {r}) = IF r \in Lost THEN Cardinality(Lost) ELSE Cardinality(Lost) + 1
    BY <1>1, FS_AddElement
  <2> QED BY <2>1, <2>2
<1>3. IsFiniteSet(Lost') /\ Cardinality(Lost') <= Cardinality(Lost \cup {r})
  BY <1>2, FS_Subset
<1>4. Cardinality(Lost) \in Nat /\ Cardinality(Lost') \in Nat /\ Cardinality(Lost \cup {r}) \in Nat
  BY <1>1, <1>2, <1>3, FS_CardinalityType
<1> QED BY <1>1, <1>2, <1>3, <1>4

\* A step loses an append only by failing.
LEMMA StepLoss == ASSUME IInv, LossOK, HeadOK, [Next]_vars PROVE LossOK'
<1> USE DEF IInv, TypeOK, storeVars, taskVars, indexVars, dbVars, readVars, boundVars, orderVars
<1>0. faults \in Nat /\ faults' \in Nat
  BY StepTypes DEF HistoryTypeOK
<1>1. CASE UNCHANGED <<queue, seq, numbered, backend, faults>>
  BY <1>0, <1>1, LossSame DEF Lost, Queued, Appended, RecordsOf
<1>2. CASE Calls
  <2>1. UNCHANGED <<numbered, backend, faults>>
    BY <1>2 DEF Calls, AppendRecord, UpdateRecord, ClearRecords
  <2>2. Lost' \subseteq Lost
    <3>1. ASSUME NEW r \in Records, NEW b \in Sizes, AppendRecord(r, b) PROVE Lost' \subseteq Lost
      <4>1. Push("append", r, b) /\ seq' = [seq EXCEPT ![r] = nextSequence]
        BY <3>1 DEF AppendRecord
      <4>2. Queued \subseteq Queued' /\ r \in Queued'
        BY <4>1, PushQueued
      <4>3. Appended' \subseteq Appended \cup {r}
        BY <4>1 DEF Appended, StoreTypeOK
      <4> QED BY <2>1, <4>2, <4>3 DEF Lost, RecordsOf
    <3>2. ASSUME NEW r \in Records, NEW b \in Sizes, UpdateRecord(r, b) PROVE Lost' \subseteq Lost
      <4>1. Queued \subseteq Queued' /\ Appended' = Appended
        BY <3>2, PushQueued DEF UpdateRecord, Appended
      <4> QED BY <2>1, <4>1 DEF Lost, RecordsOf
    <3>3. ASSUME ClearRecords PROVE Lost' \subseteq Lost
      <4>1. Queued \subseteq Queued' /\ Appended' = Appended
        BY <3>3, PushQueued DEF ClearRecords, Appended
      <4> QED BY <2>1, <4>1 DEF Lost, RecordsOf
    <3> QED BY <1>2, <3>1, <3>2, <3>3 DEF Calls
  <2> QED BY <1>0, <2>1, <2>2, LossSame
<1>3. CASE CallFails
  <2>1. /\ queue # <<>> /\ Finish /\ UNCHANGED <<seq, numbered, backend>> /\ faults' = faults + 1
    BY <1>3 DEF CallFails, StepOK
  <2>2. Appended' = Appended /\ RecordsOf(numbered') = RecordsOf(numbered)
    BY <2>1 DEF Appended, RecordsOf
  <2>3. Lost' \subseteq Lost \cup {Current.record}
    BY <2>1, <2>2, FinishQueued DEF Lost
  <2> QED BY <1>0, <2>1, <2>3, LossOne
<1>4. ASSUME Finish, queue # <<>>, UNCHANGED <<seq, numbered, backend, faults>>,
             Current.kind = "append" /\ backend = "database" => Current.record \in RecordsOf(numbered)
      PROVE  LossOK'
  <2>1. Appended' = Appended /\ RecordsOf(numbered') = RecordsOf(numbered)
    BY <1>4 DEF Appended, RecordsOf
  <2>2. backend = "database" => Lost' \subseteq Lost
    BY <1>4, <2>1, FinishQueued DEF Lost
  <2> QED BY <1>0, <1>4, <2>2, LossSame DEF LossOK
<1>5. CASE WriteAppend
  <2>1. UNCHANGED <<queue, seq, backend, faults>> /\ numbered \subseteq numbered'
    BY <1>5 DEF WriteAppend, Await
  <2>2. Lost' \subseteq Lost
    BY <2>1 DEF Lost, Queued, Appended, RecordsOf
  <2> QED BY <1>0, <2>1, <2>2, LossSame
<1>6. CASE WriteUpdate
  <2>1. UNCHANGED <<seq, numbered, backend, faults>> /\ queue # <<>> /\ Current.kind = "update"
        /\ (Finish \/ Await("reclaim"))
    BY <1>6 DEF WriteUpdate, StepOK, Summarized
  <2> QED BY <1>1, <1>4, <2>1 DEF Await
<1>7. CASE WriteClear
  BY <1>1, <1>7 DEF WriteClear, Await
<1>8. CASE SaveScope
  <2>1. UNCHANGED <<seq, numbered, backend, faults>> /\ queue # <<>> /\ step = "scope"
        /\ (Finish \/ Await("reclaim"))
    BY <1>8 DEF SaveScope, StepOK, Summarized
  <2> QED BY <1>1, <1>4, <2>1 DEF Await, HeadOK
<1>9. CASE Reclaim
  <2>1. UNCHANGED <<seq, numbered, backend, faults>> /\ queue # <<>> /\ step = "reclaim" /\ Finish
    BY <1>9 DEF Reclaim, StepOK
  <2> QED BY <1>4, <2>1 DEF HeadOK
<1>10. CASE Dispatch \/ UNCHANGED vars
  BY <1>1, <1>10 DEF Dispatch, vars
<1>11. CASE Reads
  <2>1. UNCHANGED <<queue, seq, numbered, backend>> /\ faults <= faults'
    BY <1>0, <1>11
    DEF Reads, CallRead, Snapshot, Round, CheckCursor, Query, QueryFails, EndRead, otherVars
  <2> QED BY <1>0, <2>1, LossSame DEF Lost, Queued, Appended, RecordsOf
<1>12. CASE Recover
  <2>1. UNCHANGED <<queue, numbered, backend, faults>> /\ seq' = Renumbered(seq, First)
    BY <1>12 DEF Recover
  <2>2. \A r \in Records : seq[r] = 0 => seq'[r] = 0
    BY <2>1 DEF Renumbered
  <2>3. Lost' \subseteq Lost
    BY <2>1, <2>2 DEF Lost, Queued, Appended, RecordsOf
  <2> QED BY <1>0, <2>1, <2>3, LossSame
<1>13. CASE Degrade
  BY <1>13 DEF Degrade, LossOK
<1>14. CASE Restart
  <2>1. \A r \in Records : seq'[r] = 0
    BY <1>14 DEF Restart
  <2>2. Lost' = {}
    BY <2>1 DEF Lost, Appended
  <2> QED BY <1>0, <2>2, FS_EmptySet DEF LossOK
<1> QED
  BY <1>2, <1>3, <1>5, <1>6, <1>7, <1>8, <1>9, <1>10, <1>11, <1>12, <1>13, <1>14 DEF Next, Work

\* A record that is numbered stays numbered.
LEMMA NumberedStay == ASSUME IInv, [Next]_vars PROVE RecordsOf(numbered) \subseteq RecordsOf(numbered')
<1>1. numbered \subseteq numbered'
  BY AppendWrites, OthersKeep
<1> QED BY <1>1 DEF RecordsOf

LEMMA StepHead == ASSUME IInv, HeadOK, [Next]_vars PROVE HeadOK'
<1> USE DEF IInv, TypeOK, storeVars, taskVars, indexVars, dbVars, orderVars
<1>0. RecordsOf(numbered) \subseteq RecordsOf(numbered')
  BY NumberedStay
<1>1. CASE UNCHANGED <<queue, step, backend, indexRows>>
  BY <1>0, <1>1 DEF HeadOK, Current
<1>2. CASE Calls
  <2>1. UNCHANGED <<step, backend, indexRows>> /\ \E k, r, b : Push(k, r, b)
    BY <1>2 DEF Calls, AppendRecord, UpdateRecord, ClearRecords
  <2>2. step # "idle" => Current' = Current
    BY <2>1, PushQueued DEF StepOK
  <2> QED BY <1>0, <2>1, <2>2 DEF HeadOK
<1>3. ASSUME step' \in {"idle", "writing"} PROVE HeadOK'
  BY <1>3 DEF HeadOK
<1>4. CASE Dispatch \/ Reclaim \/ CallFails \/ Restart
  BY <1>3, <1>4 DEF Dispatch, Reclaim, CallFails, Restart, Finish
<1>5. CASE Recover \/ Degrade
  BY <1>3, <1>5 DEF Recover, Degrade, StepOK
<1>6. CASE WriteAppend
  <2>1. /\ Await("scope") /\ UNCHANGED <<queue, backend>>
        /\ backend = "database" =>
             numbered' = numbered \cup {[sequence |-> seq[Current.record], record |-> Current.record]}
    BY <1>6 DEF WriteAppend, Await
  <2>2. backend = "database" => Current.record \in RecordsOf(numbered')
    <3>1. [sequence |-> seq[Current.record], record |-> Current.record].record = Current.record
      OBVIOUS
    <3> QED BY <2>1, <3>1 DEF RecordsOf
  <2> QED BY <2>1, <2>2 DEF HeadOK, Await, Current
<1>7. CASE WriteClear
  <2>1. Await("scope") /\ Current' = Current /\ Current.kind = "clear"
    BY <1>7 DEF WriteClear, Await, Current
  <2> QED BY <2>1 DEF HeadOK, Await
<1>8. CASE WriteUpdate
  <2>1. Finish \/ (Await("reclaim") /\ ~Fits(indexRows') /\ Current' = Current)
    BY <1>8 DEF WriteUpdate, Summarized, Overflow, Await, Current
  <2>2. Current.kind = "update"
    BY <1>8 DEF WriteUpdate
  <2> QED BY <1>3, <2>1, <2>2 DEF HeadOK, Await, Finish
<1>9. CASE SaveScope
  <2>1. /\ Finish \/ (Await("reclaim") /\ ~Fits(indexRows') /\ Current' = Current)
        /\ step = "scope" /\ backend' = backend
    BY <1>9 DEF SaveScope, Summarized, Overflow, Await, Current
  <2> QED BY <1>0, <1>3, <2>1 DEF HeadOK, Await, Finish
<1>10. CASE Reads \/ UNCHANGED vars
  BY <1>1, <1>10
  DEF Reads, CallRead, Snapshot, Round, CheckCursor, Query, QueryFails, EndRead, otherVars, vars
<1> QED BY <1>2, <1>4, <1>5, <1>6, <1>7, <1>8, <1>9, <1>10 DEF Next, Work

\* Rows are counted as the index counts them, and no rows fit any limit.
LEMMA FitsIndexed == ASSUME NEW S \in SUBSET Row PROVE Fits(Indexed(S)) <=> Fits(S)
<1>1. Indexed(Indexed(S)) = Indexed(S)
  <2>1. \A x \in S : Entry(Entry(x)) = Entry(x)
    BY DEF Entry
  <2>2. Indexed(Indexed(S)) = {Entry(Entry(x)) : x \in S}
    BY DEF Indexed
  <2> QED BY <2>1, <2>2 DEF Indexed
<1> QED BY <1>1 DEF Fits

\* Without rows there is nothing to reclaim: reclaiming ends.
LEMMA NothingFits == Fits({})
<1>1. \E f : f = [s \in SUBSET {} |->
                    IF s = {} THEN 0
                    ELSE LET x == (CHOOSE x \in s : TRUE) IN x.bytes + f[s \ {x}]]
  <2> DEFINE g == [s \in SUBSET {} |-> 0]
  <2>1. g = [s \in SUBSET {} |->
               IF s = {} THEN 0 ELSE LET x == (CHOOSE x \in s : TRUE) IN x.bytes + g[s \ {x}]]
    OBVIOUS
  <2> QED BY <2>1
<1>2. TotalBytes({}) = 0
  BY <1>1 DEF TotalBytes, MapThenSumSet, MapThenFoldSet
<1>3. Indexed({}) = {}
  BY DEF Indexed
<1> QED BY <1>2, <1>3, FS_EmptySet, RecordsAssumption DEF Fits

\* What reclaiming leaves fits, and its last removal was needed.
LEMMA ReclaimFits ==
  ASSUME NEW S \in SUBSET Row, Bounded(S), ~Fits(S), NEW c, c = Cutoff(Indexed(S)),
         NEW T, T = NewerThan(S, c)
  PROVE  Fits(T) /\ ~Fits(NewerThan(S, Max({x.sequence : x \in S \ T}) - 1))
<1> DEFINE N == {x.sequence : x \in S}
           R == {x.sequence : x \in S \ T}
<1>0. S # {}
  BY NothingFits
<1>1. /\ c \in N /\ c \in Nat
      /\ NewerThan(Indexed(S), c) = {} \/ Fits(NewerThan(Indexed(S), c))
      /\ \A d \in N : d < c => ~Fits(NewerThan(Indexed(S), d))
  BY <1>0, CutoffOf
<1>2. \A d : NewerThan(Indexed(S), d) = Indexed(NewerThan(S, d)) /\ NewerThan(S, d) \in SUBSET Row
  BY CutMirrors DEF NewerThan
<1>3. Fits(T)
  <2>1. Fits(NewerThan(Indexed(S), c))
    BY <1>1, NothingFits
  <2> QED BY <1>2, <2>1, FitsIndexed
<1>4. N \in SUBSET Nat /\ R \in SUBSET Nat /\ \A x \in S : x.sequence \in N /\ x.sequence \in Nat
  BY DEF Row
<1>5. c \in R /\ \A m \in R : m <= c
  <2>1. \A x \in S : x \in T <=> x.sequence > c
    BY DEF NewerThan
  <2>2. PICK x \in S : x.sequence = c
    BY <1>1
  <2>3. x \notin T
    BY <1>1, <2>1, <2>2
  <2>4. ASSUME NEW y \in S \ T PROVE y.sequence <= c
    <3>1. y.sequence \in Nat /\ ~(y.sequence > c)
      BY <1>4, <2>1
    <3> HIDE DEF N, R
    <3> QED BY <1>1, <3>1
  <2> QED BY <2>2, <2>3, <2>4
<1>6. Max(R) = c
  <2> HIDE DEF R, N
  <2>1. Max(R) \in R /\ \A m \in R : m <= Max(R)
    BY <1>1, <1>4, <1>5, MaxOf
  <2> DEFINE h == Max(R)
  <2>2. h \in R /\ \A m \in R : m <= h
    BY <2>1
  <2> HIDE DEF h
  <2>3. h \in Nat
    BY <1>4, <2>2
  <2>4. c <= h
    BY <1>5, <2>2
  <2>5. h <= c
    BY <1>5, <2>2
  <2>6. h = c
    BY <1>1, <2>3, <2>4, <2>5
  <2> QED BY <2>6 DEF h
<1>7. ~Fits(NewerThan(S, c - 1))
  <2> DEFINE D == {d \in N : d < c}
  <2>1. CASE D = {}
    <3>1. \A x \in S : x.sequence \in Nat /\ x.sequence > c - 1
      <4> HIDE DEF N
      <4> QED BY <1>1, <1>4, <2>1
    <3>2. NewerThan(S, c - 1) = S
      BY <3>1 DEF NewerThan
    <3> QED BY <3>2
  <2>2. CASE D # {}
    <3>1. D \in SUBSET Nat /\ \A d \in D : d <= c
      BY <1>1, <1>4
    <3>2. Max(D) \in D /\ \A d \in D : d <= Max(D)
      <4> HIDE DEF D
      <4> QED BY <1>1, <2>2, <3>1, MaxOf
    <3>3. \A x \in S : x.sequence > Max(D) <=> x.sequence > c - 1
      <4> SUFFICES ASSUME NEW x \in S PROVE x.sequence > Max(D) <=> x.sequence > c - 1
        OBVIOUS
      <4>1. x.sequence \in Nat /\ Max(D) \in Nat /\ Max(D) < c
            /\ (x.sequence < c => x.sequence <= Max(D))
        <5> HIDE DEF N
        <5> QED BY <1>4, <3>1, <3>2
      <4> HIDE DEF D
      <4> QED BY <1>1, <4>1
    <3>4. NewerThan(S, c - 1) = NewerThan(S, Max(D))
      BY <3>3 DEF NewerThan
    <3>5. ~Fits(NewerThan(Indexed(S), Max(D)))
      BY <1>1, <3>2
    <3> QED BY <1>2, <3>4, <3>5, FitsIndexed
  <2> QED BY <2>1, <2>2
<1> QED BY <1>3, <1>6, <1>7

\* Whatever fails, updates or restarts in between: an append that ends without a failure leaves
\* rows that fit, no fewer than that needs, and every failed call costs one record at most.
THEOREM AppendsHold == Spec => AppendsSettle
<1>1. Init => LossOK /\ HeadOK
  <2> SUFFICES ASSUME Init PROVE LossOK /\ HeadOK
    OBVIOUS
  <2>1. Lost = {}
    BY DEF Init, Lost, Appended
  <2> QED BY <2>1, FS_EmptySet DEF Init, LossOK, HeadOK
<1>2. IInv /\ LossOK /\ HeadOK /\ [Next]_vars => LossOK' /\ HeadOK'
  BY StepLoss, StepHead
<1>3. LossOK => AFailureLosesOneRecord
  BY DEF LossOK, AFailureLosesOneRecord, Lost
<1>4. ASSUME IInv, HeadOK, [Next]_vars
      PROVE  [(/\ step \in {"writing", "scope", "reclaim"} /\ step' = "idle"
               /\ Current.kind = "append" /\ faults' = faults /\ restarts' = restarts)
              => /\ Fits(Rows')
                 /\ Rows' # Rows =>
                      ~Fits(NewerThan(Rows, Max({x.sequence : x \in Rows \ Rows'}) - 1))]_vars
  <2> SUFFICES ASSUME step \in {"writing", "scope", "reclaim"}, step' = "idle", Current.kind = "append",
                      faults' = faults, restarts' = restarts
               PROVE  /\ Fits(Rows')
                      /\ Rows' # Rows =>
                           ~Fits(NewerThan(Rows, Max({x.sequence : x \in Rows \ Rows'}) - 1))
    OBVIOUS
  <2> USE DEF storeVars, taskVars, indexVars, dbVars, boundVars, orderVars
  <2>1. SaveScope \/ Reclaim
    <3>1. ~CallFails /\ ~Restart
      BY <1>4 DEF CallFails, Restart, IInv, TypeOK, HistoryTypeOK
    <3>2. ~(\E r \in Records, b \in Sizes : AppendRecord(r, b) \/ UpdateRecord(r, b)) /\ ~ClearRecords
      BY DEF AppendRecord, UpdateRecord, ClearRecords
    <3>3. ~Dispatch /\ ~WriteAppend /\ ~WriteUpdate /\ ~WriteClear /\ ~Recover /\ ~Degrade
      BY DEF Dispatch, WriteAppend, WriteUpdate, WriteClear, Await, Recover, Degrade
    <3>4. ~Reads /\ ~UNCHANGED vars
      BY DEF Reads, CallRead, Snapshot, Round, CheckCursor, Query, QueryFails, EndRead, otherVars, vars
    <3> QED BY <1>4, <3>1, <3>2, <3>3, <3>4 DEF Next, Calls, Work
  <2>2. indexRows = Indexed(Rows) /\ Rows \in SUBSET Row /\ Bounded(Rows)
    BY <1>4, <2>1
    DEF SaveScope, Reclaim, IInv, StepOK, IndexMirrorsRows, TypeOK, RowTypeOK, TableOK, Rows
  <2>3. CASE SaveScope
    <3>1. Fits(indexRows') /\ indexRows' = indexRows /\ Rows' = Rows
      BY <2>3 DEF SaveScope, Summarized, Overflow, Await, Rows
    <3> QED BY <2>2, <3>1, FitsIndexed
  <2>4. CASE Reclaim
    <3>1. StoreRows(NewerThan(Rows, Cutoff(indexRows))) /\ backend' = backend /\ ~Fits(indexRows)
      BY <1>4, <2>4 DEF Reclaim, HeadOK
    <3>2. Rows' = NewerThan(Rows, Cutoff(indexRows)) /\ ~Fits(Rows)
      BY <2>2, <3>1, StoreRowsRows, FitsIndexed
    <3> QED BY <2>2, <3>2, ReclaimFits
  <2> QED BY <2>1, <2>3, <2>4
<1>5. IInv /\ HeadOK /\ [Next]_vars =>
        [(/\ step \in {"writing", "scope", "reclaim"} /\ step' = "idle"
          /\ Current.kind = "append" /\ faults' = faults /\ restarts' = restarts)
         => /\ Fits(Rows')
            /\ Rows' # Rows => ~Fits(NewerThan(Rows, Max({x.sequence : x \in Rows \ Rows'}) - 1))]_vars
  BY <1>4
<1> QED BY <1>1, <1>2, <1>3, <1>5, IInvHolds, PTL DEF Spec, AppendsSettle, CompletedWriteFits
=============================================================================
