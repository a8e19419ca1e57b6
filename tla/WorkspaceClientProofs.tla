----------------------- MODULE WorkspaceClientProofs -----------------------
(* Proofs about WorkspaceClient, for any spaces, operators, windows and bounds: what one page *)
(* shows of the server once everything has arrived, and that its trajectory moves forward.    *)
EXTENDS WorkspaceClient, WellFoundedInduction, TLAPS

-----------------------------------------------------------------------------
(* What is on its way *)

\* The calls of the page.
AllKinds == {"load", "bare", "select", "refresh", "reread", "send", "delete", "history"}

\* What getWorkspace answers: messages are numbered from 1.
Views == [space : Spaces, operator : Operators \cup {None}, rev : Nat, live : Nat,
          ids : Seq(Nat \ {0}), more : BOOLEAN, ops : SUBSET Operators]
\* A page of history, a call, an answer, a message of the line, and what the server has.
Pages == [ids : Seq(Nat \ {0}), more : BOOLEAN]

CallTypes == [n : Nat, kind : AllKinds, space : Spaces, operator : Operators \cup {None},
              before : Nat, target : Operators \cup Spaces \cup {None},
              path : {None, "list", "search"}]

Results == {Failure} \cup [ok : {TRUE}, view : Views] \cup [ok : {TRUE}, page : Pages]

Messages == [kind : {"mutated"}, space : Spaces]
              \cup [kind : {"answer"}, call : CallTypes, result : Results]

SceneTypes == [rev : Nat, live : Nat, last : Nat, ops : SUBSET Operators]

\* The i-th message of l answers a call; it answers with the workspace.
AnswerAt(l, i) == i \in 1..Len(l) /\ l[i].kind = "answer"
OkAt(l, i) ==
  AnswerAt(l, i) /\ l[i].call.kind # "history" /\ l[i].result.ok

\* A call is one its kind makes.
CallOK(c) ==
  /\ c \in CallTypes
  /\ c.kind = "history" => c.before # 0
  /\ c.kind \in {"select", "load", "send", "history", "reread"} => c.operator # None
  /\ c.kind = "delete" => c.target \in Operators

\* An answer is one of its call: the space that was asked for, as the operator of the call
\* or as the first of those there are.
AnswerOK(c, r) ==
  /\ CallOK(c)
  /\ c.kind # "history" /\ r.ok =>
       /\ r.view \in Views /\ r.view.space = c.space
       /\ ~NamesOperator(c) => r.view.operator = First(r.view.ops)
       /\ NamesOperator(c) => r.view.operator = c.operator /\ c.operator \in r.view.ops
       /\ \A k \in 1..(Len(r.view.ids) - 1) : r.view.ids[k + 1] = r.view.ids[k] + 1
       /\ r.view.ids # <<>> => (r.view.more <=> r.view.ids[1] > 1)
  /\ c.kind = "history" /\ r.ok => c.target = c.space /\ r.page = HistoryPage(c.before)
  /\ c.kind = "bare" => r.ok

\* What is shown.
ShownOK ==
  /\ shown = Blank \/ shown \in Views
  /\ operator \in shown.ops \/ (shown = Blank) \/ (operator = None /\ shown.ops = {})

\* Calls are numbered; a command that is done is one of them, and a deletion deletes.
CallsOK ==
  /\ \A c \in calls : CallOK(c)
  /\ \A c, d \in calls : c.n = d.n => c = d
  /\ \E m \in Nat : \A c \in calls : c.n <= m
  /\ \A n \in done : \E c \in calls : c.n = n /\ c.kind \in Changes
  /\ \A c \in calls : c.kind = "delete" /\ c.n \in done => c.target \notin scene[c.space].ops

\* Every answer on the line is one of its call.
LineOK ==
  /\ line \in Seq(Messages)
  /\ \A i \in 1..Len(line) : AnswerAt(line, i) => AnswerOK(line[i].call, line[i].result)

\* Types, and what each message says for itself.
TypeInv ==
  /\ bounds \in Bounds /\ scene \in [Spaces -> SceneTypes]
  /\ space \in Spaces /\ operator \in Operators \cup {None}
  /\ refreshing \in BOOLEAN /\ pending \in BOOLEAN
  /\ panelRead \in Nat /\ cleared \in Nat
  /\ tangled \in BOOLEAN /\ disturbed \in BOOLEAN
  /\ ShownOK /\ CallsOK /\ LineOK

-----------------------------------------------------------------------------
(* Numbers and lists *)

\* A set of numbers that is not empty has a smallest one.
LEMMA Smallest ==
  ASSUME NEW S \in SUBSET Nat, S # {}
  PROVE  \E x \in S : \A y \in S : x <= y
<1>1. PICK x \in S : \A y \in S : ~(<<y, x>> \in OpToRel(<, Nat))
  BY NatLessThanWellFounded, WFMin
<1>2. ASSUME NEW y \in S PROVE x <= y
  <2>1. <<y, x>> \in Nat \X Nat /\ <<y, x>>[1] = y /\ <<y, x>>[2] = x
    OBVIOUS
  <2>2. ~(y < x)
    BY <1>1, <2>1, Zenon DEF OpToRel
  <2> QED BY <2>2
<1> QED BY <1>2

\* A set of numbers with a bound has a largest one, and that is Max of it.
LEMMA MaxIs ==
  ASSUME NEW S \in SUBSET Nat, S # {}, NEW m \in Nat, \A x \in S : x <= m
  PROVE  Max(S) \in S /\ \A x \in S : x <= Max(S)
<1> DEFINE U == {u \in Nat : \A x \in S : x <= u}
<1>1. PICK u \in U : \A v \in U : u <= v
  BY Smallest
<1>2. u \in S
  <2> SUFFICES ASSUME u \notin S PROVE FALSE
    OBVIOUS
  <2>1. PICK x \in S : TRUE
    OBVIOUS
  <2>2. u # 0 /\ u - 1 \in Nat
    BY <2>1, <1>1
  <2>3. \A y \in S : y <= u - 1
    BY <1>1, <2>2
  <2> QED BY <1>1, <2>2, <2>3
<1>3. u \in S /\ \A x \in S : u >= x
  BY <1>1, <1>2
<1>4. Max(S) \in S /\ \A x \in S : Max(S) >= x
  BY <1>3 DEF Max
<1> QED BY <1>4

\* The numbers of messages from one to another.
LEMMA NumbersAre ==
  ASSUME NEW f \in Nat \ {0}, NEW t \in Nat, f <= t + 1
  PROVE  /\ Numbers(f, t) \in Seq(Nat \ {0}) /\ Len(Numbers(f, t)) = t + 1 - f
         /\ \A i \in 1..(t + 1 - f) : Numbers(f, t)[i] = f + i - 1
<1>1. t + 1 - f \in Nat
  OBVIOUS
<1>2. \A i \in 1..(t + 1 - f) : f + i - 1 \in Nat \ {0}
  OBVIOUS
<1> QED BY <1>1, <1>2 DEF Numbers

\* The last k of n messages.
LEMMA FromIs ==
  ASSUME NEW n \in Nat, NEW k \in Nat \ {0}
  PROVE  From(n, k) \in Nat \ {0} /\ From(n, k) <= n + 1 /\ (n > k <=> From(n, k) > 1)
         /\ (n # 0 => From(n, k) <= n)
  BY DEF From

\* The first of the participants there are is one of them.
LEMMA FirstIs ==
  ASSUME NEW ops \in SUBSET Operators
  PROVE  /\ ops = {} => First(ops) = None
         /\ ops # {} => First(ops) \in ops /\ \A p \in ops : Place[First(ops)] <= Place[p]
<1>1. CASE ops = {}
  BY <1>1 DEF First
<1>2. CASE ops # {}
  <2>1. \A o \in ops : Place[o] \in Nat
    BY ClientAssumption
  <2>2. PICK x \in {Place[o] : o \in ops} : \A y \in {Place[o] : o \in ops} : x <= y
    BY <1>2, <2>1, Smallest
  <2>3. \E o \in ops : \A p \in ops : Place[o] <= Place[p]
    BY <2>2
  <2> QED BY <1>2, <2>3 DEF First
<1> QED BY <1>1, <1>2

\* The first stays the first when others leave.
LEMMA FirstStays ==
  ASSUME NEW ops \in SUBSET Operators, NEW less \in SUBSET ops, First(ops) \in less
  PROVE  First(less) = First(ops)
<1>1. ops # {} /\ less # {} /\ less \in SUBSET Operators
  OBVIOUS
<1>2. Place[First(ops)] <= Place[First(less)] /\ Place[First(less)] <= Place[First(ops)]
  BY <1>1, FirstIs
<1>3. First(ops) \in Operators /\ First(less) \in Operators
  BY <1>1, FirstIs
<1>4. Place[First(ops)] = Place[First(less)]
  BY <1>2, <1>3, ClientAssumption
<1> QED BY <1>3, <1>4, ClientAssumption

\* The operator of a page that shows ops is one of them, or there is none.
LEMMA ResolvedIs ==
  ASSUME NEW ops \in SUBSET Operators, NEW o \in Operators \cup {None}
  PROVE  /\ Resolved(ops, o) \in Operators \cup {None}
         /\ Resolved(ops, o) \in ops \/ (Resolved(ops, o) = None /\ ops = {})
         /\ o \in ops => Resolved(ops, o) = o
         /\ o \notin ops => Resolved(ops, o) = First(ops)
  BY FirstIs DEF Resolved

\* A message is appended.
LEMMA AppendIs ==
  ASSUME NEW S, NEW l \in Seq(S), NEW m \in S
  PROVE  /\ Append(l, m) \in Seq(S) /\ Len(Append(l, m)) = Len(l) + 1 /\ Len(l) \in Nat
         /\ \A i \in 1..Len(l) : Append(l, m)[i] = l[i]
         /\ Append(l, m)[Len(l) + 1] = m
  OBVIOUS

\* The first message is taken.
LEMMA TailIs ==
  ASSUME NEW S, NEW l \in Seq(S), l # <<>>
  PROVE  /\ Tail(l) \in Seq(S) /\ Len(Tail(l)) = Len(l) - 1 /\ Len(l) \in Nat \ {0}
         /\ \A i \in 1..(Len(l) - 1) : Tail(l)[i] = l[i + 1]
         /\ Head(l) = l[1] /\ l[1] \in S
  OBVIOUS

-----------------------------------------------------------------------------
(* Types: what is asked, answered and shown *)

\* A call that is made is the last one asked for.
LEMMA CallMade ==
  ASSUME CallsOK, space \in Spaces, NEW kind \in AllKinds, NEW o \in Operators \cup {None},
         NEW before \in Nat, NEW target \in Operators \cup Spaces \cup {None},
         NEW path \in {None, "list", "search"}
  PROVE  LET c == Call(kind, o, before, target, path)
         IN  /\ c \in CallTypes /\ c.kind = kind /\ c.space = space /\ c.operator = o
             /\ c.before = before /\ c.target = target
             /\ \A d \in calls : d.n < c.n
<1> DEFINE S == {0} \cup {c.n : c \in calls}
<1>1. PICK m \in Nat : \A c \in calls : c.n <= m
  BY DEF CallsOK
<1>2. \A c \in calls : c.n \in Nat
  BY DEF CallsOK, CallOK, CallTypes
<1>3. Max(S) \in S /\ \A x \in S : x <= Max(S)
  <2>1. S \in SUBSET Nat /\ S # {} /\ \A x \in S : x <= m
    BY <1>1, <1>2
  <2> HIDE DEF S
  <2> QED BY <2>1, MaxIs
<1>4. Max(S) \in Nat
  BY <1>2, <1>3
<1>5. \A c \in calls : c.n <= Max(S)
  BY <1>3
<1> HIDE DEF S
<1>6. Call(kind, o, before, target, path) =
        [n |-> 1 + Max(S), kind |-> kind, space |-> space, operator |-> o, before |-> before,
         target |-> target, path |-> path]
  BY DEF Call, S
<1> QED BY <1>2, <1>4, <1>5, <1>6 DEF CallTypes

\* So is one that asks for no more than the workspace.
LEMMA PlainMade ==
  ASSUME CallsOK, space \in Spaces, NEW kind \in AllKinds, NEW o \in Operators \cup {None}
  PROVE  LET c == Plain(kind, o)
         IN  /\ c \in CallTypes /\ c.kind = kind /\ c.space = space /\ c.operator = o
             /\ \A d \in calls : d.n < c.n
  BY CallMade DEF Plain

\* Calls stay in order when one is added.
LEMMA CallsGrow ==
  ASSUME CallsOK, NEW c, CallOK(c), \A d \in calls : d.n < c.n,
         calls' = calls \cup {c}, done' = done, scene' = scene
  PROVE  CallsOK'
<1>1. c.n \in Nat /\ \A d \in calls : d.n \in Nat
  BY DEF CallsOK, CallOK, CallTypes
<1>2. \A d \in calls' : CallOK(d)
  BY DEF CallsOK
<1>3. \A d, e \in calls' : d.n = e.n => d = e
  BY <1>1 DEF CallsOK
<1>4. \A d \in calls' : d.n <= c.n
  BY <1>1
<1>5. \A n \in done' : \E d \in calls' : d.n = n /\ d.kind \in Changes
  BY DEF CallsOK
<1>6. \A d \in calls' : d.kind = "delete" /\ d.n \in done' => d.target \notin scene'[d.space].ops
  <2> SUFFICES ASSUME NEW d \in calls', d.kind = "delete", d.n \in done'
               PROVE  d.target \notin scene'[d.space].ops
    OBVIOUS
  <2>1. d \in calls
    BY <1>1 DEF CallsOK
  <2> QED BY <2>1 DEF CallsOK
<1> QED BY <1>1, <1>2, <1>3, <1>4, <1>5, <1>6 DEF CallsOK

\* A workspace that arrives is shown, and its operator is one of it.
LEMMA ShowView ==
  ASSUME NEW v \in Views, NEW o \in Operators \cup {None},
         shown' = v, operator' = Resolved(v.ops, o)
  PROVE  ShownOK' /\ operator' \in Operators \cup {None}
<1>1. v.ops \in SUBSET Operators
  BY DEF Views
<1>2. operator' \in v.ops \/ (operator' = None /\ v.ops = {})
  BY <1>1, ResolvedIs
<1>3. operator' \in Operators \cup {None}
  BY <1>1, ResolvedIs
<1> QED BY <1>2, <1>3 DEF ShownOK

\* The first message is read.
LEMMA LineRead ==
  ASSUME LineOK, line # <<>>, line' = Tail(line)
  PROVE  /\ LineOK' /\ Len(line') = Len(line) - 1 /\ Len(line) \in Nat \ {0}
         /\ \A i \in 1..Len(line') : line'[i] = line[i + 1] /\ i + 1 \in 1..Len(line)
         /\ Head(line) = line[1] /\ line[1] \in Messages
<1>1. /\ line' \in Seq(Messages) /\ Len(line') = Len(line) - 1 /\ Len(line) \in Nat \ {0}
      /\ \A i \in 1..(Len(line) - 1) : line'[i] = line[i + 1]
      /\ Head(line) = line[1] /\ line[1] \in Messages
  BY TailIs DEF LineOK
<1>2. \A i \in 1..Len(line') : line'[i] = line[i + 1] /\ i + 1 \in 1..Len(line)
  BY <1>1
<1> QED BY <1>1, <1>2 DEF LineOK, AnswerAt

\* A message is sent.
LEMMA LineSent ==
  ASSUME LineOK, NEW m \in Messages, line' = Append(line, m),
         m.kind = "answer" => AnswerOK(m.call, m.result)
  PROVE  /\ LineOK' /\ Len(line') = Len(line) + 1 /\ Len(line) \in Nat
         /\ \A i \in 1..Len(line) : line'[i] = line[i]
         /\ line'[Len(line')] = m
         /\ \A i \in 1..Len(line') : i \in 1..Len(line) \/ i = Len(line')
<1>1. /\ line' \in Seq(Messages) /\ Len(line') = Len(line) + 1 /\ Len(line) \in Nat
      /\ \A i \in 1..Len(line) : line'[i] = line[i]
      /\ line'[Len(line) + 1] = m
  BY AppendIs DEF LineOK
<1> QED BY <1>1 DEF LineOK, AnswerAt

\* What getWorkspace makes of a scene.
LEMMA ViewIs ==
  ASSUME scene \in [Spaces -> SceneTypes], NEW s \in Spaces, NEW o \in Operators \cup {None}
  PROVE  LET v == View(s, o)
         IN  /\ v \in Views /\ v.space = s /\ v.operator = o
             /\ v.rev = scene[s].rev /\ v.live = scene[s].live /\ v.ops = scene[s].ops
             /\ (v.ids # <<>> <=> scene[s].last # 0)
             /\ v.ids # <<>> => v.ids[Len(v.ids)] = scene[s].last
             /\ \A k \in 1..(Len(v.ids) - 1) : v.ids[k + 1] = v.ids[k] + 1
             /\ v.ids # <<>> => (v.more <=> v.ids[1] > 1)
<1> DEFINE last == scene[s].last
           f    == From(last, Window)
           ids  == Numbers(f, last)
<1>1. scene[s] \in SceneTypes /\ last \in Nat /\ scene[s].rev \in Nat /\ scene[s].live \in Nat
      /\ scene[s].ops \in SUBSET Operators
  BY DEF SceneTypes
<1>2. /\ f \in Nat \ {0} /\ f <= last + 1 /\ (last > Window <=> f > 1)
      /\ (last # 0 => f <= last)
  BY <1>1, FromIs, ClientAssumption
<1> HIDE DEF f
<1>3. /\ ids \in Seq(Nat \ {0}) /\ Len(ids) = last + 1 - f
      /\ \A i \in 1..(last + 1 - f) : ids[i] = f + i - 1
  BY <1>1, <1>2, NumbersAre
<1> HIDE DEF ids
<1>4. ids # <<>> <=> Len(ids) # 0
  BY <1>3
<1>5. ids # <<>> <=> last # 0
  BY <1>1, <1>2, <1>3, <1>4
<1>6. ids # <<>> => ids[Len(ids)] = last /\ ids[1] = f
  <2> SUFFICES ASSUME ids # <<>> PROVE ids[Len(ids)] = last /\ ids[1] = f
    OBVIOUS
  <2>1. last # 0 /\ f <= last
    BY <1>2, <1>5
  <2>2. 1 \in 1..(last + 1 - f) /\ last + 1 - f \in 1..(last + 1 - f)
    BY <1>1, <1>2, <2>1
  <2>3. ids[last + 1 - f] = f + (last + 1 - f) - 1 /\ ids[1] = f + 1 - 1
    BY <1>3, <2>2
  <2> QED BY <1>1, <1>2, <1>3, <2>3
<1>7. \A k \in 1..(Len(ids) - 1) : ids[k + 1] = ids[k] + 1
  <2> SUFFICES ASSUME NEW k \in 1..(Len(ids) - 1) PROVE ids[k + 1] = ids[k] + 1
    OBVIOUS
  <2>1. k \in Nat /\ k \in 1..(last + 1 - f) /\ k + 1 \in 1..(last + 1 - f)
    BY <1>1, <1>2, <1>3
  <2>2. ids[k + 1] = f + (k + 1) - 1 /\ ids[k] = f + k - 1
    BY <1>3, <2>1
  <2> QED BY <1>2, <2>1, <2>2
<1>8. View(s, o) = [space |-> s, operator |-> o, rev |-> scene[s].rev, live |-> scene[s].live,
                    ids |-> ids, more |-> last > Window, ops |-> scene[s].ops]
  BY DEF View, ids, f
<1> HIDE DEF last
<1>9. View(s, o) \in Views
  BY <1>1, <1>3, <1>8 DEF Views
<1>10. /\ View(s, o).space = s /\ View(s, o).operator = o
       /\ View(s, o).rev = scene[s].rev /\ View(s, o).live = scene[s].live
       /\ View(s, o).ops = scene[s].ops
       /\ View(s, o).ids = ids /\ View(s, o).more = (last > Window)
  BY <1>8
<1>11. ids # <<>> => (last > Window <=> ids[1] > 1)
  BY <1>2, <1>6
<1>12. last = scene[s].last
  BY DEF last
<1> HIDE DEF ids
<1> QED BY <1>5, <1>6, <1>7, <1>9, <1>10, <1>11, <1>12

\* A page of history.
LEMMA PageIs ==
  ASSUME NEW before \in Nat \ {0}
  PROVE  LET p == HistoryPage(before)
         IN  /\ p \in Pages
             /\ before > 1 => /\ p.ids # <<>> /\ p.ids[Len(p.ids)] = before - 1
                              /\ (p.more <=> p.ids[1] > 1)
             /\ before = 1 => p.ids = <<>> /\ ~p.more
             /\ \A k \in 1..(Len(p.ids) - 1) : p.ids[k + 1] = p.ids[k] + 1
<1> DEFINE last == before - 1
           f    == From(last, Page)
           ids  == Numbers(f, last)
<1>1. last \in Nat
  OBVIOUS
<1> HIDE DEF last
<1>2. /\ f \in Nat \ {0} /\ f <= last + 1 /\ (last > Page <=> f > 1)
      /\ (last # 0 => f <= last)
  BY <1>1, FromIs, ClientAssumption
<1> HIDE DEF f
<1>3. /\ ids \in Seq(Nat \ {0}) /\ Len(ids) = last + 1 - f
      /\ \A i \in 1..(last + 1 - f) : ids[i] = f + i - 1
  BY <1>1, <1>2, NumbersAre
<1> HIDE DEF ids
<1>4. ids # <<>> <=> Len(ids) # 0
  BY <1>3
<1>5. last # 0 => ids # <<>> /\ ids[Len(ids)] = last /\ ids[1] = f
  BY <1>1, <1>2, <1>3, <1>4
<1>6. last = 0 => ids = <<>> /\ ~(last > Page)
  BY <1>1, <1>2, <1>3, <1>4, ClientAssumption
<1>7. \A k \in 1..(Len(ids) - 1) : ids[k + 1] = ids[k] + 1
  <2> SUFFICES ASSUME NEW k \in 1..(Len(ids) - 1) PROVE ids[k + 1] = ids[k] + 1
    OBVIOUS
  <2>1. k \in Nat /\ k \in 1..(last + 1 - f) /\ k + 1 \in 1..(last + 1 - f)
    BY <1>1, <1>2, <1>3
  <2>2. ids[k + 1] = f + (k + 1) - 1 /\ ids[k] = f + k - 1
    BY <1>3, <2>1
  <2> QED BY <1>2, <2>1, <2>2
<1>8. HistoryPage(before) = [ids |-> ids, more |-> last > Page]
  BY DEF HistoryPage, ids, f, last
<1>9. HistoryPage(before) \in Pages
  BY <1>3, <1>8 DEF Pages
<1>10. (before > 1 <=> last # 0) /\ (before = 1 <=> last = 0) /\ last = before - 1
  BY DEF last
<1>11. HistoryPage(before).ids = ids /\ HistoryPage(before).more = (last > Page)
  BY <1>8
<1>12. last # 0 => (last > Page <=> ids[1] > 1)
  BY <1>2, <1>5
<1> QED BY <1>5, <1>6, <1>7, <1>9, <1>10, <1>11, <1>12

\* The answers of the server.
LEMMA ResultIs ==
  ASSUME scene \in [Spaces -> SceneTypes], NEW c, CallOK(c)
  PROVE  LET r == Result(c)
         IN  /\ r \in Results /\ AnswerOK(c, r)
             /\ c.kind # "history" /\ r.ok =>
                  /\ r.view.rev = scene[c.space].rev /\ r.view.live = scene[c.space].live
                  /\ r.view.ops = scene[c.space].ops
                  /\ (r.view.ids # <<>> <=> scene[c.space].last # 0)
                  /\ r.view.ids # <<>> => r.view.ids[Len(r.view.ids)] = scene[c.space].last
             /\ c.kind # "history" /\ ~r.ok =>
                  c.operator \notin scene[c.space].ops /\ c.kind \notin {"bare", "delete"}
                    /\ c.operator # None
<1> DEFINE r == Result(c)
           ops == scene[c.space].ops
           v == View(c.space, First(ops))
           w == View(c.space, c.operator)
<1>1. /\ c \in CallTypes /\ c.space \in Spaces /\ c.operator \in Operators \cup {None}
      /\ c.before \in Nat /\ c.kind \in AllKinds
  BY DEF CallOK, CallTypes
<1>2. scene[c.space] \in SceneTypes /\ ops \in SUBSET Operators
  BY <1>1 DEF SceneTypes
<1>3. First(ops) \in Operators \cup {None}
  BY <1>2, FirstIs
<1>4. Failure \in Results /\ ~Failure.ok
  BY DEF Failure, Results
<1>5. CASE ~NamesOperator(c)
  <2>4. c.kind # "history"
    BY <1>5 DEF CallOK, NamesOperator
  <2>1. r = [ok |-> TRUE, view |-> v]
    BY <1>5, <2>4 DEF Result
  <2>2. /\ v \in Views /\ v.space = c.space /\ v.operator = First(ops)
        /\ v.rev = scene[c.space].rev /\ v.live = scene[c.space].live /\ v.ops = ops
        /\ (v.ids # <<>> <=> scene[c.space].last # 0)
        /\ v.ids # <<>> => v.ids[Len(v.ids)] = scene[c.space].last
        /\ \A k \in 1..(Len(v.ids) - 1) : v.ids[k + 1] = v.ids[k] + 1
        /\ v.ids # <<>> => (v.more <=> v.ids[1] > 1)
    BY <1>1, <1>3, ViewIs
  <2> HIDE DEF v
  <2>3. r \in Results /\ r.ok /\ r.view = v
    BY <2>1, <2>2 DEF Results
  <2> HIDE DEF r
  <2>5. AnswerOK(c, r)
    BY <1>5, <2>2, <2>3, <2>4 DEF AnswerOK, NamesOperator
  <2> QED BY <2>2, <2>3, <2>5 DEF r
<1>6. CASE NamesOperator(c) /\ ~Finds(c)
  <2>1. r = Failure
    BY <1>6 DEF Result
  <2>2. AnswerOK(c, r)
    BY <1>4, <1>6, <2>1 DEF AnswerOK, NamesOperator
  <2> QED BY <1>4, <1>6, <2>1, <2>2 DEF NamesOperator, Finds
<1>7. CASE NamesOperator(c) /\ Finds(c)
  <2>1. CASE c.kind = "history"
    <3>1. r = [ok |-> TRUE, page |-> HistoryPage(c.before)]
      BY <1>7, <2>1 DEF Result
    <3>2. HistoryPage(c.before) \in Pages
      BY <1>1, <2>1, PageIs DEF CallOK
    <3> HIDE DEF r
    <3>3. r \in Results /\ r.ok /\ r.page = HistoryPage(c.before)
      BY <3>1, <3>2 DEF Results
    <3>4. AnswerOK(c, r)
      BY <1>7, <2>1, <3>3 DEF AnswerOK, NamesOperator, Finds
    <3> QED BY <2>1, <3>3, <3>4 DEF r
  <2>2. CASE c.kind # "history"
    <3>1. r = [ok |-> TRUE, view |-> w]
      BY <1>7, <2>2 DEF Result
    <3>2. /\ w \in Views /\ w.space = c.space /\ w.operator = c.operator
          /\ w.rev = scene[c.space].rev /\ w.live = scene[c.space].live /\ w.ops = ops
          /\ (w.ids # <<>> <=> scene[c.space].last # 0)
          /\ w.ids # <<>> => w.ids[Len(w.ids)] = scene[c.space].last
          /\ \A k \in 1..(Len(w.ids) - 1) : w.ids[k + 1] = w.ids[k] + 1
          /\ w.ids # <<>> => (w.more <=> w.ids[1] > 1)
      BY <1>1, ViewIs
    <3> HIDE DEF w
    <3>3. r \in Results /\ r.ok /\ r.view = w
      BY <3>1, <3>2 DEF Results
    <3> HIDE DEF r
    <3>4. AnswerOK(c, r)
      BY <1>7, <2>2, <3>2, <3>3 DEF AnswerOK, NamesOperator, Finds
    <3> QED BY <3>2, <3>3, <3>4 DEF r
  <2> QED BY <2>1, <2>2
<1> QED BY <1>5, <1>6, <1>7

\* A refusal answers any call but one for whatever there is.
LEMMA FailureIs ==
  ASSUME NEW c, CallOK(c), c.kind # "bare"
  PROVE  Failure \in Results /\ AnswerOK(c, Failure) /\ ~Failure.ok
  BY DEF Failure, Results, AnswerOK

-----------------------------------------------------------------------------
(* What the steps do *)

\* A scene changes: it only grows older, nobody joins it, and the page is told.
Committed(s) ==
  /\ scene' \in [Spaces -> SceneTypes]
  /\ \A t \in Spaces : t # s => scene'[t] = scene[t]
  /\ scene'[s].rev >= scene[s].rev /\ scene'[s].live >= scene[s].live
  /\ scene'[s].last >= scene[s].last /\ scene'[s].ops \subseteq scene[s].ops
  /\ line' = Append(line, Mutated(s))
  /\ UNCHANGED <<bounds, calls, pageVars, panelVars, ghostVars, asked>>

\* A step of the server that changes the scene of s; done of what it has done.
ServerChanges(s) ==
  /\ s \in Spaces /\ Committed(s)
  /\ \/ done' = done /\ changed' = changed + 1
     \/ \E c \in calls : /\ c.kind \in Changes /\ c.n \notin done /\ done' = done \cup {c.n}
                         /\ changed' = changed
                         /\ c.space = s
                         /\ c.kind = "send" => scene'[s].ops = scene[s].ops
                         /\ c.kind = "delete" => scene'[s].ops = scene[s].ops \ {c.target}

\* What each action does, in the terms above: to the server, to the calls, to the line.
LEMMA CommittedIs ==
  ASSUME scene \in [Spaces -> SceneTypes], NEW s \in Spaces, NEW with \in SceneTypes,
         Commit(s, with),
         with.rev >= scene[s].rev, with.live >= scene[s].live, with.last >= scene[s].last,
         with.ops \subseteq scene[s].ops,
         UNCHANGED <<bounds, calls, pageVars, panelVars, ghostVars, asked>>
  PROVE  Committed(s) /\ scene'[s] = with
<1>1. scene' = [scene EXCEPT ![s] = with] /\ line' = Append(line, Mutated(s))
  BY DEF Commit
<1>2. scene' \in [Spaces -> SceneTypes] /\ scene'[s] = with
      /\ \A t \in Spaces : t # s => scene'[t] = scene[t]
  BY <1>1
<1> QED BY <1>1, <1>2 DEF Committed

\* A scene that is written to, and one that somebody leaves.
LEMMA Changed ==
  ASSUME NEW v \in SceneTypes, NEW o
  PROVE  /\ Written(v) \in SceneTypes /\ Written(v).rev >= v.rev /\ Written(v).live >= v.live
         /\ Written(v).last >= v.last /\ Written(v).ops = v.ops
         /\ Without(v, o) \in SceneTypes /\ Without(v, o).rev >= v.rev
         /\ Without(v, o).live >= v.live /\ Without(v, o).last >= v.last
         /\ Without(v, o).ops = v.ops \ {o}
         /\ [v EXCEPT !.live = @ + 1] \in SceneTypes
         /\ [v EXCEPT !.live = @ + 1].rev >= v.rev /\ [v EXCEPT !.live = @ + 1].live >= v.live
         /\ [v EXCEPT !.live = @ + 1].last >= v.last /\ [v EXCEPT !.live = @ + 1].ops = v.ops
<1>1. v.rev \in Nat /\ v.live \in Nat /\ v.last \in Nat /\ v.ops \in SUBSET Operators
  BY DEF SceneTypes
<1>2. Written(v) \in SceneTypes /\ Written(v).rev = v.rev + 1 /\ Written(v).live = v.live
      /\ Written(v).last = v.last + 1 /\ Written(v).ops = v.ops
  <2> DEFINE w == [v EXCEPT !.rev = @ + 1]
  <2>1. w \in SceneTypes /\ w.rev = v.rev + 1 /\ w.live = v.live /\ w.last = v.last
        /\ w.ops = v.ops
    BY DEF SceneTypes
  <2>2. Written(v) = [w EXCEPT !.last = @ + 1]
    BY <2>1 DEF Written
  <2> HIDE DEF w
  <2> QED BY <2>1, <2>2 DEF SceneTypes
<1>3. Without(v, o) \in SceneTypes /\ Without(v, o).rev = v.rev + 1
      /\ Without(v, o).live = v.live /\ Without(v, o).last = v.last
      /\ Without(v, o).ops = v.ops \ {o}
  <2> DEFINE w == [v EXCEPT !.rev = @ + 1]
  <2>1. w \in SceneTypes /\ w.rev = v.rev + 1 /\ w.live = v.live /\ w.last = v.last
        /\ w.ops = v.ops
    BY DEF SceneTypes
  <2>2. Without(v, o) = [w EXCEPT !.ops = @ \ {o}]
    BY <2>1 DEF Without
  <2> HIDE DEF w
  <2> QED BY <2>1, <2>2 DEF SceneTypes
<1>4. LET w == [v EXCEPT !.live = @ + 1]
      IN  w \in SceneTypes /\ w.rev = v.rev /\ w.live = v.live + 1 /\ w.last = v.last
            /\ w.ops = v.ops
  BY <1>1 DEF SceneTypes
<1> QED BY <1>1, <1>2, <1>3, <1>4

\* Changes made elsewhere.
LEMMA ElsewhereIs ==
  ASSUME TypeInv, NEW s \in Spaces, ElsewhereChanges(s)
  PROVE  ServerChanges(s)
<1>1. scene \in [Spaces -> SceneTypes] /\ scene[s] \in SceneTypes
  BY DEF TypeInv
<1>2. /\ UNCHANGED <<bounds, calls, pageVars, panelVars, ghostVars, asked>>
      /\ done' = done /\ changed' = changed + 1
  BY DEF ElsewhereChanges
<1>3. \/ Commit(s, Written(scene[s]))
      \/ Commit(s, [scene[s] EXCEPT !.live = @ + 1])
      \/ \E o \in scene[s].ops : Commit(s, Without(scene[s], o))
  BY DEF ElsewhereChanges
<1>4. Committed(s)
  <2>1. CASE Commit(s, Written(scene[s]))
    BY <1>1, <1>2, <2>1, Changed, CommittedIs
  <2>2. CASE Commit(s, [scene[s] EXCEPT !.live = @ + 1])
    <3> DEFINE w == [scene[s] EXCEPT !.live = @ + 1]
    <3>1. w \in SceneTypes /\ w.rev >= scene[s].rev /\ w.live >= scene[s].live
          /\ w.last >= scene[s].last /\ w.ops = scene[s].ops
      BY <1>1, Changed
    <3>2. Commit(s, w)
      BY <2>2
    <3> HIDE DEF w
    <3> QED BY <1>1, <1>2, <3>1, <3>2, CommittedIs
  <2>3. ASSUME NEW o \in scene[s].ops, Commit(s, Without(scene[s], o)) PROVE Committed(s)
    <3> DEFINE w == Without(scene[s], o)
    <3>1. w \in SceneTypes /\ w.rev >= scene[s].rev /\ w.live >= scene[s].live
          /\ w.last >= scene[s].last /\ w.ops = scene[s].ops \ {o}
      BY <1>1, Changed
    <3>2. Commit(s, w)
      BY <2>3
    <3> HIDE DEF w
    <3>3. w.ops \subseteq scene[s].ops
      BY <3>1
    <3> QED BY <1>1, <1>2, <3>1, <3>2, <3>3, CommittedIs
  <2> QED BY <1>3, <2>1, <2>2, <2>3
<1> QED BY <1>2, <1>4 DEF ServerChanges

\* Changes made by a call.
LEMMA PerformIs ==
  ASSUME TypeInv, NEW c \in calls, Perform(c)
  PROVE  ServerChanges(c.space)
<1>1. c.space \in Spaces
  BY DEF TypeInv, CallsOK, CallOK, CallTypes
<1>2. scene \in [Spaces -> SceneTypes] /\ scene[c.space] \in SceneTypes
  BY <1>1 DEF TypeInv
<1>3. /\ UNCHANGED <<bounds, calls, pageVars, panelVars, ghostVars, asked>>
      /\ c.kind \in Changes /\ c.n \notin done /\ done' = done \cup {c.n} /\ changed' = changed
  BY DEF Perform
<1>4. \/ c.kind = "send" /\ Commit(c.space, Written(scene[c.space]))
      \/ c.kind = "delete" /\ Commit(c.space, Without(scene[c.space], c.target))
  BY DEF Perform
<1>5. CASE c.kind = "send" /\ Commit(c.space, Written(scene[c.space]))
  <2>1. Committed(c.space) /\ scene'[c.space] = Written(scene[c.space])
    BY <1>1, <1>2, <1>3, <1>5, Changed, CommittedIs
  <2>2. scene'[c.space].ops = scene[c.space].ops
    BY <1>2, <2>1, Changed
  <2> QED BY <1>1, <1>3, <1>5, <2>1, <2>2 DEF ServerChanges
<1>6. CASE c.kind = "delete" /\ Commit(c.space, Without(scene[c.space], c.target))
  <2> DEFINE w == Without(scene[c.space], c.target)
  <2>4. w \in SceneTypes /\ w.rev >= scene[c.space].rev /\ w.live >= scene[c.space].live
        /\ w.last >= scene[c.space].last /\ w.ops = scene[c.space].ops \ {c.target}
    BY <1>2, Changed
  <2>5. Commit(c.space, w)
    BY <1>6
  <2> HIDE DEF w
  <2>1. Committed(c.space) /\ scene'[c.space] = w
    BY <1>1, <1>2, <1>3, <2>4, <2>5, CommittedIs
  <2>2. scene'[c.space].ops = scene[c.space].ops \ {c.target}
    BY <2>1, <2>4
  <2> QED BY <1>1, <1>3, <1>6, <2>1, <2>2 DEF ServerChanges
<1> QED BY <1>4, <1>5, <1>6

\* The page asks c, the last call there is.
NewCall(c) == CallOK(c) /\ (\A d \in calls : d.n < c.n) /\ calls' = calls \cup {c}

\* The page reads a message.
Takes(m) ==
  /\ line # <<>> /\ m = line[1] /\ line' = Tail(line)
  /\ UNCHANGED <<bounds, serverVars, space, panelVars, asked>>

\* The user asks c.
Asks(c) ==
  /\ NewCall(c)
  /\ UNCHANGED <<bounds, serverVars, line, operator, shown, refreshing, pending, panelVars>>

\* Calls that the user makes.
LEMMA ObserveIs ==
  ASSUME TypeInv, NEW s \in Spaces, ObserveSpace(s)
  PROVE  \E c : /\ Asks(c) /\ c.kind \in {"load", "bare"} /\ c.operator = operator
                /\ c.kind = "bare" => operator = None
                /\ c.space = s /\ space' = s
                /\ tangled' = Tangles(c) /\ disturbed' = disturbed
<1> DEFINE p == Plain(LoadKind, operator)
           c == [p EXCEPT !.space = s]
<1>1. LoadKind \in {"load", "bare"} /\ (LoadKind = "bare" <=> operator = None)
  BY DEF LoadKind
<1>2. LoadKind \in AllKinds
  BY <1>1 DEF AllKinds
<1>3. /\ p \in CallTypes /\ p.kind = LoadKind /\ p.operator = operator
      /\ \A d \in calls : d.n < p.n
  BY <1>2, PlainMade DEF TypeInv
<1>4. space' = s /\ tangled' = Tangles(c) /\ calls' = calls \cup {c} /\ disturbed' = disturbed
  BY DEF ObserveSpace, Load
<1>5. UNCHANGED <<bounds, serverVars, line, operator, shown, refreshing, pending, panelVars>>
  BY DEF ObserveSpace
<1> HIDE DEF p
<1>6. /\ c \in CallTypes /\ c.kind = LoadKind /\ c.operator = operator /\ c.space = s
      /\ c.n = p.n
  BY <1>3 DEF CallTypes
<1> HIDE DEF c
<1>7. CallOK(c)
  BY <1>1, <1>6 DEF CallOK
<1> QED BY <1>1, <1>3, <1>4, <1>5, <1>6, <1>7 DEF Asks, NewCall

\* A selection, a command or a page of history is one more call.
LEMMA SelectIs ==
  ASSUME TypeInv, NEW o \in Operators, SelectOperator(o)
  PROVE  \E c : /\ Asks(c) /\ c.kind = "select" /\ c.operator = o /\ c.space = space
                /\ space' = space /\ tangled' = (tangled \/ Tangles(c))
                /\ disturbed' = disturbed
<1> DEFINE c == Plain("select", o)
<1>1. /\ c \in CallTypes /\ c.kind = "select" /\ c.operator = o /\ c.space = space
      /\ \A d \in calls : d.n < c.n
  BY PlainMade DEF TypeInv, AllKinds
<1>2. calls' = calls \cup {c} /\ tangled' = (tangled \/ Tangles(c))
  BY DEF SelectOperator, Ask
<1>3. /\ UNCHANGED <<bounds, serverVars, line, operator, shown, refreshing, pending, panelVars>>
      /\ space' = space /\ disturbed' = disturbed
  BY DEF SelectOperator, pageVars
<1> HIDE DEF c
<1>4. CallOK(c)
  BY <1>1, ClientAssumption DEF CallOK
<1> QED BY <1>1, <1>2, <1>3, <1>4 DEF Asks, NewCall

LEMMA SendIs ==
  ASSUME TypeInv, Send
  PROVE  \E c : /\ Asks(c) /\ c.kind = "send" /\ c.operator = operator /\ c.space = space
                /\ space' = space /\ tangled' = (tangled \/ Tangles(c))
                /\ disturbed' = disturbed
<1> DEFINE c == Plain("send", operator)
<1>1. /\ c \in CallTypes /\ c.kind = "send" /\ c.operator = operator /\ c.space = space
      /\ \A d \in calls : d.n < c.n
  BY PlainMade DEF TypeInv, AllKinds
<1>2. calls' = calls \cup {c} /\ tangled' = (tangled \/ Tangles(c)) /\ operator # None
  BY DEF Send, Ask
<1>3. /\ UNCHANGED <<bounds, serverVars, line, operator, shown, refreshing, pending, panelVars>>
      /\ space' = space /\ disturbed' = disturbed
  BY DEF Send, pageVars
<1> HIDE DEF c
<1>4. CallOK(c)
  BY <1>1, <1>2 DEF CallOK
<1> QED BY <1>1, <1>2, <1>3, <1>4 DEF Asks, NewCall

LEMMA DeleteIs ==
  ASSUME TypeInv, NEW o \in Operators, DeleteOperator(o)
  PROVE  \E c : /\ Asks(c) /\ c.kind = "delete" /\ c.operator = operator /\ c.space = space
                /\ c.target = o
                /\ space' = space /\ tangled' = (tangled \/ Tangles(c))
                /\ disturbed' = disturbed
<1> DEFINE c == Call("delete", operator, 0, o, None)
<1>1. /\ c \in CallTypes /\ c.kind = "delete" /\ c.operator = operator /\ c.space = space
      /\ c.target = o /\ \A d \in calls : d.n < c.n
  BY CallMade DEF TypeInv, AllKinds
<1>2. calls' = calls \cup {c} /\ tangled' = (tangled \/ Tangles(c))
  BY DEF DeleteOperator, Ask
<1>3. /\ UNCHANGED <<bounds, serverVars, line, operator, shown, refreshing, pending, panelVars>>
      /\ space' = space /\ disturbed' = disturbed
  BY DEF DeleteOperator, pageVars
<1> HIDE DEF c
<1>4. CallOK(c)
  BY <1>1 DEF CallOK
<1> QED BY <1>1, <1>2, <1>3, <1>4 DEF Asks, NewCall

LEMMA EarlierIs ==
  ASSUME TypeInv, NEW path \in {"list", "search"}, LoadEarlier(path)
  PROVE  \E c : /\ Asks(c) /\ c.kind = "history" /\ c.operator = operator /\ c.space = space
                /\ c.target = shown.space /\ shown.ids # <<>> /\ c.before = shown.ids[1]
                /\ shown \in Views
                /\ space' = space /\ tangled' = (tangled \/ Tangles(c))
                /\ disturbed' = (disturbed \/ Kinds({"history"}) # {})
<1> DEFINE c == Call("history", operator, Head(shown.ids), shown.space, path)
<1>1. /\ calls' = calls \cup {c} /\ tangled' = (tangled \/ Tangles(c))
      /\ operator # None /\ shown.ids # <<>> /\ shown.more
      /\ disturbed' = (disturbed \/ Kinds({"history"}) # {})
  BY DEF LoadEarlier, Ask
<1>2. /\ UNCHANGED <<bounds, serverVars, line, operator, shown, refreshing, pending, panelVars>>
      /\ space' = space
  BY DEF LoadEarlier, pageVars
<1>3. shown \in Views
  BY <1>1 DEF TypeInv, ShownOK, Blank
<1>4. shown.space \in Spaces /\ shown.ids \in Seq(Nat \ {0})
  BY <1>3 DEF Views
<1>5. Head(shown.ids) = shown.ids[1] /\ shown.ids[1] \in Nat \ {0}
  BY <1>1, <1>4
<1>6. /\ c \in CallTypes /\ c.kind = "history" /\ c.operator = operator /\ c.space = space
      /\ c.target = shown.space /\ c.before = shown.ids[1] /\ \A d \in calls : d.n < c.n
  <2> DEFINE first == Head(shown.ids)
             from  == shown.space
  <2>1. /\ first \in Nat /\ from \in Operators \cup Spaces \cup {None}
        /\ path \in {None, "list", "search"} /\ "history" \in AllKinds
        /\ CallsOK /\ space \in Spaces /\ operator \in Operators \cup {None}
    BY <1>4, <1>5 DEF TypeInv, AllKinds
  <2>2. c = Call("history", operator, first, from, path)
    OBVIOUS
  <2>3. first = shown.ids[1] /\ from = shown.space
    BY <1>5
  <2> HIDE DEF first, from
  <2> DEFINE e == Call("history", operator, first, from, path)
  <2>4. /\ e \in CallTypes /\ e.kind = "history" /\ e.operator = operator /\ e.space = space
        /\ e.target = from /\ e.before = first /\ \A d \in calls : d.n < e.n
    BY <2>1, CallMade
  <2> HIDE DEF e
  <2>5. c = e
    BY <2>2 DEF e
  <2> HIDE DEF c
  <2> QED BY <2>3, <2>4, <2>5
<1> HIDE DEF c
<1>7. CallOK(c)
  BY <1>1, <1>5, <1>6 DEF CallOK
<1> QED BY <1>1, <1>2, <1>3, <1>6, <1>7 DEF Asks, NewCall

\* A workspace v arrives, and o is who the page was about to act as.
Shows(v, o) ==
  /\ v \in Views
  /\ shown' = v /\ operator' = Resolved(v.ops, o)
  /\ disturbed' = (Kinds({"history"}) # {})

\* The page asks for the workspace again.
AsksAgain(kind, o) ==
  \E c : /\ NewCall(c) /\ c.kind = kind /\ c.operator = o /\ c.space = space
         /\ calls' # calls /\ c = Plain(kind, o)

\* What the page does with each kind of answer it receives.
LEMMA AsksAgainIs ==
  ASSUME TypeInv, NEW kind \in {"bare", "refresh", "reread"}, NEW o \in Operators \cup {None},
         kind = "reread" => o # None, calls' = calls \cup {Plain(kind, o)}
  PROVE  AsksAgain(kind, o)
<1> DEFINE c == Plain(kind, o)
<1>1. kind \in AllKinds
  BY DEF AllKinds
<1>2. /\ c \in CallTypes /\ c.kind = kind /\ c.operator = o /\ c.space = space
      /\ \A d \in calls : d.n < c.n
  BY <1>1, PlainMade DEF TypeInv
<1>3. c = Plain(kind, o) /\ calls' = calls \cup {c}
  OBVIOUS
<1> HIDE DEF c
<1>4. CallOK(c)
  BY <1>2 DEF CallOK
<1>5. c \notin calls
  <2>1. ~(c.n < c.n)
    BY <1>2 DEF CallTypes
  <2> QED BY <1>2, <2>1
<1> QED BY <1>2, <1>3, <1>4, <1>5 DEF AsksAgain, NewCall

\* The first message, when it answers a call of K.
LEMMA AnsweredIs ==
  ASSUME TypeInv, NEW K, Answered(K)
  PROVE  /\ line # <<>> /\ line' = Tail(line) /\ AnswerAt(line, 1) /\ Head(line) = line[1]
         /\ line[1].call.kind \in K /\ AnswerOK(line[1].call, line[1].result)
         /\ line[1].call.operator \in Operators \cup {None} /\ line[1].call.space \in Spaces
         /\ line[1].result.ok /\ line[1].call.kind # "history" =>
              OkAt(line, 1) /\ line[1].result.view \in Views
<1>1. line # <<>> /\ line' = Tail(line) /\ Head(line).kind = "answer" /\ Head(line).call.kind \in K
  BY DEF Answered, Arrives
<1>2. Head(line) = line[1] /\ Len(line) \in Nat \ {0}
  BY <1>1, TailIs DEF TypeInv, LineOK
<1>3. AnswerAt(line, 1)
  BY <1>1, <1>2 DEF AnswerAt
<1>4. AnswerOK(line[1].call, line[1].result)
  BY <1>3 DEF TypeInv, LineOK, AnswerAt
<1>5. CallOK(line[1].call)
  BY <1>4 DEF AnswerOK
<1>6. line[1].call \in CallTypes
  BY <1>5 DEF CallOK
<1>7. line[1].call.operator \in Operators \cup {None} /\ line[1].call.space \in Spaces
  BY <1>6 DEF CallTypes
<1>8. line[1].result.ok /\ line[1].call.kind # "history" =>
        OkAt(line, 1) /\ line[1].result.view \in Views
  BY <1>3, <1>4 DEF OkAt, AnswerOK
<1> QED BY <1>1, <1>2, <1>3, <1>4, <1>7, <1>8

LEMMA MutatedIs ==
  ASSUME TypeInv, ReceiveMutated
  PROVE  /\ Takes(line[1]) /\ line[1].kind = "mutated" /\ line[1].space \in Spaces
         /\ UNCHANGED <<operator, shown, disturbed>>
         /\ line[1].space # space => UNCHANGED <<refreshing, pending, calls, tangled>>
         /\ line[1].space = space /\ refreshing =>
              pending' = TRUE /\ UNCHANGED <<refreshing, calls, tangled>>
         /\ line[1].space = space /\ ~refreshing =>
              /\ refreshing' = TRUE /\ pending' = FALSE
              /\ AsksAgain("refresh", operator)
              /\ tangled' = (tangled \/ Tangles(Plain("refresh", operator)))
<1>1. line # <<>> /\ line' = Tail(line) /\ Head(line).kind = "mutated"
  BY DEF ReceiveMutated, Arrives
<1>2. Head(line) = line[1] /\ line[1] \in Messages
  BY <1>1, TailIs DEF TypeInv, LineOK
<1>3. line[1].space \in Spaces
  BY <1>1, <1>2 DEF Messages
<1>4. /\ UNCHANGED <<bounds, serverVars, space, panelVars, asked>>
      /\ UNCHANGED <<operator, shown, disturbed>>
  BY DEF ReceiveMutated
<1>5. Takes(line[1])
  BY <1>1, <1>4 DEF Takes
<1>6. /\ line[1].space # space => UNCHANGED <<refreshing, pending, calls, tangled>>
      /\ line[1].space = space /\ refreshing =>
              pending' = TRUE /\ UNCHANGED <<refreshing, calls, tangled>>
      /\ line[1].space = space /\ ~refreshing => Refresh(operator)
  BY <1>2 DEF ReceiveMutated
<1>7. ASSUME Refresh(operator)
      PROVE  /\ refreshing' = TRUE /\ pending' = FALSE
             /\ AsksAgain("refresh", operator)
             /\ tangled' = (tangled \/ Tangles(Plain("refresh", operator)))
  <2>1. /\ refreshing' = TRUE /\ pending' = FALSE
        /\ calls' = calls \cup {Plain("refresh", operator)}
        /\ tangled' = (tangled \/ Tangles(Plain("refresh", operator)))
    BY <1>7 DEF Refresh, Ask
  <2>2. operator \in Operators \cup {None}
    BY DEF TypeInv
  <2> QED BY <2>1, <2>2, AsksAgainIs
<1> QED BY <1>1, <1>2, <1>3, <1>4, <1>5, <1>6, <1>7

LEMMA RefreshIs ==
  ASSUME TypeInv, ReceiveRefresh
  PROVE  LET c == line[1].call
             r == line[1].result
         IN  /\ Takes(line[1]) /\ AnswerAt(line, 1) /\ c.kind = "refresh"
             /\ r.ok /\ r.view.rev >= shown.rev => Shows(r.view, operator) /\ OkAt(line, 1)
             /\ ~(r.ok /\ r.view.rev >= shown.rev) => UNCHANGED <<operator, shown, disturbed>>
             /\ pending => /\ refreshing' = TRUE /\ pending' = FALSE
                           /\ AsksAgain("refresh", operator')
                           /\ tangled' = (tangled \/ Tangles(Plain("refresh", operator')))
             /\ ~pending => refreshing' = FALSE /\ UNCHANGED <<pending, calls, tangled>>
<1> DEFINE r == line[1].result
<1>1. Answered({"refresh"})
  BY DEF ReceiveRefresh
<1>2. /\ line # <<>> /\ line' = Tail(line) /\ AnswerAt(line, 1) /\ Head(line) = line[1]
      /\ line[1].call.kind = "refresh"
      /\ r.ok => OkAt(line, 1) /\ r.view \in Views
  BY <1>1, AnsweredIs
<1>3. Takes(line[1])
  BY <1>2 DEF Takes, ReceiveRefresh
<1>4. /\ IF r.ok /\ r.view.rev >= shown.rev THEN Replace(r.view) ELSE Keep
      /\ IF pending THEN Refresh(operator')
         ELSE refreshing' = FALSE /\ UNCHANGED <<pending, calls, tangled>>
  BY <1>2 DEF ReceiveRefresh
<1>5. r.ok /\ r.view.rev >= shown.rev => Shows(r.view, operator) /\ OkAt(line, 1)
  BY <1>2, <1>4 DEF Replace, Shows
<1>6. ~(r.ok /\ r.view.rev >= shown.rev) => UNCHANGED <<operator, shown, disturbed>>
  BY <1>4 DEF Keep
<1>7. operator' \in Operators \cup {None}
  <2>1. operator \in Operators \cup {None}
    BY DEF TypeInv
  <2>2. ASSUME Shows(r.view, operator) PROVE operator' \in Operators \cup {None}
    BY <2>1, <2>2, ShowView DEF Shows
  <2> QED BY <1>5, <1>6, <2>1, <2>2
<1>8. ASSUME pending
      PROVE  /\ refreshing' = TRUE /\ pending' = FALSE
             /\ AsksAgain("refresh", operator')
             /\ tangled' = (tangled \/ Tangles(Plain("refresh", operator')))
  <2>1. /\ refreshing' = TRUE /\ pending' = FALSE
        /\ calls' = calls \cup {Plain("refresh", operator')}
        /\ tangled' = (tangled \/ Tangles(Plain("refresh", operator')))
    BY <1>4, <1>8 DEF Refresh, Ask
  <2> DEFINE o == operator'
  <2>2. o \in Operators \cup {None} /\ calls' = calls \cup {Plain("refresh", o)}
    BY <1>7, <2>1
  <2> HIDE DEF o
  <2>3. AsksAgain("refresh", o)
    BY <2>2, AsksAgainIs
  <2> QED BY <2>1, <2>3 DEF o
<1> QED BY <1>2, <1>3, <1>4, <1>5, <1>6, <1>8

LEMMA LoadIs ==
  ASSUME TypeInv, ReceiveLoad
  PROVE  LET c == line[1].call
             r == line[1].result
         IN  /\ Takes(line[1]) /\ AnswerAt(line, 1) /\ c.kind \in {"load", "bare"}
             /\ UNCHANGED <<refreshing, pending>>
             /\ r.ok => Shows(r.view, c.operator) /\ OkAt(line, 1) /\ UNCHANGED <<calls, tangled>>
             /\ ~r.ok => /\ c.kind = "load"
                         /\ AsksAgain("bare", c.operator)
                         /\ UNCHANGED <<operator, shown, disturbed>>
                         /\ tangled' = (tangled \/ c.space # space
                                                \/ Tangles(Plain("bare", c.operator)))
<1> DEFINE r == line[1].result
           c == line[1].call
<1>1. Answered({"load", "bare"})
  BY DEF ReceiveLoad
<1>2. /\ line # <<>> /\ line' = Tail(line) /\ AnswerAt(line, 1) /\ Head(line) = line[1]
      /\ c.kind \in {"load", "bare"} /\ AnswerOK(c, r) /\ c.operator \in Operators \cup {None}
      /\ r.ok => OkAt(line, 1) /\ r.view \in Views
  BY <1>1, AnsweredIs
<1>3. Takes(line[1]) /\ UNCHANGED <<refreshing, pending>>
  BY <1>2 DEF Takes, ReceiveLoad
<1>4. IF r.ok
      THEN /\ shown' = r.view
           /\ operator' = Resolved(r.view.ops, c.operator)
           /\ disturbed' = (Kinds({"history"}) # {})
           /\ UNCHANGED <<calls, tangled>>
      ELSE /\ calls' = calls \cup {Plain("bare", c.operator)} /\ Keep
           /\ tangled' = (tangled \/ c.space # space \/ Tangles(Plain("bare", c.operator)))
  BY <1>2 DEF ReceiveLoad
<1>5. r.ok => Shows(r.view, c.operator) /\ OkAt(line, 1) /\ UNCHANGED <<calls, tangled>>
  BY <1>2, <1>4 DEF Shows
<1>6. ~r.ok => c.kind = "load"
  BY <1>2 DEF AnswerOK
<1>7. ASSUME ~r.ok
      PROVE  /\ AsksAgain("bare", c.operator)
             /\ UNCHANGED <<operator, shown, disturbed>>
             /\ tangled' = (tangled \/ c.space # space \/ Tangles(Plain("bare", c.operator)))
  <2>1. calls' = calls \cup {Plain("bare", c.operator)}
    BY <1>4, <1>7
  <2>2. AsksAgain("bare", c.operator)
    BY <1>2, <2>1, AsksAgainIs
  <2> QED BY <1>4, <1>7, <2>2 DEF Keep
<1> QED BY <1>2, <1>3, <1>5, <1>6, <1>7

LEMMA SelectedIs ==
  ASSUME TypeInv, ReceiveSelect
  PROVE  LET c == line[1].call
             r == line[1].result
         IN  /\ Takes(line[1]) /\ AnswerAt(line, 1) /\ c.kind = "select"
             /\ UNCHANGED <<calls, refreshing, pending, tangled>>
             /\ r.ok => Shows(r.view, c.operator) /\ OkAt(line, 1) /\ operator' = c.operator
             /\ ~r.ok => UNCHANGED <<operator, shown, disturbed>>
<1> DEFINE r == line[1].result
           c == line[1].call
<1>1. Answered({"select"})
  BY DEF ReceiveSelect
<1>2. /\ line # <<>> /\ line' = Tail(line) /\ AnswerAt(line, 1) /\ Head(line) = line[1]
      /\ c.kind = "select" /\ AnswerOK(c, r) /\ c.operator \in Operators \cup {None}
      /\ r.ok => OkAt(line, 1) /\ r.view \in Views
  BY <1>1, AnsweredIs
<1>3. Takes(line[1]) /\ UNCHANGED <<calls, refreshing, pending, tangled>>
  BY <1>2 DEF Takes, ReceiveSelect
<1>4. IF r.ok
      THEN /\ shown' = r.view /\ operator' = c.operator
           /\ disturbed' = (Kinds({"history"}) # {})
      ELSE Keep
  BY <1>2 DEF ReceiveSelect
<1>5. r.ok => Resolved(r.view.ops, c.operator) = c.operator
  BY <1>2 DEF AnswerOK, NamesOperator, CallOK, Resolved
<1>6. r.ok => Shows(r.view, c.operator) /\ OkAt(line, 1) /\ operator' = c.operator
  BY <1>2, <1>4, <1>5 DEF Shows
<1> QED BY <1>2, <1>3, <1>4, <1>6 DEF Keep

LEMMA DeletedIs ==
  ASSUME TypeInv, ReceiveDelete
  PROVE  LET c == line[1].call
             r == line[1].result
         IN  /\ Takes(line[1]) /\ AnswerAt(line, 1) /\ c.kind = "delete"
             /\ UNCHANGED <<refreshing, pending>>
             /\ ~r.ok => UNCHANGED <<operator, shown, disturbed, calls, tangled>>
             /\ r.ok /\ c.operator \in {None, c.target} =>
                  Shows(r.view, operator) /\ OkAt(line, 1) /\ UNCHANGED <<calls, tangled>>
             /\ r.ok /\ c.operator \notin {None, c.target} =>
                  /\ AsksAgain("reread", c.operator)
                  /\ UNCHANGED <<operator, shown, disturbed>>
                  /\ tangled' = (tangled \/ c.operator # operator
                                         \/ Tangles(Plain("reread", c.operator)))
<1> DEFINE r == line[1].result
           c == line[1].call
<1>1. Answered({"delete"})
  BY DEF ReceiveDelete
<1>2. /\ line # <<>> /\ line' = Tail(line) /\ AnswerAt(line, 1) /\ Head(line) = line[1]
      /\ c.kind = "delete" /\ AnswerOK(c, r) /\ c.operator \in Operators \cup {None}
      /\ r.ok => OkAt(line, 1) /\ r.view \in Views
  BY <1>1, AnsweredIs
<1>3. Takes(line[1]) /\ UNCHANGED <<refreshing, pending>>
  BY <1>2 DEF Takes, ReceiveDelete
<1>4. /\ ~r.ok => Keep /\ UNCHANGED <<calls, tangled>>
      /\ r.ok /\ c.operator \in {None, c.target} => Replace(r.view) /\ UNCHANGED <<calls, tangled>>
      /\ r.ok /\ c.operator \notin {None, c.target} =>
           /\ calls' = calls \cup {Plain("reread", c.operator)} /\ Keep
           /\ tangled' = (tangled \/ c.operator # operator
                                  \/ Tangles(Plain("reread", c.operator)))
  BY <1>2 DEF ReceiveDelete
<1>5. r.ok /\ c.operator \in {None, c.target} =>
        Shows(r.view, operator) /\ OkAt(line, 1) /\ UNCHANGED <<calls, tangled>>
  BY <1>2, <1>4 DEF Replace, Shows
<1>6. ASSUME r.ok, c.operator \notin {None, c.target}
      PROVE  AsksAgain("reread", c.operator)
  <2>1. calls' = calls \cup {Plain("reread", c.operator)} /\ c.operator # None
    BY <1>4, <1>6
  <2> QED BY <1>2, <2>1, AsksAgainIs
<1> QED BY <1>2, <1>3, <1>4, <1>5, <1>6 DEF Keep

LEMMA WorkspaceIs ==
  ASSUME TypeInv, ReceiveWorkspace
  PROVE  LET c == line[1].call
             r == line[1].result
         IN  /\ Takes(line[1]) /\ AnswerAt(line, 1) /\ c.kind \in {"send", "reread"}
             /\ UNCHANGED <<calls, refreshing, pending, tangled>>
             /\ r.ok => Shows(r.view, operator) /\ OkAt(line, 1)
             /\ ~r.ok => UNCHANGED <<operator, shown, disturbed>>
<1> DEFINE r == line[1].result
           c == line[1].call
<1>1. Answered({"send", "reread"})
  BY DEF ReceiveWorkspace
<1>2. /\ line # <<>> /\ line' = Tail(line) /\ AnswerAt(line, 1) /\ Head(line) = line[1]
      /\ c.kind \in {"send", "reread"}
      /\ r.ok => OkAt(line, 1) /\ r.view \in Views
  BY <1>1, AnsweredIs
<1>3. Takes(line[1]) /\ UNCHANGED <<calls, refreshing, pending, tangled>>
  BY <1>2 DEF Takes, ReceiveWorkspace
<1>4. IF r.ok THEN Replace(r.view) ELSE Keep
  BY <1>2 DEF ReceiveWorkspace
<1> QED BY <1>2, <1>3, <1>4 DEF Replace, Shows, Keep

LEMMA HistoryIs ==
  ASSUME TypeInv, ReceiveHistory
  PROVE  LET c == line[1].call
             r == line[1].result
         IN  /\ Takes(line[1]) /\ AnswerAt(line, 1) /\ c.kind = "history"
             /\ UNCHANGED <<calls, refreshing, pending, tangled, operator, disturbed>>
             /\ r.ok /\ c.space = shown.space =>
                  /\ shown \in Views /\ r.page = HistoryPage(c.before) /\ c.target = c.space
                  /\ c.before \in Nat \ {0}
                  /\ shown' = [shown EXCEPT !.ids = r.page.ids \o @, !.more = r.page.more]
                  /\ shown' \in Views
             /\ ~(r.ok /\ c.space = shown.space) => shown' = shown
<1> DEFINE r == line[1].result
           c == line[1].call
<1>1. Answered({"history"})
  BY DEF ReceiveHistory
<1>2. /\ line # <<>> /\ line' = Tail(line) /\ AnswerAt(line, 1) /\ Head(line) = line[1]
      /\ c.kind = "history" /\ AnswerOK(c, r) /\ c.space \in Spaces
  BY <1>1, AnsweredIs
<1>3. Takes(line[1]) /\ UNCHANGED <<calls, refreshing, pending, tangled>>
  BY <1>2 DEF Takes, ReceiveHistory
<1>4. IF r.ok /\ c.space = shown.space
      THEN /\ shown' = [shown EXCEPT !.ids = r.page.ids \o @, !.more = r.page.more]
           /\ operator' = Resolved(shown.ops, operator)
           /\ UNCHANGED disturbed
      ELSE Keep
  BY <1>2 DEF ReceiveHistory
<1>5. ASSUME r.ok, c.space = shown.space
      PROVE  /\ shown \in Views /\ r.page = HistoryPage(c.before) /\ c.target = c.space
             /\ c.before \in Nat \ {0} /\ operator' = operator
             /\ shown' \in Views
  <2>1. shown \in Views
    BY <1>2, <1>5, ClientAssumption DEF TypeInv, ShownOK, Blank
  <2>2. r.page = HistoryPage(c.before) /\ c.target = c.space
    BY <1>2, <1>5 DEF AnswerOK
  <2>3. c.before \in Nat \ {0}
    BY <1>2 DEF AnswerOK, CallOK, CallTypes
  <2>4. r.page.ids \in Seq(Nat \ {0}) /\ r.page.more \in BOOLEAN
    BY <2>2, <2>3, PageIs DEF Pages
  <2>5. shown.ids \in Seq(Nat \ {0}) /\ shown.ops \in SUBSET Operators /\ shown # Blank
    BY <1>2, <1>5, <2>1, ClientAssumption DEF Views, Blank
  <2>6. operator' = operator
    <3>1. operator \in shown.ops \/ (operator = None /\ shown.ops = {})
      BY <2>5 DEF TypeInv, ShownOK
    <3>2. operator' = Resolved(shown.ops, operator)
      BY <1>4, <1>5
    <3>3. First({}) = None
      BY DEF First
    <3> QED BY <3>1, <3>2, <3>3 DEF Resolved
  <2> DEFINE ids == r.page.ids \o shown.ids
             more == r.page.more
  <2>7. ids \in Seq(Nat \ {0}) /\ more \in BOOLEAN
    BY <2>4, <2>5
  <2>8. shown' = [shown EXCEPT !.ids = ids, !.more = more]
    BY <1>4, <1>5
  <2> HIDE DEF ids, more
  <2>9. shown' \in Views
    BY <2>1, <2>7, <2>8 DEF Views
  <2> QED BY <2>1, <2>2, <2>3, <2>6, <2>9
<1> QED BY <1>2, <1>3, <1>4, <1>5 DEF Keep

\* The answer of the server to c.
LEMMA AnswerIs ==
  ASSUME TypeInv, NEW c \in calls, Answer(c)
  PROVE  \E r \in Results :
           /\ AnswerOK(c, r) /\ MayAnswer(c)
           /\ calls' = calls \ {c} /\ done' = done \ {c.n}
           /\ line' = Append(line, [kind |-> "answer", call |-> c, result |-> r])
           /\ [kind |-> "answer", call |-> c, result |-> r] \in Messages
           /\ UNCHANGED <<bounds, scene, changed, pageVars, panelVars, asked, ghostVars>>
           /\ Refused(c) => r = Failure /\ ~r.ok
           /\ ~Refused(c) => r = Result(c)
<1> DEFINE r == IF Refused(c) THEN Failure ELSE Result(c)
<1>1. CallOK(c) /\ c \in CallTypes
  BY DEF TypeInv, CallsOK, CallOK
<1>2. Refused(c) => c.kind # "bare"
  BY DEF Refused, Changes
<1>3. AnswerOK(c, r) /\ r \in Results
  BY <1>1, <1>2, ResultIs, FailureIs DEF TypeInv
<1>4. /\ MayAnswer(c) /\ calls' = calls \ {c} /\ done' = done \ {c.n}
      /\ line' = Append(line, [kind |-> "answer", call |-> c, result |-> r])
      /\ UNCHANGED <<bounds, scene, changed, pageVars, panelVars, asked, ghostVars>>
  BY DEF Answer
<1>5. Refused(c) => r = Failure /\ ~r.ok
  BY DEF Failure
<1>6. ~Refused(c) => r = Result(c)
  OBVIOUS
<1> HIDE DEF r
<1>7. [kind |-> "answer", call |-> c, result |-> r] \in Messages
  BY <1>1, <1>3 DEF Messages
<1> QED BY <1>3, <1>4, <1>5, <1>6, <1>7

LEMMA MutatedMessage ==
  ASSUME NEW s \in Spaces
  PROVE  Mutated(s) \in Messages /\ Mutated(s).kind = "mutated" /\ Mutated(s).space = s
  BY DEF Mutated, Messages

-----------------------------------------------------------------------------
(* The types are kept *)

\* The calls of the page, after it has asked or not.
LEMMA CallsAfter ==
  ASSUME CallsOK, calls' = calls \/ (\E c : NewCall(c)), done' = done, scene' = scene
  PROVE  CallsOK'
<1>1. ASSUME calls' = calls PROVE CallsOK'
  BY <1>1 DEF CallsOK
<1>2. ASSUME NEW c, NewCall(c) PROVE CallsOK'
  BY <1>2, CallsGrow DEF NewCall
<1> QED BY <1>1, <1>2

LEMMA InitTypes ==
  ASSUME Init
  PROVE  TypeInv
<1> DEFINE c == [n |-> 1, kind |-> IF operator = None THEN "bare" ELSE "load", space |-> Main,
                 operator |-> operator, before |-> 0, target |-> None, path |-> None]
<1>1. calls = {c} /\ done = {} /\ line = <<>> /\ shown = Blank
  BY DEF Init
<1>2. operator \in Operators \cup {None} /\ Main \in Spaces
  BY ClientAssumption DEF Init
<1>3. c \in CallTypes /\ c.n = 1 /\ c.kind = (IF operator = None THEN "bare" ELSE "load")
      /\ c.operator = operator
  BY <1>2 DEF CallTypes, AllKinds
<1> HIDE DEF c
<1>4. CallOK(c)
  BY <1>3 DEF CallOK
<1>5. CallsOK
  BY <1>1, <1>3, <1>4 DEF CallsOK
<1>6. LineOK
  BY <1>1 DEF LineOK, AnswerAt
<1>7. scene \in [Spaces -> SceneTypes]
  BY ClientAssumption DEF Init, SceneTypes
<1> QED BY <1>1, <1>2, <1>5, <1>6, <1>7 DEF Init, TypeInv, ShownOK

\* A message that is read, with a workspace shown or not.
LEMMA TypesAfterTaking ==
  ASSUME TypeInv, NEW m, Takes(m), calls' = calls \/ (\E c : NewCall(c)),
         (shown' = shown /\ operator' = operator)
           \/ (\E v \in Views, o \in Operators \cup {None} : Shows(v, o))
           \/ (shown' \in Views /\ shown \in Views /\ shown'.ops = shown.ops
                 /\ operator' = operator),
         refreshing' \in BOOLEAN, pending' \in BOOLEAN, tangled' \in BOOLEAN,
         disturbed' \in BOOLEAN
  PROVE  TypeInv'
<1>1. /\ UNCHANGED <<bounds, scene, done, changed, space, panelRead, cleared>>
      /\ line # <<>> /\ line' = Tail(line)
  BY DEF Takes, serverVars, panelVars
<1>2. LineOK'
  BY <1>1, LineRead DEF TypeInv
<1>3. CallsOK'
  BY <1>1, CallsAfter DEF TypeInv
<1>4. ShownOK' /\ operator' \in Operators \cup {None}
  <2>1. CASE shown' = shown /\ operator' = operator
    BY <2>1 DEF TypeInv, ShownOK
  <2>2. ASSUME NEW v \in Views, NEW o \in Operators \cup {None}, Shows(v, o)
        PROVE  ShownOK' /\ operator' \in Operators \cup {None}
    BY <2>2, ShowView DEF Shows
  <2>3. CASE shown' \in Views /\ shown \in Views /\ shown'.ops = shown.ops /\ operator' = operator
    <3>1. shown # Blank
      BY <2>3, ClientAssumption DEF Views, Blank
    <3> QED BY <2>3, <3>1 DEF TypeInv, ShownOK
  <2> QED BY <2>1, <2>2, <2>3
<1> QED BY <1>1, <1>2, <1>3, <1>4 DEF TypeInv

\* A call of the user keeps the types.
LEMMA TypesAfterAsking ==
  ASSUME TypeInv, NEW c, Asks(c), space' \in Spaces, tangled' \in BOOLEAN,
         disturbed' \in BOOLEAN
  PROVE  TypeInv'
<1>1. UNCHANGED <<bounds, scene, done, line, operator, shown, refreshing, pending, panelRead,
                  cleared>>
  BY DEF Asks, serverVars, panelVars
<1>2. CallsOK'
  BY <1>1, CallsAfter DEF TypeInv, Asks
<1>3. LineOK' /\ ShownOK'
  BY <1>1 DEF TypeInv, LineOK, ShownOK, AnswerAt
<1> QED BY <1>1, <1>2, <1>3 DEF TypeInv

\* So does a change of a scene.
LEMMA TypesAfterChange ==
  ASSUME TypeInv, NEW s, ServerChanges(s)
  PROVE  TypeInv'
<1>1. s \in Spaces /\ Committed(s)
  BY DEF ServerChanges
<1>2. /\ UNCHANGED <<bounds, calls, space, operator, shown, refreshing, pending, panelRead,
                     cleared, tangled, disturbed>>
      /\ scene' \in [Spaces -> SceneTypes]
  BY <1>1 DEF Committed, pageVars, panelVars, ghostVars
<1>3. LineOK'
  BY <1>1, LineSent, MutatedMessage DEF TypeInv, Committed
<1>4. ShownOK'
  BY <1>2 DEF TypeInv, ShownOK
<1>5. \A t \in Spaces : scene'[t].ops \subseteq scene[t].ops
  BY <1>1 DEF Committed
<1>6. \A c \in calls : CallOK(c) /\ c.space \in Spaces
  BY DEF TypeInv, CallsOK, CallOK, CallTypes
<1>7. /\ \A n \in done' : \E c \in calls : c.n = n /\ c.kind \in Changes
      /\ \A c \in calls : c.kind = "delete" /\ c.n \in done' => c.target \notin scene'[c.space].ops
  <2>1. CASE done' = done
    BY <1>5, <1>6, <2>1 DEF TypeInv, CallsOK
  <2>2. ASSUME NEW c \in calls, c.kind \in Changes, done' = done \cup {c.n}, c.space = s,
               c.kind = "delete" => scene'[s].ops = scene[s].ops \ {c.target}
        PROVE  /\ \A n \in done' : \E d \in calls : d.n = n /\ d.kind \in Changes
               /\ \A d \in calls : d.kind = "delete" /\ d.n \in done'
                                     => d.target \notin scene'[d.space].ops
    <3>1. \A n \in done' : \E d \in calls : d.n = n /\ d.kind \in Changes
      BY <2>2 DEF TypeInv, CallsOK
    <3>2. ASSUME NEW d \in calls, d.kind = "delete", d.n \in done'
          PROVE  d.target \notin scene'[d.space].ops
      <4>1. CASE d.n \in done
        BY <1>5, <1>6, <3>2, <4>1 DEF TypeInv, CallsOK
      <4>2. CASE d.n = c.n
        <5>1. d = c
          BY <4>2 DEF TypeInv, CallsOK
        <5> QED BY <2>2, <3>2, <5>1
      <4> QED BY <2>2, <3>2, <4>1, <4>2
    <3> QED BY <3>1, <3>2
  <2> QED BY <2>1, <2>2 DEF ServerChanges
<1>8. CallsOK'
  BY <1>2, <1>7 DEF TypeInv, CallsOK
<1> QED BY <1>2, <1>3, <1>4, <1>8 DEF TypeInv

\* So does an answer.
LEMMA TypesAfterAnswer ==
  ASSUME TypeInv, NEW c \in calls, Answer(c)
  PROVE  TypeInv'
<1>1. PICK r \in Results :
           /\ AnswerOK(c, r)
           /\ calls' = calls \ {c} /\ done' = done \ {c.n}
           /\ line' = Append(line, [kind |-> "answer", call |-> c, result |-> r])
           /\ [kind |-> "answer", call |-> c, result |-> r] \in Messages
           /\ UNCHANGED <<bounds, scene, changed, pageVars, panelVars, asked, ghostVars>>
  BY AnswerIs
<1>2. UNCHANGED <<bounds, scene, space, operator, shown, refreshing, pending, panelRead,
                  cleared, tangled, disturbed>>
  BY <1>1 DEF pageVars, panelVars, ghostVars
<1>3. LineOK'
  BY <1>1, LineSent DEF TypeInv
<1>4. ShownOK'
  BY <1>2 DEF TypeInv, ShownOK
<1>5. \A n \in done' : \E d \in calls' : d.n = n /\ d.kind \in Changes
  BY <1>1 DEF TypeInv, CallsOK
<1>6. CallsOK'
  BY <1>1, <1>2, <1>5 DEF TypeInv, CallsOK
<1> QED BY <1>2, <1>3, <1>4, <1>6 DEF TypeInv

\* Steps of the panel touch nothing else.
LEMMA PanelIs ==
  ASSUME TypeInv, Panel
  PROVE  /\ UNCHANGED <<bounds, serverVars, calls, line, pageVars, asked, ghostVars>>
         /\ panelRead' \in Nat /\ cleared' \in Nat
<1>1. panelRead \in Nat /\ cleared \in Nat
  BY DEF TypeInv
<1>2. ASSUME NEW q \in Queries, LoadTrajectory(q)
      PROVE  /\ UNCHANGED <<bounds, serverVars, calls, line, pageVars, asked, ghostVars>>
             /\ panelRead' \in Nat /\ cleared' \in Nat
  BY <1>1, <1>2 DEF LoadTrajectory
<1>3. ASSUME NEW r \in reads, TrajectoryRead(r)
      PROVE  /\ UNCHANGED <<bounds, serverVars, calls, line, pageVars, asked, ghostVars>>
             /\ panelRead' \in Nat /\ cleared' \in Nat
  BY <1>1, <1>3 DEF TrajectoryRead
<1>4. ASSUME NEW r \in reads, RecordsCleared(r)
      PROVE  /\ UNCHANGED <<bounds, serverVars, calls, line, pageVars, asked, ghostVars>>
             /\ panelRead' \in Nat /\ cleared' \in Nat
  BY <1>1, <1>4 DEF RecordsCleared
<1>5. CASE ClearRecords
  BY <1>1, <1>5 DEF ClearRecords
<1> QED BY <1>2, <1>3, <1>4, <1>5 DEF Panel

\* Every step keeps the types.
LEMMA TypesKept ==
  ASSUME TypeInv, [Next]_vars
  PROVE  TypeInv'
<1>1. CASE UNCHANGED <<bounds, serverVars, calls, line, pageVars, asked, ghostVars>>
           /\ panelRead' \in Nat /\ cleared' \in Nat
  BY <1>1 DEF TypeInv, CallsOK, LineOK, ShownOK, AnswerAt, serverVars, pageVars, ghostVars
<1>2. CASE UNCHANGED vars
  BY <1>2 DEF vars, panelVars, TypeInv, CallsOK, LineOK, ShownOK, AnswerAt, serverVars, pageVars,
              ghostVars
<1>3. CASE Server
  <2>1. ASSUME NEW s \in Spaces, ElsewhereChanges(s) PROVE TypeInv'
    BY <2>1, ElsewhereIs, TypesAfterChange
  <2>2. ASSUME NEW c \in calls, Perform(c) PROVE TypeInv'
    BY <2>2, PerformIs, TypesAfterChange
  <2>3. ASSUME NEW c \in calls, Answer(c) PROVE TypeInv'
    BY <2>3, TypesAfterAnswer
  <2> QED BY <1>3, <2>1, <2>2, <2>3 DEF Server
<1>4. CASE User
  <2>1. tangled \in BOOLEAN /\ disturbed \in BOOLEAN /\ space \in Spaces
    BY DEF TypeInv
  <2>2. \A c : Tangles(c) \in BOOLEAN
    BY DEF Tangles
  <2>3. ASSUME NEW s \in Spaces, ObserveSpace(s) PROVE TypeInv'
    BY <2>1, <2>2, <2>3, ObserveIs, TypesAfterAsking
  <2>4. ASSUME NEW o \in Operators, SelectOperator(o) PROVE TypeInv'
    BY <2>1, <2>2, <2>4, SelectIs, TypesAfterAsking
  <2>5. ASSUME NEW o \in Operators, DeleteOperator(o) PROVE TypeInv'
    BY <2>1, <2>2, <2>5, DeleteIs, TypesAfterAsking
  <2>6. CASE Send
    BY <2>1, <2>2, <2>6, SendIs, TypesAfterAsking
  <2>7. ASSUME NEW path \in {"list", "search"}, LoadEarlier(path) PROVE TypeInv'
    BY <2>1, <2>2, <2>7, EarlierIs, TypesAfterAsking
  <2> QED BY <1>4, <2>3, <2>4, <2>5, <2>6, <2>7 DEF User
<1>5. CASE Receive
  <2>1. /\ tangled \in BOOLEAN /\ disturbed \in BOOLEAN /\ refreshing \in BOOLEAN
        /\ pending \in BOOLEAN /\ operator \in Operators \cup {None}
    BY DEF TypeInv
  <2>2. \A c : Tangles(c) \in BOOLEAN
    BY DEF Tangles
  <2>3. \A kind, o : AsksAgain(kind, o) => \E c : NewCall(c)
    BY DEF AsksAgain
  <2>4. \A v, o : Shows(v, o) => v \in Views /\ disturbed' \in BOOLEAN
    BY DEF Shows
  <2>5. CASE ReceiveMutated
    BY <2>1, <2>2, <2>3, <2>5, MutatedIs, TypesAfterTaking
  <2>6. CASE ReceiveRefresh
    BY <2>1, <2>2, <2>3, <2>4, <2>6, RefreshIs, TypesAfterTaking
  <2>7. CASE ReceiveLoad
    <3>1. line[1].call.operator \in Operators \cup {None}
      BY <2>7, AnsweredIs DEF ReceiveLoad
    <3> QED BY <2>1, <2>2, <2>3, <2>4, <2>7, <3>1, LoadIs, TypesAfterTaking
  <2>8. CASE ReceiveSelect
    <3>1. line[1].call.operator \in Operators \cup {None}
      BY <2>8, AnsweredIs DEF ReceiveSelect
    <3> QED BY <2>1, <2>2, <2>3, <2>4, <2>8, <3>1, SelectedIs, TypesAfterTaking
  <2>9. CASE ReceiveDelete
    BY <2>1, <2>2, <2>3, <2>4, <2>9, DeletedIs, TypesAfterTaking
  <2>10. CASE ReceiveWorkspace
    BY <2>1, <2>2, <2>3, <2>4, <2>10, WorkspaceIs, TypesAfterTaking
  <2>11. CASE ReceiveHistory
    <3>1. shown \in Views => [shown EXCEPT !.ids = line[1].result.page.ids \o @,
                                           !.more = line[1].result.page.more].ops = shown.ops
      BY DEF Views
    <3> QED BY <2>1, <2>11, <3>1, HistoryIs, TypesAfterTaking
  <2> QED BY <1>5, <2>5, <2>6, <2>7, <2>8, <2>9, <2>10, <2>11 DEF Receive
<1>6. CASE Panel
  BY <1>1, <1>6, PanelIs
<1> QED BY <1>2, <1>3, <1>4, <1>5, <1>6 DEF Next

\* The types of the module are among those kept.
LEMMA TypeInvIsTypeOK ==
  ASSUME TypeInv
  PROVE  TypeOK
<1>1. CASE shown = Blank
  <2>1. Blank \in Snapshot
    BY DEF Blank, Snapshot
  <2> QED BY <1>1, <2>1 DEF TypeInv, TypeOK
<1>2. CASE shown \in Views
  <2>1. shown.ids \in Seq(Nat)
    BY <1>2 DEF Views
  <2>2. shown \in Snapshot
    BY <1>2, <2>1 DEF Views, Snapshot
  <2> QED BY <2>2 DEF TypeInv, TypeOK
<1> QED BY <1>1, <1>2 DEF TypeInv, ShownOK

-----------------------------------------------------------------------------
(* The trajectory of the panel *)

\* Reads are numbered in the order asked for, and the trajectory shown is of one that is over.
PanelInv ==
  /\ panelRead \in Nat /\ cleared \in Nat
  /\ cleared < panelRead \/ (panelRead = 0 /\ cleared = 0)
  /\ \A r \in reads : r.query # None => r.read \in Nat /\ r.read <= panelRead /\ r.read # 0
  /\ \A r, q \in reads : r.query # None /\ q.query # None /\ r.read = q.read => r = q
  /\ trajectory # None =>
       /\ trajectory.read \in Nat /\ trajectory.read <= panelRead
       /\ \A r \in reads : r.query # None => r.read # trajectory.read

\* The panel: its reads are numbered, and only the newest is shown.
LEMMA PanelInvInit == Init => PanelInv
  BY DEF Init, PanelInv

LEMMA PanelInvKept ==
  ASSUME PanelInv, [Next]_vars
  PROVE  /\ PanelInv'
         /\ trajectory' \notin {trajectory, None} =>
              /\ trajectory # None => trajectory'.read > trajectory.read
              /\ trajectory'.read > cleared'
<1>1. CASE UNCHANGED panelVars
  BY <1>1 DEF PanelInv, panelVars
<1>2. ASSUME NEW q \in Queries, LoadTrajectory(q) PROVE PanelInv' /\ trajectory' = trajectory
  <2> DEFINE new == [query |-> q, read |-> panelRead + 1]
  <2>1. panelRead' = panelRead + 1 /\ reads' = reads \cup {new} /\ UNCHANGED <<trajectory, cleared>>
    BY <1>2 DEF LoadTrajectory
  <2>2. new.query # None /\ new.read = panelRead + 1
    BY ClientAssumption
  <2> HIDE DEF new
  <2>3. \A r \in reads' : r.query # None => r.read \in Nat /\ r.read <= panelRead' /\ r.read # 0
    BY <2>1, <2>2 DEF PanelInv
  <2>4. \A r \in reads : r.query # None => r.read # new.read
    BY <2>2 DEF PanelInv
  <2>5. \A r, p \in reads' : r.query # None /\ p.query # None /\ r.read = p.read => r = p
    BY <2>1, <2>4 DEF PanelInv
  <2>6. trajectory # None => trajectory.read # new.read
    BY <2>2 DEF PanelInv
  <2>7. trajectory' # None =>
          /\ trajectory'.read \in Nat /\ trajectory'.read <= panelRead'
          /\ \A r \in reads' : r.query # None => r.read # trajectory'.read
    BY <2>1, <2>2, <2>6 DEF PanelInv
  <2>8. panelRead' \in Nat /\ cleared' \in Nat /\ cleared' < panelRead'
    BY <2>1 DEF PanelInv
  <2>9. PanelInv'
    BY <2>3, <2>5, <2>7, <2>8 DEF PanelInv
  <2> QED BY <2>1, <2>9
<1>3. ASSUME NEW r \in reads, TrajectoryRead(r)
      PROVE  /\ PanelInv'
             /\ trajectory' # trajectory =>
                  /\ trajectory # None => trajectory'.read > trajectory.read
                  /\ trajectory'.read > cleared'
  BY <1>3 DEF TrajectoryRead, PanelInv
<1>4. CASE ClearRecords
  BY <1>4 DEF ClearRecords, PanelInv
<1>5. ASSUME NEW r \in reads, RecordsCleared(r) PROVE PanelInv' /\ trajectory' = None
  BY <1>5 DEF RecordsCleared, PanelInv
<1>6. CASE Panel
  <2>1. ClearRecords => trajectory' = trajectory
    BY DEF ClearRecords
  <2> QED BY <1>2, <1>3, <1>4, <1>5, <1>6, <2>1 DEF Panel
<1>7. CASE UNCHANGED vars
  BY <1>1, <1>7 DEF vars
<1>8. CASE Server \/ User \/ Receive
  BY <1>1, <1>8 DEF Server, User, Receive, ElsewhereChanges, Perform, Answer, ObserveSpace,
    SelectOperator, DeleteOperator, Send, LoadEarlier, ReceiveMutated, ReceiveRefresh, ReceiveLoad,
    ReceiveSelect, ReceiveDelete, ReceiveWorkspace, ReceiveHistory
<1> QED BY <1>6, <1>7, <1>8 DEF Next

-----------------------------------------------------------------------------
(* The history of the conversation *)

\* The messages shown follow each other, and there are earlier ones when it is said.
Contiguous(v) ==
  /\ \A k \in 1..(Len(v.ids) - 1) : v.ids[k + 1] = v.ids[k] + 1
  /\ v.ids # <<>> => (v.more <=> v.ids[1] > 1)

\* The call reads what comes before the messages shown, if its answer will be put there.
ReadsBefore(v, c) ==
  v \in Views /\ (c.target = v.space => v.ids # <<>> /\ c.before = v.ids[1])

\* Nothing replaced the rows under the one page that is being read.
HistoryInv ==
  /\ shown \in Views => (disturbed \/ Contiguous(shown))
  /\ ~disturbed =>
       /\ \A c \in calls : c.kind = "history" => ReadsBefore(shown, c)
       /\ \A i \in 1..Len(line) :
            AnswerAt(line, i) /\ line[i].call.kind = "history" => ReadsBefore(shown, line[i].call)
       /\ \A c, d \in calls : c.kind = "history" /\ d.kind = "history" => c = d
       /\ \A c \in calls, i \in 1..Len(line) :
            ~(c.kind = "history" /\ AnswerAt(line, i) /\ line[i].call.kind = "history")
       /\ \A i, j \in 1..Len(line) :
            /\ AnswerAt(line, i) /\ line[i].call.kind = "history"
            /\ AnswerAt(line, j) /\ line[j].call.kind = "history"
            => i = j

\* Nothing is read of the history.
NoHistory ==
  /\ \A c \in calls : c.kind # "history"
  /\ \A i \in 1..Len(line) : AnswerAt(line, i) => line[i].call.kind # "history"

LEMMA KindsAre ==
  ASSUME TypeInv
  PROVE  Kinds({"history"}) = {} <=> NoHistory
<1>1. line \in Seq(Messages) /\ DOMAIN line = 1..Len(line)
  BY DEF TypeInv, LineOK
<1> QED BY <1>1 DEF Kinds, Underway, NoHistory, AnswerAt

\* What is asked and read that is not of the history disturbs nothing.
LEMMA HistoryElsewhere ==
  ASSUME TypeInv, HistoryInv, line # <<>> => line' \in {line, Tail(line)},
         line = <<>> => line' = line,
         \A c \in calls' : c.kind = "history" => c \in calls,
         UNCHANGED <<shown, disturbed>>
  PROVE  HistoryInv'
<1>1. CASE line' = line
  BY <1>1 DEF HistoryInv, ReadsBefore, AnswerAt
<1>2. CASE line' = Tail(line) /\ line # <<>>
  <2>1. /\ Len(line') = Len(line) - 1 /\ Len(line) \in Nat \ {0}
        /\ \A i \in 1..Len(line') : line'[i] = line[i + 1] /\ i + 1 \in 1..Len(line)
    BY <1>2, LineRead DEF TypeInv
  <2>2. \A i \in 1..Len(line') : AnswerAt(line', i) => AnswerAt(line, i + 1)
    BY <2>1 DEF AnswerAt
  <2>4. ASSUME ~disturbed, NEW i \in 1..Len(line'), NEW j \in 1..Len(line'),
               AnswerAt(line', i), line'[i].call.kind = "history",
               AnswerAt(line', j), line'[j].call.kind = "history"
        PROVE  i = j
    <3>1. i + 1 = j + 1
      BY <2>1, <2>2, <2>4 DEF HistoryInv
    <3> QED BY <3>1
  <2>5. ASSUME ~disturbed, NEW i \in 1..Len(line'), AnswerAt(line', i),
               line'[i].call.kind = "history"
        PROVE  ReadsBefore(shown', line'[i].call) /\ \A c \in calls' : c.kind # "history"
    <3>1. ReadsBefore(shown, line[i + 1].call) /\ \A c \in calls : c.kind # "history"
      BY <2>1, <2>2, <2>5 DEF HistoryInv
    <3> QED BY <2>1, <3>1
  <2>6. ASSUME ~disturbed, NEW c \in calls', c.kind = "history"
        PROVE  ReadsBefore(shown', c) /\ \A d \in calls' : d.kind = "history" => c = d
    BY <2>6 DEF HistoryInv
  <2>7. shown' \in Views => (disturbed' \/ Contiguous(shown'))
    BY DEF HistoryInv
  <2> QED BY <2>4, <2>5, <2>6, <2>7 DEF HistoryInv
<1> QED BY <1>1, <1>2

\* A workspace that is shown is without a gap.
LEMMA HistoryShown ==
  ASSUME TypeInv, NEW m, Takes(m), m = line[1], OkAt(line, 1), NEW o,
         Shows(line[1].result.view, o),
         \A c \in calls' : c.kind = "history" => c \in calls
  PROVE  HistoryInv'
<1>1. line # <<>> /\ line' = Tail(line)
  BY DEF Takes
<1>2. /\ Len(line') = Len(line) - 1 /\ Len(line) \in Nat \ {0}
      /\ \A i \in 1..Len(line') : line'[i] = line[i + 1] /\ i + 1 \in 1..Len(line)
  BY <1>1, LineRead DEF TypeInv
<1>3. disturbed' = (Kinds({"history"}) # {}) /\ shown' = line[1].result.view
  BY DEF Shows
<1>4. AnswerOK(line[1].call, line[1].result) /\ line[1].call.kind # "history"
        /\ line[1].result.ok
  BY <1>2 DEF OkAt, AnswerAt, TypeInv, LineOK
<1>5. Contiguous(shown')
  BY <1>3, <1>4 DEF AnswerOK, Contiguous
<1>6. ~disturbed' => NoHistory'
  <2>1. SUFFICES ASSUME NoHistory PROVE NoHistory'
    BY <1>3, KindsAre
  <2>2. \A i \in 1..Len(line') : AnswerAt(line', i) => AnswerAt(line, i + 1)
    BY <1>2 DEF AnswerAt
  <2> QED BY <1>2, <2>1, <2>2 DEF NoHistory
<1> QED BY <1>5, <1>6 DEF HistoryInv, NoHistory, Contiguous

\* A page that arrives goes before what is shown.
LEMMA PageShown ==
  ASSUME TypeInv, HistoryInv, ReceiveHistory
  PROVE  HistoryInv'
<1> DEFINE c == line[1].call
           r == line[1].result
<1>1. /\ Takes(line[1]) /\ AnswerAt(line, 1) /\ c.kind = "history"
      /\ UNCHANGED <<calls, disturbed>>
      /\ r.ok /\ c.space = shown.space =>
           /\ shown \in Views /\ r.page = HistoryPage(c.before) /\ c.target = c.space
           /\ c.before \in Nat \ {0}
           /\ shown' = [shown EXCEPT !.ids = r.page.ids \o @, !.more = r.page.more]
           /\ shown' \in Views
      /\ ~(r.ok /\ c.space = shown.space) => shown' = shown
  BY HistoryIs
<1>2. line # <<>> /\ line' = Tail(line)
  BY <1>1 DEF Takes
<1>3. CASE ~(r.ok /\ c.space = shown.space)
  BY <1>1, <1>2, <1>3, HistoryElsewhere
<1>4. CASE r.ok /\ c.space = shown.space /\ disturbed
  BY <1>1, <1>4 DEF HistoryInv
<1>5. CASE r.ok /\ c.space = shown.space /\ ~disturbed
  <2> DEFINE pg == HistoryPage(c.before)
             old == shown.ids
  <2>1. /\ Len(line') = Len(line) - 1 /\ Len(line) \in Nat \ {0}
        /\ \A i \in 1..Len(line') : line'[i] = line[i + 1] /\ i + 1 \in 1..Len(line)
    BY <1>2, LineRead DEF TypeInv
  <2>2. 1 \in 1..Len(line)
    BY <2>1
  <2>3. /\ shown \in Views /\ Contiguous(shown) /\ old # <<>> /\ c.before = old[1]
        /\ \A d \in calls : d.kind # "history"
    BY <1>1, <1>5, <2>2 DEF HistoryInv, ReadsBefore
  <2>4. NoHistory'
    <3>1. ASSUME NEW i \in 1..Len(line'), AnswerAt(line', i), line'[i].call.kind = "history"
          PROVE  FALSE
      <4>1. i + 1 \in 1..Len(line) /\ AnswerAt(line, i + 1) /\ line[i + 1].call.kind = "history"
        BY <2>1, <3>1 DEF AnswerAt
      <4>2. i + 1 = 1
        BY <1>1, <1>5, <2>2, <4>1 DEF HistoryInv
      <4> QED BY <4>2
    <3> QED BY <1>1, <2>3, <3>1 DEF NoHistory
  <2>5. /\ pg.ids \in Seq(Nat \ {0})
        /\ c.before > 1 => /\ pg.ids # <<>> /\ pg.ids[Len(pg.ids)] = c.before - 1
                           /\ (pg.more <=> pg.ids[1] > 1)
        /\ c.before = 1 => pg.ids = <<>> /\ ~pg.more
        /\ \A k \in 1..(Len(pg.ids) - 1) : pg.ids[k + 1] = pg.ids[k] + 1
    BY <1>1, <1>5, PageIs DEF Pages
  <2>6. shown'.ids = pg.ids \o old /\ shown'.more = pg.more
    BY <1>1, <1>5, <2>3 DEF Views
  <2>7. old \in Seq(Nat \ {0}) /\ Len(old) \in Nat \ {0}
        /\ \A k \in 1..(Len(old) - 1) : old[k + 1] = old[k] + 1
    BY <2>3 DEF Views, Contiguous
  <2>8. c.before \in Nat \ {0} /\ c.before = old[1]
    BY <1>1, <1>5, <2>3
  <2> HIDE DEF pg, old
  <2> DEFINE n == Len(pg.ids)
             all == pg.ids \o old
  <2>9. /\ all \in Seq(Nat \ {0}) /\ n \in Nat /\ Len(all) = n + Len(old)
        /\ \A k \in 1..n : all[k] = pg.ids[k]
        /\ \A k \in 1..Len(old) : all[n + k] = old[k]
    BY <2>5, <2>7
  <2>13. n = Len(pg.ids)
    OBVIOUS
  <2>14. shown'.ids = all
    BY <2>6
  <2> HIDE DEF n, all
  <2>10. ASSUME NEW k \in 1..(Len(all) - 1) PROVE all[k + 1] = all[k] + 1
    <3>1. k \in Nat /\ k >= 1 /\ k < n + Len(old)
      BY <2>7, <2>9
    <3>2. CASE k < n
      <4>1. k \in 1..(n - 1) /\ k \in 1..n /\ k + 1 \in 1..n
        BY <2>9, <3>1, <3>2
      <4> QED BY <2>5, <2>9, <2>13, <4>1
    <3>3. CASE k = n
      <4>1. n \in 1..n /\ 1 \in 1..Len(old) /\ pg.ids # <<>>
        BY <2>5, <2>7, <2>9, <2>13, <3>1, <3>3
      <4>2. c.before > 1
        BY <2>5, <2>8, <4>1
      <4>3. all[n] = c.before - 1 /\ all[n + 1] = c.before
        BY <2>5, <2>8, <2>9, <2>13, <4>1, <4>2
      <4> QED BY <2>8, <3>3, <4>3
    <3>4. CASE k > n
      <4> DEFINE j == k - n
      <4>3. k \in Nat /\ n \in Nat /\ Len(old) \in Nat
        BY <2>7, <2>9, <3>1
      <4>4. j \in Nat /\ j >= 1 /\ j < Len(old) /\ k = n + j
        BY <3>1, <3>4, <4>3
      <4> HIDE DEF j
      <4>1. j \in 1..(Len(old) - 1) /\ j \in 1..Len(old) /\ j + 1 \in 1..Len(old)
            /\ k = n + j /\ k + 1 = n + (j + 1)
        BY <4>3, <4>4
      <4>2. all[n + j] = old[j] /\ all[n + (j + 1)] = old[j + 1] /\ old[j + 1] = old[j] + 1
        BY <2>7, <2>9, <4>1
      <4> QED BY <4>1, <4>2
    <3> QED BY <2>9, <3>1, <3>2, <3>3, <3>4
  <2>11. pg.more <=> all[1] > 1
    <3>1. CASE c.before > 1
      <4>1. pg.ids # <<>> /\ 1 \in 1..n
        BY <2>5, <2>9, <2>13, <3>1
      <4> QED BY <2>5, <2>9, <3>1, <4>1
    <3>2. CASE c.before = 1
      <4>1. n = 0 /\ 1 \in 1..Len(old)
        BY <2>5, <2>7, <2>13, <3>2
      <4>2. all[0 + 1] = old[1]
        BY <2>9, <4>1
      <4> QED BY <2>5, <2>8, <3>2, <4>2
    <3> QED BY <2>8, <3>1, <3>2
  <2>12. Contiguous(shown')
    BY <2>6, <2>10, <2>11, <2>14 DEF Contiguous
  <2> QED BY <1>1, <1>5, <2>4, <2>12 DEF HistoryInv, NoHistory
<1> QED BY <1>3, <1>4, <1>5

\* What the server sends disturbs nothing; an answer comes from the calls.
LEMMA HistoryServed ==
  ASSUME TypeInv, HistoryInv, NEW m \in Messages, line' = Append(line, m),
         UNCHANGED <<shown, disturbed>>,
         \/ m.kind = "mutated" /\ calls' = calls
         \/ m.kind = "answer" /\ m.call \in calls /\ calls' = calls \ {m.call}
  PROVE  HistoryInv'
<1>1. /\ Len(line') = Len(line) + 1 /\ Len(line) \in Nat
      /\ \A i \in 1..Len(line) : line'[i] = line[i]
      /\ line'[Len(line')] = m
      /\ \A i \in 1..Len(line') : i \in 1..Len(line) \/ i = Len(line')
  <2>1. line \in Seq(Messages)
    BY DEF TypeInv, LineOK
  <2> QED BY <2>1, AppendIs
<1>2. \A i \in 1..Len(line) : AnswerAt(line', i) => AnswerAt(line, i)
  BY <1>1 DEF AnswerAt
<1>3. CASE m.kind = "mutated" /\ calls' = calls
  <2>1. \A i \in 1..Len(line') : AnswerAt(line', i) => i \in 1..Len(line)
    BY <1>1, <1>3 DEF AnswerAt
  <2> QED BY <1>1, <1>2, <1>3, <2>1 DEF HistoryInv
<1>4. CASE m.kind = "answer" /\ m.call \in calls /\ calls' = calls \ {m.call}
  <2>1. CASE m.call.kind # "history"
    <3>1. \A i \in 1..Len(line') :
            AnswerAt(line', i) /\ line'[i].call.kind = "history" => i \in 1..Len(line)
      BY <1>1, <1>4, <2>1 DEF AnswerAt
    <3> QED BY <1>1, <1>2, <1>4, <3>1 DEF HistoryInv
  <2>2. CASE m.call.kind = "history"
    <3>1. ~disturbed => \A c \in calls' : c.kind # "history"
      BY <1>4, <2>2 DEF HistoryInv
    <3>2. ~disturbed => \A i \in 1..Len(line') :
            AnswerAt(line', i) /\ line'[i].call.kind = "history" => i = Len(line')
      BY <1>1, <1>2, <1>4, <2>2 DEF HistoryInv
    <3>3. ~disturbed => ReadsBefore(shown, m.call)
      BY <1>4, <2>2 DEF HistoryInv
    <3>4. ~disturbed => \A i \in 1..Len(line') :
            AnswerAt(line', i) /\ line'[i].call.kind = "history"
              => ReadsBefore(shown', line'[i].call)
      BY <1>1, <3>2, <3>3
    <3> QED BY <3>1, <3>2, <3>4 DEF HistoryInv
  <2> QED BY <2>1, <2>2
<1> QED BY <1>3, <1>4

LEMMA HistoryInit == Init => HistoryInv
<1> SUFFICES ASSUME Init PROVE HistoryInv
  OBVIOUS
<1>1. shown = Blank /\ line = <<>> /\ \A c \in calls : c.kind # "history"
  BY DEF Init
<1>2. Blank \notin Views
  BY ClientAssumption DEF Blank, Views
<1> QED BY <1>1, <1>2 DEF HistoryInv, AnswerAt

\* A call that is not of the history.
LEMMA OtherCalls ==
  ASSUME calls' = calls \/ (\E c : calls' = calls \cup {c} /\ c.kind # "history")
  PROVE  \A c \in calls' : c.kind = "history" => c \in calls
  OBVIOUS

\* Every step keeps the rows of a page without a gap.
LEMMA HistoryKept ==
  ASSUME TypeInv, HistoryInv, [Next]_vars
  PROVE  HistoryInv'
<1>1. CASE UNCHANGED <<calls, line, shown, disturbed>>
  BY <1>1 DEF HistoryInv, AnswerAt
<1>2. CASE Panel \/ UNCHANGED vars
  BY <1>1, <1>2, PanelIs DEF vars, pageVars, ghostVars
<1>3. CASE Server
  <2>1. ASSUME NEW s, ServerChanges(s) PROVE HistoryInv'
    <3>1. /\ s \in Spaces /\ line' = Append(line, Mutated(s)) /\ UNCHANGED <<shown, disturbed, calls>>
      BY <2>1 DEF ServerChanges, Committed, pageVars, ghostVars
    <3> QED BY <3>1, MutatedMessage, HistoryServed
  <2>2. ASSUME NEW c \in calls, Answer(c) PROVE HistoryInv'
    <3>1. PICK r \in Results :
           /\ calls' = calls \ {c}
           /\ line' = Append(line, [kind |-> "answer", call |-> c, result |-> r])
           /\ [kind |-> "answer", call |-> c, result |-> r] \in Messages
           /\ UNCHANGED <<bounds, scene, changed, pageVars, panelVars, asked, ghostVars>>
      BY <2>2, AnswerIs
    <3> DEFINE m == [kind |-> "answer", call |-> c, result |-> r]
    <3>2. m \in Messages /\ m.kind = "answer" /\ m.call = c /\ line' = Append(line, m)
      BY <3>1
    <3> HIDE DEF m
    <3>3. UNCHANGED <<shown, disturbed>>
      BY <3>1 DEF pageVars, ghostVars
    <3> QED BY <3>1, <3>2, <3>3, HistoryServed
  <2> QED BY <1>3, <2>1, <2>2, ElsewhereIs, PerformIs DEF Server
<1>4. ASSUME NEW c, Asks(c), c.kind # "history", disturbed' = disturbed PROVE HistoryInv'
  <2>1. line' = line /\ shown' = shown /\ calls' = calls \cup {c}
    BY <1>4 DEF Asks, NewCall
  <2> QED BY <1>4, <2>1, HistoryElsewhere
<1>5. CASE User
  <2>1. ASSUME NEW s \in Spaces, ObserveSpace(s) PROVE HistoryInv'
    BY <1>4, <2>1, ObserveIs
  <2>2. ASSUME NEW o \in Operators, SelectOperator(o) PROVE HistoryInv'
    BY <1>4, <2>2, SelectIs
  <2>3. ASSUME NEW o \in Operators, DeleteOperator(o) PROVE HistoryInv'
    BY <1>4, <2>3, DeleteIs
  <2>4. CASE Send
    BY <1>4, <2>4, SendIs
  <2>5. ASSUME NEW path \in {"list", "search"}, LoadEarlier(path) PROVE HistoryInv'
    <3>1. PICK c : /\ Asks(c) /\ c.kind = "history"
                   /\ c.target = shown.space /\ shown.ids # <<>> /\ c.before = shown.ids[1]
                   /\ shown \in Views
                   /\ disturbed' = (disturbed \/ Kinds({"history"}) # {})
      BY <2>5, EarlierIs
    <3>2. line' = line /\ shown' = shown /\ calls' = calls \cup {c}
      BY <3>1 DEF Asks, NewCall
    <3>3. ~disturbed' => ~disturbed /\ NoHistory
      BY <3>1, KindsAre
    <3>4. ReadsBefore(shown', c)
      BY <3>1, <3>2 DEF ReadsBefore
    <3> QED BY <3>1, <3>2, <3>3, <3>4 DEF HistoryInv, NoHistory, AnswerAt
  <2> QED BY <1>5, <2>1, <2>2, <2>3, <2>4, <2>5 DEF User
<1>6. CASE Receive
  <2>1. \A kind \in {"bare", "refresh", "reread"} : \A o : AsksAgain(kind, o) =>
          \E c : calls' = calls \cup {c} /\ c.kind # "history"
    BY DEF AsksAgain, NewCall
  <2>2. \A m : Takes(m) => line # <<>> /\ line' = Tail(line)
    BY DEF Takes
  <2>3. ASSUME \/ calls' = calls
               \/ \E kind \in {"bare", "refresh", "reread"} : \E o : AsksAgain(kind, o),
               Takes(line[1]), UNCHANGED <<shown, disturbed>>
        PROVE  HistoryInv'
    BY <2>1, <2>2, <2>3, OtherCalls, HistoryElsewhere
  <2>4. ASSUME \/ calls' = calls
               \/ \E kind \in {"bare", "refresh", "reread"} : \E o : AsksAgain(kind, o),
               Takes(line[1]), OkAt(line, 1), NEW o, Shows(line[1].result.view, o)
        PROVE  HistoryInv'
    BY <2>1, <2>4, OtherCalls, HistoryShown
  <2>5. CASE ReceiveMutated
    BY <2>3, <2>5, MutatedIs
  <2>6. CASE ReceiveRefresh
    BY <2>3, <2>4, <2>6, RefreshIs
  <2>7. CASE ReceiveLoad
    BY <2>3, <2>4, <2>7, LoadIs
  <2>8. CASE ReceiveSelect
    BY <2>3, <2>4, <2>8, SelectedIs
  <2>9. CASE ReceiveDelete
    BY <2>3, <2>4, <2>9, DeletedIs
  <2>10. CASE ReceiveWorkspace
    BY <2>3, <2>4, <2>10, WorkspaceIs
  <2>11. CASE ReceiveHistory
    BY <2>11, PageShown
  <2> QED BY <1>6, <2>5, <2>6, <2>7, <2>8, <2>9, <2>10, <2>11 DEF Receive
<1> QED BY <1>2, <1>3, <1>5, <1>6 DEF Next

LEMMA HistoryInvIsContiguous ==
  ASSUME TypeInv, HistoryInv
  PROVE  HistoryIsContiguous
<1>1. CASE shown = Blank
  BY <1>1 DEF Blank, HistoryIsContiguous
<1>2. CASE shown \in Views
  <2>1. ~disturbed => Contiguous(shown)
    BY <1>2 DEF HistoryInv
  <2>2. shown.ids # <<>> => Head(shown.ids) = shown.ids[1]
    BY <1>2 DEF Views
  <2> QED BY <2>1, <2>2 DEF Contiguous, HistoryIsContiguous
<1> QED BY <1>1, <1>2 DEF TypeInv, ShownOK

-----------------------------------------------------------------------------
(* What is shown, what is on its way and what there is: in the order of time *)

\* A workspace is no later than a scene, or than another workspace.
OlderNow(v, x) ==
  /\ v.rev <= x.rev /\ v.live <= x.live /\ x.ops \subseteq v.ops
  /\ v.ids # <<>> => x.last # 0
Older(v, w) ==
  /\ v.rev <= w.rev /\ v.live <= w.live /\ w.ops \subseteq v.ops
  /\ v.ids # <<>> => w.ids # <<>>

\* The workspace the i-th message brings.
ViewAt(l, i) == l[i].result.view

\* A page of history is read of a space where there is something, and that is known.
ReadsRows(c, there, v, l) ==
  c.kind = "history" /\ c.target = c.space =>
    /\ there[c.space].last # 0
    /\ v \in Views /\ v.space = c.space => v.ids # <<>>
    /\ \A i \in 1..Len(l) : OkAt(l, i) /\ ViewAt(l, i).space = c.space =>
                                 ViewAt(l, i).ids # <<>>

\* What is shown is no later than what is on its way, nor that than what there is.
OrderInv ==
  /\ \A i \in 1..Len(line) : OkAt(line, i) =>
       OlderNow(ViewAt(line, i), scene[ViewAt(line, i).space])
  /\ \A i, j \in 1..Len(line) :
       i < j /\ OkAt(line, i) /\ OkAt(line, j)
         /\ ViewAt(line, i).space = ViewAt(line, j).space
       => Older(ViewAt(line, i), ViewAt(line, j))
  /\ shown \in Views => OlderNow(shown, scene[shown.space])
  /\ \A i \in 1..Len(line) :
       shown \in Views /\ OkAt(line, i) /\ ViewAt(line, i).space = shown.space
       => Older(shown, ViewAt(line, i))

\* A page of history is asked of a space known to have messages.
RowsInv ==
  /\ \A c \in calls : ReadsRows(c, scene, shown, line)
  /\ \A i \in 1..Len(line) : AnswerAt(line, i) => ReadsRows(line[i].call, scene, shown, line)

\* The page reads a message and shows what it showed; or it shows what the message brings.
Passes ==
  /\ Takes(line[1]) /\ UNCHANGED <<shown, operator, disturbed>>
  /\ calls' = calls \/ (\E c : NewCall(c) /\ c.kind # "history")
\* The page reads a workspace and shows it.
Updates ==
  /\ Takes(line[1]) /\ OkAt(line, 1) /\ (\E o : Shows(ViewAt(line, 1), o))
  /\ calls' = calls \/ (\E c : NewCall(c) /\ c.kind # "history")
\* A step of the panel, which nothing else reads.
Idle ==
  UNCHANGED <<scene, done, changed, calls, line, space, operator, shown, refreshing, pending,
              tangled, disturbed>>

\* Every step is one of these.
LEMMA StepKinds ==
  ASSUME TypeInv, [Next]_vars
  PROVE  \/ Idle
         \/ \E s : ServerChanges(s)
         \/ \E c \in calls : Answer(c)
         \/ \E c : /\ Asks(c) /\ tangled' \in BOOLEAN
                   /\ c.kind = "history" => /\ c.target = shown.space /\ shown.ids # <<>>
                                            /\ shown \in Views
         \/ Passes \/ Updates \/ ReceiveHistory
<1>1. CASE Panel \/ UNCHANGED vars
  BY <1>1, PanelIs DEF Idle, vars, serverVars, pageVars, ghostVars
<1>2. CASE Server
  BY <1>2, ElsewhereIs, PerformIs DEF Server
<1>3. CASE User
  <2>1. tangled \in BOOLEAN /\ \A c : Tangles(c) \in BOOLEAN
    BY DEF TypeInv, Tangles
  <2>2. ASSUME NEW s \in Spaces, ObserveSpace(s)
        PROVE  \E c : Asks(c) /\ tangled' \in BOOLEAN /\ c.kind # "history"
    BY <2>1, <2>2, ObserveIs
  <2>3. ASSUME NEW o \in Operators, SelectOperator(o)
        PROVE  \E c : Asks(c) /\ tangled' \in BOOLEAN /\ c.kind # "history"
    BY <2>1, <2>3, SelectIs
  <2>4. ASSUME NEW o \in Operators, DeleteOperator(o)
        PROVE  \E c : Asks(c) /\ tangled' \in BOOLEAN /\ c.kind # "history"
    BY <2>1, <2>4, DeleteIs
  <2>5. ASSUME Send
        PROVE  \E c : Asks(c) /\ tangled' \in BOOLEAN /\ c.kind # "history"
    BY <2>1, <2>5, SendIs
  <2>6. ASSUME NEW path \in {"list", "search"}, LoadEarlier(path)
        PROVE  \E c : /\ Asks(c) /\ tangled' \in BOOLEAN /\ c.target = shown.space
                      /\ shown.ids # <<>> /\ shown \in Views
    BY <2>1, <2>6, EarlierIs
  <2> QED BY <1>3, <2>2, <2>3, <2>4, <2>5, <2>6 DEF User
<1>4. CASE Receive
  <2>1. \A kind \in {"bare", "refresh", "reread"} : \A o : AsksAgain(kind, o) =>
          \E c : NewCall(c) /\ c.kind # "history"
    BY DEF AsksAgain
  <2>2. ReceiveMutated => Passes
    BY <2>1, MutatedIs DEF Passes
  <2>3. ReceiveRefresh => Passes \/ Updates
    BY <2>1, RefreshIs DEF Passes, Updates, ViewAt
  <2>4. ReceiveLoad => Passes \/ Updates
    BY <2>1, LoadIs DEF Passes, Updates, ViewAt
  <2>5. ReceiveSelect => Passes \/ Updates
    BY <2>1, SelectedIs DEF Passes, Updates, ViewAt
  <2>6. ReceiveDelete => Passes \/ Updates
    BY <2>1, DeletedIs DEF Passes, Updates, ViewAt
  <2>7. ReceiveWorkspace => Passes \/ Updates
    BY <2>1, WorkspaceIs DEF Passes, Updates, ViewAt
  <2> QED BY <1>4, <2>2, <2>3, <2>4, <2>5, <2>6, <2>7 DEF Receive
<1> QED BY <1>1, <1>2, <1>3, <1>4 DEF Next

\* A workspace that is on its way.
LEMMA ViewAtIs ==
  ASSUME TypeInv, NEW i, OkAt(line, i)
  PROVE  /\ ViewAt(line, i) \in Views /\ ViewAt(line, i).space \in Spaces
         /\ ViewAt(line, i).space = line[i].call.space
         /\ ViewAt(line, i).ops \in SUBSET Operators
         /\ ViewAt(line, i).rev \in Nat /\ ViewAt(line, i).live \in Nat
         /\ CallOK(line[i].call) /\ i \in 1..Len(line) /\ line[i].call.kind # "history"
         /\ line[i].call.space \in Spaces /\ line[i].call.operator \in Operators \cup {None}
         /\ line[i].call \in CallTypes
<1>1. AnswerAt(line, i) /\ line[i].call.kind # "history" /\ line[i].result.ok /\ i \in 1..Len(line)
  BY DEF OkAt, AnswerAt
<1>2. AnswerOK(line[i].call, line[i].result)
  BY <1>1 DEF TypeInv, LineOK
<1>3. ViewAt(line, i) \in Views /\ ViewAt(line, i).space = line[i].call.space
  BY <1>1, <1>2 DEF AnswerOK, ViewAt
<1>4. CallOK(line[i].call)
  BY <1>2 DEF AnswerOK
<1>5. line[i].call \in CallTypes
  BY <1>4 DEF CallOK
<1>6. line[i].call.space \in Spaces /\ line[i].call.operator \in Operators \cup {None}
  BY <1>5 DEF CallTypes
<1> QED BY <1>1, <1>3, <1>4, <1>5, <1>6 DEF Views

\* What the messages are after the first is read.
LEMMA Shifted ==
  ASSUME TypeInv, NEW m, Takes(m)
  PROVE  /\ line # <<>> /\ Len(line') = Len(line) - 1 /\ Len(line) \in Nat \ {0}
         /\ 1 \in 1..Len(line) /\ line[1] \in Messages
         /\ \A i \in 1..Len(line') :
              /\ line'[i] = line[i + 1] /\ i + 1 \in 1..Len(line) /\ 1 < i + 1
              /\ (AnswerAt(line', i) <=> AnswerAt(line, i + 1))
              /\ (OkAt(line', i) <=> OkAt(line, i + 1))
              /\ ViewAt(line', i) = ViewAt(line, i + 1)
         /\ \A k \in 1..Len(line) : k = 1 \/ \E i \in 1..Len(line') : k = i + 1
<1>1. line # <<>> /\ line' = Tail(line)
  BY DEF Takes
<1>2. /\ Len(line') = Len(line) - 1 /\ Len(line) \in Nat \ {0} /\ line[1] \in Messages
      /\ \A i \in 1..Len(line') : line'[i] = line[i + 1] /\ i + 1 \in 1..Len(line)
  BY <1>1, LineRead DEF TypeInv
<1>3. \A k \in 1..Len(line) : k = 1 \/ \E i \in 1..Len(line') : k = i + 1
  <2> SUFFICES ASSUME NEW k \in 1..Len(line), k # 1 PROVE \E i \in 1..Len(line') : k = i + 1
    OBVIOUS
  <2>1. k - 1 \in 1..Len(line') /\ k = (k - 1) + 1
    BY <1>2
  <2> QED BY <2>1
<1> QED BY <1>1, <1>2, <1>3 DEF AnswerAt, OkAt, ViewAt

\* What they are after another is sent.
LEMMA Extended ==
  ASSUME TypeInv, NEW m \in Messages, line' = Append(line, m)
  PROVE  /\ Len(line') = Len(line) + 1 /\ Len(line) \in Nat
         /\ line'[Len(line')] = m /\ Len(line') \in 1..Len(line')
         /\ \A i \in 1..Len(line) :
              /\ line'[i] = line[i] /\ i \in 1..Len(line') /\ i < Len(line')
              /\ (AnswerAt(line', i) <=> AnswerAt(line, i))
              /\ (OkAt(line', i) <=> OkAt(line, i))
              /\ ViewAt(line', i) = ViewAt(line, i)
         /\ \A i \in 1..Len(line') : i \in 1..Len(line) \/ i = Len(line')
<1>1. line \in Seq(Messages)
  BY DEF TypeInv, LineOK
<1>2. /\ Len(line') = Len(line) + 1 /\ Len(line) \in Nat
      /\ \A i \in 1..Len(line) : line'[i] = line[i]
      /\ line'[Len(line) + 1] = m
  BY <1>1, AppendIs
<1>3. \A i \in 1..Len(line) : i \in 1..Len(line') /\ i < Len(line')
  BY <1>2
<1>4. \A i \in 1..Len(line') : i \in 1..Len(line) \/ i = Len(line')
  BY <1>2
<1>5. Len(line') \in 1..Len(line')
  BY <1>2
<1> QED BY <1>2, <1>3, <1>4, <1>5 DEF AnswerAt, OkAt, ViewAt

\* Later than what is older is older still.
LEMMA OlderIsNow ==
  ASSUME NEW v \in Views, NEW w \in Views, NEW x \in SceneTypes, OlderNow(w, x), Older(v, w)
  PROVE  OlderNow(v, x)
<1>1. /\ v.rev \in Nat /\ v.live \in Nat /\ w.rev \in Nat /\ w.live \in Nat
      /\ x.rev \in Nat /\ x.live \in Nat
  BY DEF Views, SceneTypes
<1> QED BY <1>1 DEF OlderNow, Older

LEMMA StaysOlder ==
  ASSUME NEW v \in Views, NEW x \in SceneTypes, NEW y \in SceneTypes, OlderNow(v, x),
         y.rev >= x.rev, y.live >= x.live, y.last >= x.last, y.ops \subseteq x.ops
  PROVE  OlderNow(v, y)
<1>1. /\ v.rev \in Nat /\ v.live \in Nat /\ x.rev \in Nat /\ x.live \in Nat /\ x.last \in Nat
      /\ y.rev \in Nat /\ y.live \in Nat /\ y.last \in Nat
  BY DEF Views, SceneTypes
<1> QED BY <1>1 DEF OlderNow

LEMMA OrderInit == Init => OrderInv /\ RowsInv
<1> SUFFICES ASSUME Init PROVE OrderInv /\ RowsInv
  OBVIOUS
<1>1. shown = Blank /\ line = <<>> /\ \A c \in calls : c.kind # "history"
  BY DEF Init
<1>2. Blank \notin Views
  BY ClientAssumption DEF Blank, Views
<1> QED BY <1>1, <1>2 DEF OrderInv, RowsInv, ReadsRows, AnswerAt, OkAt

\* Scenes only grow.
LEMMA Grown ==
  ASSUME TypeInv, NEW s, ServerChanges(s), NEW t \in Spaces
  PROVE  /\ scene[t] \in SceneTypes /\ scene'[t] \in SceneTypes
         /\ scene'[t].rev >= scene[t].rev /\ scene'[t].live >= scene[t].live
         /\ scene'[t].last >= scene[t].last /\ scene'[t].ops \subseteq scene[t].ops
<1>1. scene[t] \in SceneTypes /\ scene'[t] \in SceneTypes
  BY DEF TypeInv, ServerChanges, Committed
<1>2. scene[t].rev >= scene[t].rev /\ scene[t].live >= scene[t].live
        /\ scene[t].last >= scene[t].last
  BY <1>1 DEF SceneTypes
<1> QED BY <1>1, <1>2 DEF ServerChanges, Committed

\* The order is kept when the server changes or answers, and when the page asks.
LEMMA OrderOfChange ==
  ASSUME TypeInv, OrderInv, RowsInv, NEW s, ServerChanges(s)
  PROVE  OrderInv' /\ RowsInv'
<1>1. /\ s \in Spaces /\ line' = Append(line, Mutated(s))
      /\ UNCHANGED <<calls, shown>>
  BY DEF ServerChanges, Committed, pageVars
<1>2. Mutated(s) \in Messages /\ Mutated(s).kind = "mutated"
  BY <1>1, MutatedMessage
<1>3. /\ \A i \in 1..Len(line) :
              /\ line'[i] = line[i]
              /\ (AnswerAt(line', i) <=> AnswerAt(line, i))
              /\ (OkAt(line', i) <=> OkAt(line, i))
              /\ ViewAt(line', i) = ViewAt(line, i)
      /\ \A i \in 1..Len(line') : i \in 1..Len(line) \/ i = Len(line')
      /\ line'[Len(line')] = Mutated(s)
  BY <1>1, <1>2, Extended
<1>4. \A i \in 1..Len(line') : AnswerAt(line', i) \/ OkAt(line', i) => i \in 1..Len(line)
  BY <1>2, <1>3 DEF AnswerAt, OkAt
<1>5. ASSUME NEW i \in 1..Len(line'), OkAt(line', i)
      PROVE  OlderNow(ViewAt(line', i), scene'[ViewAt(line', i).space])
  <2>1. i \in 1..Len(line) /\ OkAt(line, i) /\ ViewAt(line', i) = ViewAt(line, i)
    BY <1>3, <1>4, <1>5
  <2> DEFINE v == ViewAt(line, i)
  <2>2. v \in Views /\ v.space \in Spaces
    BY <2>1, ViewAtIs
  <2>3. OlderNow(v, scene[v.space])
    BY <2>1 DEF OrderInv
  <2> HIDE DEF v
  <2>4. OlderNow(v, scene'[v.space])
    BY <2>2, <2>3, Grown, StaysOlder
  <2> QED BY <2>1, <2>4 DEF v
<1>6. ASSUME NEW i \in 1..Len(line'), NEW j \in 1..Len(line'), i < j, OkAt(line', i),
             OkAt(line', j), ViewAt(line', i).space = ViewAt(line', j).space
      PROVE  Older(ViewAt(line', i), ViewAt(line', j))
  BY <1>3, <1>4, <1>6 DEF OrderInv
<1>7. shown' \in Views => OlderNow(shown', scene'[shown'.space])
  <2> SUFFICES ASSUME shown \in Views PROVE OlderNow(shown, scene'[shown.space])
    BY <1>1
  <2>1. OlderNow(shown, scene[shown.space]) /\ shown.space \in Spaces
    BY DEF OrderInv, Views
  <2> QED BY <2>1, Grown, StaysOlder
<1>8. ASSUME NEW i \in 1..Len(line'), shown' \in Views, OkAt(line', i),
             ViewAt(line', i).space = shown'.space
      PROVE  Older(shown', ViewAt(line', i))
  BY <1>1, <1>3, <1>4, <1>8 DEF OrderInv
<1>9. OrderInv'
  BY <1>5, <1>6, <1>7, <1>8 DEF OrderInv
<1>10. ASSUME NEW c, c.space \in Spaces, ReadsRows(c, scene, shown, line)
       PROVE  ReadsRows(c, scene', shown', line')
  <2>1. scene[c.space].last # 0 => scene'[c.space].last # 0
    BY <1>10, Grown DEF SceneTypes
  <2> QED BY <1>1, <1>3, <1>4, <1>10, <2>1 DEF ReadsRows
<1>11. ASSUME NEW c \in calls' PROVE ReadsRows(c, scene', shown', line')
  <2>1. c \in calls
    BY <1>1, <1>11
  <2>2. c.space \in Spaces /\ ReadsRows(c, scene, shown, line)
    BY <2>1 DEF RowsInv, TypeInv, CallsOK, CallOK, CallTypes
  <2> QED BY <1>10, <2>2
<1>12. ASSUME NEW i \in 1..Len(line'), AnswerAt(line', i)
       PROVE  ReadsRows(line'[i].call, scene', shown', line')
  <2> DEFINE c == line[i].call
  <2>1. i \in 1..Len(line) /\ AnswerAt(line, i) /\ line'[i] = line[i]
    BY <1>3, <1>4, <1>12
  <2>2. ReadsRows(c, scene, shown, line) /\ c.space \in Spaces
    BY <2>1 DEF RowsInv, TypeInv, LineOK, AnswerOK, CallOK, CallTypes
  <2> HIDE DEF c
  <2>3. ReadsRows(c, scene', shown', line')
    BY <1>10, <2>2
  <2> QED BY <2>1, <2>3 DEF c
<1> QED BY <1>9, <1>11, <1>12 DEF RowsInv

LEMMA OrderOfAnswer ==
  ASSUME TypeInv, OrderInv, RowsInv, NEW c \in calls, Answer(c)
  PROVE  OrderInv' /\ RowsInv'
<1>1. PICK r \in Results :
           /\ AnswerOK(c, r)
           /\ calls' = calls \ {c}
           /\ line' = Append(line, [kind |-> "answer", call |-> c, result |-> r])
           /\ [kind |-> "answer", call |-> c, result |-> r] \in Messages
           /\ UNCHANGED <<bounds, scene, changed, pageVars, panelVars, asked, ghostVars>>
           /\ Refused(c) => r = Failure /\ ~r.ok
           /\ ~Refused(c) => r = Result(c)
  BY AnswerIs
<1> DEFINE m == [kind |-> "answer", call |-> c, result |-> r]
           n == Len(line')
<1>2. m \in Messages /\ m.kind = "answer" /\ m.call = c /\ m.result = r /\ line' = Append(line, m)
      /\ UNCHANGED <<scene, shown>>
  BY <1>1 DEF pageVars
<1> HIDE DEF m
<1>3. /\ \A i \in 1..Len(line) :
              /\ line'[i] = line[i] /\ i < n
              /\ (AnswerAt(line', i) <=> AnswerAt(line, i))
              /\ (OkAt(line', i) <=> OkAt(line, i))
              /\ ViewAt(line', i) = ViewAt(line, i)
      /\ \A i \in 1..n : i \in 1..Len(line) \/ i = n
      /\ line'[n] = m /\ n \in 1..n /\ Len(line) \in Nat /\ n = Len(line) + 1
  BY <1>2, Extended
<1> DEFINE v == r.view
           x == scene[c.space]
<1>4. ASSUME OkAt(line', n)
      PROVE  /\ ViewAt(line', n) = v /\ v \in Views /\ v.space = c.space /\ c.space \in Spaces
             /\ v.rev = x.rev /\ v.live = x.live /\ v.ops = x.ops
             /\ (v.ids # <<>> <=> x.last # 0) /\ x \in SceneTypes
  <2>1. r.ok /\ c.kind # "history"
    BY <1>2, <1>3, <1>4 DEF OkAt
  <2>2. CallOK(c) /\ c.space \in Spaces
    BY DEF TypeInv, CallsOK, CallOK, CallTypes
  <2>3. r = Result(c)
    BY <1>1, <2>1
  <2>4. v.rev = x.rev /\ v.live = x.live /\ v.ops = x.ops /\ (v.ids # <<>> <=> x.last # 0)
    BY <2>1, <2>2, <2>3, ResultIs DEF TypeInv
  <2>5. v \in Views /\ v.space = c.space
    BY <1>1, <2>1 DEF AnswerOK
  <2>6. x \in SceneTypes
    BY <2>2 DEF TypeInv
  <2> QED BY <1>2, <1>3, <2>2, <2>4, <2>5, <2>6 DEF ViewAt
<1>5. OkAt(line', n) => OlderNow(v, x)
  <2>1. ASSUME OkAt(line', n) PROVE OlderNow(v, x)
    <3>1. x.rev \in Nat /\ x.live \in Nat
      BY <1>4, <2>1 DEF SceneTypes
    <3> QED BY <1>4, <2>1, <3>1 DEF OlderNow
  <2> QED BY <2>1
<1> HIDE DEF v, x, n
<1>6. ASSUME NEW w \in Views, OkAt(line', n), w.space = c.space, OlderNow(w, x)
      PROVE  Older(w, v)
  BY <1>4, <1>6 DEF OlderNow, Older
<1>7. \A i \in 1..n : OkAt(line', i) => OlderNow(ViewAt(line', i), scene'[ViewAt(line', i).space])
  BY <1>2, <1>3, <1>4, <1>5 DEF OrderInv, x
<1>8. ASSUME NEW i \in 1..n, NEW j \in 1..n, i < j, OkAt(line', i),
             OkAt(line', j), ViewAt(line', i).space = ViewAt(line', j).space
      PROVE  Older(ViewAt(line', i), ViewAt(line', j))
  <2>1. i \in 1..Len(line)
    BY <1>3, <1>8
  <2>2. CASE j \in 1..Len(line)
    BY <1>3, <1>8, <2>1, <2>2 DEF OrderInv
  <2>3. CASE j = n
    <3> DEFINE w == ViewAt(line, i)
    <3>1. w \in Views /\ OlderNow(w, scene[w.space]) /\ ViewAt(line', i) = w
      BY <1>3, <1>8, <2>1, ViewAtIs DEF OrderInv
    <3>2. w.space = c.space
      BY <1>4, <1>8, <2>3, <3>1
    <3> HIDE DEF w
    <3>3. Older(w, v)
      BY <1>6, <1>8, <2>3, <3>1, <3>2 DEF x
    <3> QED BY <1>4, <1>8, <2>3, <3>1, <3>3
  <2> QED BY <1>3, <2>2, <2>3
<1>9. ASSUME NEW i \in 1..n, shown' \in Views, OkAt(line', i),
             ViewAt(line', i).space = shown'.space
      PROVE  Older(shown', ViewAt(line', i))
  <2>1. CASE i \in 1..Len(line)
    BY <1>2, <1>3, <1>9, <2>1 DEF OrderInv
  <2>2. CASE i = n
    BY <1>2, <1>4, <1>6, <1>9, <2>2 DEF OrderInv, x
  <2> QED BY <1>3, <2>1, <2>2
<1>10. shown' \in Views => OlderNow(shown', scene'[shown'.space])
  BY <1>2 DEF OrderInv
<1>11. OrderInv'
  BY <1>7, <1>8, <1>9, <1>10 DEF OrderInv, n
<1>12. ASSUME NEW d, ReadsRows(d, scene, shown, line)
       PROVE  ReadsRows(d, scene', shown', line')
  BY <1>2, <1>3, <1>4, <1>12 DEF ReadsRows, n, x
<1>13. \A d \in calls : ReadsRows(d, scene', shown', line')
  BY <1>12 DEF RowsInv
<1>14. ASSUME NEW i \in 1..n, AnswerAt(line', i)
       PROVE  ReadsRows(line'[i].call, scene', shown', line')
  <2>1. CASE i = n
    BY <1>2, <1>3, <1>13, <2>1
  <2>2. CASE i \in 1..Len(line)
    BY <1>3, <1>12, <1>14, <2>2 DEF RowsInv
  <2> QED BY <1>3, <2>1, <2>2
<1> QED BY <1>1, <1>11, <1>13, <1>14 DEF RowsInv, n

\* A call that is asked reads rows that are there.
LEMMA NewReadsRows ==
  ASSUME TypeInv, OrderInv, NEW c, NewCall(c),
         c.kind = "history" => c.target = shown.space /\ shown.ids # <<>> /\ shown \in Views
  PROVE  ReadsRows(c, scene, shown, line)
<1> SUFFICES ASSUME c.kind = "history", c.target = c.space
             PROVE  ReadsRows(c, scene, shown, line)
  BY DEF ReadsRows
<1>1. shown \in Views /\ shown.space = c.space /\ shown.ids # <<>>
  OBVIOUS
<1>2. scene[c.space].last # 0
  BY <1>1 DEF OrderInv, OlderNow
<1>3. \A i \in 1..Len(line) : OkAt(line, i) /\ ViewAt(line, i).space = c.space =>
                                ViewAt(line, i).ids # <<>>
  BY <1>1 DEF OrderInv, Older
<1> QED BY <1>1, <1>2, <1>3 DEF ReadsRows

LEMMA OrderOfAsking ==
  ASSUME TypeInv, OrderInv, RowsInv, UNCHANGED <<scene, shown, line>>,
         \/ calls' = calls
         \/ \E c : /\ NewCall(c)
                   /\ c.kind = "history" => c.target = shown.space /\ shown.ids # <<>>
                                              /\ shown \in Views
  PROVE  OrderInv' /\ RowsInv'
<1>1. OrderInv'
  BY DEF OrderInv, OkAt, AnswerAt, ViewAt
<1>2. CASE calls' = calls
  BY <1>1, <1>2 DEF RowsInv, AnswerAt
<1>3. ASSUME NEW c, NewCall(c),
             c.kind = "history" => c.target = shown.space /\ shown.ids # <<>> /\ shown \in Views
      PROVE  RowsInv'
  <2>1. ReadsRows(c, scene, shown, line)
    BY <1>3, NewReadsRows
  <2>2. calls' = calls \cup {c}
    BY <1>3 DEF NewCall
  <2> QED BY <2>1, <2>2 DEF RowsInv, AnswerAt
<1> QED BY <1>1, <1>2, <1>3

\* A message is read; a workspace it brings is later than what was shown.
LEMMA OrderOfReading ==
  ASSUME TypeInv, OrderInv, RowsInv, Takes(line[1]),
         calls' = calls \/ (\E c : NewCall(c) /\ c.kind # "history"),
         \/ shown' = shown
         \/ OkAt(line, 1) /\ shown' = ViewAt(line, 1)
         \/ /\ shown' \in Views /\ shown \in Views /\ shown'.space = shown.space
            /\ shown'.rev = shown.rev /\ shown'.live = shown.live /\ shown'.ops = shown.ops
            /\ shown.ids # <<>> /\ shown'.ids # <<>>
  PROVE  OrderInv' /\ RowsInv'
<1>1. /\ 1 \in 1..Len(line)
      /\ \A i \in 1..Len(line') :
              /\ line'[i] = line[i + 1] /\ i + 1 \in 1..Len(line) /\ 1 < i + 1
              /\ (AnswerAt(line', i) <=> AnswerAt(line, i + 1))
              /\ (OkAt(line', i) <=> OkAt(line, i + 1))
              /\ ViewAt(line', i) = ViewAt(line, i + 1)
  BY Shifted
<1>2. scene' = scene
  BY DEF Takes, serverVars
<1>3. \A i \in 1..Len(line') : OkAt(line', i) =>
        OlderNow(ViewAt(line', i), scene'[ViewAt(line', i).space])
  BY <1>1, <1>2 DEF OrderInv
<1>4. ASSUME NEW i \in 1..Len(line'), NEW j \in 1..Len(line'), i < j, OkAt(line', i),
             OkAt(line', j), ViewAt(line', i).space = ViewAt(line', j).space
      PROVE  Older(ViewAt(line', i), ViewAt(line', j))
  <2>1. i + 1 < j + 1
    BY <1>4
  <2> QED BY <1>1, <1>4, <2>1 DEF OrderInv
<1>5. /\ shown' \in Views => OlderNow(shown', scene'[shown'.space])
      /\ \A i \in 1..Len(line') :
           shown' \in Views /\ OkAt(line', i) /\ ViewAt(line', i).space = shown'.space
           => Older(shown', ViewAt(line', i))
  <2>1. CASE shown' = shown
    BY <1>1, <1>2, <2>1 DEF OrderInv
  <2>2. CASE OkAt(line, 1) /\ shown' = ViewAt(line, 1)
    BY <1>1, <1>2, <2>2 DEF OrderInv
  <2>3. CASE /\ shown' \in Views /\ shown \in Views /\ shown'.space = shown.space
             /\ shown'.rev = shown.rev /\ shown'.live = shown.live /\ shown'.ops = shown.ops
             /\ shown.ids # <<>> /\ shown'.ids # <<>>
    BY <1>1, <1>2, <2>3 DEF OrderInv, Older, OlderNow
  <2> QED BY <2>1, <2>2, <2>3
<1>6. OrderInv'
  BY <1>3, <1>4, <1>5 DEF OrderInv
<1>7. ASSUME NEW d, ReadsRows(d, scene, shown, line)
      PROVE  ReadsRows(d, scene', shown', line')
  <2> SUFFICES ASSUME d.kind = "history", d.target = d.space
               PROVE  ReadsRows(d, scene', shown', line')
    BY DEF ReadsRows
  <2>1. /\ scene[d.space].last # 0
        /\ shown \in Views /\ shown.space = d.space => shown.ids # <<>>
        /\ \A i \in 1..Len(line) : OkAt(line, i) /\ ViewAt(line, i).space = d.space =>
                                 ViewAt(line, i).ids # <<>>
    BY <1>7 DEF ReadsRows
  <2>2. shown' \in Views /\ shown'.space = d.space => shown'.ids # <<>>
    BY <1>1, <2>1
  <2>3. \A i \in 1..Len(line') : OkAt(line', i) /\ ViewAt(line', i).space = d.space =>
                                 ViewAt(line', i).ids # <<>>
    BY <1>1, <2>1
  <2> QED BY <1>2, <2>1, <2>2, <2>3 DEF ReadsRows
<1>8. \A d \in calls : ReadsRows(d, scene', shown', line')
  BY <1>7 DEF RowsInv
<1>9. \A d \in calls' : ReadsRows(d, scene', shown', line')
  BY <1>8 DEF NewCall, ReadsRows
<1>10. \A i \in 1..Len(line') : AnswerAt(line', i) =>
         ReadsRows(line'[i].call, scene', shown', line')
  BY <1>1, <1>7 DEF RowsInv
<1> QED BY <1>6, <1>9, <1>10 DEF RowsInv

\* What the page shows after a page of history: as before, with more before it.
LEMMA HistoryShows ==
  ASSUME TypeInv, RowsInv, ReceiveHistory
  PROVE  \/ shown' = shown
         \/ /\ shown' \in Views /\ shown \in Views /\ shown'.space = shown.space
            /\ shown'.rev = shown.rev /\ shown'.live = shown.live /\ shown'.ops = shown.ops
            /\ shown'.operator = shown.operator
            /\ shown.ids # <<>> /\ shown'.ids # <<>>
            /\ shown'.ids[Len(shown'.ids)] = shown.ids[Len(shown.ids)]
<1> DEFINE c == line[1].call
           r == line[1].result
<1>1. /\ Takes(line[1]) /\ AnswerAt(line, 1) /\ c.kind = "history"
      /\ r.ok /\ c.space = shown.space =>
           /\ shown \in Views /\ r.page = HistoryPage(c.before) /\ c.target = c.space
           /\ c.before \in Nat \ {0}
           /\ shown' = [shown EXCEPT !.ids = r.page.ids \o @, !.more = r.page.more]
           /\ shown' \in Views
      /\ ~(r.ok /\ c.space = shown.space) => shown' = shown
  BY HistoryIs
<1>2. CASE r.ok /\ c.space = shown.space
  <2>1. 1 \in 1..Len(line)
    BY <1>1, Shifted
  <2>2. shown.ids # <<>>
    BY <1>1, <1>2, <2>1 DEF RowsInv, ReadsRows
  <2> DEFINE ids == r.page.ids
             old == shown.ids
  <2>3. ids \in Seq(Nat \ {0})
    BY <1>1, <1>2, PageIs DEF Pages
  <2>4. /\ shown'.space = shown.space /\ shown'.rev = shown.rev /\ shown'.live = shown.live
        /\ shown'.ops = shown.ops /\ shown'.operator = shown.operator
        /\ shown'.ids = ids \o old
    BY <1>1, <1>2 DEF Views
  <2>5. old \in Seq(Nat \ {0}) /\ old # <<>>
    BY <1>1, <1>2, <2>2 DEF Views
  <2> HIDE DEF ids, old
  <2>6. /\ ids \o old \in Seq(Nat \ {0}) /\ Len(ids \o old) = Len(ids) + Len(old)
        /\ Len(ids) \in Nat /\ Len(old) \in Nat \ {0}
        /\ \A k \in 1..Len(old) : (ids \o old)[Len(ids) + k] = old[k]
    BY <2>3, <2>5
  <2>7. (ids \o old)[Len(ids \o old)] = old[Len(old)] /\ ids \o old # <<>>
    BY <2>6
  <2> QED BY <1>1, <1>2, <2>4, <2>5, <2>7 DEF old
<1> QED BY <1>1, <1>2

\* And so by every step.
LEMMA OrderKept ==
  ASSUME TypeInv, OrderInv, RowsInv, [Next]_vars
  PROVE  OrderInv' /\ RowsInv'
<1>1. CASE Idle
  BY <1>1, OrderOfAsking DEF Idle
<1>2. ASSUME NEW s, ServerChanges(s) PROVE OrderInv' /\ RowsInv'
  BY <1>2, OrderOfChange
<1>3. ASSUME NEW c \in calls, Answer(c) PROVE OrderInv' /\ RowsInv'
  BY <1>3, OrderOfAnswer
<1>4. ASSUME NEW c, Asks(c),
             c.kind = "history" => c.target = shown.space /\ shown.ids # <<>> /\ shown \in Views
      PROVE  OrderInv' /\ RowsInv'
  BY <1>4, OrderOfAsking DEF Asks, serverVars
<1>5. CASE Passes
  BY <1>5, OrderOfReading DEF Passes
<1>6. CASE Updates
  BY <1>6, OrderOfReading DEF Updates, Shows
<1>7. CASE ReceiveHistory
  BY <1>7, HistoryIs, HistoryShows, OrderOfReading
<1> QED BY <1>1, <1>2, <1>3, <1>4, <1>5, <1>6, <1>7, StepKinds

-----------------------------------------------------------------------------
(* The page catches up *)

\* The workspace is not what there is any more.
Stale(v, there) ==
  ~ (/\ v.rev = there[v.space].rev /\ v.live = there[v.space].live
     /\ v.ids # <<>> => v.ids[Len(v.ids)] = there[v.space].last)

\* A broadcast for s comes after the first i messages.
Told(l, s, i) == \E j \in 1..Len(l) : i < j /\ l[j].kind = "mutated" /\ l[j].space = s

\* A load of s is under way.
Loads(l, asks, s) ==
  \/ \E c \in asks : c.kind \in {"load", "bare"} /\ c.space = s
  \/ \E i \in 1..Len(l) :
       AnswerAt(l, i) /\ l[i].call.kind \in {"load", "bare"} /\ l[i].call.space = s

\* A refresh of s as o is under way, or its workspace is on its way.
Refreshes(l, asks, s, o) ==
  \/ \E c \in asks : c.kind = "refresh" /\ c.space = s /\ c.operator = o
  \/ \E i \in 1..Len(l) : OkAt(l, i) /\ l[i].call.kind = "refresh" /\ l[i].call.space = s

\* What is on its way and out of date is followed by a broadcast.
ToldInv ==
  \A i \in 1..Len(line) : OkAt(line, i) /\ Stale(ViewAt(line, i), scene) =>
                            Told(line, ViewAt(line, i).space, i)

\* A refresh is under way, or its answer is.
RefreshRuns(l, asks) ==
  \/ \E c \in asks : c.kind = "refresh"
  \/ \E i \in 1..Len(l) : AnswerAt(l, i) /\ l[i].call.kind = "refresh"

\* The page shows its space as it was, to somebody who is still there.
Behind ==
  /\ shown \in Views /\ shown.space = space /\ operator \in scene[space].ops
  /\ Stale(shown, scene)

\* What is shown and out of date is going to be read again.
CatchUpInv ==
  /\ pending => refreshing
  /\ refreshing => RefreshRuns(line, calls)
  /\ Behind => \/ Told(line, space, 0) \/ pending
               \/ Loads(line, calls, space) \/ Refreshes(line, calls, space, operator)

LEMMA CatchUpInit == Init => ToldInv /\ CatchUpInv
<1> SUFFICES ASSUME Init PROVE ToldInv /\ CatchUpInv
  OBVIOUS
<1>1. /\ shown = Blank /\ line = <<>> /\ \A c \in calls : c.kind # "history"
      /\ pending = FALSE /\ refreshing = FALSE
  BY DEF Init
<1>2. Blank \notin Views
  BY ClientAssumption DEF Blank, Views
<1> QED BY <1>1, <1>2 DEF ToldInv, CatchUpInv, Behind, AnswerAt, OkAt

\* Reading the first message leaves the later ones.
LEMMA ToldLater ==
  ASSUME TypeInv, NEW m, Takes(m), NEW s
  PROVE  /\ Told(line, s, 1) => Told(line', s, 0)
         /\ \A i \in 1..Len(line') : Told(line, s, i + 1) => Told(line', s, i)
         /\ Told(line, s, 0) => Told(line', s, 0) \/ (line[1].kind = "mutated" /\ line[1].space = s)
<1>1. /\ 1 \in 1..Len(line) /\ Len(line) \in Nat
      /\ \A i \in 1..Len(line') : line'[i] = line[i + 1] /\ i + 1 \in 1..Len(line)
      /\ \A k \in 1..Len(line) : k = 1 \/ \E i \in 1..Len(line') : k = i + 1
  BY Shifted
<1>2. ASSUME NEW i \in Nat, Told(line, s, i + 1) PROVE Told(line', s, i)
  <2>1. PICK j \in 1..Len(line) : i + 1 < j /\ line[j].kind = "mutated" /\ line[j].space = s
    BY <1>2 DEF Told
  <2>2. j # 1
    BY <2>1
  <2>3. PICK k \in 1..Len(line') : j = k + 1
    BY <1>1, <2>2
  <2>4. i < k
    BY <2>1, <2>3
  <2> QED BY <1>1, <2>1, <2>3, <2>4 DEF Told
<1>3. Told(line, s, 1) => Told(line', s, 0)
  BY <1>2
<1>4. \A i \in 1..Len(line') : Told(line, s, i + 1) => Told(line', s, i)
  BY <1>2
<1>5. ASSUME Told(line, s, 0), ~(line[1].kind = "mutated" /\ line[1].space = s)
      PROVE  Told(line', s, 0)
  <2>1. PICK j \in 1..Len(line) : line[j].kind = "mutated" /\ line[j].space = s
    BY <1>5 DEF Told
  <2>2. PICK k \in 1..Len(line') : j = k + 1
    BY <1>1, <1>5, <2>1
  <2> QED BY <1>1, <2>1, <2>2 DEF Told
<1> QED BY <1>3, <1>4, <1>5

\* A message that is sent is the last.
LEMMA ToldStill ==
  ASSUME TypeInv, NEW m \in Messages, line' = Append(line, m), NEW s, NEW i \in Nat
  PROVE  /\ Told(line, s, i) => Told(line', s, i)
         /\ m.kind = "mutated" /\ m.space = s /\ i <= Len(line) => Told(line', s, i)
<1>1. /\ \A k \in 1..Len(line) : line'[k] = line[k] /\ k \in 1..Len(line')
      /\ Len(line') \in 1..Len(line') /\ line'[Len(line')] = m /\ Len(line') = Len(line) + 1
      /\ Len(line) \in Nat
  BY Extended
<1> QED BY <1>1 DEF Told


\* Whatever the page does, what comes after a workspace still comes after it.
LEMMA ToldKept ==
  ASSUME TypeInv, ToldInv, [Next]_vars
  PROVE  ToldInv'
<1>1. ASSUME UNCHANGED <<scene, line>> PROVE ToldInv'
  BY <1>1 DEF ToldInv, OkAt, AnswerAt, ViewAt, Told
<1>2. ASSUME NEW s, ServerChanges(s) PROVE ToldInv'
  <2>1. /\ s \in Spaces /\ line' = Append(line, Mutated(s)) /\ Mutated(s) \in Messages
        /\ Mutated(s).kind = "mutated" /\ Mutated(s).space = s
        /\ \A t \in Spaces : t # s => scene'[t] = scene[t]
    BY <1>2, MutatedMessage DEF ServerChanges, Committed
  <2>2. /\ Len(line) \in Nat
        /\ \A i \in 1..Len(line) : /\ (OkAt(line', i) <=> OkAt(line, i))
                                   /\ ViewAt(line', i) = ViewAt(line, i)
        /\ \A i \in 1..Len(line') : i \in 1..Len(line) \/ i = Len(line')
        /\ line'[Len(line')] = Mutated(s)
    BY <2>1, Extended
  <2> SUFFICES ASSUME NEW i \in 1..Len(line'), OkAt(line', i), Stale(ViewAt(line', i), scene')
               PROVE  Told(line', ViewAt(line', i).space, i)
    BY DEF ToldInv
  <2>3. i \in 1..Len(line)
    BY <2>1, <2>2 DEF OkAt, AnswerAt
  <2> DEFINE v == ViewAt(line, i)
  <2>4. OkAt(line, i) /\ v = ViewAt(line', i) /\ v.space \in Spaces /\ i \in Nat /\ i <= Len(line)
    BY <2>2, <2>3, ViewAtIs
  <2>5. CASE v.space = s
    BY <2>1, <2>4, <2>5, ToldStill
  <2>6. CASE v.space # s
    <3>1. Stale(v, scene)
      BY <2>1, <2>4, <2>6 DEF Stale
    <3>2. Told(line, v.space, i)
      BY <2>3, <2>4, <3>1 DEF ToldInv
    <3> HIDE DEF v
    <3> QED BY <2>1, <2>4, <3>2, ToldStill
  <2> QED BY <2>5, <2>6
<1>3. ASSUME NEW c \in calls, Answer(c) PROVE ToldInv'
  <2>1. PICK r \in Results :
           /\ AnswerOK(c, r)
           /\ line' = Append(line, [kind |-> "answer", call |-> c, result |-> r])
           /\ [kind |-> "answer", call |-> c, result |-> r] \in Messages
           /\ scene' = scene
           /\ Refused(c) => ~r.ok
           /\ ~Refused(c) => r = Result(c)
    BY <1>3, AnswerIs
  <2> DEFINE m == [kind |-> "answer", call |-> c, result |-> r]
  <2>2. m \in Messages /\ m.call = c /\ m.result = r /\ line' = Append(line, m)
    BY <2>1
  <2> HIDE DEF m
  <2>3. /\ Len(line) \in Nat /\ line'[Len(line')] = m
        /\ \A i \in 1..Len(line) : /\ (OkAt(line', i) <=> OkAt(line, i))
                                   /\ ViewAt(line', i) = ViewAt(line, i)
        /\ \A i \in 1..Len(line') : i \in 1..Len(line) \/ i = Len(line')
    BY <2>2, Extended
  <2> SUFFICES ASSUME NEW i \in 1..Len(line'), OkAt(line', i), Stale(ViewAt(line', i), scene')
               PROVE  Told(line', ViewAt(line', i).space, i)
    BY DEF ToldInv
  <2>4. CASE i \in 1..Len(line)
    <3> DEFINE v == ViewAt(line, i)
    <3>1. Told(line, v.space, i) /\ ViewAt(line', i) = v /\ i \in Nat
      BY <2>1, <2>3, <2>4 DEF ToldInv
    <3> HIDE DEF v
    <3> QED BY <2>2, <3>1, ToldStill
  <2>5. CASE i = Len(line')
    <3>1. r.ok /\ c.kind # "history" /\ ViewAt(line', i) = r.view /\ CallOK(c)
      BY <2>2, <2>3, <2>5 DEF OkAt, ViewAt, TypeInv, CallsOK
    <3>2. r = Result(c) /\ r.view.space = c.space
      BY <2>1, <3>1 DEF AnswerOK
    <3>3. /\ r.view.rev = scene[c.space].rev /\ r.view.live = scene[c.space].live
          /\ r.view.ids # <<>> => r.view.ids[Len(r.view.ids)] = scene[c.space].last
      BY <3>1, <3>2, ResultIs DEF TypeInv
    <3>4. ~Stale(r.view, scene)
      BY <3>2, <3>3 DEF Stale
    <3> QED BY <2>1, <3>1, <3>4
  <2> QED BY <2>3, <2>4, <2>5
<1>4. ASSUME NEW m, Takes(m) PROVE ToldInv'
  <2>1. /\ scene' = scene
        /\ \A i \in 1..Len(line') : /\ i + 1 \in 1..Len(line)
                                    /\ (OkAt(line', i) <=> OkAt(line, i + 1))
                                    /\ ViewAt(line', i) = ViewAt(line, i + 1)
    BY <1>4, Shifted DEF Takes, serverVars
  <2> SUFFICES ASSUME NEW i \in 1..Len(line'), OkAt(line', i), Stale(ViewAt(line', i), scene')
               PROVE  Told(line', ViewAt(line', i).space, i)
    BY DEF ToldInv
  <2> DEFINE s == ViewAt(line, i + 1).space
  <2>2. Told(line, s, i + 1) /\ ViewAt(line', i).space = s
    BY <2>1 DEF ToldInv
  <2> HIDE DEF s
  <2> QED BY <1>4, <2>2, ToldLater
<1>5. Idle => UNCHANGED <<scene, line>>
  BY DEF Idle
<1>6. \A c : Asks(c) => UNCHANGED <<scene, line>>
  BY DEF Asks, serverVars
<1>7. Passes \/ Updates \/ ReceiveHistory => Takes(line[1])
  BY HistoryIs DEF Passes, Updates
<1> QED BY <1>1, <1>2, <1>3, <1>4, <1>5, <1>6, <1>7, StepKinds

\* A workspace that is shown and out of date has a broadcast behind it.
LEMMA ShownIsToldOf ==
  ASSUME TypeInv, ToldInv, Takes(line[1]), OkAt(line, 1), shown' = ViewAt(line, 1), Behind'
  PROVE  Told(line', space', 0)
<1>1. scene' = scene /\ 1 \in 1..Len(line)
  BY Shifted DEF Takes, serverVars
<1>2. Stale(ViewAt(line, 1), scene) /\ ViewAt(line, 1).space = space'
  BY <1>1 DEF Behind
<1>3. Told(line, space', 1)
  BY <1>1, <1>2 DEF ToldInv
<1> QED BY <1>3, ToldLater

\* What is under way stays so when the page reads something else.
LEMMA UnderwayAfterReading ==
  ASSUME TypeInv, Takes(line[1]), calls \subseteq calls', NEW s, NEW o
  PROVE  /\ RefreshRuns(line, calls) =>
              RefreshRuns(line', calls') \/ (AnswerAt(line, 1) /\ line[1].call.kind = "refresh")
         /\ Loads(line, calls, s) =>
              \/ Loads(line', calls', s)
              \/ AnswerAt(line, 1) /\ line[1].call.kind \in {"load", "bare"} /\ line[1].call.space = s
         /\ Refreshes(line, calls, s, o) =>
              \/ Refreshes(line', calls', s, o)
              \/ OkAt(line, 1) /\ line[1].call.kind = "refresh" /\ line[1].call.space = s
<1>1. /\ \A i \in 1..Len(line') : /\ line'[i] = line[i + 1]
                                  /\ (AnswerAt(line', i) <=> AnswerAt(line, i + 1))
                                  /\ (OkAt(line', i) <=> OkAt(line, i + 1))
      /\ \A k \in 1..Len(line) : k = 1 \/ \E i \in 1..Len(line') : k = i + 1
  BY Shifted
<1>2. \A k \in 1..Len(line) : AnswerAt(line, k) =>
        k = 1 \/ \E i \in 1..Len(line') : AnswerAt(line', i) /\ line'[i] = line[k]
  BY <1>1
<1>3. \A k \in 1..Len(line) : OkAt(line, k) =>
        k = 1 \/ \E i \in 1..Len(line') : OkAt(line', i) /\ line'[i] = line[k]
  BY <1>1
<1>4. RefreshRuns(line, calls) =>
        RefreshRuns(line', calls') \/ (AnswerAt(line, 1) /\ line[1].call.kind = "refresh")
  BY <1>2 DEF RefreshRuns
<1>5. Loads(line, calls, s) =>
        \/ Loads(line', calls', s)
        \/ AnswerAt(line, 1) /\ line[1].call.kind \in {"load", "bare"} /\ line[1].call.space = s
  BY <1>2 DEF Loads
<1>6. Refreshes(line, calls, s, o) =>
        \/ Refreshes(line', calls', s, o)
        \/ OkAt(line, 1) /\ line[1].call.kind = "refresh" /\ line[1].call.space = s
  BY <1>3 DEF Refreshes
<1> QED BY <1>4, <1>5, <1>6

\* It does so when something is sent.
LEMMA UnderwayAfterSending ==
  ASSUME TypeInv, NEW m \in Messages, line' = Append(line, m), calls \subseteq calls', NEW s, NEW o
  PROVE  /\ RefreshRuns(line, calls) => RefreshRuns(line', calls')
         /\ Loads(line, calls, s) => Loads(line', calls', s)
         /\ Refreshes(line, calls, s, o) => Refreshes(line', calls', s, o)
<1>1. \A i \in 1..Len(line) : /\ line'[i] = line[i] /\ i \in 1..Len(line')
                              /\ (AnswerAt(line', i) <=> AnswerAt(line, i))
                              /\ (OkAt(line', i) <=> OkAt(line, i))
  BY Extended
<1> QED BY <1>1 DEF RefreshRuns, Loads, Refreshes

\* It is so when it is answered, and a refresh as somebody who is there is answered with
\* the workspace.
LEMMA UnderwayAfterAnswer ==
  ASSUME TypeInv, NEW c \in calls, Answer(c), NEW s \in Spaces, NEW o
  PROVE  /\ RefreshRuns(line, calls) => RefreshRuns(line', calls')
         /\ Loads(line, calls, s) => Loads(line', calls', s)
         /\ Refreshes(line, calls, s, o) /\ o \in scene[s].ops => Refreshes(line', calls', s, o)
<1>1. PICK r \in Results :
           /\ calls' = calls \ {c}
           /\ line' = Append(line, [kind |-> "answer", call |-> c, result |-> r])
           /\ [kind |-> "answer", call |-> c, result |-> r] \in Messages
           /\ ~Refused(c) => r = Result(c)
  BY AnswerIs
<1> DEFINE m == [kind |-> "answer", call |-> c, result |-> r]
           n == Len(line')
<1>2. m \in Messages /\ m.kind = "answer" /\ m.call = c /\ m.result = r /\ line' = Append(line, m)
  BY <1>1
<1> HIDE DEF m
<1>3. /\ \A i \in 1..Len(line) : /\ line'[i] = line[i] /\ i \in 1..n
                                 /\ (AnswerAt(line', i) <=> AnswerAt(line, i))
                                 /\ (OkAt(line', i) <=> OkAt(line, i))
      /\ n \in 1..n /\ line'[n] = m
  BY <1>2, Extended
<1>4. AnswerAt(line', n) /\ line'[n].call = c
  BY <1>2, <1>3 DEF AnswerAt
<1>5. c.kind = "refresh" /\ c.space = s /\ c.operator = o /\ o \in scene[s].ops => OkAt(line', n)
  <2>1. ASSUME c.kind = "refresh", c.space = s, c.operator = o, o \in scene[s].ops PROVE r.ok
    <3>1. CallOK(c) /\ r = Result(c)
      BY <1>1, <2>1 DEF Refused, Changes, TypeInv, CallsOK
    <3> QED BY <2>1, <3>1, ResultIs DEF TypeInv
  <2> QED BY <1>2, <1>3, <1>4, <2>1 DEF OkAt
<1> HIDE DEF n
<1>6. RefreshRuns(line, calls) => RefreshRuns(line', calls')
  BY <1>1, <1>3, <1>4 DEF RefreshRuns, n
<1>7. Loads(line, calls, s) => Loads(line', calls', s)
  BY <1>1, <1>3, <1>4 DEF Loads, n
<1>8. Refreshes(line, calls, s, o) /\ o \in scene[s].ops => Refreshes(line', calls', s, o)
  BY <1>1, <1>3, <1>4, <1>5 DEF Refreshes, n
<1> QED BY <1>6, <1>7, <1>8

\* A message is read and the page shows what it showed, or it shows what comes with the message.
LEMMA CatchUpOfReading ==
  ASSUME TypeInv, OrderInv, ToldInv, CatchUpInv, Takes(line[1]),
         calls' = calls \/ \E c : NewCall(c),
         \/ UNCHANGED <<shown, operator>>
         \/ OkAt(line, 1) /\ shown' = ViewAt(line, 1),
         pending' => refreshing',
         refreshing' => RefreshRuns(line', calls') \/
                        (refreshing /\ ~(AnswerAt(line, 1) /\ line[1].call.kind = "refresh")),
         UNCHANGED <<shown, operator>> /\ Behind =>
           /\ line[1].kind = "mutated" /\ line[1].space = space =>
                pending' \/ Refreshes(line', calls', space', operator')
           /\ pending => pending' \/ Refreshes(line', calls', space', operator')
           /\ OkAt(line, 1) => line[1].call.kind # "load" /\ line[1].call.kind # "bare"
           /\ AnswerAt(line, 1) /\ line[1].call.kind \in {"load", "bare"} => Loads(line', calls', space')
           /\ OkAt(line, 1) /\ line[1].call.kind = "refresh" => ViewAt(line, 1).space # space
  PROVE  CatchUpInv'
<1>1. calls \subseteq calls' /\ scene' = scene /\ space' = space
  BY DEF NewCall, Takes, serverVars
<1>2. refreshing' => RefreshRuns(line', calls')
  BY <1>1, UnderwayAfterReading DEF CatchUpInv
<1> DEFINE Ways == \/ Told(line', space', 0) \/ pending' \/ Loads(line', calls', space')
                   \/ Refreshes(line', calls', space', operator')
<1>3. CASE OkAt(line, 1) /\ shown' = ViewAt(line, 1)
  <2>1. Behind' => Ways
    BY <1>3, ShownIsToldOf
  <2> QED BY <1>2, <2>1 DEF CatchUpInv
<1>4. CASE UNCHANGED <<shown, operator>>
  <2> SUFFICES ASSUME Behind' PROVE Ways
    BY <1>2 DEF CatchUpInv
  <2>1. Behind
    BY <1>1, <1>4 DEF Behind
  <2>2. CASE Told(line, space, 0)
    BY <1>1, <1>4, <2>1, <2>2, ToldLater
  <2>3. CASE pending
    BY <1>4, <2>1, <2>3
  <2>4. CASE Loads(line, calls, space)
    BY <1>1, <1>4, <2>1, <2>4, UnderwayAfterReading
  <2>5. CASE Refreshes(line, calls, space, operator)
    <3>1. \/ Refreshes(line', calls', space, operator)
          \/ OkAt(line, 1) /\ line[1].call.kind = "refresh" /\ line[1].call.space = space
      BY <1>1, <2>5, UnderwayAfterReading
    <3>2. 1 \in 1..Len(line)
      BY Shifted
    <3>3. OkAt(line, 1) => ViewAt(line, 1).space = line[1].call.space
      BY <3>2, ViewAtIs
    <3> QED BY <1>1, <1>4, <2>1, <3>1, <3>3
  <2> QED BY <2>1, <2>2, <2>3, <2>4, <2>5 DEF CatchUpInv
<1> QED BY <1>3, <1>4

\* A page of history goes before what is shown, which is as current as it was.
LEMMA CatchUpOfHistory ==
  ASSUME TypeInv, RowsInv, CatchUpInv, ReceiveHistory
  PROVE  CatchUpInv'
<1>1. /\ Takes(line[1]) /\ AnswerAt(line, 1) /\ line[1].call.kind = "history"
      /\ UNCHANGED <<calls, refreshing, pending, operator>>
  BY HistoryIs
<1>2. scene' = scene /\ space' = space /\ ~OkAt(line, 1) /\ line[1].kind # "mutated"
  BY <1>1 DEF Takes, serverVars, OkAt, AnswerAt
<1>3. refreshing' => RefreshRuns(line', calls')
  BY <1>1, UnderwayAfterReading DEF CatchUpInv
<1> SUFFICES ASSUME Behind'
             PROVE  \/ Told(line', space', 0) \/ pending' \/ Loads(line', calls', space')
                    \/ Refreshes(line', calls', space', operator')
  BY <1>1, <1>3 DEF CatchUpInv
<1>4. Behind
  BY <1>1, <1>2, HistoryShows DEF Behind, Stale
<1>5. Told(line, space, 0) => Told(line', space, 0)
  BY <1>1, <1>2, ToldLater
<1>6. /\ Loads(line, calls, space) => Loads(line', calls', space)
      /\ Refreshes(line, calls, space, operator) => Refreshes(line', calls', space, operator)
  BY <1>1, <1>2, UnderwayAfterReading
<1> QED BY <1>1, <1>2, <1>4, <1>5, <1>6 DEF CatchUpInv

\* A refresh that is asked for is under way.
LEMMA RefreshAsked ==
  ASSUME NEW o, AsksAgain("refresh", o)
  PROVE  /\ RefreshRuns(line', calls') /\ Refreshes(line', calls', space, o)
         /\ \E c : NewCall(c)
  BY DEF AsksAgain, NewCall, RefreshRuns, Refreshes

\* Whoever receives a change without showing it asks again.
LEMMA CatchUpOfReceiving ==
  ASSUME TypeInv, OrderInv, RowsInv, ToldInv, CatchUpInv, Receive
  PROVE  CatchUpInv'
<1>1. CASE ReceiveMutated
  <2>1. /\ Takes(line[1]) /\ line[1].kind = "mutated" /\ UNCHANGED <<operator, shown>>
        /\ line[1].space # space => UNCHANGED <<refreshing, pending, calls, tangled>>
        /\ line[1].space = space /\ refreshing =>
              pending' = TRUE /\ UNCHANGED <<refreshing, calls, tangled>>
        /\ line[1].space = space /\ ~refreshing =>
              /\ refreshing' = TRUE /\ pending' = FALSE /\ AsksAgain("refresh", operator)
    BY <1>1, MutatedIs
  <2>2. space' = space /\ ~AnswerAt(line, 1) /\ ~OkAt(line, 1)
    BY <2>1 DEF Takes, AnswerAt, OkAt
  <2>3. calls' = calls \/ \E c : NewCall(c)
    BY <2>1, RefreshAsked
  <2>4. line[1].space = space /\ ~refreshing =>
          RefreshRuns(line', calls') /\ Refreshes(line', calls', space', operator')
    BY <2>1, <2>2, RefreshAsked
  <2> QED BY <2>1, <2>2, <2>3, <2>4, CatchUpOfReading DEF CatchUpInv
<1>2. CASE ReceiveRefresh
  <2> DEFINE c == line[1].call
             r == line[1].result
  <2>1. /\ Takes(line[1]) /\ AnswerAt(line, 1) /\ c.kind = "refresh"
        /\ r.ok /\ r.view.rev >= shown.rev => Shows(r.view, operator) /\ OkAt(line, 1)
        /\ ~(r.ok /\ r.view.rev >= shown.rev) => UNCHANGED <<operator, shown>>
        /\ pending => /\ refreshing' = TRUE /\ pending' = FALSE /\ AsksAgain("refresh", operator')
        /\ ~pending => refreshing' = FALSE /\ UNCHANGED <<pending, calls, tangled>>
    BY <1>2, RefreshIs
  <2>2. space' = space /\ line[1].kind # "mutated" /\ 1 \in 1..Len(line)
    BY <2>1, Shifted DEF Takes, AnswerAt
  <2>3. pending => RefreshRuns(line', calls') /\ Refreshes(line', calls', space', operator')
    BY <2>1, <2>2, RefreshAsked
  <2>4. calls' = calls \/ \E d : NewCall(d)
    BY <2>1, RefreshAsked
  <2>5. \/ UNCHANGED <<shown, operator>>
        \/ OkAt(line, 1) /\ shown' = ViewAt(line, 1)
    BY <2>1 DEF Shows, ViewAt
  <2>6. ASSUME OkAt(line, 1), UNCHANGED <<shown, operator>>, Behind, ViewAt(line, 1).space = space
        PROVE  OkAt(line, 1) /\ shown' = ViewAt(line, 1)
    <3>1. Older(shown, ViewAt(line, 1))
      BY <2>2, <2>6 DEF OrderInv, Behind
    <3>2. shown.rev \in Nat /\ r.view.rev \in Nat /\ shown.rev <= r.view.rev
      BY <2>6, <3>1, ViewAtIs DEF Older, ViewAt, Behind, Views
    <3>3. r.ok
      BY <2>6 DEF OkAt
    <3>4. r.view.rev >= shown.rev
      BY <3>2
    <3> QED BY <2>1, <2>6, <3>3, <3>4 DEF Shows, ViewAt
  <2>7. CASE OkAt(line, 1) /\ shown' = ViewAt(line, 1)
    <3>1. pending' => refreshing'
      BY <2>1
    <3>2. refreshing' => RefreshRuns(line', calls')
      BY <2>1, <2>3
    <3>3. Behind' => Told(line', space', 0)
      BY <2>1, <2>7, ShownIsToldOf
    <3> QED BY <3>1, <3>2, <3>3 DEF CatchUpInv
  <2>8. CASE ~(OkAt(line, 1) /\ shown' = ViewAt(line, 1))
    <3>1. UNCHANGED <<shown, operator>> /\ (Behind /\ OkAt(line, 1) => ViewAt(line, 1).space # space)
      BY <2>5, <2>6, <2>8
    <3> HIDE DEF c, r
    <3>2. line[1].call.kind = "refresh" /\ (refreshing' => pending)
      BY <2>1 DEF c
    <3>3. pending' => refreshing'
      BY <2>1
    <3> QED BY <2>1, <2>2, <2>3, <2>4, <3>1, <3>2, <3>3, CatchUpOfReading
  <2> QED BY <2>7, <2>8
<1>3. CASE ReceiveLoad
  <2> DEFINE c == line[1].call
             r == line[1].result
  <2>1. /\ Takes(line[1]) /\ AnswerAt(line, 1) /\ c.kind \in {"load", "bare"}
        /\ UNCHANGED <<refreshing, pending>>
        /\ r.ok => Shows(r.view, c.operator) /\ OkAt(line, 1) /\ UNCHANGED calls
        /\ ~r.ok => AsksAgain("bare", c.operator) /\ UNCHANGED <<operator, shown>>
    BY <1>3, LoadIs
  <2>2. space' = space /\ line[1].kind # "mutated"
    BY <2>1 DEF Takes, AnswerAt
  <2>3. calls' = calls \/ \E d : NewCall(d)
    BY <2>1 DEF AsksAgain
  <2>4. line[1].call.kind # "refresh"
    BY <2>1
  <2>5. CASE r.ok
    <3>1. OkAt(line, 1) /\ shown' = ViewAt(line, 1) /\ calls \subseteq calls'
      BY <2>1, <2>5 DEF Shows, ViewAt
    <3>2. Behind' => Told(line', space', 0)
      BY <2>1, <3>1, ShownIsToldOf
    <3>3. refreshing' => RefreshRuns(line', calls')
      BY <2>1, <2>4, <3>1, UnderwayAfterReading DEF CatchUpInv
    <3> QED BY <2>1, <3>2, <3>3 DEF CatchUpInv
  <2>6. CASE ~r.ok
    <3>1. ~OkAt(line, 1) /\ UNCHANGED <<shown, operator>>
      BY <2>1, <2>6 DEF OkAt
    <3>2. Loads(line', calls', space')
      BY <2>1, <2>2, <2>6 DEF AsksAgain, NewCall, Loads
    <3> QED BY <2>1, <2>2, <2>3, <2>4, <3>1, <3>2, CatchUpOfReading DEF CatchUpInv
  <2> QED BY <2>5, <2>6
<1>4. CASE ReceiveSelect \/ ReceiveWorkspace \/ ReceiveDelete
  <2> DEFINE c == line[1].call
  <2>1. /\ Takes(line[1]) /\ AnswerAt(line, 1) /\ c.kind \in {"select", "send", "reread", "delete"}
        /\ UNCHANGED <<refreshing, pending>>
        /\ calls' = calls \/ \E d : NewCall(d)
        /\ \/ UNCHANGED <<shown, operator>>
           \/ OkAt(line, 1) /\ shown' = ViewAt(line, 1)
    <3>1. CASE ReceiveSelect
      BY <3>1, SelectedIs DEF Shows, ViewAt
    <3>2. CASE ReceiveWorkspace
      BY <3>2, WorkspaceIs DEF Shows, ViewAt
    <3>3. CASE ReceiveDelete
      BY <3>3, DeletedIs DEF Shows, ViewAt, AsksAgain
    <3> QED BY <1>4, <3>1, <3>2, <3>3
  <2>2. line[1].kind # "mutated" /\ line[1].call.kind \notin {"load", "bare", "refresh"}
    BY <2>1 DEF AnswerAt
  <2> QED BY <2>1, <2>2, CatchUpOfReading DEF CatchUpInv
<1>5. CASE ReceiveHistory
  BY <1>5, CatchUpOfHistory
<1> QED BY <1>1, <1>2, <1>3, <1>4, <1>5 DEF Receive

\* Every step keeps the promise that what is behind will be caught up with.
LEMMA CatchUpKept ==
  ASSUME TypeInv, OrderInv, RowsInv, ToldInv, CatchUpInv, [Next]_vars
  PROVE  CatchUpInv'
<1>1. CASE Panel \/ UNCHANGED vars
  <2>1. Idle
    BY <1>1, PanelIs DEF Idle, vars, serverVars, pageVars, ghostVars
  <2> QED BY <2>1 DEF Idle, CatchUpInv, Behind, RefreshRuns, Told, Loads, Refreshes, AnswerAt, OkAt
<1>2. ASSUME NEW s, ServerChanges(s) PROVE CatchUpInv'
  <2>1. /\ s \in Spaces /\ line' = Append(line, Mutated(s)) /\ Mutated(s) \in Messages
        /\ Mutated(s).kind = "mutated" /\ Mutated(s).space = s
        /\ UNCHANGED <<calls, shown, space, operator, pending, refreshing>>
        /\ \A t \in Spaces : t # s => scene'[t] = scene[t]
    BY <1>2, MutatedMessage DEF ServerChanges, Committed, pageVars
  <2>2. Len(line) \in Nat
    BY <2>1, Extended
  <2>3. RefreshRuns(line, calls) => RefreshRuns(line', calls')
    BY <2>1, UnderwayAfterSending
  <2>4. CASE s = space
    <3>1. Told(line', space, 0)
      BY <2>1, <2>2, <2>4, ToldStill
    <3> QED BY <2>1, <2>3, <3>1 DEF CatchUpInv
  <2>5. CASE s # space
    <3>1. Behind' => Behind
      BY <2>1, <2>5 DEF Behind, Stale, TypeInv
    <3>2. Told(line, space, 0) => Told(line', space, 0)
      BY <2>1, ToldStill
    <3>3. /\ Loads(line, calls, space) => Loads(line', calls', space)
          /\ Refreshes(line, calls, space, operator) => Refreshes(line', calls', space, operator)
      BY <2>1, UnderwayAfterSending
    <3> QED BY <2>1, <2>3, <3>1, <3>2, <3>3 DEF CatchUpInv
  <2> QED BY <2>4, <2>5
<1>3. ASSUME NEW c \in calls, Answer(c) PROVE CatchUpInv'
  <2>1. PICK r \in Results :
           /\ line' = Append(line, [kind |-> "answer", call |-> c, result |-> r])
           /\ [kind |-> "answer", call |-> c, result |-> r] \in Messages
           /\ UNCHANGED <<scene, shown, space, operator, pending, refreshing>>
    BY <1>3, AnswerIs DEF pageVars
  <2>2. Told(line, space, 0) => Told(line', space, 0)
    BY <2>1, ToldStill
  <2>3. /\ RefreshRuns(line, calls) => RefreshRuns(line', calls')
        /\ Loads(line, calls, space) => Loads(line', calls', space)
        /\ Refreshes(line, calls, space, operator) /\ operator \in scene[space].ops =>
             Refreshes(line', calls', space, operator)
    BY <1>3, UnderwayAfterAnswer DEF TypeInv
  <2>4. Behind' => Behind /\ operator \in scene[space].ops
    BY <2>1 DEF Behind, Stale
  <2> QED BY <2>1, <2>2, <2>3, <2>4 DEF CatchUpInv
<1>4. CASE User
  <2>1. PICK c : /\ Asks(c)
                 /\ space' = space \/ (c.kind \in {"load", "bare"} /\ c.space = space')
    BY <1>4, ObserveIs, SelectIs, SendIs, DeleteIs, EarlierIs DEF User
  <2>2. /\ calls' = calls \cup {c}
        /\ UNCHANGED <<scene, line, operator, shown, refreshing, pending>>
    BY <2>1 DEF Asks, NewCall, serverVars
  <2>3. RefreshRuns(line, calls) => RefreshRuns(line', calls')
    BY <2>2 DEF RefreshRuns, AnswerAt
  <2>4. CASE space' = space
    <3>1. Behind' => Behind
      BY <2>2, <2>4 DEF Behind
    <3>2. /\ Told(line, space, 0) => Told(line', space', 0)
          /\ Loads(line, calls, space) => Loads(line', calls', space')
          /\ Refreshes(line, calls, space, operator) => Refreshes(line', calls', space', operator')
      BY <2>2, <2>4 DEF Told, Loads, Refreshes, AnswerAt, OkAt
    <3> QED BY <2>2, <2>3, <3>1, <3>2 DEF CatchUpInv
  <2>5. CASE c.kind \in {"load", "bare"} /\ c.space = space'
    <3>1. Loads(line', calls', space')
      BY <2>2, <2>5 DEF Loads
    <3> QED BY <2>2, <2>3, <3>1 DEF CatchUpInv
  <2> QED BY <2>1, <2>4, <2>5
<1>5. CASE Server
  BY <1>2, <1>3, <1>5, ElsewhereIs, PerformIs DEF Server
<1>6. CASE Receive
  BY <1>6, CatchUpOfReceiving
<1> QED BY <1>1, <1>4, <1>5, <1>6 DEF Next

\* With nothing on its way, a page behind would have to be asking: it is not.
LEMMA CatchUpInvIsCaughtUp ==
  ASSUME TypeInv, CatchUpInv
  PROVE  CaughtUp
<1> SUFFICES ASSUME Settled, shown.space = space, operator \in scene[space].ops
             PROVE  /\ shown.rev = scene[space].rev /\ shown.live = scene[space].live
                    /\ shown.ids # <<>> => shown.ids[Len(shown.ids)] = scene[space].last
  BY DEF CaughtUp
<1>1. shown \in Views
  <2>1. space \in Spaces /\ None \notin Spaces
    BY ClientAssumption DEF TypeInv
  <2>2. shown # Blank
    BY <2>1 DEF Blank
  <2> QED BY <2>2 DEF TypeInv, ShownOK
<1>2. Len(line) = 0 /\ calls = {}
  BY DEF Settled
<1>3. ~RefreshRuns(line, calls) /\ ~Told(line, space, 0) /\ ~Loads(line, calls, space)
      /\ ~Refreshes(line, calls, space, operator)
  BY <1>2 DEF RefreshRuns, Told, Loads, Refreshes
<1>4. ~Behind
  BY <1>3 DEF CatchUpInv
<1> QED BY <1>1, <1>4 DEF Behind, Stale

-----------------------------------------------------------------------------
(* The operator of the page: the calls under way in their order *)

\* A call and its place.
Arrived(l, i) == [at |-> i, call |-> l[i].call]
Asked(l, c)   == [at |-> Len(l) + 1 + c.n, call |-> c]
\* All calls under way: the answers as they come, then what is not answered yet.
Items(l, asks) ==
  {Arrived(l, i) : i \in {j \in 1..Len(l) : l[j].kind = "answer"}} \cup {Asked(l, c) : c \in asks}

\* Calls that read the whole workspace anew, those whose order is kept, and those whose answer
\* is shown as the operator of the moment.
Anew  == {"load", "bare"}
Kept  == {"load", "bare", "select", "refresh"}
Later == {"refresh"} \cup Commands

\* Nothing that comes after x reads the workspace anew.
Fresh(I, x) == \A y \in I : y.call.kind \in Anew => y.at <= x.at

\* Nothing under way reads the workspace anew.
NoneAnew(I) == \A y \in I : y.call.kind \notin Anew

\* What the page reads last is of its space.
LastIsOf(I, s) == \A x \in I : x.call.kind \in Kept /\ Fresh(I, x) => x.call.space = s

\* Commands are for the space of the page, and for the operator the page will have; so are the
\* refreshes after a change of the operator.
CommandsAgree(I, s) ==
  /\ \A x \in I : x.call.kind \in Commands => x.call.space = s
  /\ \A x, y \in I : x.call.kind \in Commands /\ y.call.kind \in Switches /\ Fresh(I, y) =>
       x.call.operator = y.call.operator
RefreshesAgree(I) ==
  \A x, y \in I :
    /\ x.call.kind = "refresh" /\ Fresh(I, x)
    /\ y.call.kind \in Switches /\ Fresh(I, y) /\ y.at < x.at
    => x.call.operator = y.call.operator

\* A load was refused because its operator is not there, and is repeated for that reason.
BareIsNobody ==
  /\ \A i \in 1..Len(line) : AnswerAt(line, i) /\ line[i].call.kind = "load" /\ ~line[i].result.ok =>
       line[i].call.operator \notin scene[line[i].call.space].ops
  /\ ~tangled =>
       /\ \A c \in calls : c.kind = "bare"
            /\ Fresh(Items(line, calls), Asked(line, c)) =>
            c.operator \notin scene[c.space].ops
       /\ \A i \in 1..Len(line) : AnswerAt(line, i) /\ line[i].call.kind = "bare"
            /\ Fresh(Items(line, calls), Arrived(line, i)) =>
            line[i].call.operator \notin ViewAt(line, i).ops

\* If ops are there when c is answered, a page that acts as o shows what its operator sees.
Suits(c, o, ops) ==
  /\ NamesOperator(c) /\ c.operator \in ops => Resolved(ops, o) = c.operator
  /\ ~NamesOperator(c)
       /\ (c.kind = "delete" => c.operator \in {None, c.target} /\ c.target \notin ops)
     => Resolved(ops, o) = First(ops)

\* A participant that is deleted is not there.
DeletedIsGone ==
  \A i \in 1..Len(line) : OkAt(line, i) /\ line[i].call.kind = "delete" =>
    line[i].call.target \notin ViewAt(line, i).ops

\* What the page shows is what its operator sees, and it stays so.
ShownInv ==
  ~tangled /\ NoneAnew(Items(line, calls)) =>
    /\ shown \in Views /\ shown.space = space /\ shown.operator = operator
    /\ \A c \in calls : c.kind \in Later =>
         \A ops \in SUBSET scene[space].ops : Suits(c, operator, ops)
    /\ \A i \in 1..Len(line) : OkAt(line, i) /\ line[i].call.kind \in Later =>
         Suits(line[i].call, operator, ViewAt(line, i).ops)

\* Everything under way agrees with the operator the user took last.
SwitchInv ==
  /\ LastIsOf(Items(line, calls), space)
  /\ ~tangled => CommandsAgree(Items(line, calls), space) /\ RefreshesAgree(Items(line, calls))
  /\ BareIsNobody /\ DeletedIsGone /\ ShownInv

\* o was deleted by this page, which will read so after the first i messages.
Deleting(l, asks, made, s, o, i) ==
  \/ \E c \in asks : c.kind = "delete" /\ c.n \in made /\ c.space = s /\ c.target = o
  \/ \E j \in 1..Len(l) : /\ i < j /\ OkAt(l, j) /\ l[j].call.kind = "delete"
                          /\ l[j].call.space = s /\ l[j].call.target = o

\* Unless others change something, whoever is seen and not there any more is deleted by the page.
LostInv ==
  /\ changed \in Nat
  /\ changed = 0 =>
       /\ \A i \in 1..Len(line) : OkAt(line, i) =>
            \A o \in ViewAt(line, i).ops :
              \/ o \in scene[ViewAt(line, i).space].ops
              \/ Deleting(line, calls, done, ViewAt(line, i).space, o, i)
       /\ ~tangled /\ NoneAnew(Items(line, calls)) =>
            \/ operator \in scene[space].ops
            \/ operator = None /\ scene[space].ops = {}
            \/ Deleting(line, calls, done, space, operator, 0)

\* What the calls under way are, and where.
LEMMA ItemsAre ==
  ASSUME TypeInv
  PROVE  /\ \A x \in Items(line, calls) : x.at \in Nat /\ x.call \in Underway /\ CallOK(x.call)
         /\ \A i \in 1..Len(line) : AnswerAt(line, i) => Arrived(line, i) \in Items(line, calls)
         /\ \A c \in calls : Asked(line, c) \in Items(line, calls)
         /\ \A x \in Items(line, calls) :
              \/ \E i \in 1..Len(line) : AnswerAt(line, i) /\ x = Arrived(line, i)
              \/ \E c \in calls : x = Asked(line, c)
         /\ \A i : Arrived(line, i).at = i /\ Arrived(line, i).call = line[i].call
         /\ \A c : Asked(line, c).at = Len(line) + 1 + c.n /\ Asked(line, c).call = c
         /\ Len(line) \in Nat /\ \A c \in calls : c.n \in Nat
<1>1. /\ \A i : Arrived(line, i).at = i /\ Arrived(line, i).call = line[i].call
      /\ \A c : Asked(line, c).at = Len(line) + 1 + c.n /\ Asked(line, c).call = c
  BY DEF Arrived, Asked
<1>2. Len(line) \in Nat /\ \A c \in calls : c.n \in Nat /\ CallOK(c)
  BY DEF TypeInv, LineOK, CallsOK, CallOK, CallTypes
<1>3. \A i \in 1..Len(line) : AnswerAt(line, i) => CallOK(line[i].call)
  BY DEF TypeInv, LineOK, AnswerOK
<1>4. \A i \in 1..Len(line) : AnswerAt(line, i) => line[i].call \in Underway
  BY <1>2 DEF Underway, AnswerAt, TypeInv, LineOK
<1>5. calls \subseteq Underway
  BY DEF Underway
<1>6. \A x \in Items(line, calls) :
              \/ \E i \in 1..Len(line) : AnswerAt(line, i) /\ x = Arrived(line, i)
              \/ \E c \in calls : x = Asked(line, c)
  BY DEF Items, AnswerAt
<1>7. /\ \A i \in 1..Len(line) : AnswerAt(line, i) => Arrived(line, i) \in Items(line, calls)
      /\ \A c \in calls : Asked(line, c) \in Items(line, calls)
  BY DEF Items, AnswerAt
<1>8. ASSUME NEW x \in Items(line, calls)
      PROVE  x.at \in Nat /\ x.call \in Underway /\ CallOK(x.call)
  <2>1. ASSUME NEW i \in 1..Len(line), AnswerAt(line, i), x = Arrived(line, i)
        PROVE  x.at \in Nat /\ x.call \in Underway /\ CallOK(x.call)
    BY <1>1, <1>3, <1>4, <2>1
  <2>2. ASSUME NEW c \in calls, x = Asked(line, c)
        PROVE  x.at \in Nat /\ x.call \in Underway /\ CallOK(x.call)
    BY <1>1, <1>2, <1>5, <2>2
  <2> QED BY <1>6, <2>1, <2>2
<1> QED BY <1>1, <1>2, <1>6, <1>7, <1>8

\* The calls of J are some of I, in their order; a load that is missing was the first of all.
Carries(I, J, f) ==
  /\ \A x \in I \cup J : x.at \in Nat
  /\ \A x \in J : f[x] \in I /\ f[x].call = x.call
  /\ \A x, y \in J : x.call.kind \in Kept /\ y.call.kind \in Kept /\ x.at <= y.at => f[x].at <= f[y].at
  /\ \A x, y \in J : x.call.kind \in Kept /\ y.call.kind \in Kept /\ x.at < y.at => f[x].at < f[y].at
  /\ \A y \in I : y.call.kind \in Anew =>
       \/ \E x \in J : f[x] = y
       \/ \A x \in J : x.call.kind \in Kept => y.at <= f[x].at

\* A call after which nothing is read anew comes from one after which nothing is read anew.
LEMMA FreshCarried ==
  ASSUME NEW I, NEW J, NEW f, Carries(I, J, f), NEW x \in J, x.call.kind \in Kept, Fresh(J, x)
  PROVE  Fresh(I, f[x])
<1> SUFFICES ASSUME NEW y \in I, y.call.kind \in Anew PROVE y.at <= f[x].at
  BY DEF Fresh
<1>1. ASSUME NEW z \in J, f[z] = y PROVE y.at <= f[x].at
  <2>1. z.call.kind \in Anew /\ z.call.kind \in Kept
    BY <1>1 DEF Carries, Anew, Kept
  <2>2. z.at <= x.at
    BY <2>1 DEF Fresh
  <2> QED BY <1>1, <2>1, <2>2 DEF Carries
<1> QED BY <1>1 DEF Carries

\* What holds of the calls under way holds of those that remain.
LEMMA AgreementCarried ==
  ASSUME NEW I, NEW J, NEW f, Carries(I, J, f), NEW s
  PROVE  /\ LastIsOf(I, s) => LastIsOf(J, s)
         /\ CommandsAgree(I, s) => CommandsAgree(J, s)
         /\ RefreshesAgree(I) => RefreshesAgree(J)
<1>1. \A x \in J : f[x] \in I /\ f[x].call = x.call
  BY DEF Carries
<1>2. \A x \in J : x.call.kind \in Kept /\ Fresh(J, x) => Fresh(I, f[x])
  BY FreshCarried
<1>3. \A k : k \in Switches \/ k = "refresh" => k \in Kept
  BY DEF Switches, Kept
<1>4. LastIsOf(I, s) => LastIsOf(J, s)
  BY <1>1, <1>2 DEF LastIsOf
<1>5. CommandsAgree(I, s) => CommandsAgree(J, s)
  <2> SUFFICES ASSUME CommandsAgree(I, s) PROVE CommandsAgree(J, s)
    OBVIOUS
  <2>1. \A x \in J : x.call.kind \in Commands => x.call.space = s
    BY <1>1 DEF CommandsAgree
  <2>2. ASSUME NEW x \in J, NEW y \in J, x.call.kind \in Commands, y.call.kind \in Switches,
               Fresh(J, y)
        PROVE  x.call.operator = y.call.operator
    <3>1. Fresh(I, f[y]) /\ f[y].call = y.call /\ f[x].call = x.call /\ f[x] \in I /\ f[y] \in I
      BY <1>1, <1>2, <1>3, <2>2
    <3> QED BY <2>2, <3>1 DEF CommandsAgree
  <2> QED BY <2>1, <2>2 DEF CommandsAgree
<1>6. RefreshesAgree(I) => RefreshesAgree(J)
  <2> SUFFICES ASSUME RefreshesAgree(I), NEW x \in J, NEW y \in J, x.call.kind = "refresh",
                      Fresh(J, x), y.call.kind \in Switches, Fresh(J, y), y.at < x.at
               PROVE  x.call.operator = y.call.operator
    BY DEF RefreshesAgree
  <2>1. /\ Fresh(I, f[y]) /\ f[y].call = y.call /\ Fresh(I, f[x]) /\ f[x].call = x.call
        /\ f[x] \in I /\ f[y] \in I
    BY <1>1, <1>2, <1>3
  <2>2. f[y].at < f[x].at
    BY <1>3 DEF Carries
  <2> QED BY <2>1, <2>2 DEF RefreshesAgree
<1> QED BY <1>4, <1>5, <1>6

\* A call that is added comes last: it agrees with the others, or it reads everything anew.
LEMMA AgreementAdded ==
  ASSUME NEW I, NEW x, \A y \in I : y.at \in Nat /\ y.at < x.at /\ y.call \in Underway,
         x.at \in Nat, NEW s, x.call.space = s
  PROVE  /\ LastIsOf(I, s) \/ x.call.kind \in Anew => LastIsOf(I \cup {x}, s)
         /\ (CommandsAgree(I, s) /\ RefreshesAgree(I)) \/ x.call.kind \in Anew =>
              Tangles(x.call) \/ (CommandsAgree(I \cup {x}, s) /\ RefreshesAgree(I \cup {x}))
         /\ \A y \in I : Fresh(I \cup {x}, y) => Fresh(I, y) /\ x.call.kind \notin Anew
<1> DEFINE J == I \cup {x}
<1>1. \A y \in I : Fresh(J, y) => Fresh(I, y) /\ x.call.kind \notin Anew
  BY DEF Fresh
<1>2. \A k \in Anew : k \in Switches /\ k \notin Commands /\ k # "refresh"
  BY DEF Anew, Switches, Commands, Changes
<1>3. \A k \in Switches : k \notin Commands /\ k # "refresh"
  BY DEF Switches, Commands, Changes
<1>4. LastIsOf(I, s) \/ x.call.kind \in Anew => LastIsOf(J, s)
  BY <1>1 DEF LastIsOf
<1>5. ASSUME (CommandsAgree(I, s) /\ RefreshesAgree(I)) \/ x.call.kind \in Anew, ~Tangles(x.call)
      PROVE  CommandsAgree(J, s) /\ RefreshesAgree(J)
  <2>1. \A y \in I :
          /\ y.call.kind \in Commands => y.call.operator = x.call.operator /\ y.call.space = s
          /\ y.call.kind \in Switches /\ x.call.kind \notin Switches =>
               y.call.operator = x.call.operator
    BY <1>5 DEF Tangles
  <2>2. \A y \in J : y.call.kind \in Commands => y.call.space = s
    BY <2>1
  <2>3. ASSUME NEW y \in J, NEW z \in J, y.call.kind \in Commands, z.call.kind \in Switches,
               Fresh(J, z)
        PROVE  y.call.operator = z.call.operator
    <3>1. CASE z = x
      BY <1>3, <2>1, <2>3, <3>1
    <3>2. CASE z \in I /\ y = x
      BY <1>3, <2>1, <2>3, <3>2
    <3>3. CASE z \in I /\ y \in I
      <4>1. Fresh(I, z) /\ x.call.kind \notin Anew
        BY <1>1, <2>3, <3>3
      <4> QED BY <1>5, <2>3, <3>3, <4>1 DEF CommandsAgree
    <3> QED BY <3>1, <3>2, <3>3
  <2>4. ASSUME NEW y \in J, NEW z \in J, y.call.kind = "refresh", Fresh(J, y),
               z.call.kind \in Switches, Fresh(J, z), z.at < y.at
        PROVE  y.call.operator = z.call.operator
    <3>1. CASE y = x
      <4>1. z \in I
        BY <2>4, <3>1
      <4> QED BY <1>3, <2>1, <2>4, <3>1, <4>1
    <3>2. CASE y \in I
      <4>1. Fresh(I, y) /\ x.call.kind \notin Anew
        BY <1>1, <2>4, <3>2
      <4>2. z \in I
        BY <2>4, <3>2
      <4>3. Fresh(I, z)
        BY <1>1, <2>4, <4>2
      <4> QED BY <1>5, <2>4, <3>2, <4>1, <4>2, <4>3 DEF RefreshesAgree
    <3> QED BY <3>1, <3>2
  <2> QED BY <2>2, <2>3, <2>4 DEF CommandsAgree, RefreshesAgree
<1> QED BY <1>1, <1>4, <1>5

\* A message that is no answer leaves the calls as they are.
LEMMA SentItems ==
  ASSUME TypeInv, NEW m \in Messages, m.kind = "mutated", line' = Append(line, m), calls' = calls
  PROVE  \E f : /\ Carries(Items(line, calls), Items(line', calls'), f)
                /\ \A i \in 1..Len(line) : AnswerAt(line, i) =>
                     f[Arrived(line', i)] = Arrived(line, i) /\ Arrived(line', i) \in Items(line', calls')
                /\ \A c \in calls : f[Asked(line', c)] = Asked(line, c)
                                    /\ Asked(line', c) \in Items(line', calls')
<1> DEFINE I == Items(line, calls)
           J == Items(line', calls')
           f == [x \in J |-> IF x.at <= Len(line) THEN x ELSE [at |-> x.at - 1, call |-> x.call]]
<1>1. /\ Len(line') = Len(line) + 1 /\ Len(line) \in Nat
      /\ \A i \in 1..Len(line) : line'[i] = line[i] /\ (AnswerAt(line', i) <=> AnswerAt(line, i))
                                 /\ i \in 1..Len(line')
      /\ \A i \in 1..Len(line') : i \in 1..Len(line) \/ i = Len(line')
      /\ line'[Len(line')] = m
  BY Extended
<1>2. /\ \A i \in 1..Len(line) : AnswerAt(line, i) => Arrived(line', i) \in J
      /\ \A c \in calls : Asked(line', c) \in J
      /\ \A x \in J : \/ \E i \in 1..Len(line) : AnswerAt(line, i) /\ x = Arrived(line', i)
                      \/ \E c \in calls : x = Asked(line', c)
  BY <1>1 DEF Items, AnswerAt
<1>3. /\ \A i \in 1..Len(line) : Arrived(line', i) = Arrived(line, i) /\ Arrived(line', i).at = i
      /\ \A c \in calls : Asked(line', c).at = Len(line) + 2 + c.n /\ Asked(line', c).call = c
                          /\ c.n \in Nat
      /\ \A c \in calls : Asked(line, c) = [at |-> Len(line) + 1 + c.n, call |-> c]
  BY <1>1, ItemsAre DEF Arrived, Asked
<1>4. \A i \in 1..Len(line) : AnswerAt(line, i) => f[Arrived(line', i)] = Arrived(line, i)
  BY <1>2, <1>3
<1>5. ASSUME NEW c \in calls PROVE f[Asked(line', c)] = Asked(line, c)
  <2> DEFINE x == Asked(line', c)
  <2>1. x \in J /\ x.at = Len(line) + 2 + c.n /\ x.call = c /\ c.n \in Nat
    BY <1>2, <1>3
  <2>2. ~(x.at <= Len(line)) /\ x.at - 1 = Len(line) + 1 + c.n
    BY <1>1, <2>1
  <2> HIDE DEF x
  <2>3. f[x] = [at |-> x.at - 1, call |-> x.call]
    BY <2>1, <2>2
  <2>4. f[x] = Asked(line, c)
    BY <1>3, <2>1, <2>2, <2>3
  <2> QED BY <2>4 DEF x
<1> HIDE DEF f
<1>6. \A x \in J :
        \/ x.at <= Len(line) /\ f[x] = x /\ x \in I
        \/ x.at > Len(line) + 1 /\ f[x].at = x.at - 1 /\ f[x] \in I /\ f[x].call = x.call
  <2> TAKE x \in J
  <2>1. ASSUME NEW i \in 1..Len(line), AnswerAt(line, i), x = Arrived(line', i)
        PROVE  x.at <= Len(line) /\ f[x] = x /\ x \in I
    BY <1>1, <1>3, <1>4, <2>1, ItemsAre
  <2>2. ASSUME NEW c \in calls, x = Asked(line', c)
        PROVE  x.at > Len(line) + 1 /\ f[x].at = x.at - 1 /\ f[x] \in I /\ f[x].call = x.call
    <3>1. f[x] = Asked(line, c) /\ x.at = Len(line) + 2 + c.n /\ x.call = c /\ c.n \in Nat
      BY <1>3, <1>5, <2>2
    <3>2. f[x].at = Len(line) + 1 + c.n /\ f[x].call = c /\ f[x] \in I
      BY <3>1, ItemsAre
    <3>3. x.at > Len(line) + 1 /\ x.at - 1 = Len(line) + 1 + c.n
      BY <1>1, <3>1
    <3> QED BY <3>1, <3>2, <3>3
  <2> QED BY <1>2, <2>1, <2>2
<1>7. \A x \in I \cup J : x.at \in Nat
  <2>1. \A x \in I : x.at \in Nat
    BY ItemsAre
  <2>2. ASSUME NEW x \in J PROVE x.at \in Nat
    <3>1. \A i \in 1..Len(line) : i \in Nat
      BY <1>1
    <3> QED BY <1>1, <1>2, <1>3, <3>1
  <2> QED BY <2>1, <2>2
<1>8. \A y \in I : \E x \in J : f[x] = y
  <2> TAKE y \in I
  <2>1. ASSUME NEW i \in 1..Len(line), AnswerAt(line, i), y = Arrived(line, i)
        PROVE  \E x \in J : f[x] = y
    <3>1. Arrived(line', i) \in J /\ f[Arrived(line', i)] = y
      BY <1>2, <1>4, <2>1
    <3> QED BY <3>1
  <2>2. ASSUME NEW c \in calls, y = Asked(line, c)
        PROVE  \E x \in J : f[x] = y
    <3>1. Asked(line', c) \in J /\ f[Asked(line', c)] = y
      BY <1>2, <1>5, <2>2
    <3> QED BY <3>1
  <2> QED BY <2>1, <2>2, ItemsAre
<1> HIDE DEF I, J
<1>9. \A x, y \in J : /\ x.at <= y.at => f[x].at <= f[y].at
                      /\ x.at < y.at => f[x].at < f[y].at
  <2> SUFFICES ASSUME NEW x \in J, NEW y \in J
               PROVE  (x.at <= y.at => f[x].at <= f[y].at) /\ (x.at < y.at => f[x].at < f[y].at)
    OBVIOUS
  <2>1. x.at \in Nat /\ y.at \in Nat /\ Len(line) \in Nat
    BY <1>1, <1>7
  <2>2. \/ x.at <= Len(line) /\ f[x].at = x.at
        \/ x.at > Len(line) + 1 /\ f[x].at = x.at - 1
    BY <1>6
  <2>3. \/ y.at <= Len(line) /\ f[y].at = y.at
        \/ y.at > Len(line) + 1 /\ f[y].at = y.at - 1
    BY <1>6
  <2> QED BY <2>1, <2>2, <2>3
<1>10. Carries(I, J, f)
  BY <1>6, <1>7, <1>8, <1>9 DEF Carries
<1> QED BY <1>2, <1>4, <1>5, <1>10 DEF I, J

\* An answer comes after those that have come; of the calls whose order is kept the first is
\* answered.
LEMMA AnsweredItems ==
  ASSUME TypeInv, NEW c \in calls, NEW m \in Messages, m.kind = "answer", m.call = c, MayAnswer(c),
         line' = Append(line, m), calls' = calls \ {c}
  PROVE  \E f : /\ Carries(Items(line, calls), Items(line', calls'), f)
                /\ \A i \in 1..Len(line) : AnswerAt(line, i) =>
                     f[Arrived(line', i)] = Arrived(line, i) /\ Arrived(line', i) \in Items(line', calls')
                /\ f[Arrived(line', Len(line'))] = Asked(line, c)
                /\ Arrived(line', Len(line')) \in Items(line', calls')
                /\ \A d \in calls' : f[Asked(line', d)] = Asked(line, d)
                                     /\ Asked(line', d) \in Items(line', calls')
<1> DEFINE I == Items(line, calls)
           J == Items(line', calls')
           n == Len(line) + 1
           f == [x \in J |-> IF x.at = n THEN Asked(line, c)
                             ELSE IF x.at <= Len(line) THEN x ELSE [at |-> x.at - 1, call |-> x.call]]
<1>1. /\ Len(line') = n /\ Len(line) \in Nat
      /\ \A i \in 1..Len(line) : line'[i] = line[i] /\ (AnswerAt(line', i) <=> AnswerAt(line, i))
                                 /\ i \in 1..Len(line')
      /\ \A i \in 1..Len(line') : i \in 1..Len(line) \/ i = n
      /\ line'[n] = m /\ n \in 1..Len(line')
  BY Extended
<1>2. /\ \A i \in 1..Len(line) : AnswerAt(line, i) => Arrived(line', i) \in J
      /\ Arrived(line', n) \in J
      /\ \A d \in calls' : Asked(line', d) \in J
      /\ \A x \in J : \/ \E i \in 1..Len(line) : AnswerAt(line, i) /\ x = Arrived(line', i)
                      \/ x = Arrived(line', n)
                      \/ \E d \in calls' : x = Asked(line', d)
  BY <1>1 DEF Items, AnswerAt
<1>3. /\ \A i \in 1..Len(line) : Arrived(line', i) = Arrived(line, i) /\ Arrived(line', i).at = i
      /\ Arrived(line', n) = [at |-> n, call |-> c]
      /\ \A d \in calls : Asked(line', d).at = n + 1 + d.n /\ Asked(line', d).call = d /\ d.n \in Nat
      /\ \A d \in calls : Asked(line, d) = [at |-> n + d.n, call |-> d]
  BY <1>1, ItemsAre DEF Arrived, Asked
<1>4. ASSUME NEW i \in 1..Len(line), AnswerAt(line, i) PROVE f[Arrived(line', i)] = Arrived(line, i)
  <2> DEFINE x == Arrived(line', i)
  <2>1. x \in J /\ x = Arrived(line, i) /\ x.at = i
    BY <1>2, <1>3, <1>4
  <2>2. i # n /\ i <= Len(line)
    BY <1>1
  <2> HIDE DEF x, n
  <2>3. f[x] = x
    BY <2>1, <2>2
  <2> QED BY <2>1, <2>3 DEF x
<1>5. ASSUME NEW d \in calls' PROVE f[Asked(line', d)] = Asked(line, d)
  <2> DEFINE x == Asked(line', d)
  <2>1. x \in J /\ x.at = n + 1 + d.n /\ x.call = d /\ d.n \in Nat /\ d \in calls
    BY <1>2, <1>3
  <2>2. ~(x.at <= Len(line)) /\ x.at # n /\ x.at - 1 = n + d.n
    BY <1>1, <2>1
  <2> HIDE DEF x, n
  <2>3. f[x] = [at |-> x.at - 1, call |-> x.call]
    BY <2>1, <2>2
  <2>4. f[x] = Asked(line, d)
    BY <1>3, <2>1, <2>2, <2>3
  <2> QED BY <2>4 DEF x
<1>6. f[Arrived(line', n)] = Asked(line, c)
  BY <1>2, <1>3
<1> HIDE DEF f
<1>7. \A x \in J :
        \/ x.at <= Len(line) /\ f[x] = x /\ x \in I
        \/ x.at = n /\ f[x] = Asked(line, c) /\ f[x].at = n + c.n /\ f[x] \in I /\ f[x].call = x.call
           /\ x.call = c
        \/ x.at = n + 1 + x.call.n /\ f[x].at = n + x.call.n /\ f[x] \in I /\ f[x].call = x.call
           /\ x.call \in calls'
  <2> TAKE x \in J
  <2>1. ASSUME NEW i \in 1..Len(line), AnswerAt(line, i), x = Arrived(line', i)
        PROVE  x.at <= Len(line) /\ f[x] = x /\ x \in I
    BY <1>1, <1>3, <1>4, <2>1, ItemsAre
  <2>2. ASSUME NEW d \in calls', x = Asked(line', d)
        PROVE  x.at = n + 1 + x.call.n /\ f[x].at = n + x.call.n /\ f[x] \in I /\ f[x].call = x.call
               /\ x.call \in calls'
    BY <1>1, <1>3, <1>5, <2>2, ItemsAre
  <2>3. ASSUME x = Arrived(line', n)
        PROVE  x.at = n /\ f[x] = Asked(line, c) /\ f[x].at = n + c.n /\ f[x] \in I /\ f[x].call = x.call
               /\ x.call = c
    BY <1>1, <1>3, <1>6, <2>3, ItemsAre
  <2> QED BY <1>2, <2>1, <2>2, <2>3
<1>8. \A x \in I \cup J : x.at \in Nat
  <2>1. \A x \in I : x.at \in Nat
    BY ItemsAre
  <2>2. ASSUME NEW x \in J PROVE x.at \in Nat
    <3>1. \A i \in 1..Len(line) : i \in Nat
      BY <1>1
    <3>2. n \in Nat /\ c.n \in Nat
      BY <1>1, <1>3
    <3>3. ASSUME NEW d \in calls', x = Asked(line', d) PROVE x.at \in Nat
      <4>1. x.at = n + 1 + d.n /\ d.n \in Nat
        BY <1>3, <3>3
      <4> HIDE DEF n
      <4> QED BY <3>2, <4>1
    <3>4. x = Arrived(line', n) => x.at = n
      BY <1>3
    <3>5. ASSUME NEW i \in 1..Len(line), x = Arrived(line', i) PROVE x.at \in Nat
      <4>1. x.at = i
        BY <3>5 DEF Arrived
      <4> QED BY <3>1, <4>1
    <3>6. x = Arrived(line', n) => x.at \in Nat
      BY <3>2, <3>4
    <3>7. \/ \E i \in 1..Len(line) : x = Arrived(line', i)
          \/ x = Arrived(line', n)
          \/ \E d \in calls' : x = Asked(line', d)
      BY <1>2
    <3> HIDE DEF n
    <3> QED BY <3>3, <3>5, <3>6, <3>7
  <2> QED BY <2>1, <2>2
<1>9. \A y \in I : \E x \in J : f[x] = y
  <2> TAKE y \in I
  <2>1. ASSUME NEW i \in 1..Len(line), AnswerAt(line, i), y = Arrived(line, i)
        PROVE  \E x \in J : f[x] = y
    <3>1. Arrived(line', i) \in J /\ f[Arrived(line', i)] = y
      BY <1>2, <1>4, <2>1
    <3> QED BY <3>1
  <2>2. ASSUME NEW d \in calls', y = Asked(line, d)
        PROVE  \E x \in J : f[x] = y
    <3>1. Asked(line', d) \in J /\ f[Asked(line', d)] = y
      BY <1>2, <1>5, <2>2
    <3> QED BY <3>1
  <2>3. ASSUME y = Asked(line, c) PROVE \E x \in J : f[x] = y
    BY <1>2, <1>6, <2>3
  <2> QED BY <2>1, <2>2, <2>3, ItemsAre
<1>10. \A d \in calls' : c.kind \in Kept /\ d.kind \in Kept => c.n < d.n
  <2> SUFFICES ASSUME NEW d \in calls', c.kind \in Kept, d.kind \in Kept PROVE c.n < d.n
    OBVIOUS
  <2>1. c.kind \in Reads /\ d.kind \in Reads /\ d \in calls /\ d # c
    BY DEF Kept, Reads
  <2>2. d.n >= c.n
    BY <2>1 DEF MayAnswer
  <2>3. d.n # c.n
    BY <2>1 DEF TypeInv, CallsOK
  <2> QED BY <1>3, <2>1, <2>2, <2>3
<1>11. c.n \in Nat /\ \A d \in calls' : d.n \in Nat
  BY <1>3
<1> HIDE DEF I, J
<1>12. \A x, y \in J : x.call.kind \in Kept /\ y.call.kind \in Kept =>
                      /\ x.at <= y.at => f[x].at <= f[y].at
                      /\ x.at < y.at => f[x].at < f[y].at
  <2> SUFFICES ASSUME NEW x \in J, NEW y \in J, x.call.kind \in Kept, y.call.kind \in Kept
               PROVE  (x.at <= y.at => f[x].at <= f[y].at) /\ (x.at < y.at => f[x].at < f[y].at)
    OBVIOUS
  <2>1. x.at \in Nat /\ y.at \in Nat /\ Len(line) \in Nat /\ c.n \in Nat
    BY <1>1, <1>8, <1>11
  <2>2. \/ x.at <= Len(line) /\ f[x].at = x.at
        \/ x.at = n /\ f[x].at = n + c.n /\ x.call = c
        \/ x.at = n + 1 + x.call.n /\ f[x].at = n + x.call.n /\ x.call \in calls'
    BY <1>7
  <2>3. \/ y.at <= Len(line) /\ f[y].at = y.at
        \/ y.at = n /\ f[y].at = n + c.n /\ y.call = c
        \/ y.at = n + 1 + y.call.n /\ f[y].at = n + y.call.n /\ y.call \in calls'
    BY <1>7
  <2>4. CASE x.at <= Len(line) /\ f[x].at = x.at
    BY <1>11, <2>1, <2>3, <2>4
  <2>5. CASE x.at = n /\ f[x].at = n + c.n /\ x.call = c
    <3>1. CASE y.at <= Len(line) /\ f[y].at = y.at
      BY <2>1, <2>5, <3>1
    <3>2. CASE y.at = n /\ f[y].at = n + c.n
      BY <2>1, <2>5, <3>2
    <3>3. CASE y.at = n + 1 + y.call.n /\ f[y].at = n + y.call.n /\ y.call \in calls'
      <4>1. c.n < y.call.n /\ y.call.n \in Nat
        BY <1>10, <1>11, <2>5, <3>3
      <4> QED BY <2>1, <2>5, <3>3, <4>1
    <3> QED BY <2>3, <3>1, <3>2, <3>3
  <2>6. CASE x.at = n + 1 + x.call.n /\ f[x].at = n + x.call.n /\ x.call \in calls'
    <3>1. x.call.n \in Nat
      BY <1>11, <2>6
    <3>2. CASE y.at <= Len(line) /\ f[y].at = y.at
      BY <2>1, <2>6, <3>1, <3>2
    <3>3. CASE y.at = n /\ f[y].at = n + c.n
      BY <2>1, <2>6, <3>1, <3>3
    <3>4. CASE y.at = n + 1 + y.call.n /\ f[y].at = n + y.call.n /\ y.call \in calls'
      BY <1>11, <2>1, <2>6, <3>1, <3>4
    <3> QED BY <2>3, <3>2, <3>3, <3>4
  <2> QED BY <2>2, <2>4, <2>5, <2>6
<1>13. \A x \in J : f[x] \in I /\ f[x].call = x.call
  BY <1>7
<1>14. Carries(I, J, f)
  BY <1>8, <1>9, <1>12, <1>13 DEF Carries
<1>15. Arrived(line', Len(line')) = Arrived(line', n)
  BY <1>1
<1>16. /\ \A i \in 1..Len(line) : AnswerAt(line, i) =>
                     f[Arrived(line', i)] = Arrived(line, i) /\ Arrived(line', i) \in J
       /\ f[Arrived(line', Len(line'))] = Asked(line, c) /\ Arrived(line', Len(line')) \in J
       /\ \A d \in calls' : f[Asked(line', d)] = Asked(line, d) /\ Asked(line', d) \in J
  BY <1>2, <1>4, <1>5, <1>6, <1>15
<1> QED BY <1>14, <1>16 DEF I, J

\* The page reads the first; the others move up.
LEMMA TakenItems ==
  ASSUME TypeInv, Takes(line[1])
  PROVE  \E f : /\ Carries(Items(line, calls), Items(line', calls), f)
                /\ \A i \in 1..Len(line') : AnswerAt(line', i) =>
                     f[Arrived(line', i)] = Arrived(line, i + 1) /\ Arrived(line', i) \in Items(line', calls)
                /\ \A c \in calls : f[Asked(line', c)] = Asked(line, c)
                                    /\ Asked(line', c) \in Items(line', calls)
                /\ \A x \in Items(line', calls) : f[x].at = x.at + 1 /\ x.at # 0
<1> DEFINE I == Items(line, calls)
           J == Items(line', calls)
           f == [x \in J |-> [at |-> x.at + 1, call |-> x.call]]
<1>1. /\ Len(line') = Len(line) - 1 /\ Len(line) \in Nat \ {0}
      /\ \A i \in 1..Len(line') : line'[i] = line[i + 1] /\ i + 1 \in 1..Len(line)
                                  /\ (AnswerAt(line', i) <=> AnswerAt(line, i + 1))
      /\ \A k \in 1..Len(line) : k = 1 \/ \E i \in 1..Len(line') : k = i + 1
  BY Shifted
<1>2. /\ \A i \in 1..Len(line') : AnswerAt(line', i) => Arrived(line', i) \in J
      /\ \A c \in calls : Asked(line', c) \in J
      /\ \A x \in J : \/ \E i \in 1..Len(line') : AnswerAt(line', i) /\ x = Arrived(line', i)
                      \/ \E c \in calls : x = Asked(line', c)
  BY DEF Items, AnswerAt
<1>3. /\ \A i \in 1..Len(line') : Arrived(line', i) = [at |-> i, call |-> line[i + 1].call]
      /\ \A i : Arrived(line, i) = [at |-> i, call |-> line[i].call]
      /\ \A c \in calls : Asked(line', c) = [at |-> Len(line) + c.n, call |-> c] /\ c.n \in Nat
      /\ \A c \in calls : Asked(line, c) = [at |-> Len(line) + 1 + c.n, call |-> c]
  <2>1. \A c \in calls : c.n \in Nat /\ Len(line') + 1 + c.n = Len(line) + c.n
    BY <1>1, ItemsAre
  <2> QED BY <1>1, <2>1 DEF Arrived, Asked
<1>4. \A i \in 1..Len(line') : AnswerAt(line', i) => f[Arrived(line', i)] = Arrived(line, i + 1)
  BY <1>1, <1>2, <1>3
<1>5. \A c \in calls : f[Asked(line', c)] = Asked(line, c)
  <2>1. \A c \in calls : Len(line) + c.n + 1 = Len(line) + 1 + c.n
    BY <1>1, <1>3
  <2> QED BY <1>2, <1>3, <2>1
<1>6. \A x \in J : f[x].at = x.at + 1 /\ f[x].call = x.call
  OBVIOUS
<1> HIDE DEF f
<1>7. \A x \in J : f[x] \in I /\ x.at \in Nat /\ x.at # 0
  <2> TAKE x \in J
  <2>1. ASSUME NEW i \in 1..Len(line'), AnswerAt(line', i), x = Arrived(line', i)
        PROVE  f[x] \in I /\ x.at \in Nat /\ x.at # 0
    <3>1. Arrived(line, i + 1) \in I
      BY <1>1, <2>1, ItemsAre
    <3>2. x.at = i /\ i \in Nat /\ i # 0
      BY <1>1, <1>3, <2>1
    <3> QED BY <1>4, <2>1, <3>1, <3>2
  <2>2. ASSUME NEW c \in calls, x = Asked(line', c)
        PROVE  f[x] \in I /\ x.at \in Nat /\ x.at # 0
    <3>1. x.at = Len(line) + c.n /\ c.n \in Nat
      BY <1>3, <2>2
    <3>2. x.at \in Nat /\ x.at # 0
      BY <1>1, <3>1
    <3> QED BY <1>5, <2>2, <3>2, ItemsAre
  <2> QED BY <1>2, <2>1, <2>2
<1>8. \A y \in I : y.at \in Nat /\ (y.at = 1 \/ \E x \in J : f[x] = y)
  <2> TAKE y \in I
  <2>1. ASSUME NEW k \in 1..Len(line), AnswerAt(line, k), y = Arrived(line, k), k # 1
        PROVE  \E x \in J : f[x] = y
    <3>1. PICK i \in 1..Len(line') : k = i + 1
      BY <1>1, <2>1
    <3> QED BY <1>1, <1>2, <1>4, <2>1, <3>1
  <2>2. ASSUME NEW c \in calls, y = Asked(line, c)
        PROVE  \E x \in J : f[x] = y
    BY <1>2, <1>5, <2>2
  <2>3. Arrived(line, 1).at = 1
    BY <1>3
  <2> QED BY <2>1, <2>2, <2>3, ItemsAre
<1> HIDE DEF I, J
<1>9. \A x, y \in J : /\ x.at <= y.at => f[x].at <= f[y].at
                      /\ x.at < y.at => f[x].at < f[y].at
  BY <1>6, <1>7
<1>10. \A y \in I : y.at = 1 => \A x \in J : y.at <= f[x].at
  BY <1>6, <1>7
<1>11. Carries(I, J, f)
  BY <1>6, <1>7, <1>8, <1>9, <1>10 DEF Carries
<1> QED BY <1>2, <1>4, <1>5, <1>6, <1>7, <1>11 DEF I, J

-----------------------------------------------------------------------------
(* Whose view an answer brings *)

\* A call asked for the operator of the page suits it.
LEMMA SuitsOwn ==
  ASSUME NEW c, CallOK(c), c.kind \in Later, NEW ops \in SUBSET Operators
  PROVE  Suits(c, c.operator, ops)
<1>1. c.operator \in Operators \cup {None} /\ None \notin ops
  BY ClientAssumption DEF CallOK, CallTypes
<1>2. c.operator \in ops => Resolved(ops, c.operator) = c.operator
  BY DEF Resolved
<1>3. ASSUME ~NamesOperator(c), c.kind = "delete" => c.operator \in {None, c.target} /\ c.target \notin ops
      PROVE  c.operator \notin ops
  <2>1. c.kind = "delete" \/ c.operator = None
    BY <1>3 DEF NamesOperator, Later, Commands, Changes
  <2> QED BY <1>1, <1>3, <2>1
<1>4. c.operator \notin ops => Resolved(ops, c.operator) = First(ops)
  BY DEF Resolved
<1> QED BY <1>2, <1>3, <1>4 DEF Suits

\* To act as o, and fall back once o is gone, is to act as the one fallen back to.
LEMMA ResolvedThrough ==
  ASSUME NEW all \in SUBSET Operators, NEW ops \in SUBSET all, NEW o
  PROVE  Resolved(ops, Resolved(all, o)) = Resolved(ops, o)
<1>1. CASE o \in all
  BY <1>1 DEF Resolved
<1>2. CASE o \notin all
  <2>1. Resolved(all, o) = First(all) /\ o \notin ops /\ Resolved(ops, o) = First(ops)
    BY <1>2 DEF Resolved
  <2>2. First(all) \in ops => First(ops) = First(all)
    BY FirstStays
  <2> QED BY <2>1, <2>2 DEF Resolved
<1> QED BY <1>1, <1>2

\* A call that suits an operator still suits the one its answer makes of it.
LEMMA SuitsThrough ==
  ASSUME NEW c, NEW all \in SUBSET Operators, NEW ops \in SUBSET all, NEW o, Suits(c, o, ops)
  PROVE  Suits(c, Resolved(all, o), ops)
BY ResolvedThrough DEF Suits

\* Which calls read everything anew.
LEMMA NoneAnewIs ==
  ASSUME NEW l, NEW asks
  PROVE  NoneAnew(Items(l, asks)) <=>
           /\ \A i \in 1..Len(l) : l[i].kind = "answer" => l[i].call.kind \notin Anew
           /\ \A c \in asks : c.kind \notin Anew
<1>1. /\ \A i : Arrived(l, i).call = l[i].call
      /\ \A c : Asked(l, c).call = c
  BY DEF Arrived, Asked
<1> QED BY <1>1 DEF NoneAnew, Items

\* What is shown is what its operator sees, if it was asked for suitably.
LEMMA ViewSuits ==
  ASSUME TypeInv, DeletedIsGone, NEW i, OkAt(line, i), line[i].call.kind \in Later,
         line[i].call.kind = "delete" => line[i].call.operator \in {None, line[i].call.target},
         NEW o, Suits(line[i].call, o, ViewAt(line, i).ops)
  PROVE  ViewAt(line, i).operator = Resolved(ViewAt(line, i).ops, o)
<1> DEFINE c == line[i].call
           v == ViewAt(line, i)
<1>1. AnswerOK(c, line[i].result) /\ c.kind # "history" /\ line[i].result.ok /\ i \in 1..Len(line)
  BY DEF OkAt, AnswerAt, TypeInv, LineOK
<1>2. /\ ~NamesOperator(c) => v.operator = First(v.ops)
      /\ NamesOperator(c) => v.operator = c.operator /\ c.operator \in v.ops
  BY <1>1 DEF AnswerOK, ViewAt
<1>3. c.kind = "delete" => c.target \notin v.ops
  BY <1>1 DEF DeletedIsGone
<1> QED BY <1>2, <1>3 DEF Suits

-----------------------------------------------------------------------------
(* What a page shows after a switch: every step keeps it so *)

\* At the start nothing is under way.
LEMMA SwitchInit == Init => SwitchInv
<1> SUFFICES ASSUME Init PROVE SwitchInv
  OBVIOUS
<1> DEFINE c == [n |-> 1, kind |-> IF operator = None THEN "bare" ELSE "load", space |-> Main,
                 operator |-> operator, before |-> 0, target |-> None, path |-> None]
<1>1. calls = {c} /\ line = <<>> /\ space = Main /\ ~tangled /\ Len(line) = 0
  BY DEF Init
<1>2. c.kind \in Anew /\ c.space = Main /\ c.operator = operator /\ (c.kind = "bare" => operator = None)
  BY DEF Anew
<1> HIDE DEF c
<1>3. \A x : x \in Items(line, calls) <=> x = Asked(line, c)
  BY <1>1 DEF Items
<1>4. Asked(line, c).call = c
  BY DEF Asked
<1>5. c.kind \notin Commands /\ c.kind # "refresh"
  BY <1>2 DEF Anew, Commands, Changes
<1>6. LastIsOf(Items(line, calls), space)
  BY <1>1, <1>2, <1>3, <1>4 DEF LastIsOf
<1>7. CommandsAgree(Items(line, calls), space) /\ RefreshesAgree(Items(line, calls))
  BY <1>3, <1>4, <1>5 DEF CommandsAgree, RefreshesAgree
<1>8. BareIsNobody
  <2>1. scene \in [Spaces -> SceneTypes] /\ Main \in Spaces
    BY InitTypes DEF TypeInv, Init
  <2>2. None \notin scene[Main].ops
    BY <2>1, ClientAssumption DEF SceneTypes
  <2> QED BY <1>1, <1>2, <2>2 DEF BareIsNobody
<1>9. DeletedIsGone
  BY <1>1 DEF DeletedIsGone
<1>10. ~NoneAnew(Items(line, calls))
  BY <1>2, <1>3, <1>4 DEF NoneAnew
<1> QED BY <1>6, <1>7, <1>8, <1>9, <1>10 DEF SwitchInv, ShownInv

\* The server changes a scene: participants may go, and none comes.
LEMMA SwitchOfChange ==
  ASSUME TypeInv, SwitchInv, NEW s, ServerChanges(s)
  PROVE  SwitchInv'
<1>1. /\ s \in Spaces /\ line' = Append(line, Mutated(s))
      /\ UNCHANGED <<calls, space, operator, shown, tangled>>
      /\ \A t \in Spaces : scene'[t].ops \subseteq scene[t].ops
  BY DEF ServerChanges, Committed, pageVars, ghostVars, TypeInv
<1> DEFINE m == Mutated(s)
<1>2. m \in Messages /\ m.kind = "mutated"
  BY <1>1, MutatedMessage
<1> HIDE DEF m
<1>3. line' = Append(line, m)
  BY <1>1 DEF m
<1>4. PICK f : /\ Carries(Items(line, calls), Items(line', calls'), f)
               /\ \A i \in 1..Len(line) : AnswerAt(line, i) =>
                     f[Arrived(line', i)] = Arrived(line, i) /\ Arrived(line', i) \in Items(line', calls')
               /\ \A c \in calls : f[Asked(line', c)] = Asked(line, c)
                                   /\ Asked(line', c) \in Items(line', calls')
  BY <1>1, <1>2, <1>3, SentItems
<1>5. /\ Len(line') = Len(line) + 1 /\ line'[Len(line')] = m
      /\ \A i \in 1..Len(line) :
              /\ line'[i] = line[i] /\ i \in 1..Len(line')
              /\ (AnswerAt(line', i) <=> AnswerAt(line, i)) /\ (OkAt(line', i) <=> OkAt(line, i))
              /\ ViewAt(line', i) = ViewAt(line, i)
      /\ \A i \in 1..Len(line') : i \in 1..Len(line) \/ i = Len(line')
  BY <1>2, <1>3, Extended
<1>6. \A i \in 1..Len(line') : AnswerAt(line', i) \/ OkAt(line', i) => i \in 1..Len(line)
  BY <1>2, <1>5 DEF AnswerAt, OkAt
<1>7. /\ LastIsOf(Items(line, calls), space) => LastIsOf(Items(line', calls'), space)
      /\ CommandsAgree(Items(line, calls), space) => CommandsAgree(Items(line', calls'), space)
      /\ RefreshesAgree(Items(line, calls)) => RefreshesAgree(Items(line', calls'))
  BY <1>4, AgreementCarried
<1>8. BareIsNobody'
  <2>1. ASSUME NEW i \in 1..Len(line'), AnswerAt(line', i), line'[i].call.kind = "load", ~line'[i].result.ok
        PROVE  line'[i].call.operator \notin scene'[line'[i].call.space].ops
    <3>1. i \in 1..Len(line) /\ AnswerAt(line, i) /\ line'[i] = line[i]
      BY <1>5, <1>6, <2>1
    <3>2. line[i].call.space \in Spaces
      BY <3>1 DEF TypeInv, LineOK, AnswerOK, CallOK, CallTypes
    <3>3. line[i].call.operator \notin scene[line[i].call.space].ops
      BY <2>1, <3>1 DEF SwitchInv, BareIsNobody
    <3> QED BY <1>1, <3>1, <3>2, <3>3
  <2>2. ASSUME ~tangled, NEW c \in calls, c.kind = "bare", Fresh(Items(line', calls'), Asked(line', c))
        PROVE  c.operator \notin scene'[c.space].ops
    <3>1. Asked(line', c).call = c /\ c.kind \in Kept /\ c.space \in Spaces
      BY <2>2 DEF Asked, Kept, TypeInv, CallsOK, CallOK, CallTypes
    <3>2. Fresh(Items(line, calls), Asked(line, c))
      BY <1>4, <2>2, <3>1, FreshCarried
    <3> QED BY <1>1, <2>2, <3>1, <3>2 DEF SwitchInv, BareIsNobody
  <2>3. ASSUME ~tangled, NEW i \in 1..Len(line'), AnswerAt(line', i), line'[i].call.kind = "bare",
               Fresh(Items(line', calls'), Arrived(line', i))
        PROVE  line'[i].call.operator \notin ViewAt(line', i).ops
    <3>1. /\ i \in 1..Len(line) /\ AnswerAt(line, i) /\ line'[i] = line[i]
          /\ ViewAt(line', i) = ViewAt(line, i)
      BY <1>5, <1>6, <2>3
    <3>2. Arrived(line', i).call = line'[i].call /\ line'[i].call.kind \in Kept
      BY <2>3 DEF Arrived, Kept
    <3>3. Fresh(Items(line, calls), Arrived(line, i))
      BY <1>4, <2>3, <3>1, <3>2, FreshCarried
    <3> QED BY <2>3, <3>1, <3>3 DEF SwitchInv, BareIsNobody
  <2> QED BY <1>1, <2>1, <2>2, <2>3 DEF BareIsNobody
<1>9. DeletedIsGone'
  BY <1>5, <1>6 DEF SwitchInv, DeletedIsGone
<1>10. ShownInv'
  <2>1. NoneAnew(Items(line', calls')) => NoneAnew(Items(line, calls))
    <3>1. ASSUME NoneAnew(Items(line', calls')), NEW i \in 1..Len(line), line[i].kind = "answer"
          PROVE  line[i].call.kind \notin Anew
      <4>1. \A k \in 1..Len(line') : line'[k].kind = "answer" => line'[k].call.kind \notin Anew
        BY <3>1, NoneAnewIs
      <4> QED BY <1>5, <3>1, <4>1
    <3>2. NoneAnew(Items(line', calls')) => \A c \in calls : c.kind \notin Anew
      BY <1>1, NoneAnewIs
    <3> QED BY <3>1, <3>2, NoneAnewIs
  <2> SUFFICES ASSUME ~tangled', NoneAnew(Items(line', calls'))
               PROVE  /\ (shown \in Views /\ shown.space = space /\ shown.operator = operator)'
                      /\ \A c \in calls' : c.kind \in Later =>
                           \A ops \in SUBSET scene'[space'].ops : Suits(c, operator', ops)
                      /\ \A i \in 1..Len(line') : OkAt(line', i) /\ line'[i].call.kind \in Later =>
                           Suits(line'[i].call, operator', ViewAt(line', i).ops)
    BY DEF ShownInv
  <2>2. /\ shown \in Views /\ shown.space = space /\ shown.operator = operator
        /\ \A c \in calls : c.kind \in Later =>
             \A ops \in SUBSET scene[space].ops : Suits(c, operator, ops)
        /\ \A i \in 1..Len(line) : OkAt(line, i) /\ line[i].call.kind \in Later =>
             Suits(line[i].call, operator, ViewAt(line, i).ops)
    BY <1>1, <2>1 DEF SwitchInv, ShownInv
  <2>3. \A c \in calls' : c.kind \in Later =>
                           \A ops \in SUBSET scene'[space'].ops : Suits(c, operator', ops)
    <3>1. scene'[space].ops \subseteq scene[space].ops
      BY <1>1 DEF TypeInv
    <3> QED BY <1>1, <2>2, <3>1
  <2>4. \A i \in 1..Len(line') : OkAt(line', i) /\ line'[i].call.kind \in Later =>
                           Suits(line'[i].call, operator', ViewAt(line', i).ops)
    BY <1>1, <1>5, <1>6, <2>2
  <2>5. (shown \in Views /\ shown.space = space /\ shown.operator = operator)'
    BY <1>1, <2>2
  <2> QED BY <2>3, <2>4, <2>5
<1>11. LastIsOf(Items(line, calls), space)' /\ (~tangled => CommandsAgree(Items(line, calls), space)
         /\ RefreshesAgree(Items(line, calls)))'
  BY <1>1, <1>7 DEF SwitchInv
<1> QED BY <1>8, <1>9, <1>10, <1>11 DEF SwitchInv

\* A call is answered: it has kept its place among those whose order counts.
LEMMA SwitchOfAnswer ==
  ASSUME TypeInv, SwitchInv, NEW c \in calls, Answer(c)
  PROVE  SwitchInv'
<1>1. PICK r \in Results :
           /\ AnswerOK(c, r) /\ MayAnswer(c)
           /\ calls' = calls \ {c}
           /\ line' = Append(line, [kind |-> "answer", call |-> c, result |-> r])
           /\ [kind |-> "answer", call |-> c, result |-> r] \in Messages
           /\ UNCHANGED <<scene, space, operator, shown, tangled>>
           /\ Refused(c) => ~r.ok
           /\ ~Refused(c) => r = Result(c)
  BY AnswerIs DEF pageVars, ghostVars
<1> DEFINE m == [kind |-> "answer", call |-> c, result |-> r]
           n == Len(line')
<1>2. m \in Messages /\ m.kind = "answer" /\ m.call = c /\ m.result = r /\ line' = Append(line, m)
  BY <1>1
<1> HIDE DEF m
<1>3. PICK f : /\ Carries(Items(line, calls), Items(line', calls'), f)
               /\ \A i \in 1..Len(line) : AnswerAt(line, i) =>
                     f[Arrived(line', i)] = Arrived(line, i) /\ Arrived(line', i) \in Items(line', calls')
               /\ f[Arrived(line', n)] = Asked(line, c)
               /\ Arrived(line', n) \in Items(line', calls')
               /\ \A d \in calls' : f[Asked(line', d)] = Asked(line, d)
                                   /\ Asked(line', d) \in Items(line', calls')
  BY <1>1, <1>2, AnsweredItems
<1>4. /\ n = Len(line) + 1 /\ line'[n] = m /\ n \in 1..n
      /\ \A i \in 1..Len(line) :
              /\ line'[i] = line[i] /\ i \in 1..n
              /\ (AnswerAt(line', i) <=> AnswerAt(line, i)) /\ (OkAt(line', i) <=> OkAt(line, i))
              /\ ViewAt(line', i) = ViewAt(line, i)
      /\ \A i \in 1..n : i \in 1..Len(line) \/ i = n
  BY <1>2, Extended
<1> HIDE DEF n
<1>5. CallOK(c) /\ c.space \in Spaces /\ scene \in [Spaces -> SceneTypes]
  BY DEF TypeInv, CallsOK, CallOK, CallTypes
<1>6. /\ c.kind # "history" /\ r.ok => r.view.ops = scene[c.space].ops
      /\ c.kind \in {"load", "bare", "select", "refresh", "reread"} /\ ~r.ok =>
           c.operator \notin scene[c.space].ops
      /\ c.kind = "delete" /\ r.ok => c.target \notin scene[c.space].ops
  <2>1. ~Refused(c) /\ c.kind # "history" /\ r.ok => r.view.ops = scene[c.space].ops
    BY <1>1, <1>5, ResultIs
  <2>2. ~Refused(c) /\ c.kind # "history" /\ ~r.ok => c.operator \notin scene[c.space].ops
    BY <1>1, <1>5, ResultIs
  <2>3. c.kind \in {"load", "bare", "select", "refresh", "reread"} => ~Refused(c) /\ c.kind # "history"
    BY DEF Refused, Changes
  <2>4. c.kind = "delete" /\ ~Refused(c) => c.target \notin scene[c.space].ops
    BY DEF Refused, Changes, TypeInv, CallsOK
  <2> QED BY <1>1, <2>1, <2>2, <2>3, <2>4
<1>7. /\ LastIsOf(Items(line, calls), space) => LastIsOf(Items(line', calls'), space)
      /\ CommandsAgree(Items(line, calls), space) => CommandsAgree(Items(line', calls'), space)
      /\ RefreshesAgree(Items(line, calls)) => RefreshesAgree(Items(line', calls'))
  BY <1>3, AgreementCarried
<1>8. BareIsNobody'
  <2>1. ASSUME NEW i \in 1..n, AnswerAt(line', i), line'[i].call.kind = "load", ~line'[i].result.ok
        PROVE  line'[i].call.operator \notin scene[line'[i].call.space].ops
    <3>1. CASE i \in 1..Len(line)
      BY <1>4, <2>1, <3>1 DEF SwitchInv, BareIsNobody
    <3>2. CASE i = n
      BY <1>2, <1>4, <1>6, <2>1, <3>2
    <3> QED BY <1>4, <3>1, <3>2
  <2>2. ASSUME ~tangled, NEW d \in calls', d.kind = "bare", Fresh(Items(line', calls'), Asked(line', d))
        PROVE  d.operator \notin scene[d.space].ops
    <3>1. Asked(line', d).call = d /\ d.kind \in Kept /\ d \in calls
      BY <1>1, <2>2 DEF Asked, Kept
    <3>2. Fresh(Items(line, calls), Asked(line, d))
      BY <1>3, <2>2, <3>1, FreshCarried
    <3> QED BY <2>2, <3>1, <3>2 DEF SwitchInv, BareIsNobody
  <2>3. ASSUME ~tangled, NEW i \in 1..n, AnswerAt(line', i), line'[i].call.kind = "bare",
               Fresh(Items(line', calls'), Arrived(line', i))
        PROVE  line'[i].call.operator \notin ViewAt(line', i).ops
    <3>1. Arrived(line', i).call = line'[i].call /\ line'[i].call.kind \in Kept
      BY <2>3 DEF Arrived, Kept
    <3>2. CASE i \in 1..Len(line)
      <4>1. Fresh(Items(line, calls), Arrived(line, i))
        BY <1>3, <1>4, <2>3, <3>1, <3>2, FreshCarried
      <4> QED BY <1>4, <2>3, <3>2, <4>1 DEF SwitchInv, BareIsNobody
    <3>3. CASE i = n
      <4>1. Fresh(Items(line, calls), Asked(line, c))
        BY <1>3, <2>3, <3>1, <3>3, FreshCarried
      <4>2. c.kind = "bare" /\ r.ok /\ ViewAt(line', n) = r.view
        BY <1>1, <1>2, <1>4, <2>3, <3>3 DEF AnswerOK, ViewAt
      <4> QED BY <1>2, <1>4, <1>6, <2>3, <3>3, <4>1, <4>2 DEF SwitchInv, BareIsNobody
    <3> QED BY <1>4, <3>2, <3>3
  <2> QED BY <1>1, <2>1, <2>2, <2>3 DEF BareIsNobody, n
<1>9. DeletedIsGone'
  <2>1. ASSUME NEW i \in 1..n, OkAt(line', i), line'[i].call.kind = "delete"
        PROVE  line'[i].call.target \notin ViewAt(line', i).ops
    <3>1. CASE i \in 1..Len(line)
      BY <1>4, <2>1, <3>1 DEF SwitchInv, DeletedIsGone
    <3>2. CASE i = n
      BY <1>2, <1>4, <1>6, <2>1, <3>2 DEF OkAt, ViewAt
    <3> QED BY <1>4, <3>1, <3>2
  <2> QED BY <2>1 DEF DeletedIsGone, n
<1>10. ShownInv'
  <2>1. NoneAnew(Items(line', calls')) => NoneAnew(Items(line, calls))
    <3>1. ASSUME NoneAnew(Items(line', calls')), NEW i \in 1..Len(line), line[i].kind = "answer"
          PROVE  line[i].call.kind \notin Anew
      <4>1. \A k \in 1..n : line'[k].kind = "answer" => line'[k].call.kind \notin Anew
        BY <3>1, NoneAnewIs DEF n
      <4> QED BY <1>4, <3>1, <4>1
    <3>2. ASSUME NoneAnew(Items(line', calls')), NEW d \in calls PROVE d.kind \notin Anew
      <4>1. \A k \in 1..n : line'[k].kind = "answer" => line'[k].call.kind \notin Anew
        BY <3>2, NoneAnewIs DEF n
      <4>2. \A e \in calls' : e.kind \notin Anew
        BY <3>2, NoneAnewIs
      <4>3. d = c \/ d \in calls'
        BY <1>1
      <4> QED BY <1>2, <1>4, <4>1, <4>2, <4>3
    <3> QED BY <3>1, <3>2, NoneAnewIs
  <2> SUFFICES ASSUME ~tangled', NoneAnew(Items(line', calls'))
               PROVE  /\ (shown \in Views /\ shown.space = space /\ shown.operator = operator)'
                      /\ \A d \in calls' : d.kind \in Later =>
                           \A ops \in SUBSET scene'[space'].ops : Suits(d, operator', ops)
                      /\ \A i \in 1..Len(line') : OkAt(line', i) /\ line'[i].call.kind \in Later =>
                           Suits(line'[i].call, operator', ViewAt(line', i).ops)
    BY DEF ShownInv
  <2>2. /\ shown \in Views /\ shown.space = space /\ shown.operator = operator
        /\ \A d \in calls : d.kind \in Later =>
             \A ops \in SUBSET scene[space].ops : Suits(d, operator, ops)
        /\ \A i \in 1..Len(line) : OkAt(line, i) /\ line[i].call.kind \in Later =>
             Suits(line[i].call, operator, ViewAt(line, i).ops)
    BY <1>1, <2>1 DEF SwitchInv, ShownInv
  <2>3. c.kind \in Later => c.space = space
    <3>1. Asked(line, c) \in Items(line, calls) /\ Asked(line, c).call = c
      BY ItemsAre
    <3>2. Fresh(Items(line, calls), Asked(line, c))
      BY <2>1 DEF NoneAnew, Fresh
    <3>3. c.kind = "refresh" => c.space = space
      BY <3>1, <3>2 DEF SwitchInv, LastIsOf, Kept
    <3>4. c.kind \in Commands => c.space = space
      BY <1>1, <3>1 DEF SwitchInv, CommandsAgree
    <3> QED BY <3>3, <3>4 DEF Later
  <2>4. ASSUME NEW i \in 1..n, OkAt(line', i), line'[i].call.kind \in Later
        PROVE  Suits(line'[i].call, operator, ViewAt(line', i).ops)
    <3>1. CASE i \in 1..Len(line)
      BY <1>4, <2>2, <2>4, <3>1
    <3>2. CASE i = n
      <4>1. r.ok /\ c.kind \in Later /\ c.kind # "history" /\ ViewAt(line', n) = r.view
        BY <1>2, <1>4, <2>4, <3>2 DEF OkAt, ViewAt
      <4>2. r.view.ops = scene[space].ops
        BY <1>6, <2>3, <4>1
      <4>3. Suits(c, operator, scene[space].ops)
        BY <2>2, <4>1
      <4> QED BY <1>2, <1>4, <3>2, <4>1, <4>2, <4>3
    <3> QED BY <1>4, <3>1, <3>2
  <2>5. \A d \in calls' : d.kind \in Later =>
          \A ops \in SUBSET scene[space].ops : Suits(d, operator, ops)
    BY <1>1, <2>2
  <2> QED BY <1>1, <2>2, <2>4, <2>5 DEF n
<1>11. LastIsOf(Items(line, calls), space)' /\ (~tangled => CommandsAgree(Items(line, calls), space)
         /\ RefreshesAgree(Items(line, calls)))'
  BY <1>1, <1>7 DEF SwitchInv
<1> QED BY <1>8, <1>9, <1>10, <1>11 DEF SwitchInv

\* A new call comes after all the others.
LEMMA AskedItems ==
  ASSUME TypeInv, NEW c, NewCall(c)
  PROVE  /\ \A l : Items(l, calls') = Items(l, calls) \cup {Asked(l, c)}
         /\ Asked(line, c).at \in Nat /\ Asked(line, c).call = c
         /\ \A y \in Items(line, calls) :
              y.at \in Nat /\ y.at < Asked(line, c).at /\ y.call \in Underway
<1>1. calls' = calls \cup {c} /\ c.n \in Nat /\ \A d \in calls : d.n < c.n
  BY DEF NewCall, CallOK, CallTypes
<1>2. \A l : Items(l, calls') = Items(l, calls) \cup {Asked(l, c)}
  BY <1>1 DEF Items
<1>3. Asked(line, c).at = Len(line) + 1 + c.n /\ Asked(line, c).call = c
  BY DEF Asked
<1>4. Asked(line, c).at \in Nat
  BY <1>1, <1>3, ItemsAre
<1>5. ASSUME NEW y \in Items(line, calls) PROVE y.at < Asked(line, c).at
  <2>1. ASSUME NEW i \in 1..Len(line), y = Arrived(line, i) PROVE y.at < Asked(line, c).at
    <3>1. y.at = i /\ i <= Len(line) /\ i \in Nat /\ Len(line) \in Nat
      BY <2>1, ItemsAre
    <3> QED BY <1>1, <1>3, <3>1
  <2>2. ASSUME NEW d \in calls, y = Asked(line, d) PROVE y.at < Asked(line, c).at
    <3>1. y.at = Len(line) + 1 + d.n /\ d.n \in Nat /\ Len(line) \in Nat /\ d.n < c.n
      BY <1>1, <2>2, ItemsAre
    <3> QED BY <1>1, <1>3, <3>1
  <2> QED BY <2>1, <2>2, ItemsAre
<1> QED BY <1>2, <1>3, <1>4, <1>5, ItemsAre

\* The user asks: for the operator of the page, or for another, or for everything anew.
LEMMA SwitchOfAsking ==
  ASSUME TypeInv, SwitchInv, NEW c, Asks(c), c.space = space',
         c.kind \in Later => c.operator = operator,
         \/ c.kind \notin Anew /\ space' = space /\ tangled' = (tangled \/ Tangles(c))
         \/ c.kind \in Anew /\ tangled' = Tangles(c) /\ (c.kind = "bare" => c.operator = None)
  PROVE  SwitchInv'
<1>1. NewCall(c) /\ UNCHANGED <<scene, line, operator, shown>> /\ calls' = calls \cup {c} /\ CallOK(c)
  BY DEF Asks, serverVars, NewCall
<1> DEFINE I == Items(line, calls)
           J == Items(line', calls')
           x == Asked(line, c)
<1>2. /\ J = I \cup {x} /\ x.at \in Nat /\ x.call = c
      /\ \A y \in I : y.at \in Nat /\ y.at < x.at /\ y.call \in Underway
  BY <1>1, AskedItems
<1>3. /\ \A i \in 1..Len(line) : AnswerAt(line, i) => Arrived(line, i) \in I
      /\ \A d \in calls : Asked(line, d) \in I
  BY ItemsAre
<1> HIDE DEF I, J, x
<1>4. LastIsOf(I, space) \/ c.kind \in Anew => LastIsOf(J, space')
  BY <1>2, AgreementAdded DEF SwitchInv
<1>5. (CommandsAgree(I, space') /\ RefreshesAgree(I)) \/ c.kind \in Anew =>
        Tangles(c) \/ (CommandsAgree(J, space') /\ RefreshesAgree(J))
  BY <1>2, AgreementAdded
<1>6. \A y \in I : Fresh(J, y) => Fresh(I, y) /\ c.kind \notin Anew
  BY <1>2, AgreementAdded
<1>7. LastIsOf(J, space') /\ (~tangled' => CommandsAgree(J, space') /\ RefreshesAgree(J))
  BY <1>4, <1>5 DEF SwitchInv, I
<1>8. BareIsNobody'
  <2>1. ASSUME ~tangled', NEW d \in calls', d.kind = "bare", Fresh(J, Asked(line, d))
        PROVE  d.operator \notin scene[d.space].ops
    <3>1. CASE d \in calls
      <4>1. Fresh(I, Asked(line, d)) /\ c.kind \notin Anew
        BY <1>3, <1>6, <2>1, <3>1
      <4> QED BY <2>1, <3>1, <4>1 DEF SwitchInv, BareIsNobody, I
    <3>2. CASE d = c
      <4>1. c.operator = None
        BY <2>1, <3>2 DEF Anew
      <4>2. c.space \in Spaces /\ scene \in [Spaces -> SceneTypes]
        BY <1>1 DEF CallOK, CallTypes, TypeInv
      <4> QED BY <3>2, <4>1, <4>2, ClientAssumption DEF SceneTypes
    <3> QED BY <1>1, <3>1, <3>2
  <2>2. ASSUME ~tangled', NEW i \in 1..Len(line), AnswerAt(line, i), line[i].call.kind = "bare",
               Fresh(J, Arrived(line, i))
        PROVE  line[i].call.operator \notin ViewAt(line, i).ops
    <3>1. Fresh(I, Arrived(line, i)) /\ c.kind \notin Anew
      BY <1>3, <1>6, <2>2
    <3> QED BY <2>2, <3>1 DEF SwitchInv, BareIsNobody, I
  <2> QED BY <1>1, <2>1, <2>2 DEF SwitchInv, BareIsNobody, J
<1>9. DeletedIsGone'
  BY <1>1 DEF SwitchInv, DeletedIsGone
<1>10. ShownInv'
  <2> SUFFICES ASSUME ~tangled', NoneAnew(J)
               PROVE  /\ (shown \in Views /\ shown.space = space /\ shown.operator = operator)'
                      /\ \A d \in calls' : d.kind \in Later =>
                           \A ops \in SUBSET scene'[space'].ops : Suits(d, operator', ops)
                      /\ \A i \in 1..Len(line') : OkAt(line', i) /\ line'[i].call.kind \in Later =>
                           Suits(line'[i].call, operator', ViewAt(line', i).ops)
    BY DEF ShownInv, J
  <2>1. NoneAnew(I) /\ c.kind \notin Anew /\ ~tangled /\ space' = space
    BY <1>2 DEF NoneAnew
  <2>2. /\ shown \in Views /\ shown.space = space /\ shown.operator = operator
        /\ \A d \in calls : d.kind \in Later =>
             \A ops \in SUBSET scene[space].ops : Suits(d, operator, ops)
        /\ \A i \in 1..Len(line) : OkAt(line, i) /\ line[i].call.kind \in Later =>
             Suits(line[i].call, operator, ViewAt(line, i).ops)
    BY <2>1 DEF SwitchInv, ShownInv, I
  <2>3. c.kind \in Later => \A ops \in SUBSET scene[space].ops : Suits(c, operator, ops)
    <3>1. scene[space].ops \in SUBSET Operators
      BY DEF TypeInv, SceneTypes
    <3> QED BY <1>1, <3>1, SuitsOwn
  <2> QED BY <1>1, <2>1, <2>2, <2>3
<1> QED BY <1>7, <1>8, <1>9, <1>10 DEF SwitchInv, J

\* What the user asks for is of the page and of its operator, or reads everything anew.
LEMMA SwitchOfUser ==
  ASSUME TypeInv, SwitchInv, User
  PROVE  SwitchInv'
<1>1. ASSUME NEW s \in Spaces, ObserveSpace(s) PROVE SwitchInv'
  <2>1. PICK c : /\ Asks(c) /\ c.kind \in {"load", "bare"} /\ c.operator = operator
                 /\ c.kind = "bare" => operator = None
                 /\ c.space = s /\ space' = s
                 /\ tangled' = Tangles(c)
    BY <1>1, ObserveIs
  <2> QED BY <2>1, SwitchOfAsking DEF Anew
<1>2. ASSUME NEW o \in Operators, SelectOperator(o) PROVE SwitchInv'
  <2>1. PICK c : /\ Asks(c) /\ c.kind = "select" /\ c.operator = o /\ c.space = space
                 /\ space' = space /\ tangled' = (tangled \/ Tangles(c))
    BY <1>2, SelectIs
  <2> QED BY <2>1, SwitchOfAsking DEF Anew, Later, Commands, Changes
<1>3. ASSUME NEW o \in Operators, DeleteOperator(o) PROVE SwitchInv'
  <2>1. PICK c : /\ Asks(c) /\ c.kind = "delete" /\ c.operator = operator /\ c.space = space
                 /\ space' = space /\ tangled' = (tangled \/ Tangles(c))
    BY <1>3, DeleteIs
  <2> QED BY <2>1, SwitchOfAsking DEF Anew
<1>4. ASSUME Send PROVE SwitchInv'
  <2>1. PICK c : /\ Asks(c) /\ c.kind = "send" /\ c.operator = operator /\ c.space = space
                 /\ space' = space /\ tangled' = (tangled \/ Tangles(c))
    BY <1>4, SendIs
  <2> QED BY <2>1, SwitchOfAsking DEF Anew
<1>5. ASSUME NEW path \in {"list", "search"}, LoadEarlier(path) PROVE SwitchInv'
  <2>1. PICK c : /\ Asks(c) /\ c.kind = "history" /\ c.operator = operator /\ c.space = space
                 /\ space' = space /\ tangled' = (tangled \/ Tangles(c))
    BY <1>5, EarlierIs
  <2> QED BY <2>1, SwitchOfAsking DEF Anew
<1> QED BY <1>1, <1>2, <1>3, <1>4, <1>5 DEF User

\* The page reads a message, and may make a call: what holds of those under way.
LEMMA SwitchOfTaking ==
  ASSUME TypeInv, SwitchInv, Takes(line[1]), tangled => tangled',
         \/ calls' = calls
         \/ \E c : /\ NewCall(c) /\ c.space = space /\ (Tangles(c) => tangled')
                   /\ c.kind = "bare" /\ ~tangled' => c.operator \notin scene[space].ops
  PROVE  /\ LastIsOf(Items(line', calls'), space')
         /\ ~tangled' => /\ CommandsAgree(Items(line', calls'), space')
                         /\ RefreshesAgree(Items(line', calls'))
         /\ BareIsNobody' /\ DeletedIsGone'
<1> DEFINE I == Items(line, calls)
           K == Items(line', calls)
           J == Items(line', calls')
<1>1. UNCHANGED <<scene, space>>
  BY DEF Takes, serverVars
<1>2. PICK f : /\ Carries(I, K, f)
               /\ \A i \in 1..Len(line') : AnswerAt(line', i) =>
                     f[Arrived(line', i)] = Arrived(line, i + 1) /\ Arrived(line', i) \in K
               /\ \A c \in calls : f[Asked(line', c)] = Asked(line, c) /\ Asked(line', c) \in K
               /\ \A x \in K : f[x].at = x.at + 1 /\ x.at # 0
  BY TakenItems
<1>3. \A i \in 1..Len(line') :
        /\ line'[i] = line[i + 1] /\ i + 1 \in 1..Len(line)
        /\ (AnswerAt(line', i) <=> AnswerAt(line, i + 1)) /\ (OkAt(line', i) <=> OkAt(line, i + 1))
        /\ ViewAt(line', i) = ViewAt(line, i + 1)
  BY Shifted
<1>4. /\ LastIsOf(K, space) /\ (~tangled => CommandsAgree(K, space) /\ RefreshesAgree(K))
  BY <1>2, AgreementCarried DEF SwitchInv
<1>5. /\ LastIsOf(J, space) /\ (~tangled' => CommandsAgree(J, space) /\ RefreshesAgree(J))
      /\ \A x \in K : Fresh(J, x) => Fresh(K, x)
  <2>1. CASE calls' = calls
    BY <1>4, <2>1
  <2>2. CASE calls' # calls
    <3>1. PICK c : NewCall(c) /\ c.space = space /\ (Tangles(c) => tangled')
      BY <2>2
    <3> DEFINE x == Asked(line', c)
    <3>2. J = K \cup {x}
      BY <3>1, AskedItems
    <3>3. Asked(line, c).at \in Nat /\ \A y \in I : y.at \in Nat /\ y.at < Asked(line, c).at /\ y.call \in Underway
      BY <3>1, AskedItems
    <3>4. x.at = Asked(line, c).at - 1 /\ x.call = c /\ Asked(line, c).at \in Nat \ {0}
      <4>1. Len(line') = Len(line) - 1 /\ Len(line) \in Nat \ {0}
        BY Shifted
      <4>2. c.n \in Nat
        BY <3>1 DEF NewCall, CallOK, CallTypes
      <4>3. /\ x.at = Len(line') + 1 + c.n /\ x.call = c
            /\ Asked(line, c).at = Len(line) + 1 + c.n
        BY DEF Asked
      <4> QED BY <4>1, <4>2, <4>3
    <3>5. \A y \in K : y.at \in Nat /\ f[y] \in I /\ f[y].call = y.call
      BY <1>2 DEF Carries
    <3> HIDE DEF x, K, J, I
    <3>6. ASSUME NEW y \in K PROVE y.at \in Nat /\ y.at < x.at /\ y.call \in Underway
      <4>1. y.at \in Nat /\ f[y].at = y.at + 1 /\ f[y].at < Asked(line, c).at /\ f[y].call \in Underway
        BY <1>2, <3>3, <3>5
      <4> QED BY <3>3, <3>4, <3>5, <4>1
    <3>7. x.at \in Nat /\ x.call.space = space
      BY <3>1, <3>4
    <3>8. /\ LastIsOf(K, space) \/ x.call.kind \in Anew => LastIsOf(J, space)
          /\ (CommandsAgree(K, space) /\ RefreshesAgree(K)) \/ x.call.kind \in Anew =>
              Tangles(x.call) \/ (CommandsAgree(J, space) /\ RefreshesAgree(J))
          /\ \A y \in K : Fresh(J, y) => Fresh(K, y) /\ x.call.kind \notin Anew
      BY <3>2, <3>6, <3>7, AgreementAdded
    <3> QED BY <1>4, <3>1, <3>4, <3>8
  <2> QED BY <2>1, <2>2
<1>6. BareIsNobody'
  <2>1. ASSUME NEW i \in 1..Len(line'), AnswerAt(line', i), line'[i].call.kind = "load", ~line'[i].result.ok
        PROVE  line'[i].call.operator \notin scene[line'[i].call.space].ops
    BY <1>3, <2>1 DEF SwitchInv, BareIsNobody
  <2>2. ASSUME ~tangled', NEW d \in calls', d.kind = "bare", Fresh(J, Asked(line', d))
        PROVE  d.operator \notin scene[d.space].ops
    <3>1. CASE d \in calls
      <4>1. Asked(line', d) \in K /\ Fresh(K, Asked(line', d))
        BY <1>2, <1>5, <2>2, <3>1
      <4>2. Asked(line', d).call = d /\ d.kind \in Kept
        BY <2>2 DEF Asked, Kept
      <4>3. Fresh(I, Asked(line, d))
        BY <1>2, <3>1, <4>1, <4>2, FreshCarried
      <4> QED BY <2>2, <3>1, <4>3 DEF SwitchInv, BareIsNobody
    <3>2. CASE d \notin calls
      <4>1. PICK c : /\ NewCall(c) /\ c.space = space
                     /\ c.kind = "bare" /\ ~tangled' => c.operator \notin scene[space].ops
        BY <3>2
      <4>2. d = c
        BY <3>2, <4>1 DEF NewCall
      <4> QED BY <2>2, <4>1, <4>2
    <3> QED BY <3>1, <3>2
  <2>3. ASSUME ~tangled', NEW i \in 1..Len(line'), AnswerAt(line', i), line'[i].call.kind = "bare",
               Fresh(J, Arrived(line', i))
        PROVE  line'[i].call.operator \notin ViewAt(line', i).ops
    <3>1. Arrived(line', i) \in K /\ Fresh(K, Arrived(line', i))
      BY <1>2, <1>5, <2>3
    <3>2. Arrived(line', i).call.kind \in Kept
      BY <2>3 DEF Arrived, Kept
    <3>3. Fresh(I, Arrived(line, i + 1))
      BY <1>2, <2>3, <3>1, <3>2, FreshCarried
    <3> QED BY <1>3, <2>3, <3>3 DEF SwitchInv, BareIsNobody
  <2> QED BY <1>1, <2>1, <2>2, <2>3 DEF BareIsNobody
<1>7. DeletedIsGone'
  BY <1>3 DEF SwitchInv, DeletedIsGone
<1> QED BY <1>1, <1>5, <1>6, <1>7

\* If the page makes a call, it is one for the operator it has now.
NewIsOwn ==
  \/ calls' = calls
  \/ \E c : NewCall(c) /\ c.space = space /\ c.kind \in Later /\ (~tangled' => c.operator = operator')

\* What is under way after the first is read suits whoever the page acts as.
LEMMA ShownAfter ==
  ASSUME TypeInv, Takes(line[1]), NewIsOwn, ~tangled',
         (shown \in Views /\ shown.space = space /\ shown.operator = operator)',
         \A c \in calls : c.kind \in Later =>
           \A ops \in SUBSET scene[space].ops : Suits(c, operator', ops),
         \A i \in 1..Len(line) : i # 1 /\ OkAt(line, i) /\ line[i].call.kind \in Later =>
           Suits(line[i].call, operator', ViewAt(line, i).ops)
  PROVE  ShownInv'
<1>1. UNCHANGED <<scene, space>>
  BY DEF Takes, serverVars
<1>2. \A i \in 1..Len(line') :
        /\ line'[i] = line[i + 1] /\ i + 1 \in 1..Len(line) /\ i + 1 # 1
        /\ (OkAt(line', i) <=> OkAt(line, i + 1)) /\ ViewAt(line', i) = ViewAt(line, i + 1)
  <2>1. \A i \in 1..Len(line') : i + 1 # 1
    BY Shifted
  <2> QED BY <2>1, Shifted
<1>3. \A i \in 1..Len(line') : OkAt(line', i) /\ line'[i].call.kind \in Later =>
           Suits(line'[i].call, operator', ViewAt(line', i).ops)
  BY <1>2
<1>4. ASSUME NEW c \in calls', c.kind \in Later, NEW ops \in SUBSET scene[space].ops
      PROVE  Suits(c, operator', ops)
  <2>1. CASE c \in calls
    BY <1>4, <2>1
  <2>2. CASE c \notin calls
    <3>1. PICK d : NewCall(d) /\ (~tangled' => d.operator = operator')
      BY <2>2 DEF NewIsOwn
    <3>2. c = d /\ CallOK(c) /\ c.operator = operator'
      BY <2>2, <3>1 DEF NewCall
    <3>3. ops \in SUBSET Operators
      BY DEF TypeInv, SceneTypes
    <3> QED BY <1>4, <3>2, <3>3, SuitsOwn
  <2> QED BY <2>1, <2>2
<1> QED BY <1>1, <1>3, <1>4 DEF ShownInv

\* Without the first message there is nothing that reads everything anew: was there any before?
LEMMA NoneAnewBefore ==
  ASSUME TypeInv, Takes(line[1]), calls \subseteq calls', NoneAnew(Items(line', calls'))
  PROVE  /\ \A i \in 1..Len(line) : i # 1 /\ AnswerAt(line, i) => line[i].call.kind \notin Anew
         /\ \A c \in calls : c.kind \notin Anew
         /\ (AnswerAt(line, 1) => line[1].call.kind \notin Anew) => NoneAnew(Items(line, calls))
<1>1. /\ \A i \in 1..Len(line') : line'[i].kind = "answer" => line'[i].call.kind \notin Anew
      /\ \A c \in calls' : c.kind \notin Anew
  BY NoneAnewIs
<1>2. ASSUME NEW k \in 1..Len(line), k # 1, AnswerAt(line, k) PROVE line[k].call.kind \notin Anew
  <2>1. PICK i \in 1..Len(line') : k = i + 1
    BY <1>2, Shifted
  <2>2. line'[i] = line[k]
    BY <2>1, Shifted
  <2> QED BY <1>1, <1>2, <2>2 DEF AnswerAt
<1>3. \A c \in calls : c.kind \notin Anew
  BY <1>1
<1>4. ASSUME AnswerAt(line, 1) => line[1].call.kind \notin Anew PROVE NoneAnew(Items(line, calls))
  BY <1>2, <1>3, <1>4, NoneAnewIs DEF AnswerAt
<1> QED BY <1>2, <1>3, <1>4

\* The page reads a message and stays with its operator and what it shows.
LEMMA ShownKept ==
  ASSUME TypeInv, SwitchInv, Takes(line[1]), NewIsOwn, tangled => tangled', operator' = operator,
         shown \in Views => shown' \in Views /\ shown'.space = shown.space
                            /\ shown'.operator = shown.operator,
         AnswerAt(line, 1) => line[1].call.kind \notin Anew
  PROVE  ShownInv'
<1> SUFFICES ASSUME ~tangled', NoneAnew(Items(line', calls')) PROVE ShownInv'
  BY DEF ShownInv
<1>1. calls \subseteq calls'
  BY DEF NewIsOwn, NewCall
<1>2. NoneAnew(Items(line, calls)) /\ ~tangled
  BY <1>1, NoneAnewBefore
<1>3. /\ shown \in Views /\ shown.space = space /\ shown.operator = operator
      /\ \A c \in calls : c.kind \in Later =>
           \A ops \in SUBSET scene[space].ops : Suits(c, operator, ops)
      /\ \A i \in 1..Len(line) : OkAt(line, i) /\ line[i].call.kind \in Later =>
           Suits(line[i].call, operator, ViewAt(line, i).ops)
  BY <1>2 DEF SwitchInv, ShownInv
<1>4. space' = space
  BY DEF Takes
<1> QED BY <1>3, <1>4, ShownAfter

\* The page reads a workspace and shows it: what a switch brings is what the rest was asked
\* for, and what the rest brings suits the operator.
LEMMA ShownReplaced ==
  ASSUME TypeInv, SwitchInv, OrderInv, Takes(line[1]), NewIsOwn, tangled => tangled',
         OkAt(line, 1), NEW o, Shows(ViewAt(line, 1), o),
         \/ line[1].call.kind \in Switches /\ o = line[1].call.operator
         \/ /\ line[1].call.kind \in Later /\ o = operator
            /\ line[1].call.kind = "delete" =>
                 line[1].call.operator \in {None, line[1].call.target}
  PROVE  ShownInv'
<1> SUFFICES ASSUME ~tangled', NoneAnew(Items(line', calls')) PROVE ShownInv'
  BY DEF ShownInv
<1> DEFINE c == line[1].call
           v == ViewAt(line, 1)
           I == Items(line, calls)
<1>1. calls \subseteq calls' /\ ~tangled /\ space' = space
  BY DEF NewIsOwn, NewCall, Takes
<1>2. /\ \A i \in 1..Len(line) : i # 1 /\ AnswerAt(line, i) => line[i].call.kind \notin Anew
      /\ \A d \in calls : d.kind \notin Anew
      /\ c.kind \notin Anew => NoneAnew(I)
  BY <1>1, NoneAnewBefore
<1>3. /\ v \in Views /\ v.space = c.space /\ v.ops \in SUBSET Operators /\ CallOK(c)
      /\ c.space \in Spaces /\ 1 \in 1..Len(line) /\ AnswerAt(line, 1)
  BY ViewAtIs DEF OkAt
<1>4. AnswerOK(c, line[1].result) /\ c.kind # "history" /\ line[1].result.ok
  BY <1>3 DEF OkAt, TypeInv, LineOK
<1>5. /\ Arrived(line, 1) \in I /\ Arrived(line, 1).call = c /\ Arrived(line, 1).at = 1
      /\ \A x \in I : x.at \in Nat
      /\ \A i \in 1..Len(line) : AnswerAt(line, i) =>
           Arrived(line, i) \in I /\ Arrived(line, i).call = line[i].call /\ Arrived(line, i).at = i
      /\ \A d \in calls : Asked(line, d) \in I /\ Asked(line, d).call = d
                          /\ Asked(line, d).at = Len(line) + 1 + d.n /\ d.n \in Nat
  BY <1>3, ItemsAre
<1>6. \A x \in I : x.call.kind \in Anew => x = Arrived(line, 1)
  <2>1. ASSUME NEW x \in I, x.call.kind \in Anew, x # Arrived(line, 1) PROVE FALSE
    <3>1. ~\E d \in calls : x = Asked(line, d)
      BY <1>2, <1>5, <2>1
    <3>2. ~\E i \in 1..Len(line) : AnswerAt(line, i) /\ x = Arrived(line, i)
      BY <1>2, <1>5, <2>1
    <3> QED BY <3>1, <3>2, ItemsAre
  <2> QED BY <2>1
<1>7. /\ \A i \in 1..Len(line) : AnswerAt(line, i) => i >= 1
      /\ \A i \in 1..Len(line) : i # 1 => 1 < i
      /\ \A d \in calls : 1 < Len(line) + 1 + d.n
  <2>1. Len(line) \in Nat \ {0}
    BY Shifted
  <2> QED BY <1>5, <2>1
<1>8. \A x \in I : Fresh(I, x)
  <2>1. ASSUME NEW x \in I, NEW y \in I, y.call.kind \in Anew PROVE y.at <= x.at
    <3>1. y.at = 1
      BY <1>5, <1>6, <2>1
    <3>2. (\E i \in 1..Len(line) : AnswerAt(line, i) /\ x = Arrived(line, i))
            \/ (\E d \in calls : x = Asked(line, d))
      BY ItemsAre
    <3>3. x.at >= 1
      BY <1>5, <1>7, <3>2
    <3> QED BY <3>1, <3>3
  <2> QED BY <2>1 DEF Fresh
<1> HIDE DEF I
<1>9. /\ LastIsOf(I, space) /\ CommandsAgree(I, space) /\ RefreshesAgree(I)
      /\ BareIsNobody /\ DeletedIsGone
  BY <1>1 DEF SwitchInv, I
<1>10. \A x \in I : x.call.kind \in Kept \cup Later => x.call.space = space
  BY <1>8, <1>9 DEF LastIsOf, CommandsAgree, Later, Kept
<1>11. c.kind \in Kept \cup Later
  BY DEF Kept, Later, Switches
<1>12. v.space = space
  BY <1>3, <1>5, <1>10, <1>11
<1>13. scene[space].ops \subseteq v.ops
  BY <1>3, <1>12 DEF OrderInv, OlderNow
<1>14. ASSUME NEW i \in 1..Len(line), i # 1, OkAt(line, i), line[i].call.kind \in Later
       PROVE  ViewAt(line, i).ops \in SUBSET v.ops
  <2>1. AnswerAt(line, i) /\ ViewAt(line, i).space = line[i].call.space
    BY <1>14, ViewAtIs DEF OkAt
  <2>2. line[i].call.space = space
    BY <1>5, <1>10, <1>14, <2>1
  <2>3. Older(v, ViewAt(line, i))
    BY <1>3, <1>7, <1>12, <1>14, <2>1, <2>2 DEF OrderInv
  <2> QED BY <2>3 DEF Older
\* Whoever the rest was asked for is o.
<1>15. /\ \A d \in calls : d.kind \in Later => \A ops \in SUBSET scene[space].ops : Suits(d, o, ops)
       /\ \A i \in 1..Len(line) : i # 1 /\ OkAt(line, i) /\ line[i].call.kind \in Later =>
            Suits(line[i].call, o, ViewAt(line, i).ops)
       /\ v.operator = Resolved(v.ops, o)
  <2>1. CASE c.kind \in Switches /\ o = c.operator
    <3>1. \A x \in I : x.call.kind \in Later /\ 1 < x.at => x.call.operator = o
      <4>1. \A x \in I : x.call.kind \in Commands => x.call.operator = o
        BY <1>5, <1>8, <1>9, <2>1 DEF CommandsAgree
      <4>2. \A x \in I : x.call.kind = "refresh" /\ 1 < x.at => x.call.operator = o
        BY <1>5, <1>8, <1>9, <2>1 DEF RefreshesAgree
      <4> QED BY <4>1, <4>2 DEF Later
    <3>2. \A d \in calls : d.kind \in Later => d.operator = o /\ CallOK(d)
      BY <1>5, <1>7, <3>1 DEF TypeInv, CallsOK
    <3>3. scene[space].ops \in SUBSET Operators
      BY DEF TypeInv, SceneTypes
    <3>4. \A d \in calls : d.kind \in Later => \A ops \in SUBSET scene[space].ops : Suits(d, o, ops)
      BY <3>2, <3>3, SuitsOwn
    <3>5. ASSUME NEW i \in 1..Len(line), i # 1, OkAt(line, i), line[i].call.kind \in Later
          PROVE  Suits(line[i].call, o, ViewAt(line, i).ops)
      <4>1. AnswerAt(line, i) /\ CallOK(line[i].call) /\ ViewAt(line, i).ops \in SUBSET Operators
        BY <3>5, ViewAtIs DEF OkAt
      <4>2. line[i].call.operator = o
        BY <1>5, <1>7, <3>1, <3>5, <4>1
      <4> QED BY <3>5, <4>1, <4>2, SuitsOwn
    <3>6. v.operator = Resolved(v.ops, o)
      <4>1. CASE c.kind = "bare"
        <5>1. v.operator = First(v.ops)
          BY <1>4, <4>1 DEF AnswerOK, NamesOperator, ViewAt
        <5>2. Fresh(I, Arrived(line, 1))
          BY <1>5, <1>8
        <5>3. c.operator \notin v.ops
          BY <1>1, <1>3, <1>9, <4>1, <5>2 DEF BareIsNobody, I
        <5> QED BY <2>1, <5>1, <5>3 DEF Resolved
      <4>2. CASE c.kind # "bare"
        <5>1. c.kind \in {"load", "select"}
          BY <2>1, <4>2 DEF Switches
        <5>2. NamesOperator(c)
          BY <1>3, <5>1 DEF CallOK, NamesOperator
        <5>3. v.operator = c.operator /\ c.operator \in v.ops
          BY <1>4, <5>2 DEF AnswerOK, ViewAt
        <5> QED BY <2>1, <5>3 DEF Resolved
      <4> QED BY <4>1, <4>2
    <3> QED BY <3>4, <3>5, <3>6
  <2>2. CASE /\ c.kind \in Later /\ o = operator
             /\ c.kind = "delete" => c.operator \in {None, c.target}
    <3>1. c.kind \notin Anew
      BY <2>2 DEF Later, Commands, Changes, Anew
    <3>2. ShownInv /\ NoneAnew(Items(line, calls))
      BY <1>2, <3>1 DEF SwitchInv, I
    <3>3. /\ \A d \in calls : d.kind \in Later =>
                 \A ops \in SUBSET scene[space].ops : Suits(d, operator, ops)
          /\ \A i \in 1..Len(line) : OkAt(line, i) /\ line[i].call.kind \in Later =>
                 Suits(line[i].call, operator, ViewAt(line, i).ops)
      BY <1>1, <3>2 DEF ShownInv
    <3>4. v.operator = Resolved(v.ops, o)
      BY <1>3, <1>9, <2>2, <3>3, ViewSuits
    <3> QED BY <2>2, <3>3, <3>4
  <2> QED BY <2>1, <2>2
<1>16. shown' = v /\ operator' = Resolved(v.ops, o)
  BY DEF Shows
<1>17. (shown \in Views /\ shown.space = space /\ shown.operator = operator)'
  BY <1>1, <1>3, <1>12, <1>15, <1>16
<1>18. \A d \in calls : d.kind \in Later =>
           \A ops \in SUBSET scene[space].ops : Suits(d, operator', ops)
  BY <1>3, <1>13, <1>15, <1>16, SuitsThrough
<1>19. \A i \in 1..Len(line) : i # 1 /\ OkAt(line, i) /\ line[i].call.kind \in Later =>
           Suits(line[i].call, operator', ViewAt(line, i).ops)
  BY <1>3, <1>14, <1>15, <1>16, SuitsThrough
<1> QED BY <1>17, <1>18, <1>19, ShownAfter

\* The page asks again for the operator it has now, after a message or an answer.
LEMMA AsksOwn ==
  ASSUME NEW kind \in Later, NEW o, AsksAgain(kind, o), tangled' = (tangled \/ Tangles(Plain(kind, o))),
         o = operator'
  PROVE  /\ NewIsOwn /\ (tangled => tangled')
         /\ \E c : /\ NewCall(c) /\ c.space = space /\ (Tangles(c) => tangled')
                   /\ c.kind = "bare" /\ ~tangled' => c.operator \notin scene[space].ops
<1>1. PICK c : NewCall(c) /\ c.kind = kind /\ c.operator = o /\ c.space = space /\ c = Plain(kind, o)
  BY DEF AsksAgain
<1>2. c.kind # "bare"
  BY <1>1 DEF Later, Commands, Changes
<1>3. Tangles(c) => tangled'
  BY <1>1
<1> QED BY <1>1, <1>2, <1>3 DEF NewIsOwn

\* A message that the scene was changed replaces nothing; it asks for a refresh.
LEMMA SwitchOfMessage ==
  ASSUME TypeInv, SwitchInv, ReceiveMutated
  PROVE  SwitchInv'
<1>1. /\ Takes(line[1]) /\ line[1].kind = "mutated" /\ UNCHANGED <<operator, shown>>
      /\ UNCHANGED <<calls, tangled>>
           \/ (AsksAgain("refresh", operator) /\ tangled' = (tangled \/ Tangles(Plain("refresh", operator))))
  BY MutatedIs
<1>2. ~AnswerAt(line, 1)
  BY <1>1 DEF AnswerAt
<1>3. CASE UNCHANGED <<calls, tangled>>
  <2>1. NewIsOwn
    BY <1>3 DEF NewIsOwn
  <2>2. ShownInv'
    BY <1>1, <1>2, <1>3, <2>1, ShownKept
  <2> QED BY <1>1, <1>3, <2>2, SwitchOfTaking DEF SwitchInv
<1>4. CASE AsksAgain("refresh", operator) /\ tangled' = (tangled \/ Tangles(Plain("refresh", operator)))
  <2>1. /\ NewIsOwn /\ (tangled => tangled')
        /\ \E c : /\ NewCall(c) /\ c.space = space /\ (Tangles(c) => tangled')
                  /\ c.kind = "bare" /\ ~tangled' => c.operator \notin scene[space].ops
    BY <1>1, <1>4, AsksOwn DEF Later
  <2>2. ShownInv'
    BY <1>1, <1>2, <2>1, ShownKept
  <2>3. /\ LastIsOf(Items(line', calls'), space')
        /\ ~tangled' => /\ CommandsAgree(Items(line', calls'), space')
                        /\ RefreshesAgree(Items(line', calls'))
        /\ BareIsNobody' /\ DeletedIsGone'
    BY <1>1, <2>1, SwitchOfTaking
  <2> QED BY <2>2, <2>3 DEF SwitchInv
<1> QED BY <1>1, <1>3, <1>4

\* An answered refresh shows the same operator, or the one left.
LEMMA SwitchOfRefresh ==
  ASSUME TypeInv, SwitchInv, OrderInv, ReceiveRefresh
  PROVE  SwitchInv'
<1> DEFINE c == line[1].call
           r == line[1].result
<1>1. /\ Takes(line[1]) /\ AnswerAt(line, 1) /\ c.kind = "refresh"
      /\ r.ok /\ r.view.rev >= shown.rev => Shows(r.view, operator) /\ OkAt(line, 1)
      /\ ~(r.ok /\ r.view.rev >= shown.rev) => UNCHANGED <<operator, shown>>
      /\ pending => /\ AsksAgain("refresh", operator')
                    /\ tangled' = (tangled \/ Tangles(Plain("refresh", operator')))
      /\ ~pending => UNCHANGED <<calls, tangled>>
  BY RefreshIs
<1>2. c.kind \in Later /\ c.kind \notin Anew /\ c.kind # "delete"
  BY <1>1 DEF Later, Anew
<1>3. /\ NewIsOwn /\ (tangled => tangled')
      /\ \/ calls' = calls
         \/ \E d : /\ NewCall(d) /\ d.space = space /\ (Tangles(d) => tangled')
                   /\ d.kind = "bare" /\ ~tangled' => d.operator \notin scene[space].ops
  <2>1. CASE pending
    <3>1. "refresh" \in Later
      BY DEF Later
    <3> QED BY <1>1, <2>1, <3>1, AsksOwn
  <2>2. CASE ~pending
    BY <1>1, <2>2 DEF NewIsOwn
  <2> QED BY <2>1, <2>2
<1>4. ShownInv'
  <2>1. CASE r.ok /\ r.view.rev >= shown.rev
    <3>1. Shows(ViewAt(line, 1), operator) /\ OkAt(line, 1)
      BY <1>1, <2>1 DEF ViewAt
    <3> QED BY <1>1, <1>2, <1>3, <3>1, ShownReplaced
  <2>2. CASE ~(r.ok /\ r.view.rev >= shown.rev)
    BY <1>1, <1>2, <1>3, <2>2, ShownKept
  <2> QED BY <2>1, <2>2
<1> QED BY <1>1, <1>3, <1>4, SwitchOfTaking DEF SwitchInv

\* An answered load shows the operator it was for; a refused one is repeated.
LEMMA SwitchOfLoad ==
  ASSUME TypeInv, SwitchInv, OrderInv, ReceiveLoad
  PROVE  SwitchInv'
<1> DEFINE c == line[1].call
           r == line[1].result
<1>1. /\ Takes(line[1]) /\ AnswerAt(line, 1) /\ c.kind \in {"load", "bare"}
      /\ r.ok => Shows(r.view, c.operator) /\ OkAt(line, 1) /\ UNCHANGED <<calls, tangled>>
      /\ ~r.ok => /\ c.kind = "load" /\ AsksAgain("bare", c.operator)
                  /\ tangled' = (tangled \/ c.space # space \/ Tangles(Plain("bare", c.operator)))
  BY LoadIs
<1>2. CASE r.ok
  <2>1. NewIsOwn /\ (tangled => tangled') /\ calls' = calls
    BY <1>1, <1>2 DEF NewIsOwn
  <2>2. Shows(ViewAt(line, 1), c.operator) /\ OkAt(line, 1) /\ c.kind \in Switches
    BY <1>1, <1>2 DEF ViewAt, Switches
  <2>3. ShownInv'
    BY <1>1, <2>1, <2>2, ShownReplaced
  <2> QED BY <1>1, <2>1, <2>3, SwitchOfTaking DEF SwitchInv
<1>3. CASE ~r.ok
  <2>1. PICK d : NewCall(d) /\ d.kind = "bare" /\ d.operator = c.operator /\ d.space = space
                 /\ d = Plain("bare", c.operator)
    BY <1>1, <1>3 DEF AsksAgain
  <2>2. (tangled => tangled') /\ (Tangles(d) => tangled')
    BY <1>1, <1>3, <2>1
  <2>3. c.operator \notin scene[c.space].ops
    BY <1>1, <1>3 DEF SwitchInv, BareIsNobody, AnswerAt
  <2>4. ~tangled' => d.operator \notin scene[space].ops
    BY <1>1, <1>3, <2>1, <2>3
  <2>5. /\ LastIsOf(Items(line', calls'), space')
        /\ ~tangled' => /\ CommandsAgree(Items(line', calls'), space')
                        /\ RefreshesAgree(Items(line', calls'))
        /\ BareIsNobody' /\ DeletedIsGone'
    BY <1>1, <2>1, <2>2, <2>4, SwitchOfTaking
  <2>6. ~NoneAnew(Items(line', calls'))
    <3>1. d \in calls' /\ d.kind \in Anew
      BY <2>1 DEF NewCall, Anew
    <3> QED BY <3>1, NoneAnewIs
  <2> QED BY <2>5, <2>6 DEF SwitchInv, ShownInv
<1> QED BY <1>2, <1>3

\* An answered change of the operator shows the one it was for.
LEMMA SwitchOfSelect ==
  ASSUME TypeInv, SwitchInv, OrderInv, ReceiveSelect
  PROVE  SwitchInv'
<1> DEFINE c == line[1].call
           r == line[1].result
<1>1. /\ Takes(line[1]) /\ AnswerAt(line, 1) /\ c.kind = "select"
      /\ UNCHANGED <<calls, tangled>>
      /\ r.ok => Shows(r.view, c.operator) /\ OkAt(line, 1)
      /\ ~r.ok => UNCHANGED <<operator, shown>>
  BY SelectedIs
<1>2. c.kind \in Switches /\ c.kind \notin Anew /\ NewIsOwn
  BY <1>1 DEF Switches, Anew, NewIsOwn
<1>3. ShownInv'
  <2>1. CASE r.ok
    <3>1. Shows(ViewAt(line, 1), c.operator) /\ OkAt(line, 1)
      BY <1>1, <2>1 DEF ViewAt
    <3> QED BY <1>1, <1>2, <3>1, ShownReplaced
  <2>2. CASE ~r.ok
    BY <1>1, <1>2, <2>2, ShownKept
  <2> QED BY <2>1, <2>2
<1> QED BY <1>1, <1>3, SwitchOfTaking DEF SwitchInv

\* An answered deletion leaves the operator, or the one the server takes instead.
LEMMA SwitchOfDelete ==
  ASSUME TypeInv, SwitchInv, OrderInv, ReceiveDelete
  PROVE  SwitchInv'
<1> DEFINE c == line[1].call
           r == line[1].result
<1>1. /\ Takes(line[1]) /\ AnswerAt(line, 1) /\ c.kind = "delete"
      /\ ~r.ok => UNCHANGED <<operator, shown, calls, tangled>>
      /\ r.ok /\ c.operator \in {None, c.target} =>
           Shows(r.view, operator) /\ OkAt(line, 1) /\ UNCHANGED <<calls, tangled>>
      /\ r.ok /\ c.operator \notin {None, c.target} =>
           /\ AsksAgain("reread", c.operator)
           /\ UNCHANGED <<operator, shown>>
           /\ tangled' = (tangled \/ c.operator # operator \/ Tangles(Plain("reread", c.operator)))
  BY DeletedIs
<1>2. c.kind \in Later /\ c.kind \notin Anew /\ "reread" \in Later
  BY <1>1 DEF Later, Anew, Commands, Changes
<1>3. /\ NewIsOwn /\ (tangled => tangled')
      /\ \/ calls' = calls
         \/ \E d : /\ NewCall(d) /\ d.space = space /\ (Tangles(d) => tangled')
                   /\ d.kind = "bare" /\ ~tangled' => d.operator \notin scene[space].ops
  <2>1. CASE r.ok /\ c.operator \notin {None, c.target}
    <3>1. PICK d : NewCall(d) /\ d.kind = "reread" /\ d.operator = c.operator /\ d.space = space
                   /\ d = Plain("reread", c.operator)
      BY <1>1, <2>1 DEF AsksAgain
    <3>2. (Tangles(d) => tangled') /\ (tangled => tangled') /\ (~tangled' => d.operator = operator')
      BY <1>1, <2>1, <3>1
    <3> QED BY <1>2, <3>1, <3>2 DEF NewIsOwn
  <2>2. CASE ~(r.ok /\ c.operator \notin {None, c.target})
    BY <1>1, <2>2 DEF NewIsOwn
  <2> QED BY <2>1, <2>2
<1>4. ShownInv'
  <2>1. CASE r.ok /\ c.operator \in {None, c.target}
    <3>1. Shows(ViewAt(line, 1), operator) /\ OkAt(line, 1)
      BY <1>1, <2>1 DEF ViewAt
    <3> QED BY <1>1, <1>2, <1>3, <2>1, <3>1, ShownReplaced
  <2>2. CASE ~(r.ok /\ c.operator \in {None, c.target})
    BY <1>1, <1>2, <1>3, <2>2, ShownKept
  <2> QED BY <2>1, <2>2
<1> QED BY <1>1, <1>3, <1>4, SwitchOfTaking DEF SwitchInv

\* An answered command shows the operator of the page.
LEMMA SwitchOfWorkspace ==
  ASSUME TypeInv, SwitchInv, OrderInv, ReceiveWorkspace
  PROVE  SwitchInv'
<1> DEFINE c == line[1].call
           r == line[1].result
<1>1. /\ Takes(line[1]) /\ AnswerAt(line, 1) /\ c.kind \in {"send", "reread"}
      /\ UNCHANGED <<calls, tangled>>
      /\ r.ok => Shows(r.view, operator) /\ OkAt(line, 1)
      /\ ~r.ok => UNCHANGED <<operator, shown>>
  BY WorkspaceIs
<1>2. c.kind \in Later /\ c.kind \notin Anew /\ c.kind # "delete" /\ NewIsOwn
  BY <1>1 DEF Later, Commands, Changes, Anew, NewIsOwn
<1>3. ShownInv'
  <2>1. CASE r.ok
    <3>1. Shows(ViewAt(line, 1), operator) /\ OkAt(line, 1)
      BY <1>1, <2>1 DEF ViewAt
    <3> QED BY <1>1, <1>2, <3>1, ShownReplaced
  <2>2. CASE ~r.ok
    BY <1>1, <1>2, <2>2, ShownKept
  <2> QED BY <2>1, <2>2
<1> QED BY <1>1, <1>3, SwitchOfTaking DEF SwitchInv

\* Earlier messages change nothing of the operator.
LEMMA SwitchOfHistory ==
  ASSUME TypeInv, SwitchInv, ReceiveHistory
  PROVE  SwitchInv'
<1> DEFINE c == line[1].call
           r == line[1].result
<1>1. /\ Takes(line[1]) /\ AnswerAt(line, 1) /\ c.kind = "history"
      /\ UNCHANGED <<calls, tangled, operator>>
      /\ r.ok /\ c.space = shown.space =>
           /\ shown' = [shown EXCEPT !.ids = r.page.ids \o @, !.more = r.page.more]
           /\ shown' \in Views
      /\ ~(r.ok /\ c.space = shown.space) => shown' = shown
  BY HistoryIs
<1>2. shown \in Views => shown' \in Views /\ shown'.space = shown.space /\ shown'.operator = shown.operator
  BY <1>1 DEF Views
<1>3. c.kind \notin Anew /\ NewIsOwn
  BY <1>1 DEF Anew, NewIsOwn
<1>4. ShownInv'
  BY <1>1, <1>2, <1>3, ShownKept
<1> QED BY <1>1, <1>4, SwitchOfTaking DEF SwitchInv

\* Every step keeps it.
LEMMA SwitchKept ==
  ASSUME TypeInv, OrderInv, SwitchInv, [Next]_vars
  PROVE  SwitchInv'
<1>1. CASE Panel \/ UNCHANGED vars
  <2>1. UNCHANGED <<scene, calls, line, space, operator, shown, tangled>>
    BY <1>1, PanelIs DEF vars, serverVars, pageVars, ghostVars
  <2>2. Items(line, calls)' = Items(line, calls)
    BY <2>1 DEF Items, Arrived, Asked
  <2>3. /\ LastIsOf(Items(line, calls), space)'
        /\ (~tangled => CommandsAgree(Items(line, calls), space) /\ RefreshesAgree(Items(line, calls)))'
    BY <2>1, <2>2 DEF SwitchInv
  <2>4. BareIsNobody'
    BY <2>1, <2>2 DEF SwitchInv, BareIsNobody, AnswerAt, ViewAt, Arrived, Asked
  <2>5. DeletedIsGone'
    BY <2>1 DEF SwitchInv, DeletedIsGone, OkAt, AnswerAt, ViewAt
  <2>6. ShownInv'
    BY <2>1, <2>2 DEF SwitchInv, ShownInv, OkAt, AnswerAt, ViewAt
  <2> QED BY <2>3, <2>4, <2>5, <2>6 DEF SwitchInv
<1>2. ASSUME NEW s \in Spaces, ElsewhereChanges(s) PROVE SwitchInv'
  BY <1>2, ElsewhereIs, SwitchOfChange
<1>3. ASSUME NEW c \in calls, Perform(c) PROVE SwitchInv'
  BY <1>3, PerformIs, SwitchOfChange
<1>4. ASSUME NEW c \in calls, Answer(c) PROVE SwitchInv'
  BY <1>4, SwitchOfAnswer
<1>5. CASE Receive
  BY <1>5, SwitchOfMessage, SwitchOfRefresh, SwitchOfLoad, SwitchOfSelect, SwitchOfDelete,
     SwitchOfWorkspace, SwitchOfHistory DEF Receive
<1> QED BY <1>1, <1>2, <1>3, <1>4, <1>5, SwitchOfUser DEF Next, Server

-----------------------------------------------------------------------------
(* Who is seen and not there any more: every step keeps it true that the page deletes them *)

\* At the start nobody is lost: the page is still loading.
LEMMA LostInit == Init => LostInv
<1> SUFFICES ASSUME Init PROVE LostInv
  OBVIOUS
<1>1. changed = 0 /\ Len(line) = 0 /\ ~(\E i \in 1..Len(line) : OkAt(line, i))
  BY DEF Init
<1>2. ~NoneAnew(Items(line, calls))
  <2>1. \E c \in calls : c.kind \in Anew
    BY DEF Init, Anew
  <2> QED BY <2>1, NoneAnewIs
<1> QED BY <1>1, <1>2 DEF LostInv

\* The page deletes somebody, or a scene changes otherwise, or somebody else changes it.
LEMMA LostOfChange ==
  ASSUME TypeInv, LostInv, NEW s, ServerChanges(s)
  PROVE  LostInv'
<1>1. /\ s \in Spaces /\ line' = Append(line, Mutated(s))
      /\ UNCHANGED <<calls, space, operator, tangled>>
      /\ \A t \in Spaces : scene'[t].ops \subseteq scene[t].ops /\ (t # s => scene'[t] = scene[t])
  BY DEF ServerChanges, Committed, pageVars, ghostVars, TypeInv
<1>2. changed' \in Nat /\ (changed' = 0 => changed = 0)
  BY DEF ServerChanges, LostInv
<1> SUFFICES ASSUME changed' = 0
             PROVE  /\ \A i \in 1..Len(line') : OkAt(line', i) =>
                         \A o \in ViewAt(line', i).ops :
                           \/ o \in scene'[ViewAt(line', i).space].ops
                           \/ Deleting(line', calls', done', ViewAt(line', i).space, o, i)
                    /\ ~tangled' /\ NoneAnew(Items(line', calls')) =>
                         \/ operator' \in scene'[space'].ops
                         \/ (operator' = None /\ scene'[space'].ops = {})
                         \/ Deleting(line', calls', done', space', operator', 0)
  BY <1>2 DEF LostInv
<1>3. PICK c \in calls : /\ c.kind \in Changes /\ done' = done \cup {c.n} /\ c.space = s
                         /\ c.kind = "send" => scene'[s].ops = scene[s].ops
                         /\ c.kind = "delete" => scene'[s].ops = scene[s].ops \ {c.target}
  BY <1>2 DEF ServerChanges, LostInv
<1>4. /\ \A i \in 1..Len(line) :
              /\ line'[i] = line[i] /\ i \in 1..Len(line')
              /\ (AnswerAt(line', i) <=> AnswerAt(line, i)) /\ (OkAt(line', i) <=> OkAt(line, i))
              /\ ViewAt(line', i) = ViewAt(line, i)
      /\ \A i \in 1..Len(line') : OkAt(line', i) => i \in 1..Len(line)
  <2>1. Mutated(s) \in Messages /\ Mutated(s).kind = "mutated"
    BY <1>1, MutatedMessage
  <2> QED BY <1>1, <2>1, Extended DEF OkAt, AnswerAt
<1>5. \A t, o, i : Deleting(line, calls, done, t, o, i) => Deleting(line', calls', done', t, o, i)
  BY <1>1, <1>3, <1>4 DEF Deleting
<1>6. ASSUME NEW t \in Spaces, NEW o, NEW i, o \in scene[t].ops, o \notin scene'[t].ops
      PROVE  Deleting(line', calls', done', t, o, i)
  <2>1. t = s /\ c.kind = "delete" /\ o = c.target
    BY <1>1, <1>3, <1>6 DEF Changes
  <2> QED BY <1>1, <1>3, <2>1 DEF Deleting
<1>7. ASSUME NEW i \in 1..Len(line'), OkAt(line', i), NEW o \in ViewAt(line', i).ops
      PROVE  \/ o \in scene'[ViewAt(line', i).space].ops
             \/ Deleting(line', calls', done', ViewAt(line', i).space, o, i)
  <2>1. i \in 1..Len(line) /\ OkAt(line, i) /\ ViewAt(line', i) = ViewAt(line, i)
    BY <1>4, <1>7
  <2>2. ViewAt(line, i).space \in Spaces
    BY <2>1, ViewAtIs
  <2>3. o \in scene[ViewAt(line, i).space].ops \/ Deleting(line, calls, done, ViewAt(line, i).space, o, i)
    BY <1>2, <1>7, <2>1 DEF LostInv
  <2> QED BY <1>5, <1>6, <2>1, <2>2, <2>3
<1>8. ASSUME ~tangled', NoneAnew(Items(line', calls'))
      PROVE  \/ operator' \in scene'[space'].ops
             \/ (operator' = None /\ scene'[space'].ops = {})
             \/ Deleting(line', calls', done', space', operator', 0)
  <2>1. NoneAnew(Items(line, calls))
    <3>1. /\ \A i \in 1..Len(line') : line'[i].kind = "answer" => line'[i].call.kind \notin Anew
          /\ \A d \in calls' : d.kind \notin Anew
      BY <1>8, NoneAnewIs
    <3>2. /\ \A i \in 1..Len(line) : line[i].kind = "answer" => line[i].call.kind \notin Anew
          /\ \A d \in calls : d.kind \notin Anew
      BY <1>1, <1>4, <3>1
    <3> QED BY <3>2, NoneAnewIs
  <2>2. \/ operator \in scene[space].ops \/ (operator = None /\ scene[space].ops = {})
        \/ Deleting(line, calls, done, space, operator, 0)
    BY <1>1, <1>2, <1>8, <2>1 DEF LostInv
  <2>3. space \in Spaces
    BY DEF TypeInv
  <2> QED BY <1>1, <1>5, <1>6, <2>2, <2>3
<1> QED BY <1>7, <1>8

\* A deletion is answered once it is made.
LEMMA LostOfAnswer ==
  ASSUME TypeInv, LostInv, NEW c \in calls, Answer(c)
  PROVE  LostInv'
<1>1. PICK r \in Results :
           /\ AnswerOK(c, r)
           /\ calls' = calls \ {c} /\ done' = done \ {c.n}
           /\ line' = Append(line, [kind |-> "answer", call |-> c, result |-> r])
           /\ [kind |-> "answer", call |-> c, result |-> r] \in Messages
           /\ UNCHANGED <<scene, space, operator, tangled, changed>>
           /\ Refused(c) => ~r.ok
           /\ ~Refused(c) => r = Result(c)
  BY AnswerIs DEF pageVars, ghostVars
<1> DEFINE m == [kind |-> "answer", call |-> c, result |-> r]
           n == Len(line')
<1>2. m \in Messages /\ m.kind = "answer" /\ m.call = c /\ m.result = r /\ line' = Append(line, m)
  BY <1>1
<1> HIDE DEF m
<1>4. /\ n = Len(line) + 1 /\ line'[n] = m /\ n \in 1..n
      /\ \A i \in 1..Len(line) :
              /\ line'[i] = line[i] /\ i \in 1..n /\ i < n
              /\ (AnswerAt(line', i) <=> AnswerAt(line, i)) /\ (OkAt(line', i) <=> OkAt(line, i))
              /\ ViewAt(line', i) = ViewAt(line, i)
      /\ \A i \in 1..n : i \in 1..Len(line) \/ i = n
  BY <1>2, Extended
<1>5. CallOK(c) /\ scene \in [Spaces -> SceneTypes]
  BY DEF TypeInv, CallsOK
<1>6. /\ c.kind # "history" /\ r.ok => r.view.ops = scene[c.space].ops /\ r.view.space = c.space
      /\ c.kind = "delete" /\ c.n \in done => r.ok
  <2>1. ~Refused(c) /\ c.kind # "history" /\ r.ok => r.view.ops = scene[c.space].ops
    BY <1>1, <1>5, ResultIs
  <2>2. c.kind = "delete" /\ ~Refused(c) => r.ok
    BY <1>1, <1>5, ResultIs
  <2>3. c.n \in done => ~Refused(c)
    BY DEF Refused
  <2>4. c.kind # "history" /\ r.ok => r.view.space = c.space
    BY <1>1 DEF AnswerOK
  <2> QED BY <1>1, <2>1, <2>2, <2>3, <2>4
<1>7. 0 < n
  <2>1. Len(line) \in Nat
    BY <1>2, Extended
  <2> QED BY <1>4, <2>1
<1> HIDE DEF n
<1>8. ASSUME NEW t, NEW o, NEW i, i < n, Deleting(line, calls, done, t, o, i)
      PROVE  Deleting(line', calls', done', t, o, i)
  <2>1. ASSUME NEW d \in calls, d.kind = "delete", d.n \in done, d.space = t, d.target = o
        PROVE  Deleting(line', calls', done', t, o, i)
    <3>1. CASE d = c
      <4>1. OkAt(line', n) /\ line'[n].call = c
        BY <1>2, <1>4, <1>6, <2>1, <3>1 DEF OkAt, AnswerAt, n
      <4> QED BY <1>4, <1>8, <2>1, <3>1, <4>1 DEF Deleting, n
    <3>2. CASE d # c
      <4>1. d.n # c.n
        BY <3>2 DEF TypeInv, CallsOK
      <4>2. d \in calls' /\ d.n \in done'
        BY <1>1, <2>1, <3>2, <4>1
      <4> QED BY <2>1, <4>2 DEF Deleting
    <3> QED BY <3>1, <3>2
  <2>2. ASSUME NEW j \in 1..Len(line), i < j, OkAt(line, j), line[j].call.kind = "delete",
               line[j].call.space = t, line[j].call.target = o
        PROVE  Deleting(line', calls', done', t, o, i)
    BY <1>4, <2>2 DEF Deleting, n
  <2> QED BY <1>8, <2>1, <2>2 DEF Deleting
<1> SUFFICES ASSUME changed = 0
             PROVE  /\ \A i \in 1..n : OkAt(line', i) =>
                         \A o \in ViewAt(line', i).ops :
                           \/ o \in scene[ViewAt(line', i).space].ops
                           \/ Deleting(line', calls', done', ViewAt(line', i).space, o, i)
                    /\ ~tangled /\ NoneAnew(Items(line', calls')) =>
                         \/ operator \in scene[space].ops
                         \/ (operator = None /\ scene[space].ops = {})
                         \/ Deleting(line', calls', done', space, operator, 0)
  BY <1>1 DEF LostInv, n
<1>9. ASSUME NEW i \in 1..n, OkAt(line', i), NEW o \in ViewAt(line', i).ops
      PROVE  \/ o \in scene[ViewAt(line', i).space].ops
             \/ Deleting(line', calls', done', ViewAt(line', i).space, o, i)
  <2>1. CASE i \in 1..Len(line)
    <3>1. OkAt(line, i) /\ ViewAt(line', i) = ViewAt(line, i) /\ i < n
      BY <1>4, <1>9, <2>1
    <3> QED BY <1>8, <1>9, <2>1, <3>1 DEF LostInv
  <2>2. CASE i = n
    BY <1>2, <1>4, <1>6, <1>9, <2>2 DEF OkAt, ViewAt
  <2> QED BY <1>4, <2>1, <2>2
<1>10. ASSUME ~tangled, NoneAnew(Items(line', calls'))
       PROVE  \/ operator \in scene[space].ops \/ (operator = None /\ scene[space].ops = {})
              \/ Deleting(line', calls', done', space, operator, 0)
  <2>1. NoneAnew(Items(line, calls))
    <3>1. /\ \A i \in 1..n : line'[i].kind = "answer" => line'[i].call.kind \notin Anew
          /\ \A d \in calls' : d.kind \notin Anew
      BY <1>10, NoneAnewIs DEF n
    <3>2. \A i \in 1..Len(line) : line[i].kind = "answer" => line[i].call.kind \notin Anew
      BY <1>4, <3>1
    <3>3. ASSUME NEW d \in calls PROVE d.kind \notin Anew
      <4>1. d = c \/ d \in calls'
        BY <1>1
      <4> QED BY <1>2, <1>4, <3>1, <4>1
    <3> QED BY <3>2, <3>3, NoneAnewIs
  <2> QED BY <1>7, <1>8, <1>10, <2>1 DEF LostInv
<1> QED BY <1>9, <1>10

\* Asking for something loses nobody.
LEMMA LostOfAsking ==
  ASSUME TypeInv, LostInv, NEW c, Asks(c),
         c.kind \notin Anew => space' = space /\ (tangled => tangled')
  PROVE  LostInv'
<1>1. /\ UNCHANGED <<scene, done, changed, line, operator>> /\ calls' = calls \cup {c}
  BY DEF Asks, NewCall, serverVars
<1>2. \A t, o, i : Deleting(line, calls, done, t, o, i) => Deleting(line, calls', done, t, o, i)
  BY <1>1 DEF Deleting
<1>3. NoneAnew(Items(line, calls')) => c.kind \notin Anew /\ NoneAnew(Items(line, calls))
  BY <1>1, NoneAnewIs
<1>4. ASSUME changed = 0, NEW i \in 1..Len(line), OkAt(line, i), NEW o \in ViewAt(line, i).ops
      PROVE  \/ o \in scene[ViewAt(line, i).space].ops
             \/ Deleting(line, calls', done, ViewAt(line, i).space, o, i)
  BY <1>2, <1>4 DEF LostInv
<1>5. ASSUME changed = 0, ~tangled', NoneAnew(Items(line, calls'))
      PROVE  \/ operator \in scene[space'].ops \/ (operator = None /\ scene[space'].ops = {})
             \/ Deleting(line, calls', done, space', operator, 0)
  BY <1>2, <1>3, <1>5 DEF LostInv
<1>6. changed \in Nat
  BY DEF LostInv
<1> QED BY <1>1, <1>4, <1>5, <1>6 DEF LostInv

\* What the page has read of its deletions, it knows.
LEMMA LostOfTaking ==
  ASSUME TypeInv, LostInv, Takes(line[1]), calls \subseteq calls'
  PROVE  /\ UNCHANGED <<scene, done, changed>>
         /\ \A t, o, i : i \in Nat /\ Deleting(line, calls, done, t, o, i + 1) =>
              Deleting(line', calls', done', t, o, i)
         /\ changed' = 0 =>
              \A i \in 1..Len(line') : OkAt(line', i) =>
                \A o \in ViewAt(line', i).ops :
                  \/ o \in scene'[ViewAt(line', i).space].ops
                  \/ Deleting(line', calls', done', ViewAt(line', i).space, o, i)
<1>1. UNCHANGED <<scene, done, changed>>
  BY DEF Takes, serverVars
<1>2. /\ Len(line') = Len(line) - 1 /\ Len(line) \in Nat
      /\ \A i \in 1..Len(line') :
        /\ line'[i] = line[i + 1] /\ i + 1 \in 1..Len(line)
        /\ (OkAt(line', i) <=> OkAt(line, i + 1)) /\ ViewAt(line', i) = ViewAt(line, i + 1)
      /\ \A k \in 1..Len(line) : k = 1 \/ \E i \in 1..Len(line') : k = i + 1
  BY Shifted
<1>3. ASSUME NEW t, NEW o, NEW i \in Nat, Deleting(line, calls, done, t, o, i + 1)
      PROVE  Deleting(line', calls', done', t, o, i)
  <2>1. CASE \E c \in calls : c.kind = "delete" /\ c.n \in done /\ c.space = t /\ c.target = o
    BY <1>1, <2>1 DEF Deleting
  <2>2. CASE \E j \in 1..Len(line) : /\ i + 1 < j /\ OkAt(line, j) /\ line[j].call.kind = "delete"
                                     /\ line[j].call.space = t /\ line[j].call.target = o
    <3>1. PICK j \in 1..Len(line) : /\ i + 1 < j /\ OkAt(line, j) /\ line[j].call.kind = "delete"
                                    /\ line[j].call.space = t /\ line[j].call.target = o
      BY <2>2
    <3>2. j # 1
      BY <3>1
    <3>3. PICK k \in 1..Len(line') : j = k + 1
      BY <1>2, <3>2
    <3>4. i < k
      BY <1>2, <3>1, <3>3
    <3> QED BY <1>2, <3>1, <3>3, <3>4 DEF Deleting
  <2> QED BY <1>3, <2>1, <2>2 DEF Deleting
<1>4. ASSUME changed = 0, NEW i \in 1..Len(line'), OkAt(line', i), NEW o \in ViewAt(line', i).ops
      PROVE  \/ o \in scene[ViewAt(line', i).space].ops
             \/ Deleting(line', calls', done', ViewAt(line', i).space, o, i)
  <2>1. i + 1 \in 1..Len(line) /\ OkAt(line, i + 1) /\ ViewAt(line', i) = ViewAt(line, i + 1) /\ i \in Nat
    BY <1>2, <1>4
  <2>2. \/ o \in scene[ViewAt(line', i).space].ops
        \/ Deleting(line, calls, done, ViewAt(line', i).space, o, i + 1)
    BY <1>4, <2>1 DEF LostInv
  <2> QED BY <1>3, <2>1, <2>2
<1> QED BY <1>1, <1>3, <1>4

\* The page shows a workspace: its operator is one of those it has.
LEMMA LostOfShowing ==
  ASSUME TypeInv, OrderInv, LostInv, SwitchInv', Takes(line[1]), calls \subseteq calls',
         OkAt(line, 1), NEW o, Shows(ViewAt(line, 1), o)
  PROVE  LostInv'
<1> DEFINE v == ViewAt(line, 1)
<1>1. /\ UNCHANGED <<scene, done, changed>> /\ changed \in Nat
      /\ \A t, p, i : i \in Nat /\ Deleting(line, calls, done, t, p, i + 1) =>
              Deleting(line', calls', done', t, p, i)
      /\ changed' = 0 =>
              \A i \in 1..Len(line') : OkAt(line', i) =>
                \A p \in ViewAt(line', i).ops :
                  \/ p \in scene'[ViewAt(line', i).space].ops
                  \/ Deleting(line', calls', done', ViewAt(line', i).space, p, i)
  BY LostOfTaking DEF LostInv
<1>2. /\ v \in Views /\ v.ops \in SUBSET Operators /\ 1 \in 1..Len(line)
  BY ViewAtIs
<1>3. ASSUME changed = 0, ~tangled', NoneAnew(Items(line', calls'))
      PROVE  \/ operator' \in scene[space'].ops \/ (operator' = None /\ scene[space'].ops = {})
             \/ Deleting(line', calls', done', space', operator', 0)
  <2>1. v.space = space'
    BY <1>3 DEF Shows, SwitchInv, ShownInv
  <2>2. operator' \in v.ops \/ (operator' = None /\ v.ops = {})
    BY <1>2, FirstIs DEF Shows, Resolved
  <2>3. v.ops = {} => scene[space'].ops = {}
    BY <1>2, <2>1 DEF OrderInv, OlderNow
  <2>4. ASSUME operator' \in v.ops
        PROVE  operator' \in scene[space'].ops \/ Deleting(line, calls, done, space', operator', 0 + 1)
    BY <1>2, <1>3, <2>1, <2>4 DEF LostInv
  <2> QED BY <1>1, <2>2, <2>3, <2>4
<1> QED BY <1>1, <1>3 DEF LostInv

\* The page stays with its operator: what it read was no deletion of that one.
LEMMA LostOfKeeping ==
  ASSUME TypeInv, LostInv, Takes(line[1]), calls \subseteq calls', operator' = operator,
         tangled => tangled',
         OkAt(line, 1) /\ line[1].call.kind = "delete" /\ ~tangled' => line[1].call.target # operator,
         AnswerAt(line, 1) => line[1].call.kind \notin Anew \/ \E c \in calls' : c.kind \in Anew
  PROVE  LostInv'
<1>1. /\ UNCHANGED <<scene, done, changed>> /\ changed \in Nat
      /\ \A t, p, i : i \in Nat /\ Deleting(line, calls, done, t, p, i + 1) =>
              Deleting(line', calls', done', t, p, i)
      /\ changed' = 0 =>
              \A i \in 1..Len(line') : OkAt(line', i) =>
                \A p \in ViewAt(line', i).ops :
                  \/ p \in scene'[ViewAt(line', i).space].ops
                  \/ Deleting(line', calls', done', ViewAt(line', i).space, p, i)
  BY LostOfTaking DEF LostInv
<1>2. ASSUME changed = 0, ~tangled', NoneAnew(Items(line', calls'))
      PROVE  \/ operator \in scene[space].ops \/ (operator = None /\ scene[space].ops = {})
             \/ Deleting(line', calls', done', space, operator, 0)
  <2>1. AnswerAt(line, 1) => line[1].call.kind \notin Anew
    BY <1>2, NoneAnewIs
  <2>2. NoneAnew(Items(line, calls))
    BY <1>2, <2>1, NoneAnewBefore
  <2>3. \/ operator \in scene[space].ops \/ (operator = None /\ scene[space].ops = {})
        \/ Deleting(line, calls, done, space, operator, 0)
    BY <1>2, <2>2 DEF LostInv
  <2>4. ASSUME Deleting(line, calls, done, space, operator, 0)
        PROVE  Deleting(line, calls, done, space, operator, 0 + 1)
    <3>1. CASE \E c \in calls : /\ c.kind = "delete" /\ c.n \in done /\ c.space = space
                                /\ c.target = operator
      BY <3>1 DEF Deleting
    <3>2. CASE \E j \in 1..Len(line) : /\ OkAt(line, j) /\ line[j].call.kind = "delete"
                                       /\ line[j].call.space = space /\ line[j].call.target = operator
      <4>1. PICK j \in 1..Len(line) : /\ OkAt(line, j) /\ line[j].call.kind = "delete"
                                      /\ line[j].call.space = space /\ line[j].call.target = operator
        BY <3>2
      <4>2. j # 1
        BY <1>2, <4>1
      <4>3. 0 + 1 < j
        BY <4>2, Shifted
      <4> QED BY <4>1, <4>3 DEF Deleting
    <3> QED BY <2>4, <3>1, <3>2 DEF Deleting
  <2> QED BY <1>1, <2>3, <2>4
<1>3. space' = space
  BY DEF Takes
<1> QED BY <1>1, <1>2, <1>3 DEF LostInv

\* Nor does any message, except for the participant the page deleted.
LEMMA LostOfReceiving ==
  ASSUME TypeInv, OrderInv, LostInv, SwitchInv', Receive
  PROVE  LostInv'
<1> DEFINE c == line[1].call
           r == line[1].result
<1>1. \A kind \in {"bare", "refresh", "reread"} : \A o : AsksAgain(kind, o) =>
        calls \subseteq calls' /\ \E d \in calls' : d.kind = kind
  BY DEF AsksAgain, NewCall
<1>2. ASSUME ReceiveMutated PROVE LostInv'
  <2>1. /\ Takes(line[1]) /\ line[1].kind = "mutated" /\ operator' = operator
        /\ UNCHANGED <<calls, tangled>>
             \/ (AsksAgain("refresh", operator) /\ tangled' = (tangled \/ Tangles(Plain("refresh", operator))))
    BY <1>2, MutatedIs
  <2>2. ~AnswerAt(line, 1) /\ ~OkAt(line, 1)
    BY <2>1 DEF AnswerAt, OkAt
  <2>3. (tangled => tangled') /\ calls \subseteq calls'
    <3>1. CASE UNCHANGED <<calls, tangled>>
      BY <3>1
    <3>2. CASE AsksAgain("refresh", operator) /\ tangled' = (tangled \/ Tangles(Plain("refresh", operator)))
      BY <1>1, <3>2
    <3> QED BY <2>1, <3>1, <3>2
  <2> QED BY <2>1, <2>2, <2>3, LostOfKeeping
<1>3. ASSUME ReceiveRefresh PROVE LostInv'
  <2>5. /\ Takes(line[1]) /\ c.kind = "refresh"
        /\ r.ok /\ r.view.rev >= shown.rev => Shows(r.view, operator) /\ OkAt(line, 1)
        /\ ~(r.ok /\ r.view.rev >= shown.rev) => operator' = operator
        /\ pending => /\ AsksAgain("refresh", operator')
                      /\ tangled' = (tangled \/ Tangles(Plain("refresh", operator')))
        /\ ~pending => UNCHANGED <<calls, tangled>>
    BY <1>3, RefreshIs
  <2>6. (tangled => tangled') /\ calls \subseteq calls'
    <3>1. CASE pending
      BY <1>1, <2>5, <3>1
    <3>2. CASE ~pending
      BY <2>5, <3>2
    <3> QED BY <3>1, <3>2
  <2>1. /\ Takes(line[1]) /\ c.kind = "refresh"
        /\ (tangled => tangled') /\ calls \subseteq calls'
        /\ r.ok /\ r.view.rev >= shown.rev => Shows(r.view, operator) /\ OkAt(line, 1)
        /\ ~(r.ok /\ r.view.rev >= shown.rev) => operator' = operator
    BY <2>5, <2>6
  <2>2. c.kind \notin Anew /\ c.kind # "delete"
    BY <2>1 DEF Anew
  <2>3. CASE r.ok /\ r.view.rev >= shown.rev
    BY <2>1, <2>3, LostOfShowing DEF ViewAt
  <2>4. CASE ~(r.ok /\ r.view.rev >= shown.rev)
    BY <2>1, <2>2, <2>4, LostOfKeeping
  <2> QED BY <2>3, <2>4
<1>4. ASSUME ReceiveLoad PROVE LostInv'
  <2>1. /\ Takes(line[1]) /\ c.kind \in {"load", "bare"}
        /\ r.ok => Shows(r.view, c.operator) /\ OkAt(line, 1) /\ calls' = calls
        /\ ~r.ok => AsksAgain("bare", c.operator) /\ operator' = operator /\ (tangled => tangled')
    BY <1>4, LoadIs
  <2>2. CASE r.ok
    BY <2>1, <2>2, LostOfShowing DEF ViewAt
  <2>3. CASE ~r.ok
    <3>1. calls \subseteq calls' /\ \E d \in calls' : d.kind \in Anew
      BY <1>1, <2>1, <2>3 DEF Anew
    <3>2. c.kind # "delete"
      BY <2>1
    <3> QED BY <2>1, <2>3, <3>1, <3>2, LostOfKeeping
  <2> QED BY <2>2, <2>3
<1>5. ASSUME ReceiveSelect PROVE LostInv'
  <2>1. /\ Takes(line[1]) /\ c.kind = "select" /\ calls' = calls /\ tangled' = tangled
        /\ r.ok => Shows(r.view, c.operator) /\ OkAt(line, 1)
        /\ ~r.ok => operator' = operator
    BY <1>5, SelectedIs
  <2>2. c.kind \notin Anew /\ c.kind # "delete"
    BY <2>1 DEF Anew
  <2>3. CASE r.ok
    BY <2>1, <2>3, LostOfShowing DEF ViewAt
  <2>4. CASE ~r.ok
    BY <2>1, <2>2, <2>4, LostOfKeeping
  <2> QED BY <2>3, <2>4
<1>6. ASSUME ReceiveDelete PROVE LostInv'
  <2>1. /\ Takes(line[1]) /\ c.kind = "delete"
        /\ ~r.ok => operator' = operator /\ calls' = calls /\ tangled' = tangled
        /\ r.ok /\ c.operator \in {None, c.target} =>
             Shows(r.view, operator) /\ OkAt(line, 1) /\ calls' = calls
        /\ r.ok /\ c.operator \notin {None, c.target} =>
             /\ AsksAgain("reread", c.operator) /\ operator' = operator /\ (tangled => tangled')
             /\ (~tangled' => c.operator = operator)
    BY <1>6, DeletedIs
  <2>2. c.kind \notin Anew
    BY <2>1 DEF Anew
  <2>3. CASE r.ok /\ c.operator \in {None, c.target}
    BY <2>1, <2>3, LostOfShowing DEF ViewAt
  <2>4. CASE r.ok /\ c.operator \notin {None, c.target}
    <3>1. calls \subseteq calls'
      BY <1>1, <2>1, <2>4
    <3>2. ~tangled' => c.target # operator
      BY <2>1, <2>4
    <3> QED BY <2>1, <2>2, <2>4, <3>1, <3>2, LostOfKeeping
  <2>5. CASE ~r.ok
    <3>1. ~OkAt(line, 1)
      BY <2>5 DEF OkAt
    <3> QED BY <2>1, <2>2, <2>5, <3>1, LostOfKeeping
  <2> QED BY <2>3, <2>4, <2>5
<1>7. ASSUME ReceiveWorkspace PROVE LostInv'
  <2>1. /\ Takes(line[1]) /\ c.kind \in {"send", "reread"} /\ calls' = calls /\ tangled' = tangled
        /\ r.ok => Shows(r.view, operator) /\ OkAt(line, 1)
        /\ ~r.ok => operator' = operator
    BY <1>7, WorkspaceIs
  <2>2. c.kind \notin Anew /\ c.kind # "delete"
    BY <2>1 DEF Anew
  <2>3. CASE r.ok
    BY <2>1, <2>3, LostOfShowing DEF ViewAt
  <2>4. CASE ~r.ok
    BY <2>1, <2>2, <2>4, LostOfKeeping
  <2> QED BY <2>3, <2>4
<1>8. ASSUME ReceiveHistory PROVE LostInv'
  <2>1. /\ Takes(line[1]) /\ c.kind = "history" /\ calls' = calls /\ tangled' = tangled
        /\ operator' = operator
    BY <1>8, HistoryIs
  <2>2. c.kind \notin Anew /\ c.kind # "delete"
    BY <2>1 DEF Anew
  <2> QED BY <2>1, <2>2, LostOfKeeping
<1> QED BY <1>2, <1>3, <1>4, <1>5, <1>6, <1>7, <1>8 DEF Receive

\* Nor any other step, unless others change something.
LEMMA LostKept ==
  ASSUME TypeInv, OrderInv, LostInv, SwitchInv', [Next]_vars
  PROVE  LostInv'
<1>1. CASE Panel \/ UNCHANGED vars
  <2>1. UNCHANGED <<scene, done, changed, calls, line, space, operator, tangled>>
    BY <1>1, PanelIs DEF vars, serverVars, pageVars, ghostVars
  <2>2. Items(line, calls)' = Items(line, calls)
    BY <2>1 DEF Items, Arrived, Asked
  <2> QED BY <2>1, <2>2 DEF LostInv, Deleting, OkAt, AnswerAt, ViewAt
<1>2. ASSUME NEW s \in Spaces, ElsewhereChanges(s) PROVE LostInv'
  BY <1>2, ElsewhereIs, LostOfChange
<1>3. ASSUME NEW c \in calls, Perform(c) PROVE LostInv'
  BY <1>3, PerformIs, LostOfChange
<1>4. ASSUME NEW c \in calls, Answer(c) PROVE LostInv'
  BY <1>4, LostOfAnswer
<1>5. CASE User
  <2>1. ASSUME NEW s \in Spaces, ObserveSpace(s) PROVE LostInv'
    <3>1. \E c : Asks(c) /\ c.kind \in Anew
      BY <2>1, ObserveIs DEF Anew
    <3> QED BY <3>1, LostOfAsking
  <2>2. ASSUME NEW o \in Operators, SelectOperator(o) PROVE LostInv'
    BY <2>2, SelectIs, LostOfAsking
  <2>3. ASSUME NEW o \in Operators, DeleteOperator(o) PROVE LostInv'
    BY <2>3, DeleteIs, LostOfAsking
  <2>4. ASSUME Send PROVE LostInv'
    BY <2>4, SendIs, LostOfAsking
  <2>5. ASSUME NEW path \in {"list", "search"}, LoadEarlier(path) PROVE LostInv'
    BY <2>5, EarlierIs, LostOfAsking
  <2> QED BY <1>5, <2>1, <2>2, <2>3, <2>4, <2>5 DEF User
<1>6. CASE Receive
  BY <1>6, LostOfReceiving
<1> QED BY <1>1, <1>2, <1>3, <1>4, <1>5, <1>6 DEF Next, Server

\* At rest there is nothing left that could delete somebody or read everything anew.
LEMMA FollowInvIsFollowed ==
  ASSUME TypeInv, SwitchInv, LostInv
  PROVE  ShownIsOfTheSwitch /\ OperatorIsLostToOthersOnly
<1> SUFFICES ASSUME Settled, ~tangled
             PROVE  /\ shown.space = space /\ shown.operator = operator
                    /\ changed = 0 => operator \in scene[space].ops
                                        \/ (operator = None /\ scene[space].ops = {})
  BY DEF ShownIsOfTheSwitch, OperatorIsLostToOthersOnly
<1>1. Len(line) = 0 /\ calls = {}
  BY DEF Settled
<1>2. NoneAnew(Items(line, calls))
  BY <1>1, NoneAnewIs
<1>3. ~Deleting(line, calls, done, space, operator, 0)
  BY <1>1 DEF Deleting
<1> QED BY <1>2, <1>3 DEF SwitchInv, ShownInv, LostInv

-----------------------------------------------------------------------------
(* The theorems *)

\* All of it holds together.
PageInv == TypeInv /\ HistoryInv /\ OrderInv /\ RowsInv /\ ToldInv /\ CatchUpInv

\* All of it holds in every reachable state.
LEMMA PageInvHolds == Spec => []PageInv
<1>1. Init => PageInv
  BY InitTypes, HistoryInit, OrderInit, CatchUpInit DEF PageInv
<1>2. PageInv /\ [Next]_vars => PageInv'
  BY TypesKept, HistoryKept, OrderKept, ToldKept, CatchUpKept DEF PageInv
<1> QED BY <1>1, <1>2, PTL DEF Spec

\* What the page shows, and what it is about to, is of its operator.
FollowInv == SwitchInv /\ LostInv

\* That holds in every reachable state as well.
LEMMA FollowInvHolds == Spec => []FollowInv
<1>1. Init => FollowInv
  BY SwitchInit, LostInit DEF FollowInv
<1>2. PageInv /\ FollowInv /\ [Next]_vars => FollowInv'
  BY SwitchKept, LostKept DEF FollowInv, PageInv
<1> QED BY <1>1, <1>2, PageInvHolds, PTL DEF Spec

\* The state of a page, of its calls and of what is on its way has the types it should have.
THEOREM TypesHold == Spec => []TypeOK
<1>1. PageInv => TypeOK
  BY TypeInvIsTypeOK DEF PageInv
<1> QED BY <1>1, PageInvHolds, PTL

\* When everything has arrived a page shows the latest of the space it observes, whatever
\* overlapped, and its messages have no gap (notifySceneRevision, loadMessageHistory).
THEOREM PageCatchesUpHolds == Spec => []PageCatchesUp
<1>1. PageInv => PageCatchesUp
  BY CatchUpInvIsCaughtUp, HistoryInvIsContiguous DEF PageInv, PageCatchesUp
<1> QED BY <1>1, PageInvHolds, PTL

\* At rest a page shows its space as its operator, the one the user took last, unless calls for
\* different ones overlapped; and that operator is there unless others deleted it
\* (applyWorkspaceView, selectOperator, deleteParticipant).
THEOREM ViewFollowsHolds == Spec => []ViewFollowsOperator
<1>1. PageInv /\ FollowInv => ViewFollowsOperator
  BY FollowInvIsFollowed, TypeInvIsTypeOK DEF PageInv, FollowInv, ViewFollowsOperator
<1> QED BY <1>1, PageInvHolds, FollowInvHolds, PTL

\* No answer replaces the trajectory of a later read, or brings one back that was read before
\* the records were cleared (modelRequestTrajectoryRead).
THEOREM TrajectoryHolds == Spec => TrajectoryMovesForward
<1>1. PanelInv /\ [Next]_vars => PanelInv'
  BY PanelInvKept
<1>2. PanelInv /\ [Next]_vars =>
        [trajectory' \notin {trajectory, None} =>
           /\ trajectory # None => trajectory'.read > trajectory.read
           /\ trajectory'.read > cleared']_vars
  BY PanelInvKept
<1> QED BY <1>1, <1>2, PanelInvInit, PTL DEF Spec, TrajectoryMovesForward
=============================================================================
