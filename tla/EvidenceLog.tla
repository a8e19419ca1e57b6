---------------------------- MODULE EvidenceLog ----------------------------
(***************************************************************************)
(* What an evidence store promises about the records of one scope: it      *)
(* stores records in the order they were appended, each at most once, and  *)
(* it only ever forgets the oldest ones.  RecordStore implements it.       *)
(***************************************************************************)
EXTENDS Naturals

CONSTANT Records

VARIABLES
  turn,     \* turn[r] = n: r was the n-th record appended (0: not yet)
  appends,  \* number of records appended
  written,  \* records that have been stored at some time
  kept      \* records that are stored

vars == <<turn, appends, written, kept>>

Init ==
  /\ turn = [r \in Records |-> 0]
  /\ appends = 0
  /\ written = {} /\ kept = {}

Append(r) ==
  /\ turn[r] = 0
  /\ appends' = appends + 1
  /\ turn' = [turn EXCEPT ![r] = appends + 1]
  /\ UNCHANGED <<written, kept>>

\* A record is stored after every record that was stored before it was appended.
Store(r) ==
  /\ turn[r] # 0
  /\ \A x \in written : turn[x] < turn[r]
  /\ written' = written \cup {r}
  /\ kept' = kept \cup {r}
  /\ UNCHANGED <<turn, appends>>

\* Some of the oldest records go: none that stays is older than one that goes.
Forget(gone) ==
  /\ \A x \in gone, y \in kept \ gone : turn[x] < turn[y]
  /\ kept' = kept \ gone
  /\ UNCHANGED <<turn, appends, written>>

Next == \/ \E r \in Records : Append(r) \/ Store(r)
        \/ \E gone \in SUBSET kept : Forget(gone)

Spec == Init /\ [][Next]_vars
=============================================================================
