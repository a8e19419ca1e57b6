--------------------------- MODULE MCRecordStore ---------------------------
(* Instances of RecordStore for TLC. *)
EXTENDS RecordStore

\* Records are only compared, so they may be taken in their order.
InOrder == \A r \in Records : turn[r] \in {0, r}

\* A reader meets records of one size in a store that has not been restarted, with one
\* task waiting at most; everything else happens in runs of the store without a reader.
WalksApart ==
  reads > 0 => restarts = 0 /\ Len(queue) <= 1 /\ \A x \in summary : x.bytes = 1

Bounded == InOrder /\ WalksApart
=============================================================================
