----------------------------- MODULE MCEventFeed -----------------------------
(* Instances of EventFeed for TLC. *)
EXTENDS EventFeed, TLC

CONSTANTS a, b

\* A tool that looks for one kind, and wait_for_event without a type.
MCKinds == {a, b}
MCFilters == {{a}, {a, b}}

\* Waits are only compared.
Symmetry == Permutations(Waits)
=============================================================================
