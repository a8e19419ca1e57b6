---------------------------- MODULE MCCallQuota ----------------------------
(* An instance of CallQuota for TLC: one category with a gate and the read category. *)
EXTENDS CallQuota, TLC

MCQuotas     == {"read", "mutation"}
MCLimit      == [q \in MCQuotas |-> 2]
MCConcurrent == [q \in MCQuotas |-> 1]

\* Calls and credentials are only compared.
Symmetry == Permutations(ToolCalls) \cup Permutations(Credentials)
=============================================================================
