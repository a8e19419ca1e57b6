---------------------------- MODULE MCCallReplay ----------------------------
(* Instances of CallReplay for TLC. *)
EXTENDS CallReplay, TLC

\* Calls, tokens, payloads and slots are only compared.
Symmetry == Permutations(Calls) \cup Permutations(Tokens) \cup Permutations(Payloads)
            \cup Permutations(Sends)
=============================================================================
