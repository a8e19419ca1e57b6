---------------------------- MODULE MCTestSpaces ----------------------------
(* Instances of TestSpaces for TLC.  Space ids are interchangeable; bots are   *)
(* too, but for the ones the default scene names.                              *)
EXTENDS TestSpaces, TLC

Symmetry == Permutations(Spaces)
=============================================================================
