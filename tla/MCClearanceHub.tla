---------------------------- MODULE MCClearanceHub ----------------------------
(* Small instances of ClearanceHub, up to renaming of their keys and callers. *)
EXTENDS ClearanceHub, TLC

Symmetric == Permutations(Callers) \cup Permutations(Keys)
=============================================================================
