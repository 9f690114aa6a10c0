-------------------------- MODULE MCEventSubscriber --------------------------
(* Model values and symmetry for checking EventSubscriber. *)
EXTENDS EventSubscriber, TLC

Symmetric == Permutations(Requests) \cup Permutations(Targets) \cup Permutations(Containers)

=============================================================================
