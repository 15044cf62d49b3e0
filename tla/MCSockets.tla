------------------------------ MODULE MCSockets ------------------------------
(* Descriptors and variables are interchangeable. *)
EXTENDS Sockets, TLC

Symmetry == Permutations(Handles) \cup Permutations(Vars)

=============================================================================
