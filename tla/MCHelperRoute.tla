---------------------------- MODULE MCHelperRoute ---------------------------
(* Symmetry for TLC: requests and targets are interchangeable.               *)
EXTENDS HelperRoute, TLC

Interchangeable == Permutations(Requests) \cup Permutations(Targets)
=============================================================================
