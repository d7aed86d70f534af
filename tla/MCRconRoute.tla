---------------------------- MODULE MCRconRoute -----------------------------
(* Symmetry for TLC: requests and targets are interchangeable.               *)
EXTENDS RconRoute, TLC

Interchangeable == Permutations(Requests) \cup Permutations(Targets)
=============================================================================
