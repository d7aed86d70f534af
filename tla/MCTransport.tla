----------------------------- MODULE MCTransport ----------------------------
(* Symmetry for TLC: slots are interchangeable.                              *)
EXTENDS Transport, TLC

Interchangeable == Permutations(Slots)
=============================================================================
