------------------------ MODULE MCDashboardSession --------------------------
(* Symmetry for TLC: profile ids, servers and slots are interchangeable.     *)
EXTENDS DashboardSession, TLC

Interchangeable == Permutations(Ids) \cup Permutations(Servers) \cup Permutations(Slots)
=============================================================================
