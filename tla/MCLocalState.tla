---------------------------- MODULE MCLocalState ----------------------------
(* Documents that earlier pages, or the user's own edits, may have left.     *)
EXTENDS LocalState

CONSTANTS p1, p2

Kept(id) == [id |-> id, remember |-> TRUE, password |-> TRUE]
Leftover(id) == [id |-> id, remember |-> FALSE, password |-> TRUE]

LeftOnDisk ==
  {Unreadable,
   [profiles |-> <<Kept(Demo), Leftover(p2), Kept(p1), Kept(p2)>>, active |-> p2,
    history |-> <<[id |-> 0, status |-> "pending"]>>]}
=============================================================================
