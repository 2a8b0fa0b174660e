----------------------------- MODULE MCDiscovery -----------------------------
(* Small instances of Discovery for TLC. *)
EXTENDS Discovery

CONSTANTS p1, p2, b1, b2

MCPolls == {p1, p2}
MCBoards == {b1, b2}

\* Each poll has a board of its own.
MCBoardOf == [p \in Polls |-> IF p = p1 THEN b1 ELSE b2]
=============================================================================
