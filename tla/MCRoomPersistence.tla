------------------------- MODULE MCRoomPersistence -------------------------
(* A small room for TLC: two pieces, one of which two commands may drop, and *)
(* two copies of the room, which joins may hold or enter at the same time.   *)
EXTENDS RoomPersistence, TLC

CONSTANTS p1, p2, a1, a2, b1, o1, o2

MCPiece == {p1, p2}
MCCommand == {a1, a2, b1}
MCPieceOf == [cmd \in MCCommand |-> IF cmd = b1 THEN p2 ELSE p1]
MCCopy == {o1, o2}

\* The copies are interchangeable.
CopySymmetry == Permutations(MCCopy)

=============================================================================
