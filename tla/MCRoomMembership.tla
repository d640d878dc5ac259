-------------------------- MODULE MCRoomMembership --------------------------
(* Two connections; the first one joins the room twice.                     *)
EXTENDS RoomMembership

CONSTANTS conn1, conn2, room1, j1, j2, j3

MCConnection == {conn1, conn2}
MCJoin == {j1, j2, j3}
RejoinConnOf == [j \in MCJoin |-> IF j = j2 THEN conn2 ELSE conn1]
RejoinRoomOf == [j \in MCJoin |-> room1]

=============================================================================
