SPECIFICATION Spec
CONSTANTS
  conn1 = conn1
  conn2 = conn2
  room1 = room1
  j1 = j1
  j2 = j2
  j3 = j3
  None = None
  Connection <- MCConnection
  Room = {room1}
  Join <- MCJoin
  ConnOf <- RejoinConnOf
  RoomOf <- RejoinRoomOf
INVARIANT ClosedConnectionsLeave
CHECK_DEADLOCK FALSE
