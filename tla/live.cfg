SPECIFICATION LiveSpec
CONSTANTS
  Parts = {"membership", "finalization", "visit"}
  r1 = r1
  r2 = r2
  u1 = u1
  Nobody = Nobody
  Open = Open
  PlayedRoom = {r1, r2}
  User = {u1}
  Worker = {w1, w3}
  Recovery = {w3}
  Xp <- MCLiveXp
  conn1 = conn1
  conn2 = conn2
  room1 = room1
  room2 = room2
  j1 = j1
  j2 = j2
  j3 = j3
  None = None
  Connection = {conn1, conn2}
  Room = {room1, room2}
  Join = {j1, j2, j3}
  ConnOf <- MCConnOf
  RoomOf <- SwitchRoomOf
  Total = 1
  MaxInbox = 1
  MaxRevision = 1
  NoStats = NoStats
INVARIANTS
  MembershipInv
PROPERTIES
  MembershipSettles
  CompletionsSettle
  ResultArrives
CHECK_DEADLOCK FALSE
