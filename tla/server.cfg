SPECIFICATION ServerSpec
CONSTANTS
  Parts = {"finalization", "identity", "membership", "cursors", "pings"}
  r1 = r1
  r2 = r2
  u1 = u1
  u2 = u2
  w1 = w1
  w2 = w2
  w3 = w3
  Nobody = Nobody
  Open = Open
  PlayedRoom = {r1, r2}
  User = {u1, u2}
  Worker = {w1, w2, w3}
  Recovery = {w3}
  Xp <- MCXp
  Request = {q1, q2}
  Name = {n1, n2}
  TgUser = {tg1, tg2}
  NoUser = NoUser
  NoSession = NoSession
  MaxStarts = 3
  q1 = q1
  q2 = q2
  p1 = p1
  p2 = p2
  conn1 = conn1
  conn2 = conn2
  room1 = room1
  j1 = j1
  j2 = j2
  j3 = j3
  None = None
  Connection = {conn1, conn2}
  Room = {room1}
  Join = {j1, j2, j3}
  ConnOf <- MCConnOf
  RoomOf <- RejoinRoomOf
  t1 = t1
  t2 = t2
  t3 = t3
  ann = ann
  bob = bob
  Tab = {t1, t2, t3}
  Guest = {ann, bob}
  GuestOf <- MCGuestOf
  MaxSignals = 2
  Pinger = {p1, p2}
  Cooldown = 2
  Duration = 2
  NoPing = NoPing
  MaxTime = 2
  MaxPings = 2
  MaxPingFaults = 1
SYMMETRY Symmetry
INVARIANTS
  FinalizationInv
  IdentityInv
  MembershipInv
  CursorsInv
  PingsInv
PROPERTIES
  LinksLast
CHECK_DEADLOCK FALSE
