SPECIFICATION ClientPartsSpec
CONSTANTS
  Parts = {"sync", "creation"}
  a = a
  b = b
  tab1 = tab1
  guest = guest
  ann = ann
  bob = bob
  build1 = build1
  build2 = build2
  Piece = {a, b}
  Neighbor <- PairNeighbors
  Offset <- ExactOffsets
  OnBoard <- BoardOffsets
  SnapToCorrect = 0
  SnapToNeighbor = 1
  Connection = {tab1, guest}
  Player = {ann, bob}
  Owner <- Owners
  LockTarget = {}
  MaxTime = 0
  NoPlayer = NoPlayer
  NoConnection = NoConnection
  MaxGestures = 3
  Token = {"token1", "token2"}
  Build = {build1, build2}
  Nothing = Nothing
  MaxTurns = 2
SYMMETRY Symmetry
INVARIANTS
  SyncInv
  CreationInv
PROPERTIES
  OnlyRefusedIsForgotten
CHECK_DEADLOCK FALSE
