SPECIFICATION PuzzlePartsSpec
CONSTANTS
  Parts = {"room", "scatter"}
  a = a
  b = b
  c = c
  tab1 = tab1
  tab2 = tab2
  guest = guest
  ann = ann
  bob = bob
  Piece = {a, b}
  Neighbor <- PairNeighbors
  Offset <- Offsets
  OnBoard <- BoardOffsets
  SnapToCorrect = 1
  SnapToNeighbor = 1
  Connection = {tab1, tab2, guest}
  Player = {ann, bob}
  Owner <- Owners
  LockTarget <- AllTargets
  MaxTime = 0
  NoPlayer = NoPlayer
  NoConnection = NoConnection
  Rows = 1
  Columns = 4
  PieceWidth = 4
  PieceHeight = 3
  Margin = 1
  ScatterGap = 1
  Modes = {"perimeter", "top", "right", "bottom", "left"}
  DropSpots <- MCDropSpots
  MaxMoves = 4
INVARIANTS
  RoomInv
  ScatterInv
PROPERTIES
  MovesRespectLocks
  DragLocksAreNotStolen
CHECK_DEADLOCK FALSE
