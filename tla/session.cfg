SPECIFICATION SessionSpec
CONSTANTS
  Parts = {"groups", "score", "presence", "visit"}
  a = a
  b = b
  c = c
  Piece = {a, b, c}
  Neighbor <- Row
  Offset <- WideOffsets
  OnBoard <- WideBoardOffsets
  SnapToCorrect = 1
  SnapToNeighbor = 3
  c1 = c1
  c2 = c2
  Socket = {c1, c2}
  PlayerOf <- MCPlayerOf
  PreviewCap = 1
  Nothing = Nothing
  MaxClock = 2
  MaxPresences = 2
  MaxPreviews = 1
  MaxFaults = 1
  Rows = 1
  Cols = 4
  Scorer = {1, 2}
  Total = 2
  MaxInbox = 2
  MaxRevision = 2
  NoStats = NoStats
SYMMETRY SocketSymmetry
INVARIANTS
  PuzzleInv
  SnapsAreProgress
  ScoreInv
  PresenceInv
  VisitInv
PROPERTIES
  ImplementsBoard
  OverIsOver
CHECK_DEADLOCK FALSE
