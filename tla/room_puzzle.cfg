SPECIFICATION Spec
CONSTANTS
  a = a
  b = b
  c = c
  tab1 = tab1
  tab2 = tab2
  guest = guest
  ann = ann
  bob = bob
  Piece = {a, b, c}
  Neighbor <- RowNeighbors
  Offset <- ExactOffsets
  OnBoard <- BoardOffsets
  SnapToCorrect = 1
  SnapToNeighbor = 1
  Connection = {tab1, guest}
  Player = {ann, bob}
  Owner <- Owners
  LockTarget <- GroupTargets
  MaxTime = 2
  NoPlayer = NoPlayer
  NoConnection = NoConnection
INVARIANTS
  TimerIsActiveTime
PROPERTIES
  MergesKeepLocks
  CompletionIsFinal
