SPECIFICATION Spec
CONSTANTS
  p1 = p1
  p2 = p2
  a1 = a1
  a2 = a2
  b1 = b1
  o1 = o1
  o2 = o2
  None = None
  Piece <- MCPiece
  Command <- MCCommand
  PieceOf <- MCPieceOf
  Copy <- MCCopy
  MaxSubmits = 3
SYMMETRY CopySymmetry
INVARIANTS
  PersistenceInv
  CompletionSurvives
  ProgressIsRecorded
