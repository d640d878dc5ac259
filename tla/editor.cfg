SPECIFICATION EditorPartsSpec
CONSTANTS
  Parts = {"document", "session"}
  Loads <- TwoImages
  MinCanvas = 2
  MaxCanvas = 3
  MinItem = 1
  HistoryLimit = 2
  Offsets = {1}
  Values = {3}
  Ratios = {}
  InfiniteScale = 2
  MaxToken = 2
  Compositions = {c1, c2}
  NoComposition = NoComposition
  MaxRequests = 2
INVARIANTS
  
  CompositionInv
PROPERTIES
  ImplementsTimeline
  OnlyLateAnswersSplit
