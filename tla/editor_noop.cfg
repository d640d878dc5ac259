SPECIFICATION EditorPartsSpec
CONSTANTS
  Parts = {"document"}
  Loads <- TwoImages
  MinCanvas = 2
  MaxCanvas = 3
  MinItem = 1
  HistoryLimit = 2
  Offsets = {1}
  Values = {2}
  Ratios = {2}
  InfiniteScale = 1
  MaxToken = 2
  Compositions = {c1, c2}
  NoComposition = NoComposition
  MaxRequests = 2
PROPERTY NoOpsAreNotRecorded
