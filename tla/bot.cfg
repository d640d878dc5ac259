SPECIFICATION BotSpec
CONSTANTS
  Parts = {"store", "panel", "images", "navigation"}
  Call = {c1, c2}
  Layout = {l1, l2}
  NoLayout = NoLayout
  Format = {"png", "jpg"}
  MaxCalls = 4
  Refresh = {timer1}
  MaxSent = 6
  MaxUpdates = 3
  Photo = {p1, p2, p3, p4}
  MaxImages = 3
  MaxRows = 4
  PageSize = 1
  MaxStale = 1
  BuiltBefore = 2
  MaxWaiting = 2
  MaxNavUpdates = 4
  MaxNavFaults = 2
SYMMETRY CallSymmetry
INVARIANTS
  StoreInv
  PanelInv
  ImagesInv
  NavigationInv
  DeletedStaysHidden
PROPERTIES
  DeletedOnRequest
CHECK_DEADLOCK FALSE
