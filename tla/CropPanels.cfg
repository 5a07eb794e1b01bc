CONSTANTS
  NaN = NaN
  Empty = Empty
  Osd = Osd
  Nobody = Nobody
  W = 4
  H = 3
  Default = 1
  HiddenDefault = 2
  OsdW = 2
  OsdH = 1
  Tile <- MCTile
  Layouts <- MCLayouts
  Worked <- MCWorked
  Moves <- MCMoves
  Typed <- MCTyped
  MaxActs <- MCMaxActs

SPECIFICATION Spec

INVARIANTS
  PanelInv
  HandlersOwned
  SentIsShown
  InsideKept

CHECK_DEADLOCK FALSE
