CONSTANTS
  PanelSlots = {"camera_play1"}
  MainSlots = {"player"}
  MaxPlayers = 2
  Budgets <- MCBudgets
  MaxQueue = 2

SPECIFICATION Spec

INVARIANTS
  PlayerInv
  NoPlayerLost
  LastWordCounts
  DecoderEquipped

PROPERTIES
  DroppedIsReleased
  PlayingIsServed

CHECK_DEADLOCK FALSE
