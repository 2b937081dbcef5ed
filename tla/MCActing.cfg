SPECIFICATION FairSpec
CONSTANTS
  HitSlop = 6
  NoFrame = NoFrame
  None = None
  MaxCalls = 4
  Calls = {1, 2, 3}
  Requests <- MCRequests
  MaxActive = 2
  Toggles = {"row", "alarm", "night", "traffic"}
  Screens <- MCScreens
  Becomes <- MCBecomes
  ScreenTree <- MCScreenTree
  PortraitScreen <- MCPortraitScreen
  Declined = {"upside_down"}
  StartsAs = {"portrait"}
  MaxUpsets = 1
INVARIANTS
  TypeOK
  NamedTapHitsItsTarget
  ClearTapsAreNotRefused
  SureGesturesLand
  PointFramesAreOnScreen
  DetectionIsRight
  TextsAreWhole
  ReadsBackItsToggle
PROPERTIES
  ImplementsFifoLock
  EveryActEnds
