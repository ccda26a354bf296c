SPECIFICATION FairSpec
CONSTANTS
  Text <- MCText
  Raw <- MCRaw
  Past <- MCPast
  Busy <- MCBusy
  Known <- MCKnown
  MaxStack = 1
  TitleHold = 2
  DemotionHold = 3
  ProbeHold = 1
  SyncHold = 1
  MaxOut = 3
  MaxHeld = 1
  Grids <- MCGrids
  Wide = {"W"}
  BoxRows = 3
  MenuRows = 4
  ClaudeWindow = 2
  CodexWindow = 1
  MaxAbove = 2
INVARIANTS TitleIsOurs ScreensHold
PROPERTIES DemotionHeld PreviewSettles
\* A frozen preview, a run that is over.
CHECK_DEADLOCK FALSE
