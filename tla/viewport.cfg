SPECIFICATION MCSpec
CONSTANTS
  a = a
  b = b
  Task = {a, b}
  NoTask = NoTask
  Kinds = {"inline", "mouse", "alt"}
  Restless = {a}
  MaxCmds = 2
  MaxEvs = 1
  Labels <- MCLabels
  Fold <- MCFold
  Exact <- MCExact
  Home = "p"
  Width <- MCWidth
  Typed <- MCTyped
  Begins <- MCBegins
  Lists <- MCLists
  Screens <- MCScreens
  Sizes = {0, 1, 2, 3, 5}
  Cells <- MCCells
  AgentLists <- MCAgents
  SessionLists <- MCSessions
  Fleets <- MCFleets
  Below <- MCBelow
  Hidden = {".d"}
  Dotted = {"."}
  Within <- MCWithin
  MaxAsked = 2
INVARIANTS ViewIsCurrent DashboardHolds
PROPERTIES DragWillEnd
