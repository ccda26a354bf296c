SPECIFICATION FairSpec
CONSTANTS
  SendQueue = 2
  Pipe = 1
  MaxSent = 5
  MaxEvents = 2
  Strings = {"", "a", "ab"}
  Chars = {"a"}
  Octets = {"", "a", "ab", "ff"}
  Base64 <- MCBase64
  Ids = {0, 1, 2, 3}
  U8 = 0
  U16 = 1
  U32 = 2
  U64 = 3
  MaxFrame = 2
  Views <- MCViews
  Entries <- MCEntries
  Screens <- MCScreens
  Contexts <- MCContexts
  MaxList = 2
INVARIANTS QuitStops EventsWake FramesMean
PROPERTIES InOrder TeardownEnds
\* The client leaves.
CHECK_DEADLOCK FALSE
