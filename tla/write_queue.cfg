SPECIFICATION FairSpec
CONSTANTS
  MaxPending = 4
  InputLen = {1, 3}
  ReplyLen = {1, 2}
  MaxLen = 3
  MaxReplies = 2
INVARIANTS PendingIsExact OvershootOneMessage
PROPERTIES QueueSettles
\* The threads of a killed run end.
CHECK_DEADLOCK FALSE
