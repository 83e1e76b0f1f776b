SPECIFICATION MCSpec
CONSTANTS
  MaxMoves = 3
  Ids = {1,2,3,4}
  Specs = {s1,s2}
  None = None
  Unreadable = Unreadable
INVARIANT StoppedStaysStopped
CHECK_DEADLOCK FALSE
PROPERTIES PauseStopsTunnel 
