\* Two hooks, three events in a ring of one, two loops, a lost connection.
CONSTANTS
  Listener = {h1, h2}
  None = None
  MaxSeq = 3
  Cap = 1
  MaxLoop = 2
  MaxBreak = 1
  MaxJoin = 3
SPECIFICATION FairClientSpec
INVARIANTS ClientTypeOK ListenersMissNothing
PROPERTIES UnwatchedIsClosed 
CHECK_DEADLOCK FALSE
