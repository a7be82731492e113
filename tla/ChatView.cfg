\* Two sessions, in one workspace or in two, with a past or without; two calls,
\* two clicks, one change of mode.
CONSTANTS
  Workspace = {w1, w2}
  Session = {s1, s2}
  Doc = {"ticket", "rfc"}
  None = None
  MaxCall = 2
  MaxMode = 1
  MaxPick = 2
SPECIFICATION ChatSpec
SYMMETRY ChatSymmetry
INVARIANTS ChatTypeOK PageIsFresh
 
CHECK_DEADLOCK FALSE
