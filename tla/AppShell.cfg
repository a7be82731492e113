\* One workspace with two sessions at the start; two operations, one of them
\* perhaps of another browser, one click, one failure.
CONSTANTS
  MaxOp = 2
  MaxRemote = 1
  Elsewhere = {"chat", "remove"}
  MaxPick = 1
  MaxFail = 1
  PastSess = 2
  Past <- OnePast
SPECIFICATION ShellSpec
INVARIANTS ShellTypeOK 
PROPERTIES CreatedWorkspaceOpens
CHECK_DEADLOCK FALSE
