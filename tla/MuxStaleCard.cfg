\* One permission request, answered in another tab.
CONSTANTS
  Sid = {s1}
  Text = {t1}
  Call = {p1}
  Question = {}
  None = None
  MaxTurn = 2
  MaxAsk = 1
  MaxPost = 2
  MaxLoss = 1
SPECIFICATION Spec
SYMMETRY MuxSymmetry
INVARIANT AnsweredElsewhereClears
CHECK_DEADLOCK FALSE
