\* One session, two messages, a permission and a question.
CONSTANTS
  Sid = {s1}
  Text = {t1}
  Call = {p1, p2}
  Question = {q1}
  None = None
  MaxTurn = 2
  MaxAsk = 2
  MaxPost = 2
  MaxLoss = 1
SPECIFICATION Spec
SYMMETRY MuxSymmetry
INVARIANTS MuxTypeOK  
PROPERTIES NothingDisappears 
CHECK_DEADLOCK FALSE
