\* Three messages and an interrupt for a queue of two, one tool call; fairness.
CONSTANTS
  Msg = {m1, m2, m3}
  Ctl = {i1}
  Tool = {t1}
  Decision = {"allow", "deny"}
  NoMsg = NoMsg
  QueueCap = 2
SPECIFICATION FairSpec
INVARIANTS TypeOK OneTurnAtATime WaitingMeansAnswerable SentInLogOrder
PROPERTIES ImplementsTurns LockIsPassedOn QueuedIsSent
CHECK_DEADLOCK FALSE
