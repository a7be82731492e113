\* A mode change overlaps the capture of the conversation.
CONSTANTS
  Sid = {s1}
  Mode = {"default", "plan"}
  Op = {o1, o2, o3}
  MaxInst = 1
  MaxRestarts = 0
SPECIFICATION Spec
INVARIANT RecordKeepsConversation
CHECK_DEADLOCK FALSE
