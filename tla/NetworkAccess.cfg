\* Requests of the page and of another browser; the SDK or the network fails once.
CONSTANTS
  MaxOp = 3
  MaxRemote = 1
  MaxUpset = 1
  Coded = {"tunnel"}
SPECIFICATION NetSpec
INVARIANTS NetTypeOK TunnelIsTruthful
PROPERTIES ButtonsComeBack
CHECK_DEADLOCK FALSE
