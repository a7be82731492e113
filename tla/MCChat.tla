-------------------------------- MODULE MCChat --------------------------------
EXTENDS ChatView, TLC

ChatSymmetry == Permutations(Session) \cup Permutations(Workspace)
=============================================================================
