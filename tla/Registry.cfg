\* Two sessions, three requests, a restart.
CONSTANTS
  Sid = {s1, s2}
  Mode = {"default", "plan"}
  Op = {o1, o2, o3}
  MaxInst = 3
  MaxRestarts = 1
SPECIFICATION Spec
SYMMETRY RegistrySymmetry
INVARIANTS TypeOK RegisteredIsLive 
PROPERTIES ImplementsDirectory
CHECK_DEADLOCK FALSE
