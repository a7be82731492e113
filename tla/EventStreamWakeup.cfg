\* One client, two events: an event appended while the generator is suspended
\* at a yield.
CONSTANTS
  Client = {c1}
  Cap = 2
  MaxSeq = 2
  MaxDrops = 0
  MaxRestarts = 0
SPECIFICATION Spec
INVARIANT BlockedMeansCaughtUp
CHECK_DEADLOCK FALSE
