\* One client of a ring of two, six events in each of up to three processes, two
\* broken connections; fairness.
CONSTANTS
  Client = {c1}
  Cap = 2
  MaxSeq = 6
  MaxDrops = 2
  MaxRestarts = 2
SPECIFICATION FairSpec
INVARIANTS TypeOK RingIsNewestSuffix NothingInRingSkipped NothingLostInFlight EveryFrameIsNew
PROPERTIES  ImplementsFeed ResumeReplays
CHECK_DEADLOCK FALSE
