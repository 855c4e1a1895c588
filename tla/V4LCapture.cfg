\* Two clients tell one session's registration from the next one's; counters of
\* four bits wrap within a session, and as with 2^32 the counts before and after
\* the wrap fall on one buffer of three.
CONSTANTS
  Clients = {c1, c2}
  Formats = {f1, f2}
  None = None
  NumFrames = 3
  CounterMod = 16
SPECIFICATION FairSpec
INVARIANTS TypeOK WindowsAccounted DeliveredBufferIsQuiet IllegalOnlyAtCollisions NothingLeftQueued
PROPERTIES NotifyKeepsContext ContractSpec StopReturns
CHECK_DEADLOCK TRUE
