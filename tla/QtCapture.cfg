\* Two clients tell one capture's registration from the next one's; one capture
\* more than the window bound leaves after a failure, so that two threads can be
\* left beside the third.
CONSTANTS
  Clients = {c1, c2}
  Formats = {f1, f2}
  None = None
  MaxWindows = 3
  Left = {l1, l2}
SPECIFICATION FairSpec
INVARIANTS TypeOK DecodeHasSession NothingLeftRecording ReleasedIsQuiet
PROPERTIES FrameIsUndisturbed ContractSpec StopReturns
\* A thread that uses a freed context may end the process.
CHECK_DEADLOCK FALSE
