CONSTANTS
  Backends = {"dshow"}
  Devices = {0, 1}
  DualDevices = {}
  NotCapture = {}
  Contexts = {c1, c2}
  Clients = {k1}
  None = None
  MaxLost = 0
SPECIFICATION Spec
INVARIANTS EntriesAreAcquired
CHECK_DEADLOCK FALSE
