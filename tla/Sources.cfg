\* Two devices, one of them with two channels, so that V4L has two units and the
\* others three; two contexts, and two clients of which one may replace the other.
CONSTANTS
  Backends = {"v4l", "qt", "dshow"}
  Devices = {0, 1}
  DualDevices = {0}
  NotCapture = {}
  Contexts = {c1, c2}
  Clients = {k1, k2}
  None = None
  MaxLost = 1
SPECIFICATION Spec
INVARIANTS TypeOK UnregisteredIsQuiet CallsAreOwn
PROPERTIES LeaseSpec JoinedAtDestroy CallsReturn
\* A call through a null pointer ends the process.
CHECK_DEADLOCK FALSE
