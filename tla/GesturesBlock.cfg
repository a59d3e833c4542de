CONSTANTS
  c1 = c1
  c2 = c2
  c3 = c3
  Contacts = {c1, c2, c3}
  MaxTracks = 3
  MaxRecognizers = 2
  Mounted = 2
  Region <- Everywhere
  Taps = {}
  LongPresses = {}
  Pans = {}
  Pinches = {1}
  Exempt = {}
  Reentrant = {"onPinchEnd"}
  MaxFrames = 2
  MaxCalls = 2
  Pushed = {0}
  None = None
SPECIFICATION Spec
CHECK_DEADLOCK FALSE
INVARIANT ModalMutes
SYMMETRY Fingers
