CONSTANTS
  c1 = c1
  c2 = c2
  c3 = c3
  Contacts = {c1, c2, c3}
  MaxTracks = 2
  MaxRecognizers = 3
  Mounted = 2
  Region <- Everywhere
  Taps = {1, 3}
  LongPresses = {2, 3}
  Pans = {1, 2, 3}
  Pinches = {1, 2, 3}
  Exempt = {1}
  Reentrant = {"onDown", "onMove", "onUp", "onCancel", "onTap", "onLongPress", "onPanStart", "onPanMove", "onPanEnd", "onPinchStart", "onPinchMove", "onPinchEnd"}
  MaxFrames = 3
  MaxCalls = 1
  Pushed = {0, 1}
  None = None
SPECIFICATION Spec
CHECK_DEADLOCK FALSE
 
INVARIANT QuietAfterEnd
INVARIANT SingleWinner
INVARIANT ModalMutes
INVARIANT PinchesPaired
SYMMETRY Fingers
