SPECIFICATION Spec
CONSTANTS
  LayerId = {a, b}
  Plane = {p, q}
  None = None
  Calls = {"mode", "qms", "view"}
  MaxFrames = 2
  MaxEvents = 1
  MaxCalls = 1
SYMMETRY Symmetry
INVARIANTS ScreenCurrent LayersAgree
PROPERTY DarkWhileChanging
CHECK_DEADLOCK FALSE
