SPECIFICATION FairSpec
CONSTANTS
  Bufs = {b1, b2, b3}
  Processors = {keystone}
  SameFrames = FALSE
  Flags = {"frame", "sideband"}
  MaxCmds = 2
  None = None
  b1 = b1
  b2 = b2
  b3 = b3
  b4 = b4
  keystone = keystone
INVARIANTS VdinBuffers
PROPERTIES Serves
CHECK_DEADLOCK FALSE
