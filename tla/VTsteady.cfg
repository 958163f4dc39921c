SPECIFICATION Spec
CONSTANTS
  Layers = {l1}
  Tunnels = {t1}
  Fds = {f1, f2, f3}
  Times = {1, 3}
  MaxNow = 3
  Second = 2
  MaxBatch = 2
  Ops = {"refresh", "destroy", "commit", "connectError", "show", "blank", "hide", "once", "always", "disable"}
  Shared = FALSE
  NoFd = NoFd
  NoTunnel = NoTunnel
  OtherFence = OtherFence
  l1 = l1
  l2 = l2
  t1 = t1
  t2 = t2
  f1 = f1
  f2 = f2
  f3 = f3
SYMMETRY FdSymmetry
INVARIANTS CurrentIsHead TunedHasConsumer BuffersSafe
PROPERTIES LeaseKept
CHECK_DEADLOCK FALSE
