SPECIFICATION Spec
CONSTANTS
  Layers = {l1}
  Tunnels = {t1, t2}
  Fds = {f1, f2}
  Times = {1}
  MaxNow = 2
  Second = 10
  MaxBatch = 2
  Ops = {"refresh", "skip", "commit", "buffer", "color", "destroy", "temp", "blank", "hold", "acquireError"}
  Shared = FALSE
  NoFd = NoFd
  NoTunnel = NoTunnel
  OtherFence = OtherFence
  l1 = l1
  l2 = l2
  t1 = t1
  t2 = t2
  f1 = f1
  f2 = f2
  f3 = f3
SYMMETRY FdSymmetry
INVARIANTS HeldSafe
CHECK_DEADLOCK FALSE
