\* Every feature at once: big packets, closing handlers, connection timeouts.
SPECIFICATION Spec
CONSTANTS
  s1 = s1
  s2 = s2
  b1 = b1
  b2 = b2
  b3 = b3
  w1 = w1
  w2 = w2
  None = None
  Socks <- MCSocks2
  Bufs <- MCBufs2
  Workers <- MCWorkers2
  SupportBlock = TRUE
  UseCtx = TRUE
  CanClose = TRUE
  ConnTmout = TRUE
  Cap = 2
  MaxSend = 3
  MaxTotal = 3
SYMMETRY MCSymmetry
INVARIANTS Inv BufferOwnership StreamOrder WorkersSafeUnlessClosing ParsedOneConn
