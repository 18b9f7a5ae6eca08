\* Progress, every feature but connection timeouts.
SPECIFICATION FairSpec
CONSTANTS
  s1 = s1
  s2 = s2
  b1 = b1
  b2 = b2
  b3 = b3
  w1 = w1
  w2 = w2
  None = None
  Socks <- MCSocks2
  Bufs <- MCBufs1
  Workers <- MCWorkers1
  SupportBlock = TRUE
  UseCtx = FALSE
  CanClose = TRUE
  ConnTmout = FALSE
  Cap = 2
  MaxSend = 2
  MaxTotal = 3
PROPERTIES BuffersReturn Reaped Reregistered
