\* Two threads, with a password and without, connections that fail.
SPECIFICATION FairSpec
CONSTANTS
  t1 = t1
  t2 = t2
  Threads <- MCThreads
  MaxConn = 3
  MaxCall = 4
  MaxFault = 2
INVARIANTS ConnsKept CommandsRight
PROPERTIES CallReturns
CHECK_DEADLOCK FALSE
