\* Four threads, readers and writers, one of them using the guard YS_WLock.
SPECIFICATION FairLockSpec
CONSTANTS
  t1 = t1
  t2 = t2
  t3 = t3
  t4 = t4
  Threads <- MCThreads4
  WScoped <- MCGuarded
INVARIANTS SleepersBlocked
PROPERTIES ImplementsRWLock LockProgress
