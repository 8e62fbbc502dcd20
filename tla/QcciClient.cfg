CONSTANTS
  t1 = t1
  t2 = t2
  s1 = s1
  s2 = s2
  Threads = {t1, t2}
  Servers = {s1, s2}
  Wanted = {s1, s2}
  NoServer = NoServer
  NoThread = NoThread
  MaxInits = 1
  MaxClients = 3
  MaxRegs = 1
  MaxEvents = 1
SPECIFICATION FairSpec
CHECK_DEADLOCK FALSE
INVARIANTS TypeOK RefCountExact NoUseAfterFree ReleasedOnce ExitKnown ErrorHeardOnce NothingLeaked
PROPERTIES ReleaseReturns InitReturns
