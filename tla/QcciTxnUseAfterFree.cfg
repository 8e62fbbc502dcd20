CONSTANTS
  t1 = t1
  t2 = t2
  a1 = a1
  a2 = a2
  a3 = a3
  Threads = {t1}
  Reader = reader
  Addrs = {a1}
  Reuse = FALSE
  MaxTxns = 1
  LastTxnId = 65535
  Kinds = {"sync"}
  SendResults = {"ok"}
  MaxBusy = 0
  Timeouts = FALSE
  BadReplies = FALSE
  Deletes = FALSE
  ServerExits = TRUE
  Releases = FALSE
SPECIFICATION Spec
CHECK_DEADLOCK FALSE
INVARIANT NoUseAfterFree
