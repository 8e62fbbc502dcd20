CONSTANTS
  t1 = t1
  t2 = t2
  a1 = a1
  a2 = a2
  a3 = a3
  Threads = {t1, t2}
  Reader = reader
  Addrs = {a1, a2}
  Reuse = FALSE
  MaxTxns = 2
  LastTxnId = 65535
  Kinds = {"sync", "async"}
  SendResults = {"ok", "busy", "internal"}
  MaxBusy = 1
  Timeouts = TRUE
  BadReplies = TRUE
  Deletes = TRUE
  ServerExits = TRUE
  Releases = TRUE
SPECIFICATION MCSpec
SYMMETRY Symmetry
CHECK_DEADLOCK FALSE
INVARIANTS TypeOK RefCountExact DanglingOnlyWhenUnheld WaiterNotForgotten NothingLeftBehind
 
