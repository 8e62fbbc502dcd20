CONSTANTS
  t1 = t1
  t2 = t2
  a1 = a1
  a2 = a2
  a3 = a3
  Threads = {t1, t2}
  Reader = reader
  Addrs = {a1, a2}
  Reuse = TRUE
  MaxTxns = 2
  LastTxnId = 65535
  Kinds = {"sync"}
  SendResults = {"ok", "busy", "internal"}
  MaxBusy = 1
  Timeouts = TRUE
  BadReplies = FALSE
  Deletes = FALSE
  ServerExits = FALSE
  Releases = FALSE
SPECIFICATION Spec
SYMMETRY Symmetry
CHECK_DEADLOCK FALSE
INVARIANT WaiterNotForgotten
