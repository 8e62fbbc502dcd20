---------------------------- MODULE QcciClient ----------------------------
(***************************************************************************)
(* The life of the clients of the QMI client library (QCCI): the table of  *)
(* handles, the reference count that keeps a client struct, the transport  *)
(* with its reader thread, the error callback and the release.  What a     *)
(* client does with its requests is the subject of QcciTxn; here a call is *)
(* whatever a function of the library does between taking a reference and  *)
(* giving it back.                                                         *)
(*                                                                         *)
(* A handle is the value next_clid had when the client was allocated and   *)
(* is not used again (the 32-bit number does not wrap), so a client struct *)
(* is named by its handle.                                                 *)
(***************************************************************************)
EXTENDS Integers, Sequences, FiniteSets

CONSTANTS
  Threads,      \* the application's threads
  Servers,      \* addresses at which a server of the service may appear, once each
  Wanted,       \* those of the instance that qmi_client_init_instance is asked for
  NoServer,     \* an address that is not valid
  NoThread,     \* a pointer to a signal that is NULL
  MaxInits,     \* bound on the calls of qmi_client_init and qmi_client_init_instance
  MaxClients,   \* the client structs these may allocate
  MaxRegs,      \* bound on the registrations of an error callback
  MaxEvents     \* bound on what may happen at any time: an indication is received, a system call
                \* or an allocation fails

Handles == 1..MaxClients
Regs == 1..MaxRegs

ASSUME ClientAssumption ==
  /\ NoServer \notin Servers /\ NoThread \notin Threads /\ Wanted \subseteq Servers
  /\ IsFiniteSet(Servers)
  /\ MaxInits \in Nat /\ MaxRegs \in Nat /\ MaxEvents \in Nat
  \* a call of qmi_client_init_instance tries each server once and has one notifier
  /\ MaxClients \in Nat /\ MaxClients >= MaxInits * (1 + Cardinality(Servers))

VARIABLES
  clnt,         \* the client structs
  table,        \* qcci_client_tbl: the handles that can be looked up
  next_clid,
  xport,        \* per client: the transport handle and its reader thread
  th,           \* per application thread: where it is, and its local variables
  os_params,    \* per thread: the signal it gave to its notifier is set
  released,     \* per thread: the signal on the stack of qmi_client_release is set
  up,           \* the servers registered with the router
  known,        \* the handles the application has been given
  left,         \* what the bounds still allow
  hist          \* history: callbacks that have run

vars == <<clnt, table, next_clid, xport, th, os_params, released, up, known, left, hist>>

NULL == 0
CtlMsgs == {"new", "remove"} \X Servers

ThreadPcs == {
  "idle", "call", "reg", "reg_cb",                                \* calls on a handle
  "alloc", "open", "lookup", "close", "join", "put", "free", "returned",  \* qmi_client_init
  "count", "list", "notifier", "n_open", "n_lookup", "clear", "wait", \* qmi_client_init_instance
  "rel_get", "rel_put", "rel_async", "shut", "rel_wait"}          \* releases
ReaderPcs == {"none", "poll", "ctl", "report", "err_cb", "ind_cb", "exited"}

NewClient == [alive |-> FALSE, ref_count |-> 0, server_addr |-> NoServer, addr_valid |-> FALSE,
              ext_signal |-> NoThread, err_cb |-> NULL, err_pending |-> FALSE,
              accepting |-> FALSE, release_cb |-> "none", waiter |-> NoThread, handle |-> FALSE]
NewXport == [state |-> "none", wakeup |-> FALSE, ctl |-> <<>>, pc |-> "none",
             more |-> FALSE, last |-> FALSE, cb |-> NULL, died |-> FALSE]
NewThread == [pc |-> "idle", c |-> NULL, after |-> "idle", s |-> NoServer, n |-> 0,
              call |-> "none", rc |-> "none", notifier |-> NULL, user |-> NULL,
              release |-> "none", cb |-> NULL]

Client == [alive: BOOLEAN, ref_count: Nat, server_addr: Servers \cup {NoServer},
  addr_valid: BOOLEAN, ext_signal: Threads \cup {NoThread}, err_cb: Regs \cup {NULL},
  err_pending: BOOLEAN, accepting: BOOLEAN, release_cb: {"none", "app", "internal"},
  waiter: Threads \cup {NoThread}, handle: BOOLEAN]
Xport == [state: {"none", "open", "freed"}, wakeup: BOOLEAN, ctl: Seq(CtlMsgs),
  pc: ReaderPcs, more: BOOLEAN, last: BOOLEAN, cb: Regs \cup {NULL}, died: BOOLEAN]
Thread == [pc: ThreadPcs, c: Handles \cup {NULL}, after: ThreadPcs, s: Servers \cup {NoServer},
  n: Nat, call: {"none", "init", "first", "notifier", "loop"},
  rc: {"none", "ok", "service", "internal", "timeout"}, notifier: Handles \cup {NULL},
  user: Handles \cup {NULL}, release: {"none", "sync", "async"}, cb: Regs \cup {NULL}]
Budget == [inits: 0..MaxInits, regs: 0..MaxRegs, events: 0..MaxEvents, servers: SUBSET Servers]
History == [released: [Handles -> Nat], heard: [Regs -> Nat], reg: [Regs -> Handles \cup {NULL}]]

TypeOK ==
  /\ clnt \in [Handles -> Client]
  /\ table \subseteq Handles /\ known \subseteq Handles
  /\ next_clid \in 1..MaxClients + 1
  /\ xport \in [Handles -> Xport]
  /\ th \in [Threads -> Thread]
  /\ os_params \in [Threads -> BOOLEAN] /\ released \in [Threads -> BOOLEAN]
  /\ up \subseteq Servers
  /\ left \in Budget /\ hist \in History

Init ==
  /\ clnt = [c \in Handles |-> NewClient]
  /\ table = {} /\ known = {} /\ next_clid = 1
  /\ xport = [c \in Handles |-> NewXport]
  /\ th = [t \in Threads |-> NewThread]
  /\ os_params = [t \in Threads |-> FALSE] /\ released = [t \in Threads |-> FALSE]
  /\ up = {}
  /\ left = [inits |-> MaxInits, regs |-> MaxRegs, events |-> MaxEvents,
             servers |-> Servers]
  /\ hist = [released |-> [c \in Handles |-> 0], heard |-> [k \in Regs |-> 0],
             reg |-> [k \in Regs |-> NULL]]

-----------------------------------------------------------------------------
(* The handle table and the reference count *)

At(t, pc) == th[t].pc = pc

\* A thread with record r goes to pc; a function that has returned leaves no locals behind
Moved(r, pc) == IF pc = "idle" THEN NewThread ELSE [r EXCEPT !.pc = pc, !.after = "idle"]
Go(t, pc) == th' = [th EXCEPT ![t] = Moved(@, pc)]

\* mutant: the transport's reference is not taken
Alloc_NoTransportRef(c, fields) ==
  /\ c = next_clid
  /\ c \in Handles
  /\ next_clid' = next_clid + 1
  /\ table' = table \cup {c}
  /\ clnt' = [clnt EXCEPT ![c] = [fields EXCEPT !.alive = TRUE, !.ref_count = 1, !.accepting = TRUE]]

\* qmi_cci_client_alloc and the reference for the transport that its callers take next
Alloc(c, fields) ==
  /\ c = next_clid
  /\ c \in Handles
  /\ next_clid' = next_clid + 1
  /\ table' = table \cup {c}
  /\ clnt' = [clnt EXCEPT ![c] = [fields EXCEPT !.alive = TRUE, !.ref_count = 2, !.accepting = TRUE]]

\* mutant: the client is looked up only
GetRef_Lookup(h) == clnt[h].ref_count

\* qmi_cci_get_ref of a handle that is in the table
GetRef(h) == clnt[h].ref_count + 1

\* qmi_cci_put_ref: whoever drops the last reference frees the client.  r is the
\* thread's record otherwise, after the place where the caller goes on.
PutRef(t, r, c, after) ==
  /\ clnt' = [clnt EXCEPT ![c].ref_count = @ - 1]
  /\ th' = [th EXCEPT ![t] = IF clnt[c].ref_count = 1
                            THEN [r EXCEPT !.pc = "free", !.after = after] ELSE Moved(r, after)]

\* qmi_cci_client_free: unlink the client if it still is in the table, run the
\* release callback (release_cb_internal sets the signal of qmi_client_release)
Free(t) ==
  LET c == th[t].c IN
  /\ At(t, "free")
  /\ table' = table \ {c}
  /\ clnt' = [clnt EXCEPT ![c] = NewClient]
  /\ hist' = [hist EXCEPT !.released[c] = IF clnt[c].release_cb = "none" THEN @ ELSE @ + 1]
  /\ released' = IF clnt[c].release_cb = "internal"
                 THEN [released EXCEPT ![clnt[c].waiter] = TRUE] ELSE released
  /\ Go(t, th[t].after)
  /\ UNCHANGED <<next_clid, xport, os_params, up, known, left>>

\* Where a function that ends with qmi_cci_put_ref returns to
PutReturns(t) ==
  IF th[t].release = "sync" THEN "rel_wait"
  ELSE IF th[t].release = "async" \/ th[t].call = "none" THEN "idle"
  ELSE "returned"

\* The reference of the creator, of a call or of the releasing thread is given back
Put(t) ==
  /\ At(t, "put")
  /\ PutRef(t, th[t], th[t].c, PutReturns(t))
  /\ UNCHANGED <<table, next_clid, xport, os_params, released, up, known, left, hist>>

-----------------------------------------------------------------------------
(* Calls on a handle *)

\* A function of the library takes its reference (with a handle that is not in the
\* table it returns QMI_INTERNAL_ERR and changes nothing)
Call(t, h) ==
  /\ At(t, "idle") /\ h \in known \cap table
  /\ clnt' = [clnt EXCEPT ![h].ref_count = GetRef(h)]
  /\ th' = [th EXCEPT ![t] = [NewThread EXCEPT !.pc = "call", !.c = h]]
  /\ UNCHANGED <<table, next_clid, xport, os_params, released, up, known, left, hist>>

EndCall(t) ==
  /\ At(t, "call")
  /\ PutRef(t, th[t], th[t].c, "idle")
  /\ UNCHANGED <<table, next_clid, xport, os_params, released, up, known, left, hist>>

\* qmi_client_register_error_cb up to the critical section
RegisterErrorCb(t, h) ==
  /\ At(t, "idle") /\ h \in known \cap table /\ left.regs > 0
  /\ clnt' = [clnt EXCEPT ![h].ref_count = GetRef(h)]
  /\ th' = [th EXCEPT ![t] = [NewThread EXCEPT !.pc = "reg", !.c = h, !.cb = left.regs]]
  /\ left' = [left EXCEPT !.regs = @ - 1]
  /\ UNCHANGED <<table, next_clid, xport, os_params, released, up, known, hist>>

\* under err_cb_lock: set the callback, read err_pending
SetErrorCb(t) ==
  LET c == th[t].c IN
  /\ At(t, "reg")
  /\ clnt' = [clnt EXCEPT ![c].err_cb = th[t].cb]
  /\ hist' = [hist EXCEPT !.reg[th[t].cb] = c]
  /\ Go(t, IF clnt[c].err_pending THEN "reg_cb" ELSE "put")
  /\ UNCHANGED <<table, next_clid, xport, os_params, released, up, known, left>>

\* the server went before: the callback runs now
PendingErrorCb(t) ==
  /\ At(t, "reg_cb")
  /\ hist' = [hist EXCEPT !.heard[th[t].cb] = @ + 1]
  /\ Go(t, "put")
  /\ UNCHANGED <<clnt, table, next_clid, xport, os_params, released, up, known, left>>

-----------------------------------------------------------------------------
(* Creating clients *)

\* qmi_client_init for a server that the application has looked up before
InitClient(t, s) ==
  /\ At(t, "idle") /\ left.inits > 0 /\ s \notin left.servers
  /\ th' = [th EXCEPT ![t] = [NewThread EXCEPT !.pc = "alloc", !.call = "init", !.s = s]]
  /\ left' = [left EXCEPT !.inits = @ - 1]
  /\ UNCHANGED <<clnt, table, next_clid, xport, os_params, released, up, known, hist>>

AllocClient(t, c) ==
  /\ At(t, "alloc")
  /\ Alloc(c, [NewClient EXCEPT !.server_addr = th[t].s, !.addr_valid = TRUE])
  /\ th' = [th EXCEPT ![t].pc = "open", ![t].c = c]
  /\ UNCHANGED <<xport, os_params, released, up, known, left, hist>>

\* xport_open: the control port is bound, then the reader thread started
OpenXport(c) == xport' = [xport EXCEPT ![c] = [NewXport EXCEPT !.state = "open", !.pc = "poll"]]

\* mutant: the reference taken for the transport stays
OpenFails_KeepsRef(t) ==
  /\ th[t].pc \in {"open", "n_open"} /\ left.events > 0
  /\ left' = [left EXCEPT !.events = @ - 1]
  /\ th' = [th EXCEPT ![t].rc = "internal", ![t].pc = "put"]
  /\ UNCHANGED <<clnt, table, next_clid, xport, os_params, released, up, known, hist>>

\* xport_open fails: the reference taken for the transport is given back
OpenFails(t) ==
  /\ th[t].pc \in {"open", "n_open"} /\ left.events > 0
  /\ left' = [left EXCEPT !.events = @ - 1]
  /\ PutRef(t, [th[t] EXCEPT !.rc = "internal"], th[t].c, "put")
  /\ UNCHANGED <<table, next_clid, xport, os_params, released, up, known, hist>>

OpenClient(t) ==
  /\ At(t, "open")
  /\ OpenXport(th[t].c)
  /\ clnt' = [clnt EXCEPT ![th[t].c].handle = TRUE]
  /\ th' = [th EXCEPT ![t].pc = "lookup", ![t].n = 0]
  /\ UNCHANGED <<table, next_clid, os_params, released, up, known, left, hist>>

\* mutant: the server's existence is not checked again
RedoLookup_Trusting(t) ==
  /\ At(t, "lookup")
  /\ th' = [th EXCEPT ![t].n = 0, ![t].rc = "ok", ![t].pc = "put"]
  /\ UNCHANGED <<clnt, table, next_clid, xport, os_params, released, up, known, left, hist>>

\* "redo lookup": list the servers with room for n entries.  No server: close.  More than n:
\* again with room for all (or close, when there is no memory).  Otherwise look for ours.
RedoLookup(t) ==
  /\ At(t, "lookup")
  /\ \/ /\ Cardinality(up) > th[t].n
        /\ th' = [th EXCEPT ![t].n = Cardinality(up)]
        /\ UNCHANGED left
     \/ /\ Cardinality(up) > th[t].n /\ left.events > 0
        /\ left' = [left EXCEPT !.events = @ - 1]
        /\ th' = [th EXCEPT ![t].n = 0, ![t].rc = "internal", ![t].pc = "close"]
     \/ /\ Cardinality(up) <= th[t].n
        /\ th' = [th EXCEPT ![t].n = 0, ![t].rc = IF th[t].s \in up THEN "ok" ELSE "service",
                            ![t].pc = IF th[t].s \in up THEN "put" ELSE "close"]
        /\ UNCHANGED left
  /\ UNCHANGED <<clnt, table, next_clid, xport, os_params, released, up, known, hist>>

\* mutant: the reader is not told
CloseXport_Silent(t) ==
  /\ At(t, "close")
  /\ Go(t, "join")
  /\ UNCHANGED <<clnt, table, next_clid, xport, os_params, released, up, known, left, hist>>

\* xport_close: tell the reader, wait for it to end, close the sockets, give back the
\* transport's reference, free the handle
CloseXport(t) ==
  /\ At(t, "close")
  /\ xport' = [xport EXCEPT ![th[t].c].wakeup = TRUE]
  /\ Go(t, "join")
  /\ UNCHANGED <<clnt, table, next_clid, os_params, released, up, known, left, hist>>

\* mutant: the handle is freed while the reader runs
JoinReader_NoWait(t) ==
  LET c == th[t].c IN
  /\ At(t, "join")
  /\ PutRef(t, th[t], c, "put")
  /\ xport' = [xport EXCEPT ![c].state = "freed"]
  /\ UNCHANGED <<table, next_clid, os_params, released, up, known, left, hist>>

JoinReader(t) ==
  LET c == th[t].c IN
  /\ At(t, "join") /\ xport[c].pc = "exited"
  /\ PutRef(t, th[t], c, "put")
  /\ xport' = [xport EXCEPT ![c] = [NewXport EXCEPT !.state = "freed"]]
  /\ UNCHANGED <<table, next_clid, os_params, released, up, known, left, hist>>

-----------------------------------------------------------------------------
(* qmi_client_init_instance: it waits with a notifier until a server can be reached *)

InitInstance(t) ==
  /\ At(t, "idle") /\ left.inits > 0
  /\ th' = [th EXCEPT ![t] = [NewThread EXCEPT !.pc = "count", !.call = "first"]]
  /\ left' = [left EXCEPT !.inits = @ - 1]
  /\ UNCHANGED <<clnt, table, next_clid, xport, os_params, released, up, known, hist>>

\* Where it goes on when there is no server to connect to
NotFound(t) == IF th[t].call = "first" THEN "notifier" ELSE "wait"

\* qmi_client_get_service_instance: count the servers ...
CountServers(t) ==
  /\ At(t, "count")
  /\ th' = [th EXCEPT ![t].n = Cardinality(up), ![t].pc = IF up = {} THEN NotFound(t) ELSE "list"]
  /\ UNCHANGED <<clnt, table, next_clid, xport, os_params, released, up, known, left, hist>>

\* ... and look for the instance among as many as there were
ListServers(t) ==
  /\ At(t, "list")
  /\ \E filled \in SUBSET up :
       /\ Cardinality(filled) = IF Cardinality(up) < th[t].n THEN Cardinality(up) ELSE th[t].n
       /\ \/ /\ filled \cap Wanted = {}
             /\ Go(t, NotFound(t))
          \/ \E s \in filled \cap Wanted :
               th' = [th EXCEPT ![t].n = 0, ![t].s = s, ![t].pc = "alloc"]
  /\ UNCHANGED <<clnt, table, next_clid, xport, os_params, released, up, known, left, hist>>

\* qmi_client_notifier_init
AllocNotifier(t, c) ==
  /\ At(t, "notifier")
  /\ Alloc(c, [NewClient EXCEPT !.ext_signal = t])
  /\ os_params' = [os_params EXCEPT ![t] = FALSE]
  /\ th' = [th EXCEPT ![t].pc = "n_open", ![t].call = "notifier", ![t].c = c, ![t].notifier = c]
  /\ UNCHANGED <<xport, released, up, known, left, hist>>

OpenNotifier(t) ==
  /\ At(t, "n_open")
  /\ OpenXport(th[t].c)
  /\ clnt' = [clnt EXCEPT ![th[t].c].handle = TRUE]
  /\ Go(t, "n_lookup")
  /\ UNCHANGED <<table, next_clid, os_params, released, up, known, left, hist>>

\* a server that is there already sets the signal
NotifierLookup(t) ==
  /\ At(t, "n_lookup")
  /\ os_params' = [os_params EXCEPT ![t] = @ \/ up # {}]
  /\ PutRef(t, [th[t] EXCEPT !.call = "loop"], th[t].c, "clear")
  /\ UNCHANGED <<table, next_clid, xport, released, up, known, left, hist>>

ClearSignal(t) ==
  /\ At(t, "clear")
  /\ os_params' = [os_params EXCEPT ![t] = FALSE]
  /\ Go(t, "count")
  /\ UNCHANGED <<clnt, table, next_clid, xport, released, up, known, left, hist>>

WaitForServer(t) ==
  /\ At(t, "wait") /\ os_params[t]
  /\ Go(t, "clear")
  /\ UNCHANGED <<clnt, table, next_clid, xport, os_params, released, up, known, left, hist>>

\* The end of the loop: release the notifier
ReleaseNotifier(t, rc) ==
  th' = [th EXCEPT ![t] = [NewThread EXCEPT !.pc = "rel_get", !.release = "sync", !.c = th[t].notifier,
                             !.user = IF rc = "ok" THEN th[t].c ELSE NULL]]

TimeOut(t) ==
  /\ At(t, "wait") /\ ~os_params[t]
  /\ ReleaseNotifier(t, "timeout")
  /\ UNCHANGED <<clnt, table, next_clid, xport, os_params, released, up, known, left, hist>>

\* The function returns to the application, with a handle if it succeeded; its signals are gone
Return(t, user) ==
  /\ th' = [th EXCEPT ![t] = NewThread]
  /\ known' = known \cup (IF user = NULL THEN {} ELSE {user})
  /\ os_params' = [os_params EXCEPT ![t] = FALSE]
  /\ released' = [released EXCEPT ![t] = FALSE]

\* qmi_client_init has returned, to the application or to qmi_client_init_instance
ReturnInit(t) ==
  LET rc == th[t].rc
      again == rc = "service" /\ th[t].call # "init" IN
  /\ At(t, "returned")
  /\ \/ /\ again
        /\ Go(t, NotFound(t))
        /\ UNCHANGED <<known, os_params, released>>
     \/ /\ ~again /\ th[t].call = "loop"
        /\ ReleaseNotifier(t, rc)
        /\ UNCHANGED <<known, os_params, released>>
     \/ /\ ~again /\ th[t].call # "loop"
        /\ Return(t, IF rc = "ok" THEN th[t].c ELSE NULL)
  /\ UNCHANGED <<clnt, table, next_clid, xport, up, left, hist>>

-----------------------------------------------------------------------------
(* Releasing clients *)

Release(t, h, kind) ==
  /\ At(t, "idle") /\ h \in known
  /\ th' = [th EXCEPT ![t] = [NewThread EXCEPT !.c = h, !.release = kind,
                              !.pc = IF kind = "sync" THEN "rel_get" ELSE "rel_async"]]
  /\ UNCHANGED <<clnt, table, next_clid, xport, os_params, released, up, known, left, hist>>

\* A release returns: that of the application, or of the notifier in qmi_client_init_instance
ReleaseDone(t) == Return(t, th[t].user)

\* qmi_client_release: a reference for as long as the client's signal is copied
ReleaseGet(t) ==
  LET h == th[t].c IN
  /\ At(t, "rel_get")
  /\ \/ /\ h \in table
        /\ clnt' = [clnt EXCEPT ![h].ref_count = GetRef(h)]
        /\ released' = [released EXCEPT ![t] = FALSE]
        /\ Go(t, "rel_put")
        /\ UNCHANGED <<known, os_params>>
     \/ /\ h \notin table
        /\ ReleaseDone(t)
        /\ UNCHANGED clnt
  /\ UNCHANGED <<table, next_clid, xport, up, left, hist>>

ReleasePut(t) ==
  /\ At(t, "rel_put")
  /\ PutRef(t, th[t], th[t].c, "rel_async")
  /\ UNCHANGED <<table, next_clid, xport, os_params, released, up, known, left, hist>>

\* qmi_client_release_async: take a reference and unlink the client, so that this succeeds once
ReleaseAsync(t) ==
  LET h == th[t].c IN
  /\ At(t, "rel_async")
  /\ \/ /\ h \in table
        /\ clnt' = [clnt EXCEPT ![h].ref_count = GetRef(h)]
        /\ table' = table \ {h}
        /\ Go(t, "shut")
        /\ UNCHANGED <<known, os_params, released>>
     \/ /\ h \notin table
        /\ ReleaseDone(t)
        /\ UNCHANGED <<clnt, table>>
  /\ UNCHANGED <<next_clid, xport, up, left, hist>>

\* no request is accepted any more and those under way fail (see QcciTxn); the release
\* callback is set, the transport handle taken
Shut(t) ==
  /\ At(t, "shut")
  /\ clnt' = [clnt EXCEPT ![th[t].c].accepting = FALSE, ![th[t].c].handle = FALSE,
                ![th[t].c].release_cb = IF th[t].release = "sync" THEN "internal" ELSE "app",
                ![th[t].c].waiter = IF th[t].release = "sync" THEN t ELSE NoThread]
  /\ Go(t, "close")
  /\ UNCHANGED <<table, next_clid, xport, os_params, released, up, known, left, hist>>

AwaitRelease(t) ==
  /\ At(t, "rel_wait") /\ released[t]
  /\ ReleaseDone(t)
  /\ UNCHANGED <<clnt, table, next_clid, xport, up, left, hist>>

-----------------------------------------------------------------------------
(* The reader thread of client c *)

\* What poll reports is dealt with in this order: the data socket, the control socket (if more),
\* the wake-up (if last)
Polled(c) == [xport[c] EXCEPT !.more = @ \/ xport[c].ctl # <<>>, !.last = @ \/ xport[c].wakeup]

Continue(x) ==
  [x EXCEPT !.pc = IF x.more THEN "ctl" ELSE IF x.last THEN "exited" ELSE "poll",
            !.cb = NULL, !.last = x.more /\ x.last]

\* The control socket is read: in the round of an indication, or in one of its own
AtCtl(c) == xport[c].pc = "ctl" \/ (xport[c].pc = "poll" /\ xport[c].ctl # <<>>)
Ctl(c) == [(IF xport[c].pc = "poll" THEN Polled(c) ELSE xport[c]) EXCEPT !.ctl = Tail(@), !.more = FALSE]

\* mutant: a notifier's signal is not set
ReadCtl_NoSignal(c) ==
  LET m == Head(xport[c].ctl)
      x == Ctl(c)
      ours == m[1] = "remove" /\ m[2] = clnt[c].server_addr IN
  /\ AtCtl(c)
  /\ clnt' = IF ours THEN [clnt EXCEPT ![c].addr_valid = FALSE, ![c].server_addr = NoServer] ELSE clnt
  /\ xport' = [xport EXCEPT ![c] = IF ours THEN [x EXCEPT !.pc = "report"] ELSE Continue(x)]
  /\ UNCHANGED <<table, next_clid, th, os_params, released, up, known, left, hist>>

\* A message on the control socket.  NEW_SERVER sets the notifier's signal; so does REMOVE_SERVER,
\* which also ends the validity of the server's address if that is ours.
ReadCtl(c) ==
  LET m == Head(xport[c].ctl)
      x == Ctl(c)
      ours == m[1] = "remove" /\ m[2] = clnt[c].server_addr IN
  /\ AtCtl(c)
  /\ os_params' = [t \in Threads |-> os_params[t] \/ t = clnt[c].ext_signal]
  /\ clnt' = IF ours THEN [clnt EXCEPT ![c].addr_valid = FALSE, ![c].server_addr = NoServer] ELSE clnt
  /\ xport' = [xport EXCEPT ![c] = IF ours THEN [x EXCEPT !.pc = "report"] ELSE Continue(x)]
  /\ UNCHANGED <<table, next_clid, th, released, up, known, left, hist>>

\* mutant: err_pending is forgotten
ReportError_NotPending(c) ==
  /\ xport[c].pc = "report"
  /\ xport' = [xport EXCEPT ![c] = IF clnt[c].err_cb # NULL
       THEN [@ EXCEPT !.pc = "err_cb", !.cb = clnt[c].err_cb] ELSE Continue(@)]
  /\ UNCHANGED <<clnt, table, next_clid, th, os_params, released, up, known, left, hist>>

\* The requests have been failed; under err_cb_lock: read the callback, or leave err_pending
ReportError(c) ==
  /\ xport[c].pc = "report"
  /\ \/ /\ clnt[c].err_cb # NULL
        /\ xport' = [xport EXCEPT ![c].pc = "err_cb", ![c].cb = clnt[c].err_cb]
        /\ UNCHANGED clnt
     \/ /\ clnt[c].err_cb = NULL
        /\ clnt' = [clnt EXCEPT ![c].err_pending = TRUE]
        /\ xport' = [xport EXCEPT ![c] = Continue(@)]
  /\ UNCHANGED <<table, next_clid, th, os_params, released, up, known, left, hist>>

ErrorCb(c) ==
  /\ xport[c].pc = "err_cb"
  /\ hist' = [hist EXCEPT !.heard[xport[c].cb] = @ + 1]
  /\ xport' = [xport EXCEPT ![c] = Continue(@)]
  /\ UNCHANGED <<clnt, table, next_clid, th, os_params, released, up, known, left>>

\* An indication is read and its callback runs
ReadInd(c) ==
  /\ xport[c].pc = "poll" /\ clnt[c].addr_valid /\ left.events > 0
  /\ xport' = [xport EXCEPT ![c] = [Polled(c) EXCEPT !.pc = "ind_cb"]]
  /\ left' = [left EXCEPT !.events = @ - 1]
  /\ UNCHANGED <<clnt, table, next_clid, th, os_params, released, up, known, hist>>

IndCb(c) ==
  /\ xport[c].pc = "ind_cb"
  /\ xport' = [xport EXCEPT ![c] = Continue(@)]
  /\ UNCHANGED <<clnt, table, next_clid, th, os_params, released, up, known, left, hist>>

\* the wake-up is read when nothing else is there
ReaderExit(c) ==
  /\ xport[c].pc = "poll" /\ xport[c].wakeup /\ xport[c].ctl = <<>>
  /\ xport' = [xport EXCEPT ![c].pc = "exited"]
  /\ UNCHANGED <<clnt, table, next_clid, th, os_params, released, up, known, left, hist>>

\* no memory for a message, or recvfrom fails: the thread ends, and tells nobody
ReaderDies(c) ==
  /\ xport[c].pc \in {"poll", "ctl"} /\ left.events > 0
  /\ xport' = [xport EXCEPT ![c].pc = "exited", ![c].died = TRUE]
  /\ left' = [left EXCEPT !.events = @ - 1]
  /\ UNCHANGED <<clnt, table, next_clid, th, os_params, released, up, known, hist>>

-----------------------------------------------------------------------------
(* The router: it tells every control port of every server.  NEW_SERVER messages to a client that *)
(* is not a notifier are left out: qmi_cci_xport_event_new_server does nothing with them.         *)

Broadcast(cmd, s) ==
  xport' = [c \in Handles |->
    IF xport[c].state = "open" /\ (cmd = "remove" \/ clnt[c].ext_signal # NoThread)
    THEN [xport[c] EXCEPT !.ctl = Append(@, <<cmd, s>>)] ELSE xport[c]]

ServerUp(s) ==
  /\ s \in left.servers
  /\ left' = [left EXCEPT !.servers = @ \ {s}]
  /\ up' = up \cup {s}
  /\ Broadcast("new", s)
  /\ UNCHANGED <<clnt, table, next_clid, th, os_params, released, known, hist>>

ServerDown(s) ==
  /\ s \in up
  /\ up' = up \ {s}
  /\ Broadcast("remove", s)
  /\ UNCHANGED <<clnt, table, next_clid, th, os_params, released, known, left, hist>>

-----------------------------------------------------------------------------
CallStart(t) ==
  \/ \E h \in Handles : Call(t, h) \/ RegisterErrorCb(t, h)
  \/ \E s \in Servers : InitClient(t, s)
  \/ InitInstance(t)
  \/ \E h \in Handles, kind \in {"sync", "async"} : Release(t, h, kind)

\* Calls go on
CallStep(t) ==
  \/ EndCall(t) \/ SetErrorCb(t) \/ PendingErrorCb(t)
  \/ \E c \in Handles : AllocClient(t, c) \/ AllocNotifier(t, c)
  \/ OpenClient(t) \/ RedoLookup(t) \/ CloseXport(t) \/ JoinReader(t) \/ Put(t) \/ Free(t)
  \/ CountServers(t) \/ ListServers(t) \/ OpenNotifier(t) \/ NotifierLookup(t)
  \/ ClearSignal(t) \/ WaitForServer(t) \/ ReturnInit(t)
  \/ ReleaseGet(t) \/ ReleasePut(t) \/ ReleaseAsync(t) \/ Shut(t) \/ AwaitRelease(t)

ReaderStep(c) == ReadCtl(c) \/ ReportError(c) \/ ErrorCb(c) \/ IndCb(c) \/ ReaderExit(c)

Next ==
  \/ \E t \in Threads : CallStart(t) \/ CallStep(t) \/ OpenFails(t) \/ TimeOut(t)
  \/ \E c \in Handles : ReaderStep(c) \/ ReadInd(c) \/ ReaderDies(c)
  \/ \E s \in Servers : ServerUp(s) \/ ServerDown(s)

Spec == Init /\ [][Next]_vars

FairSpec ==
  /\ Spec
  /\ \A t \in Threads : WF_vars(CallStep(t))
  /\ \A c \in Handles : WF_vars(ReaderStep(c))

-----------------------------------------------------------------------------
(* Properties *)

Readers(c) == xport[c].pc \in {"poll", "ctl", "report", "err_cb", "ind_cb"}

\* The threads with a reference of their own to client c: those that create it or look for
\* servers with it, and those inside a call or a release
Users(c) == {t \in Threads : th[t].c = c /\
  th[t].pc \in {"open", "lookup", "n_open", "n_lookup", "call", "reg", "reg_cb", "rel_put", "shut",
                "close", "join", "put"}}

\* The transport of client c has a reference: from before it is opened until it is closed
TransportHolds(c) ==
  \/ xport[c].state = "open"
  \/ \E t \in Users(c) : th[t].pc \in {"open", "n_open"}

\* priv.ref_count is the number of those who may still use the client: calls, the thread that creates
\* or releases it, the transport.  It is 0 only while one thread is about to free it.
RefCountExact ==
  \A c \in Handles : clnt[c].alive =>
    /\ clnt[c].ref_count = Cardinality(Users(c)) + (IF TransportHolds(c) THEN 1 ELSE 0)
    /\ clnt[c].ref_count = 0 <=> Cardinality({t \in Threads : th[t].c = c /\ th[t].pc = "free"}) = 1

\* No thread works on a client that has been freed, nor does its reader thread, whose sockets are
\* open; and a client is not freed with its transport open (qmi_cci_client_free, xport_close).
NoUseAfterFree ==
  \A c \in Handles :
    /\ \A t \in Users(c) : clnt[c].alive
    /\ Readers(c) => clnt[c].alive /\ xport[c].state = "open"
    /\ xport[c].state = "open" => clnt[c].alive

\* qmi_client.h:493: the release callback runs when "it is safe for the caller to release any
\* associated resources": once, for every handle that was given out and is gone, and when it has run
\* no callback of the client runs or will run.
ReleasedOnce ==
  \A c \in Handles :
    /\ hist.released[c] <= 1
    /\ hist.released[c] = 1 => ~clnt[c].alive /\ ~Readers(c) /\ Users(c) = {}
    /\ c \in known /\ ~clnt[c].alive => hist.released[c] = 1

\* A client that was given to the application and takes its server for alive will hear of the server's
\* exit: there is no gap between the check in qmi_client_init that the server exists and the events
\* of the control port.  (Unless the reader thread has died, or is being stopped.)
ExitKnown ==
  \A c \in known \cap table :
    clnt[c].addr_valid /\ clnt[c].server_addr \notin up =>
      \/ \E i \in 1..Len(xport[c].ctl) : xport[c].ctl[i] = <<"remove", clnt[c].server_addr>>
      \/ xport[c].died

\* The exit is reported once: a callback is not run twice, and if one is registered when the reader
\* has handled the exit, one has been run or is about to be, whichever of the two came first
\* (qmi_cci_xport_event_server_error against qmi_client_register_error_cb).
ErrorHeardOnce ==
  /\ \A k \in Regs : hist.heard[k] <= 1
  /\ \A c \in Handles :
       clnt[c].err_cb # NULL /\ ~clnt[c].addr_valid /\ xport[c].pc \notin {"report", "err_cb"} =>
         \/ \E k \in Regs : hist.reg[k] = c /\ hist.heard[k] = 1
         \/ \E t \in Users(c) : th[t].pc = "reg_cb"

\* A client that nobody works on is in the table under a handle that the application has: no path
\* out of the library forgets a client, a notifier or a transport.
NothingLeaked ==
  \A c \in Handles :
    clnt[c].alive /\ (\A t \in Threads : c \notin {th[t].c, th[t].notifier, th[t].user}) =>
      c \in table \cap known

\* A release returns, whatever the reader thread and the callbacks do meanwhile.
ReleaseReturns == \A t \in Threads : th[t].release # "none" ~> th[t].pc = "idle"

\* qmi_client_init_instance does not sleep while the server it waits for is there: the signal is
\* cleared before the look-up and set after each change.  (Unless the notifier's reader has died.)
InitReturns ==
  \A t \in Threads :
    []<>(th[t].pc = "idle" \/ up \cap Wanted = {} \/
         (th[t].notifier # NULL /\ xport[th[t].notifier].died))
=============================================================================
