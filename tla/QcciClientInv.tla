--------------------------- MODULE QcciClientInv ---------------------------
(***************************************************************************)
(* The inductive invariant behind the safety properties of QcciClient: what  *)
(* a thread has in its hands at each place of the code, which clients only    *)
(* one thread knows, who opens and closes a transport, and how far the        *)
(* report of a server's exit has come.                                       *)
(***************************************************************************)
EXTENDS QcciClient

\* Handles are given in order, by next_clid.
Fresh(c) == c >= next_clid

-----------------------------------------------------------------------------
(* What a thread's local variables hold at each place of the code. *)

\* Places in a call that makes a client, in a call with a handle, where the thread has a reference
\* of its own, and in a release; InitCalls make the client the caller is given.
Creating   == {"alloc", "open", "lookup"}
CallPcs    == {"call", "reg", "reg_cb"}
UserPcs    == {"open", "lookup", "n_open", "n_lookup", "call", "reg", "reg_cb", "rel_put", "shut",
               "close", "join", "put"}
ReleasePcs == {"rel_get", "rel_put", "rel_async", "shut", "rel_wait"}
InitCalls  == {"init", "first", "loop"}

\* The local variables r of a thread fit its place.
Shape(r) ==
  /\ r.pc = "idle" => r = NewThread
  /\ r.pc \in CallPcs => r.call = "none" /\ r.release = "none"
  /\ r.pc \in ReleasePcs => r.call = "none" /\ r.release # "none"
  /\ r.pc \in {"rel_get", "rel_put", "rel_wait"} => r.release = "sync"
  /\ r.pc \in Creating => r.call \in InitCalls /\ r.s # NoServer
  /\ r.pc \in {"n_open", "n_lookup"} => r.call = "notifier" /\ r.c = r.notifier
  /\ r.pc \in {"count", "list"} => r.call \in {"first", "loop"}
  /\ r.pc = "notifier" => r.call = "first"
  /\ r.pc \in {"clear", "wait"} => r.call = "loop"
  /\ r.pc = "returned" => r.call # "none"
  /\ r.pc \in {"close", "join"} => r.call \in InitCalls \/ r.release # "none"
  /\ r.call # "none" => r.release = "none" /\ r.user = NULL
  /\ r.notifier # NULL <=> r.call \in {"notifier", "loop"}
  /\ r.user # NULL => r.release = "sync" /\ r.user # r.c
  /\ r.pc \in UserPcs \cup ReleasePcs \cup {"free", "returned"} => r.c # NULL
  /\ r.call = "loop" /\ r.pc \in UserPcs \cup {"free", "returned"} => r.c # r.notifier
  /\ r.call = "notifier" => r.c = r.notifier /\ r.rc # "ok"
  /\ r.call = "notifier" /\ r.pc \in {"put", "free", "returned"} => r.rc = "internal"
  /\ r.rc = "ok" => r.call \in InitCalls /\ r.pc \in {"put", "returned"}
  /\ r.pc \in {"close", "join", "put", "free", "returned"} /\ r.call # "none" => r.rc # "none"
  /\ r.pc # "free" => r.after = "idle"
  /\ r.pc = "free" =>
       /\ r.after \in {"idle", "returned", "rel_wait", "rel_async"}
       /\ r.after = "returned" <=> r.call # "none"
       /\ r.after \in {"rel_wait", "rel_async"} <=> r.release = "sync"
  /\ r.pc \in {"reg", "reg_cb"} => r.cb # NULL
ShapeInv == \A t \in Threads : Shape(th[t])

\* Only finitely many threads are in the library at a time.
Active == {t \in Threads : th[t].pc # "idle"}

-----------------------------------------------------------------------------
(* Handles that only one thread knows. *)

\* The handles in the local variables of t.
Refs(t) == {th[t].c, th[t].notifier, th[t].user} \ {NULL}

\* A handle that two threads have is one the application was given.
Private == \A t, u \in Threads : t # u => Refs(t) \cap Refs(u) \subseteq known

\* While a client is created its handle is not given to anybody; a call is made with a handle
\* that was.
GivenTo(t) ==
  /\ th[t].call # "none" \/ th[t].user # NULL => Refs(t) \cap known = {}
  /\ th[t].pc # "idle" /\ th[t].call = "none" /\ th[t].release # "sync" => th[t].c \in known
Given == \A t \in Threads : GivenTo(t)

\* Handles that are not used yet.
FreshInv ==
  /\ \A c \in Handles : Fresh(c) =>
       /\ clnt[c] = NewClient /\ xport[c] = NewXport
       /\ c \notin table /\ c \notin known
       /\ hist.released[c] = 0
       /\ \A k \in Regs : hist.reg[k] # c
  /\ \A t \in Threads : \A c \in Refs(t) : ~Fresh(c)

-----------------------------------------------------------------------------
(* References. *)

\* The thread that dropped the last reference of c is about to free it.
Freeing(t, c) == th[t].pc = "free" /\ th[t].c = c
\* ref_count is the number of threads with a reference, and one for an open transport.
Counted ==
  \A c \in Handles : clnt[c].alive =>
    clnt[c].ref_count = Cardinality(Users(c)) + (IF TransportHolds(c) THEN 1 ELSE 0)
\* One thread frees a client, and only after the last reference is gone.
FreeInv ==
  /\ \A c \in Handles : clnt[c].alive /\ clnt[c].ref_count = 0 => \E t \in Threads : Freeing(t, c)
  /\ \A t \in Threads : th[t].pc = "free" => clnt[th[t].c].alive /\ clnt[th[t].c].ref_count = 0
  /\ \A t, u \in Threads : th[t].pc = "free" /\ th[u].pc = "free" /\ th[t].c = th[u].c => t = u
\* Who has a reference, a transport or a place in the table has a client that is not freed.
AliveInv ==
  /\ \A t \in Threads : th[t].pc \in UserPcs => clnt[th[t].c].alive
  /\ \A c \in Handles : xport[c].state = "open" \/ c \in table => clnt[c].alive

-----------------------------------------------------------------------------
(* Transports. *)

\* A thread that has still to open, or is closing, the transport of its client.
Opening(t) == th[t].pc \in {"open", "n_open"}
Closing(t, c) == th[t].pc \in {"shut", "close", "join"} /\ th[t].c = c
\* Clients that somebody can use, or will be given.
Ready(t) == (IF th[t].rc = "ok" \/ th[t].pc \in {"lookup", "n_lookup"} THEN {th[t].c} ELSE {})
              \cup (IF th[t].call = "loop" THEN {th[t].notifier} ELSE {})
              \cup (IF th[t].user # NULL THEN {th[t].user} ELSE {})
\* A transport is opened by the thread that made the client and closed by the one that unlinked it.
XportInv ==
  /\ \A c \in Handles : xport[c].state = "open" <=> xport[c].pc # "none"
  /\ \A t \in Threads : Opening(t) => xport[th[t].c].state = "none" /\ th[t].c \in table
  /\ \A t \in Threads : \A c \in Ready(t) : xport[c].state = "open" /\ c \in table
  /\ \A c \in known \cap table : xport[c].state = "open"
  /\ \A t \in Threads, c \in Handles : Closing(t, c) =>
       /\ xport[c].state = "open"
       /\ th[t].release # "none" => c \notin table
  /\ \A t, u \in Threads, c \in Handles : Closing(t, c) /\ Closing(u, c) => t = u
  /\ \A c \in Handles : xport[c].state = "open" /\ c \notin table => \E t \in Threads : Closing(t, c)
  /\ \A t \in Threads : th[t].pc \in {"put", "free"} /\ th[t].call # "none" /\ th[t].rc # "ok" =>
       xport[th[t].c].state # "open"
  /\ \A t \in Threads : th[t].pc \in {"rel_get", "rel_put", "rel_async"} /\ th[t].c \in table =>
       xport[th[t].c].state = "open"

-----------------------------------------------------------------------------
(* Who still has to release a client. *)

\* A thread that still does something for its client.
Working(t) == th[t].pc \in UserPcs \cup {"free"}
\* A client the application was not given is in the hands of a thread.
Owned ==
  /\ \A c \in Handles : clnt[c].alive /\ c \notin known => \E t \in Threads : c \in Refs(t)
  /\ \A t \in Threads : th[t].call # "none" /\ th[t].c # NULL /\ ~Working(t) /\ th[t].rc # "ok" =>
       (th[t].c = th[t].notifier /\ th[t].call = "loop") \/ ~clnt[th[t].c].alive
\* The signal on the stack of a synchronous release belongs to that release.
WaiterInv ==
  /\ \A c \in Handles : clnt[c].alive /\ clnt[c].release_cb = "internal" =>
       /\ clnt[c].waiter \in Threads
       /\ th[clnt[c].waiter].c = c
       /\ th[clnt[c].waiter].release = "sync"
       /\ th[clnt[c].waiter].pc \in {"close", "join", "put", "free", "rel_wait"}
  /\ \A t \in Threads :
       released[t] /\ th[t].release = "sync" => th[t].pc = "rel_get" \/ ~clnt[th[t].c].alive
\* The release callback runs when the client is freed.
Once ==
  \A c \in Handles :
    /\ hist.released[c] <= 1
    /\ clnt[c].alive => hist.released[c] = 0
    /\ c \in known /\ ~clnt[c].alive => hist.released[c] = 1
    /\ c \in known /\ clnt[c].alive /\ c \notin table =>
         clnt[c].release_cb # "none" \/ \E t \in Threads : th[t].pc = "shut" /\ th[t].c = c

-----------------------------------------------------------------------------
(* The exit of the server. *)

\* The reader reads the control port only when something is there.
CtlInv == \A c \in Handles : xport[c].more \/ xport[c].pc = "ctl" => xport[c].ctl # <<>>

\* The exit of a client's server is known or a message about it is on its way.
WillHear(c) ==
  clnt[c].addr_valid /\ clnt[c].server_addr \notin up =>
    \/ \E i \in 1..Len(xport[c].ctl) : xport[c].ctl[i] = <<"remove", clnt[c].server_addr>>
    \/ xport[c].died
\* ... from the moment the look-up was made again until the client is unlinked.
ExitInv ==
  /\ \A c \in known \cap table : WillHear(c)
  /\ \A t \in Threads :
       /\ th[t].rc = "ok" => WillHear(th[t].c)
       /\ th[t].user # NULL => WillHear(th[t].user)
       /\ th[t].pc \in {"open", "lookup"} /\ clnt[th[t].c].addr_valid =>
            clnt[th[t].c].server_addr = th[t].s

\* The reader is between taking the exit and calling back.
Reporting(c) == xport[c].pc \in {"report", "err_cb"}
\* A registration belongs to one thread until it is stored, then to one client.
RegInv ==
  /\ \A k \in Regs : k <= left.regs => hist.reg[k] = NULL /\ hist.heard[k] = 0
  /\ \A t \in Threads :
       /\ th[t].pc \in {"reg", "reg_cb"} => th[t].cb > left.regs /\ hist.heard[th[t].cb] = 0
       /\ th[t].pc = "reg" => hist.reg[th[t].cb] = NULL
       /\ th[t].pc = "reg_cb" => hist.reg[th[t].cb] = th[t].c /\ clnt[th[t].c].err_pending
  /\ \A t, u \in Threads : {th[t].pc, th[u].pc} \subseteq {"reg", "reg_cb"} /\ th[t].cb = th[u].cb => t = u
  /\ \A c \in Handles : clnt[c].err_cb # NULL => hist.reg[clnt[c].err_cb] = c
\* Either the server is there, or its exit is being reported, or it was.
ReportInv ==
  \A c \in Handles :
    /\ clnt[c].addr_valid => clnt[c].server_addr \in Servers
    /\ ~clnt[c].addr_valid => clnt[c].server_addr = NoServer
    /\ Reporting(c) => ~clnt[c].addr_valid /\ ~clnt[c].err_pending
    /\ clnt[c].err_pending => ~clnt[c].addr_valid
    /\ xport[c].pc = "err_cb" => xport[c].cb # NULL /\ hist.reg[xport[c].cb] = c
    /\ clnt[c].addr_valid \/ Reporting(c) => \A k \in Regs : hist.reg[k] = c => hist.heard[k] = 0
\* An exit was heard once, or waits for an error callback.
Heard ==
  /\ \A k \in Regs : hist.heard[k] <= 1
  /\ \A c \in Handles : clnt[c].alive /\ clnt[c].ext_signal = NoThread /\ ~clnt[c].addr_valid /\ ~Reporting(c) =>
       \/ \E k \in Regs : hist.reg[k] = c /\ hist.heard[k] = 1
       \/ clnt[c].err_pending /\ (clnt[c].err_cb = NULL \/ \E t \in Threads : th[t].pc = "reg_cb" /\ th[t].c = c)
  /\ \A c \in known : clnt[c].alive => clnt[c].ext_signal = NoThread
  /\ \A t \in Threads :
       /\ th[t].call \in InitCalls /\ th[t].pc \in UserPcs \cup {"returned"} => clnt[th[t].c].ext_signal = NoThread
       /\ th[t].user # NULL => clnt[th[t].user].ext_signal = NoThread
  /\ \A c \in Handles :
       clnt[c].err_cb # NULL => clnt[c].alive /\ clnt[c].ext_signal = NoThread

\* The inductive invariant.
Inv ==
  /\ TypeOK /\ ShapeInv /\ IsFiniteSet(Active)
  /\ Private /\ Given /\ FreshInv
  /\ Counted /\ FreeInv /\ AliveInv /\ XportInv
  /\ Owned /\ WaiterInv /\ Once
  /\ CtlInv /\ ExitInv /\ RegInv /\ ReportInv /\ Heard
=============================================================================
