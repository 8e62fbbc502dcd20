--------------------------- MODULE QcciClientSteps ----------------------------
(***************************************************************************)
(* What the steps of QcciClient do to a state in which the invariant of     *)
(* QcciClientInv holds, for any number of threads, servers, calls and       *)
(* failures.  First a lemma for every action that says which fields it      *)
(* changes; then what a step means for the parts of the invariant that all  *)
(* others rest on: the types, who has which handle in its hands, the        *)
(* references and the transports.                                           *)
(***************************************************************************)
EXTENDS QcciClientInv, SequenceTheorems, FiniteSetTheorems, TLAPS

-----------------------------------------------------------------------------
(* What a step does to the record of one thread or of one client. *)

\* No thread but t changes.
Others(t) == \A u \in Threads \ {t} : th'[u] = th[u]
\* No client struct but that of c changes.
OnlyClient(c) == \A d \in Handles \ {c} : clnt'[d] = clnt[d]
\* No transport but that of c changes.
OnlyXport(c) == \A d \in Handles \ {c} : xport'[d] = xport[d]

\* Thread t has the same handles, in the same call.
KeepsHandles(t) ==
  /\ th'[t].c = th[t].c /\ th'[t].notifier = th[t].notifier /\ th'[t].user = th[t].user
  /\ th'[t].call = th[t].call /\ th'[t].release = th[t].release

\* Thread t goes on at pc, with the same handles.
Goes(t, pc) ==
  /\ Others(t) /\ KeepsHandles(t)
  /\ th'[t].pc = pc /\ th'[t].after = "idle" /\ th'[t].cb = th[t].cb /\ th'[t].s = th[t].s

\* Thread t is about to free the client.
Frees(t, after) ==
  /\ Others(t) /\ KeepsHandles(t)
  /\ th'[t].pc = "free" /\ th'[t].after = after /\ th'[t].cb = th[t].cb /\ th'[t].s = th[t].s

\* Thread t leaves the library.
Leaves(t) == Others(t) /\ th'[t] = NewThread

\* Nothing but the number of references of client c changes.
KeepsClient(c) ==
  /\ OnlyClient(c)
  /\ clnt'[c].alive = clnt[c].alive /\ clnt'[c].server_addr = clnt[c].server_addr
  /\ clnt'[c].addr_valid = clnt[c].addr_valid /\ clnt'[c].ext_signal = clnt[c].ext_signal
  /\ clnt'[c].err_cb = clnt[c].err_cb /\ clnt'[c].err_pending = clnt[c].err_pending
  /\ clnt'[c].release_cb = clnt[c].release_cb /\ clnt'[c].waiter = clnt[c].waiter
\* Client c has one reference more.
Gains(c) == KeepsClient(c) /\ clnt'[c].ref_count = clnt[c].ref_count + 1
\* Client c has one reference less.
Loses(c) == KeepsClient(c) /\ clnt'[c].ref_count = clnt[c].ref_count - 1

\* A thread outside the library has its type.
LEMMA NewThreadType == NewThread \in Thread
  BY DEF NewThread, Thread, ThreadPcs, NULL

\* A client that does not exist has its type.
LEMMA NewClientType == NewClient \in Client
  BY ClientAssumption DEF NewClient, Client, NULL

\* A transport that has not been opened has its type.
LEMMA NewXportType == NewXport \in Xport
<1>1. <<>> \in Seq(CtlMsgs)
  BY EmptySeq
<1> QED
  BY <1>1 DEF NewXport, Xport, NULL, ReaderPcs

\* What a thread outside the library has.
LEMMA NewThreadFields ==
  /\ NewThread.pc = "idle" /\ NewThread.c = NULL /\ NewThread.after = "idle"
  /\ NewThread.call = "none" /\ NewThread.rc = "none" /\ NewThread.notifier = NULL
  /\ NewThread.user = NULL /\ NewThread.release = "none" /\ NewThread.cb = NULL
  BY DEF NewThread

\* What a client that does not exist has.
LEMMA NewClientFields ==
  /\ NewClient.alive = FALSE /\ NewClient.ref_count = 0 /\ NewClient.server_addr = NoServer
  /\ NewClient.addr_valid = FALSE /\ NewClient.ext_signal = NoThread /\ NewClient.err_cb = NULL
  /\ NewClient.err_pending = FALSE /\ NewClient.release_cb = "none" /\ NewClient.waiter = NoThread
  BY DEF NewClient

\* What a transport that has not been opened has.
LEMMA NewXportFields ==
  /\ NewXport.state = "none" /\ NewXport.ctl = <<>> /\ NewXport.pc = "none"
  /\ NewXport.more = FALSE /\ NewXport.cb = NULL /\ NewXport.died = FALSE
  BY DEF NewXport

\* Every thread has its type.
LEMMA ThreadElements == TypeOK => \A t \in Threads : th[t] \in Thread
  BY DEF TypeOK

\* Every client has its type.
LEMMA ClientElements == TypeOK => \A c \in Handles : clnt[c] \in Client
  BY DEF TypeOK

\* Every transport has its type.
LEMMA XportElements == TypeOK => \A c \in Handles : xport[c] \in Xport
  BY DEF TypeOK

\* A step that replaces the record of one thread.
LEMMA SetThread ==
  ASSUME TypeOK, NEW t \in Threads, NEW r \in Thread, th' = [th EXCEPT ![t] = r]
  PROVE  th' \in [Threads -> Thread] /\ Others(t) /\ th'[t] = r
  BY DEF TypeOK, Others

\* A step that replaces a client struct.
LEMMA SetClient ==
  ASSUME TypeOK, NEW c \in Handles, NEW r \in Client, clnt' = [clnt EXCEPT ![c] = r]
  PROVE  clnt' \in [Handles -> Client] /\ OnlyClient(c) /\ clnt'[c] = r
  BY DEF TypeOK, OnlyClient

\* One transport is replaced.
LEMMA SetXport ==
  ASSUME TypeOK, NEW c \in Handles, NEW r \in Xport, xport' = [xport EXCEPT ![c] = r]
  PROVE  xport' \in [Handles -> Xport] /\ OnlyXport(c) /\ xport'[c] = r
  BY DEF TypeOK, OnlyXport

\* Moved: going on in the same function, or leaving the library.
LEMMA MovedRecord ==
  ASSUME NEW r \in Thread, NEW pc \in ThreadPcs
  PROVE  /\ Moved(r, pc) \in Thread
         /\ pc = "idle" => Moved(r, pc) = NewThread
         /\ pc # "idle" =>
              /\ Moved(r, pc).pc = pc /\ Moved(r, pc).after = "idle"
              /\ Moved(r, pc).c = r.c /\ Moved(r, pc).notifier = r.notifier
              /\ Moved(r, pc).user = r.user /\ Moved(r, pc).call = r.call
              /\ Moved(r, pc).release = r.release /\ Moved(r, pc).cb = r.cb
              /\ Moved(r, pc).s = r.s /\ Moved(r, pc).rc = r.rc
<1>1. CASE pc = "idle"
  BY <1>1, NewThreadType DEF Moved
<1>2. CASE pc # "idle"
  <2>1. Moved(r, pc) = [r EXCEPT !.pc = pc, !.after = "idle"]
    BY <1>2 DEF Moved
  <2>2. "idle" \in ThreadPcs
    BY DEF ThreadPcs
  <2> QED
    BY <1>2, <2>1, <2>2 DEF Thread
<1> QED
  BY <1>1, <1>2

\* Go: the thread goes on at pc.
LEMMA GoStep ==
  ASSUME TypeOK, NEW t \in Threads, NEW pc \in ThreadPcs, Go(t, pc)
  PROVE  /\ th' \in [Threads -> Thread]
         /\ pc = "idle" => Leaves(t)
         /\ pc # "idle" => Goes(t, pc) /\ th'[t].rc = th[t].rc
<1>1. th[t] \in Thread
  BY DEF TypeOK
<1>2. th' = [th EXCEPT ![t] = Moved(th[t], pc)]
  BY DEF Go
<1>3. Moved(th[t], pc) \in Thread
  BY <1>1, MovedRecord
<1>4. th' \in [Threads -> Thread] /\ Others(t) /\ th'[t] = Moved(th[t], pc)
  BY <1>2, <1>3, SetThread
<1> QED
  BY <1>1, <1>4, MovedRecord DEF Goes, Leaves, KeepsHandles

\* A field of a client struct that no property looks at, or its reference count.
LEMMA RefStep ==
  ASSUME TypeOK, NEW c \in Handles, NEW n \in Nat, clnt' = [clnt EXCEPT ![c].ref_count = n]
  PROVE  clnt' \in [Handles -> Client] /\ KeepsClient(c) /\ clnt'[c].ref_count = n
<1> DEFINE x == [clnt[c] EXCEPT !.ref_count = n]
<1>1. clnt[c] \in Client
  BY DEF TypeOK
<1>2. clnt' = [clnt EXCEPT ![c] = x]
  OBVIOUS
<1>3. x \in Client
  BY <1>1 DEF Client
<1>4. /\ x.alive = clnt[c].alive /\ x.server_addr = clnt[c].server_addr
      /\ x.addr_valid = clnt[c].addr_valid /\ x.ext_signal = clnt[c].ext_signal
      /\ x.err_cb = clnt[c].err_cb /\ x.err_pending = clnt[c].err_pending
      /\ x.release_cb = clnt[c].release_cb /\ x.waiter = clnt[c].waiter
      /\ x.ref_count = n
  BY <1>1 DEF Client
<1> HIDE DEF x
<1>5. clnt' \in [Handles -> Client] /\ OnlyClient(c) /\ clnt'[c] = x
  BY <1>2, <1>3, SetClient
<1> QED
  BY <1>4, <1>5 DEF KeepsClient

\* qmi_cci_get_ref
LEMMA GetRefStep ==
  ASSUME TypeOK, NEW c \in Handles, clnt' = [clnt EXCEPT ![c].ref_count = GetRef(c)]
  PROVE  clnt' \in [Handles -> Client] /\ Gains(c)
<1>1. clnt[c].ref_count + 1 \in Nat
  BY ClientElements DEF Client
<1> QED
  BY <1>1, RefStep DEF GetRef, Gains

\* qmi_cci_put_ref
LEMMA PutRefStep ==
  ASSUME TypeOK, NEW t \in Threads, NEW r \in Thread, NEW c \in Handles, NEW after \in ThreadPcs,
         clnt[c].ref_count # 0, PutRef(t, r, c, after)
  PROVE  /\ clnt' \in [Handles -> Client] /\ th' \in [Threads -> Thread]
         /\ Loses(c) /\ Others(t)
         /\ \/ clnt[c].ref_count = 1 /\ th'[t] = [r EXCEPT !.pc = "free", !.after = after]
            \/ clnt[c].ref_count # 1 /\ th'[t] = Moved(r, after)
<1>1. clnt[c].ref_count \in Nat
  BY ClientElements DEF Client
<1>2. clnt[c].ref_count - 1 \in Nat
  BY <1>1
<1>3. clnt' = [clnt EXCEPT ![c].ref_count = clnt[c].ref_count - 1]
  BY DEF PutRef
<1>4. clnt' \in [Handles -> Client] /\ Loses(c)
  BY <1>2, <1>3, RefStep DEF Loses
<1>5. CASE clnt[c].ref_count = 1
  <2>1. th' = [th EXCEPT ![t] = [r EXCEPT !.pc = "free", !.after = after]]
    BY <1>5 DEF PutRef
  <2>2. "free" \in ThreadPcs
    BY DEF ThreadPcs
  <2>3. [r EXCEPT !.pc = "free", !.after = after] \in Thread
    BY <2>2 DEF Thread
  <2> QED
    BY <1>4, <1>5, <2>1, <2>3, SetThread
<1>6. CASE clnt[c].ref_count # 1
  <2>1. th' = [th EXCEPT ![t] = Moved(r, after)]
    BY <1>6 DEF PutRef
  <2>2. Moved(r, after) \in Thread
    BY MovedRecord
  <2> QED
    BY <1>4, <1>6, <2>1, <2>2, SetThread
<1> QED
  BY <1>5, <1>6

\* qmi_cci_put_ref at the end of a function that has changed no local variable.
LEMMA PutRefGoes ==
  ASSUME TypeOK, NEW t \in Threads, NEW c \in Handles, NEW after \in ThreadPcs,
         clnt[c].ref_count # 0, PutRef(t, th[t], c, after)
  PROVE  /\ clnt' \in [Handles -> Client] /\ th' \in [Threads -> Thread]
         /\ Loses(c)
         /\ \/ clnt[c].ref_count = 1 /\ Frees(t, after) /\ th'[t].rc = th[t].rc
            \/ clnt[c].ref_count # 1 /\ after = "idle" /\ Leaves(t)
            \/ clnt[c].ref_count # 1 /\ after # "idle" /\ Goes(t, after) /\ th'[t].rc = th[t].rc
<1>1. th[t] \in Thread
  BY DEF TypeOK
<1>2. /\ clnt' \in [Handles -> Client] /\ th' \in [Threads -> Thread]
      /\ Loses(c) /\ Others(t)
      /\ \/ clnt[c].ref_count = 1 /\ th'[t] = [th[t] EXCEPT !.pc = "free", !.after = after]
         \/ clnt[c].ref_count # 1 /\ th'[t] = Moved(th[t], after)
  <2>1. PICK r \in Thread : r = th[t]
    BY <1>1
  <2>2. PutRef(t, r, c, after)
    BY <2>1 DEF PutRef
  <2>3. /\ clnt' \in [Handles -> Client] /\ th' \in [Threads -> Thread]
        /\ Loses(c) /\ Others(t)
        /\ \/ clnt[c].ref_count = 1 /\ th'[t] = [r EXCEPT !.pc = "free", !.after = after]
           \/ clnt[c].ref_count # 1 /\ th'[t] = Moved(r, after)
    BY <2>2, PutRefStep
  <2> QED
    BY <2>1, <2>3
<1>3. CASE clnt[c].ref_count = 1
  <2>1. th'[t] = [th[t] EXCEPT !.pc = "free", !.after = after]
    BY <1>2, <1>3
  <2> QED
    BY <1>1, <1>2, <1>3, <2>1 DEF Frees, KeepsHandles, Thread
<1>4. CASE clnt[c].ref_count # 1
  BY <1>1, <1>2, <1>4, MovedRecord DEF Goes, Leaves, KeepsHandles
<1> QED
  BY <1>2, <1>3, <1>4

-----------------------------------------------------------------------------
(* The references. *)

\* Only finitely many threads use a client.
LEMMA UsersFinite ==
  ASSUME IsFiniteSet(Active), NEW c \in Handles
  PROVE  IsFiniteSet(Users(c)) /\ Cardinality(Users(c)) \in Nat
<1>1. Users(c) \subseteq Active
  BY DEF Users, Active
<1> QED
  BY <1>1, FS_Subset, FS_CardinalityType

\* A thread that works on a client has one of the references that are counted.
LEMMA Held ==
  ASSUME Inv, NEW t \in Threads, th[t].pc \in UserPcs
  PROVE  /\ th[t].c \in Handles /\ clnt[th[t].c].alive /\ t \in Users(th[t].c)
         /\ clnt[th[t].c].ref_count \in Nat /\ clnt[th[t].c].ref_count > 0
         /\ TransportHolds(th[t].c) => clnt[th[t].c].ref_count > 1
<1>1. th[t].c \in Handles
  BY ThreadElements DEF Inv, ShapeInv, Shape, Thread
<1>2. clnt[th[t].c].alive
  BY DEF Inv, AliveInv
<1>3. t \in Users(th[t].c)
  BY DEF Users, UserPcs
<1>4. /\ IsFiniteSet(Users(th[t].c))
      /\ Cardinality(Users(th[t].c)) \in Nat
  BY <1>1, UsersFinite DEF Inv
<1>5. Cardinality(Users(th[t].c)) # 0
  BY <1>3, <1>4, FS_EmptySet
<1>6. clnt[th[t].c].ref_count = Cardinality(Users(th[t].c))
                                  + (IF TransportHolds(th[t].c) THEN 1 ELSE 0)
  BY <1>1, <1>2 DEF Inv, Counted
<1> QED
  BY <1>1, <1>2, <1>3, <1>4, <1>5, <1>6

\* While a client is opened, looked up or closed its transport has another reference.
LEMMA HeldTwice ==
  ASSUME Inv, NEW t \in Threads,
         th[t].pc \in {"open", "n_open", "lookup", "n_lookup", "shut", "close", "join"}
  PROVE  th[t].c \in Handles /\ clnt[th[t].c].ref_count > 1
<1>1. th[t].pc \in UserPcs
  BY DEF UserPcs
<1>2. TransportHolds(th[t].c)
  <2>1. CASE th[t].pc \in {"open", "n_open"}
    BY <1>1, <2>1, Held DEF TransportHolds
  <2>2. CASE th[t].pc \in {"lookup", "n_lookup"}
    BY <2>2 DEF Inv, XportInv, Ready, TransportHolds
  <2>3. CASE th[t].pc \in {"shut", "close", "join"}
    BY <1>1, <2>3, Held DEF Inv, XportInv, Closing, TransportHolds
  <2> QED
    BY <2>1, <2>2, <2>3
<1> QED
  BY <1>1, <1>2, Held

-----------------------------------------------------------------------------
(* The effect of every action of a thread. *)

\* What Enters says: thread t is inside a function it has just called.
Enters(t, pc, call, release, c) ==
  /\ Others(t)
  /\ th'[t].pc = pc /\ th'[t].after = "idle" /\ th'[t].call = call /\ th'[t].release = release
  /\ th'[t].c = c /\ th'[t].notifier = NULL /\ th'[t].user = NULL /\ th'[t].rc = "none"

\* What is left of the bounds are numbers.
LEMMA LeftElements ==
  ASSUME TypeOK
  PROVE  /\ left.regs \in Nat /\ left.regs <= MaxRegs /\ (left.regs > 0 => left.regs \in Regs)
         /\ left.inits \in Nat /\ left.inits <= MaxInits
         /\ left.events \in Nat /\ left.events <= MaxEvents
         /\ left.servers \subseteq Servers
  BY ClientAssumption DEF TypeOK, Regs, Budget

\* A call takes a reference.
LEMMA CallEffect ==
  ASSUME Inv, NEW t \in Threads, NEW h \in Handles, Call(t, h)
  PROVE  /\ th[t].pc = "idle"
         /\ h \in known /\ h \in table
         /\ th' \in [Threads -> Thread]
         /\ Enters(t, "call", "none", "none", h)
         /\ clnt' \in [Handles -> Client]
         /\ Gains(h)
         /\ UNCHANGED <<table, next_clid, xport, os_params, released, up, known, left, hist>>
<1> TypeOK
  BY DEF Inv
<1> DEFINE r == [NewThread EXCEPT !.pc = "call", !.c = h]
<1>1. th[t] \in Thread
  BY ThreadElements
<1>0. "call" \in ThreadPcs
  BY DEF ThreadPcs
<1>2. r \in Thread
  BY <1>0, NewThreadType DEF Thread
<1>3. r.pc = "call" /\ r.after = "idle" /\ r.call = "none" /\ r.release = "none" /\ r.c = h /\ r.notifier = NULL /\ r.user = NULL /\ r.rc = "none"
  BY <1>1 DEF Thread, NewThread, NULL
<1>4. th' = [th EXCEPT ![t] = r]
  BY DEF Call
<1> HIDE DEF r
<1>5. th' \in [Threads -> Thread] /\ Others(t) /\ th'[t] = r
  BY <1>2, <1>4, SetThread
<1>6. clnt' \in [Handles -> Client] /\ Gains(h)
  <2>1. clnt' = [clnt EXCEPT ![h].ref_count = GetRef(h)]
    BY DEF Call
  <2> QED
    BY <2>1, GetRefStep
<1> QED
  BY <1>3, <1>5, LeftElements, <1>6 DEF Call, At, Enters

\* So does the registration of an error callback.
LEMMA RegisterErrorCbEffect ==
  ASSUME Inv, NEW t \in Threads, NEW h \in Handles, RegisterErrorCb(t, h)
  PROVE  /\ th[t].pc = "idle"
         /\ h \in known /\ h \in table /\ left.regs \in Regs
         /\ th' \in [Threads -> Thread]
         /\ Enters(t, "reg", "none", "none", h)
         /\ th'[t].cb = left.regs
         /\ left' = [left EXCEPT !.regs = @ - 1]
         /\ clnt' \in [Handles -> Client]
         /\ Gains(h)
         /\ UNCHANGED <<table, next_clid, xport, os_params, released, up, known, hist>>
<1> TypeOK
  BY DEF Inv
<1> DEFINE r == [NewThread EXCEPT !.pc = "reg", !.c = h, !.cb = left.regs]
<1>1. th[t] \in Thread
  BY ThreadElements
<1>0. "reg" \in ThreadPcs /\ left.regs \in Regs
  BY LeftElements DEF RegisterErrorCb, Regs, ThreadPcs
<1>2. r \in Thread
  BY <1>0, NewThreadType DEF Thread
<1>3. r.pc = "reg" /\ r.after = "idle" /\ r.call = "none" /\ r.release = "none" /\ r.c = h /\ r.notifier = NULL /\ r.user = NULL /\ r.rc = "none" /\ r.cb = left.regs
  BY <1>1 DEF Thread, NewThread, NULL
<1>4. th' = [th EXCEPT ![t] = r]
  BY DEF RegisterErrorCb
<1> HIDE DEF r
<1>5. th' \in [Threads -> Thread] /\ Others(t) /\ th'[t] = r
  BY <1>2, <1>4, SetThread
<1>6. clnt' \in [Handles -> Client] /\ Gains(h)
  <2>1. clnt' = [clnt EXCEPT ![h].ref_count = GetRef(h)]
    BY DEF RegisterErrorCb
  <2> QED
    BY <2>1, GetRefStep
<1> QED
  BY <1>3, <1>5, LeftElements, <1>6 DEF RegisterErrorCb, At, Enters

\* qmi_client_init is called.
LEMMA InitClientEffect ==
  ASSUME Inv, NEW t \in Threads, NEW s \in Servers, InitClient(t, s)
  PROVE  /\ th[t].pc = "idle"
         /\ th' \in [Threads -> Thread]
         /\ Enters(t, "alloc", "init", "none", NULL)
         /\ th'[t].s = s
         /\ left.inits > 0 /\ left' = [left EXCEPT !.inits = @ - 1]
         /\ UNCHANGED <<clnt, table, next_clid, xport, os_params, released, up, known, hist>>
<1> TypeOK
  BY DEF Inv
<1> DEFINE r == [NewThread EXCEPT !.pc = "alloc", !.call = "init", !.s = s]
<1>1. th[t] \in Thread
  BY ThreadElements
<1>0. "alloc" \in ThreadPcs
  BY DEF ThreadPcs
<1>2. r \in Thread
  BY <1>0, NewThreadType DEF Thread
<1>3. r.pc = "alloc" /\ r.after = "idle" /\ r.call = "init" /\ r.release = "none" /\ r.c = NULL /\ r.notifier = NULL /\ r.user = NULL /\ r.rc = "none" /\ r.s = s
  BY <1>1 DEF Thread, NewThread, NULL
<1>4. th' = [th EXCEPT ![t] = r]
  BY DEF InitClient
<1> HIDE DEF r
<1>5. th' \in [Threads -> Thread] /\ Others(t) /\ th'[t] = r
  BY <1>2, <1>4, SetThread
<1> QED
  BY <1>3, <1>5, LeftElements DEF InitClient, At, Enters

\* qmi_client_init_instance is called.
LEMMA InitInstanceEffect ==
  ASSUME Inv, NEW t \in Threads, InitInstance(t)
  PROVE  /\ th[t].pc = "idle"
         /\ th' \in [Threads -> Thread]
         /\ Enters(t, "count", "first", "none", NULL)
         /\ left.inits > 0 /\ left' = [left EXCEPT !.inits = @ - 1]
         /\ UNCHANGED <<clnt, table, next_clid, xport, os_params, released, up, known, hist>>
<1> TypeOK
  BY DEF Inv
<1> DEFINE r == [NewThread EXCEPT !.pc = "count", !.call = "first"]
<1>1. th[t] \in Thread
  BY ThreadElements
<1>0. "count" \in ThreadPcs
  BY DEF ThreadPcs
<1>2. r \in Thread
  BY <1>0, NewThreadType DEF Thread
<1>3. r.pc = "count" /\ r.after = "idle" /\ r.call = "first" /\ r.release = "none" /\ r.c = NULL /\ r.notifier = NULL /\ r.user = NULL /\ r.rc = "none"
  BY <1>1 DEF Thread, NewThread, NULL
<1>4. th' = [th EXCEPT ![t] = r]
  BY DEF InitInstance
<1> HIDE DEF r
<1>5. th' \in [Threads -> Thread] /\ Others(t) /\ th'[t] = r
  BY <1>2, <1>4, SetThread
<1> QED
  BY <1>3, <1>5, LeftElements DEF InitInstance, At, Enters

\* A release is called.
LEMMA ReleaseEffect ==
  ASSUME Inv, NEW t \in Threads, NEW h \in Handles, NEW k \in {"sync", "async"}, Release(t, h, k)
  PROVE  /\ th[t].pc = "idle"
         /\ h \in known
         /\ th' \in [Threads -> Thread]
         /\ \/ k = "sync" /\ Enters(t, "rel_get", "none", k, h)
            \/ k = "async" /\ Enters(t, "rel_async", "none", k, h)
         /\ UNCHANGED <<clnt, table, next_clid, xport, os_params, released, up, known, left, hist>>
<1> TypeOK
  BY DEF Inv
<1> DEFINE z == IF k = "sync" THEN "rel_get" ELSE "rel_async"
           r == [NewThread EXCEPT !.c = h, !.release = k, !.pc = z]
<1>1. z \in ThreadPcs /\ (k = "sync" => z = "rel_get") /\ (k = "async" => z = "rel_async")
  BY DEF ThreadPcs
<1>2. th' = [th EXCEPT ![t] = r]
  BY DEF Release
<1> HIDE DEF z
<1>3. r \in Thread
  BY <1>1, NewThreadType DEF Thread
<1>4. /\ r.pc = z /\ r.after = "idle" /\ r.call = "none" /\ r.release = k /\ r.c = h
      /\ r.notifier = NULL /\ r.user = NULL /\ r.rc = "none"
  BY DEF NewThread, NULL
<1> HIDE DEF r
<1>5. th' \in [Threads -> Thread] /\ Others(t) /\ th'[t] = r
  BY <1>2, <1>3, SetThread
<1> QED
  BY <1>1, <1>4, <1>5 DEF Release, At, Enters

\* Calls and releases that give back a reference.
LEMMA EndCallEffect ==
  ASSUME Inv, NEW t \in Threads, EndCall(t)
  PROVE  /\ th[t].pc = "call"
         /\ th' \in [Threads -> Thread] /\ clnt' \in [Handles -> Client] /\ Loses(th[t].c)
         /\ \/ clnt[th[t].c].ref_count = 1 /\ Frees(t, "idle") /\ th'[t].rc = th[t].rc
            \/ clnt[th[t].c].ref_count # 1 /\ Leaves(t)
         /\ UNCHANGED <<table, next_clid, xport, os_params, released, up, known, left, hist>>
<1> TypeOK /\ th[t].c \in Handles /\ clnt[th[t].c].ref_count # 0
  BY Held DEF Inv, EndCall, At, UserPcs
<1>1. "idle" \in ThreadPcs
  BY DEF ThreadPcs
<1>2. PutRef(t, th[t], th[t].c, "idle")
  BY DEF EndCall
<1> QED
  BY <1>1, <1>2, PutRefGoes DEF EndCall, At

\* qmi_client_release: the signal has been copied.
LEMMA ReleasePutEffect ==
  ASSUME Inv, NEW t \in Threads, ReleasePut(t)
  PROVE  /\ th[t].pc = "rel_put"
         /\ th' \in [Threads -> Thread] /\ clnt' \in [Handles -> Client] /\ Loses(th[t].c)
         /\ \/ clnt[th[t].c].ref_count = 1 /\ Frees(t, "rel_async") /\ th'[t].rc = th[t].rc
            \/ clnt[th[t].c].ref_count # 1 /\ Goes(t, "rel_async") /\ th'[t].rc = th[t].rc
         /\ UNCHANGED <<table, next_clid, xport, os_params, released, up, known, left, hist>>
<1> TypeOK /\ th[t].c \in Handles /\ clnt[th[t].c].ref_count # 0
  BY Held DEF Inv, ReleasePut, At, UserPcs
<1>1. "rel_async" \in ThreadPcs
  BY DEF ThreadPcs
<1>2. PutRef(t, th[t], th[t].c, "rel_async")
  BY DEF ReleasePut
<1> QED
  BY <1>1, <1>2, PutRefGoes DEF ReleasePut, At

\* A reference is given back at the end of a function.
LEMMA PutEffect ==
  ASSUME Inv, NEW t \in Threads, Put(t)
  PROVE  /\ th[t].pc = "put"
         /\ th' \in [Threads -> Thread] /\ clnt' \in [Handles -> Client] /\ Loses(th[t].c)
         /\ \/ clnt[th[t].c].ref_count = 1 /\ Frees(t, PutReturns(t)) /\ th'[t].rc = th[t].rc
            \/ clnt[th[t].c].ref_count # 1 /\ PutReturns(t) = "idle" /\ Leaves(t)
            \/ clnt[th[t].c].ref_count # 1 /\ PutReturns(t) # "idle" /\ Goes(t, PutReturns(t))
                 /\ th'[t].rc = th[t].rc
         /\ UNCHANGED <<table, next_clid, xport, os_params, released, up, known, left, hist>>
<1> TypeOK /\ th[t].c \in Handles /\ clnt[th[t].c].ref_count # 0
  BY Held DEF Inv, Put, At, UserPcs
<1>1. PutReturns(t) \in ThreadPcs
  BY DEF ThreadPcs, PutReturns
<1>2. PutRef(t, th[t], th[t].c, PutReturns(t))
  BY DEF Put
<1>3. PICK after \in ThreadPcs : after = PutReturns(t)
  BY <1>1
<1>4. PutRef(t, th[t], th[t].c, after)
  BY <1>2, <1>3 DEF PutRef
<1> QED
  BY <1>3, <1>4, PutRefGoes DEF Put, At

\* The notifier has looked for servers that are there already.
LEMMA NotifierLookupEffect ==
  ASSUME Inv, NEW t \in Threads, NotifierLookup(t)
  PROVE  /\ th[t].pc = "n_lookup"
         /\ th' \in [Threads -> Thread] /\ clnt' \in [Handles -> Client] /\ Loses(th[t].c)
         /\ Others(t)
         /\ th'[t].pc = "clear" /\ th'[t].call = "loop" /\ th'[t].c = th[t].c
         /\ th'[t].notifier = th[t].notifier /\ th'[t].user = th[t].user
         /\ th'[t].release = th[t].release /\ th'[t].after = "idle" /\ th'[t].rc = th[t].rc
         /\ os_params' \in [Threads -> BOOLEAN]
         /\ UNCHANGED <<table, next_clid, xport, released, up, known, left, hist>>
<1> TypeOK /\ th[t].c \in Handles /\ clnt[th[t].c].ref_count > 1
  BY HeldTwice DEF Inv, NotifierLookup, At
<1>1. "clear" \in ThreadPcs
  BY DEF ThreadPcs
<1>2. th[t] \in Thread
  BY ThreadElements
<1>3. PICK r \in Thread : r = [th[t] EXCEPT !.call = "loop"]
  BY <1>2 DEF Thread
<1>4. PutRef(t, r, th[t].c, "clear")
  BY <1>3 DEF NotifierLookup, PutRef
<1>5. clnt[th[t].c].ref_count # 1 /\ clnt[th[t].c].ref_count # 0
  OBVIOUS
<1>6. /\ clnt' \in [Handles -> Client] /\ th' \in [Threads -> Thread]
      /\ Loses(th[t].c) /\ Others(t) /\ th'[t] = Moved(r, "clear")
  BY <1>1, <1>4, <1>5, PutRefStep
<1>7. /\ Moved(r, "clear").pc = "clear" /\ Moved(r, "clear").after = "idle"
      /\ Moved(r, "clear").c = r.c /\ Moved(r, "clear").notifier = r.notifier
      /\ Moved(r, "clear").user = r.user /\ Moved(r, "clear").call = r.call
      /\ Moved(r, "clear").release = r.release /\ Moved(r, "clear").rc = r.rc
  BY <1>1, MovedRecord
<1>8. /\ r.c = th[t].c /\ r.notifier = th[t].notifier /\ r.user = th[t].user /\ r.call = "loop"
      /\ r.release = th[t].release /\ r.rc = th[t].rc
  BY <1>2, <1>3 DEF Thread
<1>9. os_params' \in [Threads -> BOOLEAN]
  BY DEF NotifierLookup, TypeOK
<1> QED
  BY <1>6, <1>7, <1>8, <1>9 DEF NotifierLookup, At

\* xport_open fails: the transport's reference is given back.
LEMMA OpenFailsEffect ==
  ASSUME Inv, NEW t \in Threads, OpenFails(t)
  PROVE  /\ th[t].pc \in {"open", "n_open"}
         /\ th' \in [Threads -> Thread] /\ clnt' \in [Handles -> Client] /\ Loses(th[t].c)
         /\ Goes(t, "put") /\ th'[t].rc = "internal"
         /\ left.events > 0 /\ left' = [left EXCEPT !.events = @ - 1]
         /\ UNCHANGED <<table, next_clid, xport, os_params, released, up, known, hist>>
<1> TypeOK /\ th[t].c \in Handles /\ clnt[th[t].c].ref_count > 1
  BY HeldTwice DEF Inv, OpenFails, At
<1>1. "put" \in ThreadPcs
  BY DEF ThreadPcs
<1>2. th[t] \in Thread
  BY ThreadElements
<1>3. PICK r \in Thread : r = [th[t] EXCEPT !.rc = "internal"]
  BY <1>2 DEF Thread
<1>4. PutRef(t, r, th[t].c, "put")
  BY <1>3 DEF OpenFails, PutRef
<1>5. clnt[th[t].c].ref_count # 1 /\ clnt[th[t].c].ref_count # 0
  OBVIOUS
<1>6. /\ clnt' \in [Handles -> Client] /\ th' \in [Threads -> Thread]
      /\ Loses(th[t].c) /\ Others(t) /\ th'[t] = Moved(r, "put")
  BY <1>1, <1>4, <1>5, PutRefStep
<1>7. /\ Moved(r, "put").pc = "put" /\ Moved(r, "put").after = "idle"
      /\ Moved(r, "put").c = r.c /\ Moved(r, "put").notifier = r.notifier
      /\ Moved(r, "put").user = r.user /\ Moved(r, "put").call = r.call
      /\ Moved(r, "put").release = r.release /\ Moved(r, "put").rc = r.rc
      /\ Moved(r, "put").cb = r.cb /\ Moved(r, "put").s = r.s
  BY <1>1, MovedRecord
<1>8. /\ r.c = th[t].c /\ r.notifier = th[t].notifier /\ r.user = th[t].user
      /\ r.call = th[t].call /\ r.release = th[t].release /\ r.rc = "internal"
      /\ r.cb = th[t].cb /\ r.s = th[t].s
  BY <1>2, <1>3 DEF Thread
<1> QED
  BY <1>6, <1>7, <1>8 DEF OpenFails, At, Goes, KeepsHandles

\* xport_close: the reader has ended, the transport's reference is given back.
LEMMA JoinReaderEffect ==
  ASSUME Inv, NEW t \in Threads, JoinReader(t)
  PROVE  /\ th[t].pc = "join" /\ xport[th[t].c].pc = "exited"
         /\ th' \in [Threads -> Thread] /\ clnt' \in [Handles -> Client] /\ Loses(th[t].c)
         /\ Goes(t, "put") /\ th'[t].rc = th[t].rc
         /\ xport' \in [Handles -> Xport] /\ OnlyXport(th[t].c)
         /\ xport'[th[t].c].state = "freed" /\ xport'[th[t].c].pc = "none"
         /\ xport'[th[t].c].more = FALSE
         /\ UNCHANGED <<table, next_clid, os_params, released, up, known, left, hist>>
<1> TypeOK /\ th[t].c \in Handles /\ clnt[th[t].c].ref_count > 1
  BY HeldTwice DEF Inv, JoinReader, At
<1>1. "put" \in ThreadPcs
  BY DEF ThreadPcs
<1>2. PutRef(t, th[t], th[t].c, "put")
  BY DEF JoinReader
<1>3. clnt[th[t].c].ref_count # 1 /\ clnt[th[t].c].ref_count # 0
  OBVIOUS
<1>4. /\ clnt' \in [Handles -> Client] /\ th' \in [Threads -> Thread] /\ Loses(th[t].c)
      /\ Goes(t, "put") /\ th'[t].rc = th[t].rc
  BY <1>1, <1>2, <1>3, PutRefGoes
<1> DEFINE x == [NewXport EXCEPT !.state = "freed"]
<1>5. x \in Xport /\ x.state = "freed" /\ x.pc = "none" /\ x.more = FALSE
  BY NewXportType, NewXportFields DEF Xport
<1>6. xport' = [xport EXCEPT ![th[t].c] = x]
  BY DEF JoinReader
<1> HIDE DEF x
<1>7. xport' \in [Handles -> Xport] /\ OnlyXport(th[t].c) /\ xport'[th[t].c] = x
  BY <1>5, <1>6, SetXport
<1> QED
  BY <1>4, <1>5, <1>7 DEF JoinReader, At

\* The registration of an error callback.
LEMMA PendingErrorCbEffect ==
  ASSUME Inv, NEW t \in Threads, PendingErrorCb(t)
  PROVE  /\ th[t].pc = "reg_cb"
         /\ th' \in [Threads -> Thread] /\ Goes(t, "put") /\ th'[t].rc = th[t].rc
         /\ hist' = [hist EXCEPT !.heard[th[t].cb] = @ + 1]
         /\ UNCHANGED <<clnt, table, next_clid, xport, os_params, released, up, known, left>>
<1> TypeOK
  BY DEF Inv
<1>1. "put" \in ThreadPcs
  BY DEF ThreadPcs
<1> QED
  BY <1>1, GoStep DEF PendingErrorCb, At

\* The callback is set, and err_pending read.
LEMMA SetErrorCbEffect ==
  ASSUME Inv, NEW t \in Threads, SetErrorCb(t)
  PROVE  /\ th[t].pc = "reg"
         /\ th' \in [Threads -> Thread] /\ th'[t].rc = th[t].rc
         /\ \/ clnt[th[t].c].err_pending /\ Goes(t, "reg_cb")
            \/ ~clnt[th[t].c].err_pending /\ Goes(t, "put")
         /\ clnt' \in [Handles -> Client] /\ OnlyClient(th[t].c)
         /\ clnt'[th[t].c].err_cb = th[t].cb
         /\ clnt'[th[t].c].alive = clnt[th[t].c].alive
         /\ clnt'[th[t].c].ref_count = clnt[th[t].c].ref_count
         /\ clnt'[th[t].c].server_addr = clnt[th[t].c].server_addr
         /\ clnt'[th[t].c].addr_valid = clnt[th[t].c].addr_valid
         /\ clnt'[th[t].c].ext_signal = clnt[th[t].c].ext_signal
         /\ clnt'[th[t].c].err_pending = clnt[th[t].c].err_pending
         /\ clnt'[th[t].c].release_cb = clnt[th[t].c].release_cb
         /\ clnt'[th[t].c].waiter = clnt[th[t].c].waiter
         /\ hist' = [hist EXCEPT !.reg[th[t].cb] = th[t].c]
         /\ UNCHANGED <<table, next_clid, xport, os_params, released, up, known, left>>
<1> TypeOK /\ th[t].c \in Handles /\ clnt[th[t].c].ref_count # 0
  BY Held DEF Inv, SetErrorCb, At, UserPcs
<1>1. {"put", "reg_cb"} \subseteq ThreadPcs
  BY DEF ThreadPcs
<1>2. /\ th' \in [Threads -> Thread] /\ th'[t].rc = th[t].rc
      /\ \/ clnt[th[t].c].err_pending /\ Goes(t, "reg_cb")
         \/ ~clnt[th[t].c].err_pending /\ Goes(t, "put")
  <2>1. CASE clnt[th[t].c].err_pending
    <3>1. Go(t, "reg_cb")
      BY <2>1 DEF SetErrorCb
    <3> QED
      BY <1>1, <2>1, <3>1, GoStep
  <2>2. CASE ~clnt[th[t].c].err_pending
    <3>1. Go(t, "put")
      BY <2>2 DEF SetErrorCb
    <3> QED
      BY <1>1, <2>2, <3>1, GoStep
  <2> QED
    BY <2>1, <2>2
<1> DEFINE x == [clnt[th[t].c] EXCEPT !.err_cb = th[t].cb]
<1>3. clnt[th[t].c] \in Client /\ th[t].cb \in Regs \cup {NULL}
  BY ClientElements, ThreadElements DEF Thread
<1>4. /\ x \in Client /\ x.err_cb = th[t].cb /\ x.alive = clnt[th[t].c].alive
      /\ x.ref_count = clnt[th[t].c].ref_count /\ x.server_addr = clnt[th[t].c].server_addr
      /\ x.addr_valid = clnt[th[t].c].addr_valid /\ x.ext_signal = clnt[th[t].c].ext_signal
      /\ x.err_pending = clnt[th[t].c].err_pending /\ x.release_cb = clnt[th[t].c].release_cb
      /\ x.waiter = clnt[th[t].c].waiter
  BY <1>3 DEF Client
<1>5. clnt' = [clnt EXCEPT ![th[t].c] = x]
  BY DEF SetErrorCb
<1> HIDE DEF x
<1>6. clnt' \in [Handles -> Client] /\ OnlyClient(th[t].c) /\ clnt'[th[t].c] = x
  BY <1>4, <1>5, SetClient
<1> QED
  BY <1>2, <1>4, <1>6 DEF SetErrorCb, At

\* A client is allocated.
LEMMA AllocStep ==
  ASSUME TypeOK, NEW c \in Handles, NEW f \in Client, Alloc(c, f)
  PROVE  /\ c = next_clid /\ next_clid' = next_clid + 1 /\ table' = table \cup {c}
         /\ clnt' \in [Handles -> Client] /\ OnlyClient(c)
         /\ clnt'[c].alive /\ clnt'[c].ref_count = 2
         /\ clnt'[c].server_addr = f.server_addr /\ clnt'[c].addr_valid = f.addr_valid
         /\ clnt'[c].ext_signal = f.ext_signal /\ clnt'[c].err_cb = f.err_cb
         /\ clnt'[c].err_pending = f.err_pending /\ clnt'[c].release_cb = f.release_cb
         /\ clnt'[c].waiter = f.waiter
<1> DEFINE x == [f EXCEPT !.alive = TRUE, !.ref_count = 2, !.accepting = TRUE]
<1>1. /\ x \in Client /\ x.alive /\ x.ref_count = 2 /\ x.server_addr = f.server_addr
      /\ x.addr_valid = f.addr_valid /\ x.ext_signal = f.ext_signal /\ x.err_cb = f.err_cb
      /\ x.err_pending = f.err_pending /\ x.release_cb = f.release_cb /\ x.waiter = f.waiter
  BY DEF Client
<1>2. clnt' = [clnt EXCEPT ![c] = x]
  BY DEF Alloc
<1> HIDE DEF x
<1>3. clnt' \in [Handles -> Client] /\ OnlyClient(c) /\ clnt'[c] = x
  BY <1>1, <1>2, SetClient
<1> QED
  BY <1>1, <1>3 DEF Alloc

\* A client for a server is allocated.
LEMMA AllocClientEffect ==
  ASSUME Inv, NEW t \in Threads, NEW c \in Handles, AllocClient(t, c)
  PROVE  /\ th[t].pc = "alloc"
         /\ th' \in [Threads -> Thread] /\ Others(t)
         /\ th'[t].pc = "open" /\ th'[t].c = c /\ th'[t].after = th[t].after
         /\ th'[t].notifier = th[t].notifier /\ th'[t].user = th[t].user
         /\ th'[t].call = th[t].call /\ th'[t].release = th[t].release
         /\ th'[t].rc = th[t].rc /\ th'[t].s = th[t].s
         /\ c = next_clid /\ next_clid' = next_clid + 1 /\ table' = table \cup {c}
         /\ clnt' \in [Handles -> Client] /\ OnlyClient(c)
         /\ clnt'[c].alive /\ clnt'[c].ref_count = 2
         /\ clnt'[c].server_addr = th[t].s /\ clnt'[c].addr_valid
         /\ clnt'[c].ext_signal = NoThread /\ clnt'[c].err_cb = NULL
         /\ ~clnt'[c].err_pending /\ clnt'[c].release_cb = "none"
         /\ UNCHANGED <<xport, os_params, released, up, known, left, hist>>
<1> TypeOK
  BY DEF Inv
<1> DEFINE r == [th[t] EXCEPT !.pc = "open", !.c = c]
<1>1. th[t] \in Thread /\ "open" \in ThreadPcs
  BY ThreadElements DEF ThreadPcs
<1>2. r \in Thread
  BY <1>1 DEF Thread
<1>3. /\ r.pc = "open" /\ r.c = c /\ r.after = th[t].after /\ r.notifier = th[t].notifier
      /\ r.user = th[t].user /\ r.call = th[t].call /\ r.release = th[t].release
      /\ r.rc = th[t].rc /\ r.s = th[t].s
  BY <1>1 DEF Thread
<1>4. th' = [th EXCEPT ![t] = r]
  BY DEF AllocClient
<1> HIDE DEF r
<1>5. th' \in [Threads -> Thread] /\ Others(t) /\ th'[t] = r
  BY <1>2, <1>4, SetThread
<1>6. th[t].s \in Servers \cup {NoServer}
  BY <1>1 DEF Thread
<1>7. PICK f \in Client : f = [NewClient EXCEPT !.server_addr = th[t].s, !.addr_valid = TRUE]
  BY <1>6, NewClientType DEF Client
<1>8. /\ f.server_addr = th[t].s /\ f.addr_valid /\ f.ext_signal = NoThread /\ f.err_cb = NULL
      /\ ~f.err_pending /\ f.release_cb = "none"
  BY <1>7 DEF NewClient
<1>9. Alloc(c, f)
  BY <1>7 DEF AllocClient, Alloc
<1>10. /\ c = next_clid /\ next_clid' = next_clid + 1 /\ table' = table \cup {c}
       /\ clnt' \in [Handles -> Client] /\ OnlyClient(c)
       /\ clnt'[c].alive /\ clnt'[c].ref_count = 2
       /\ clnt'[c].server_addr = f.server_addr /\ clnt'[c].addr_valid = f.addr_valid
       /\ clnt'[c].ext_signal = f.ext_signal /\ clnt'[c].err_cb = f.err_cb
       /\ clnt'[c].err_pending = f.err_pending /\ clnt'[c].release_cb = f.release_cb
  BY <1>9, AllocStep
<1> QED
  BY <1>3, <1>5, <1>8, <1>10 DEF AllocClient, At

\* A notifier is allocated.
LEMMA AllocNotifierEffect ==
  ASSUME Inv, NEW t \in Threads, NEW c \in Handles, AllocNotifier(t, c)
  PROVE  /\ th[t].pc = "notifier"
         /\ th' \in [Threads -> Thread] /\ Others(t)
         /\ th'[t].pc = "n_open" /\ th'[t].c = c /\ th'[t].after = th[t].after
         /\ th'[t].notifier = c /\ th'[t].user = th[t].user
         /\ th'[t].call = "notifier" /\ th'[t].release = th[t].release /\ th'[t].rc = th[t].rc
         /\ c = next_clid /\ next_clid' = next_clid + 1 /\ table' = table \cup {c}
         /\ clnt' \in [Handles -> Client] /\ OnlyClient(c)
         /\ clnt'[c].alive /\ clnt'[c].ref_count = 2
         /\ clnt'[c].server_addr = NoServer /\ ~clnt'[c].addr_valid
         /\ clnt'[c].ext_signal = t /\ clnt'[c].err_cb = NULL
         /\ ~clnt'[c].err_pending /\ clnt'[c].release_cb = "none"
         /\ os_params' \in [Threads -> BOOLEAN]
         /\ UNCHANGED <<xport, released, up, known, left, hist>>
<1> TypeOK
  BY DEF Inv
<1> DEFINE r == [th[t] EXCEPT !.pc = "n_open", !.call = "notifier", !.c = c, !.notifier = c]
<1>1. th[t] \in Thread /\ "n_open" \in ThreadPcs
  BY ThreadElements DEF ThreadPcs
<1>2. r \in Thread
  BY <1>1 DEF Thread
<1>3. /\ r.pc = "n_open" /\ r.c = c /\ r.after = th[t].after /\ r.notifier = c
      /\ r.user = th[t].user /\ r.call = "notifier" /\ r.release = th[t].release
      /\ r.rc = th[t].rc
  BY <1>1 DEF Thread
<1>4. th' = [th EXCEPT ![t] = r]
  BY DEF AllocNotifier
<1> HIDE DEF r
<1>5. th' \in [Threads -> Thread] /\ Others(t) /\ th'[t] = r
  BY <1>2, <1>4, SetThread
<1>7. PICK f \in Client : f = [NewClient EXCEPT !.ext_signal = t]
  BY NewClientType DEF Client
<1>8. /\ f.server_addr = NoServer /\ ~f.addr_valid /\ f.ext_signal = t /\ f.err_cb = NULL
      /\ ~f.err_pending /\ f.release_cb = "none"
  BY <1>7 DEF NewClient
<1>9. Alloc(c, f)
  BY <1>7 DEF AllocNotifier, Alloc
<1>10. /\ c = next_clid /\ next_clid' = next_clid + 1 /\ table' = table \cup {c}
       /\ clnt' \in [Handles -> Client] /\ OnlyClient(c)
       /\ clnt'[c].alive /\ clnt'[c].ref_count = 2
       /\ clnt'[c].server_addr = f.server_addr /\ clnt'[c].addr_valid = f.addr_valid
       /\ clnt'[c].ext_signal = f.ext_signal /\ clnt'[c].err_cb = f.err_cb
       /\ clnt'[c].err_pending = f.err_pending /\ clnt'[c].release_cb = f.release_cb
  BY <1>9, AllocStep
<1>11. os_params' \in [Threads -> BOOLEAN]
  BY DEF AllocNotifier, TypeOK
<1> QED
  BY <1>3, <1>5, <1>8, <1>10, <1>11 DEF AllocNotifier, At

\* A transport is opened.
LEMMA OpenXportStep ==
  ASSUME TypeOK, NEW c \in Handles, OpenXport(c)
  PROVE  /\ xport' \in [Handles -> Xport] /\ OnlyXport(c)
         /\ xport'[c].state = "open" /\ xport'[c].pc = "poll" /\ xport'[c].more = FALSE
<1> DEFINE x == [NewXport EXCEPT !.state = "open", !.pc = "poll"]
<1>1. "poll" \in ReaderPcs
  BY DEF ReaderPcs
<1>2. x \in Xport /\ x.state = "open" /\ x.pc = "poll" /\ x.more = FALSE
  BY <1>1, NewXportType, NewXportFields DEF Xport
<1>3. xport' = [xport EXCEPT ![c] = x]
  BY DEF OpenXport
<1> HIDE DEF x
<1> QED
  BY <1>2, <1>3, SetXport

\* The handle of a client, which no property looks at.
LEMMA HandleStep ==
  ASSUME TypeOK, NEW c \in Handles, clnt' = [clnt EXCEPT ![c].handle = TRUE]
  PROVE  /\ clnt' \in [Handles -> Client] /\ KeepsClient(c)
         /\ clnt'[c].ref_count = clnt[c].ref_count
<1> DEFINE x == [clnt[c] EXCEPT !.handle = TRUE]
<1>1. clnt[c] \in Client
  BY ClientElements
<1>2. clnt' = [clnt EXCEPT ![c] = x]
  OBVIOUS
<1>3. /\ x \in Client /\ x.alive = clnt[c].alive /\ x.server_addr = clnt[c].server_addr
      /\ x.addr_valid = clnt[c].addr_valid /\ x.ext_signal = clnt[c].ext_signal
      /\ x.err_cb = clnt[c].err_cb /\ x.err_pending = clnt[c].err_pending
      /\ x.release_cb = clnt[c].release_cb /\ x.waiter = clnt[c].waiter
      /\ x.ref_count = clnt[c].ref_count
  BY <1>1 DEF Client
<1> HIDE DEF x
<1>4. clnt' \in [Handles -> Client] /\ OnlyClient(c) /\ clnt'[c] = x
  BY <1>2, <1>3, SetClient
<1> QED
  BY <1>3, <1>4 DEF KeepsClient

\* The transport of a client is opened.
LEMMA OpenClientEffect ==
  ASSUME Inv, NEW t \in Threads, OpenClient(t)
  PROVE  /\ th[t].pc = "open"
         /\ th' \in [Threads -> Thread] /\ Others(t) /\ KeepsHandles(t)
         /\ th'[t].pc = "lookup" /\ th'[t].rc = th[t].rc /\ th'[t].after = th[t].after
         /\ th'[t].s = th[t].s
         /\ clnt' \in [Handles -> Client] /\ KeepsClient(th[t].c)
         /\ clnt'[th[t].c].ref_count = clnt[th[t].c].ref_count
         /\ xport' \in [Handles -> Xport] /\ OnlyXport(th[t].c)
         /\ xport'[th[t].c].state = "open" /\ xport'[th[t].c].pc = "poll"
         /\ xport'[th[t].c].more = FALSE
         /\ UNCHANGED <<table, next_clid, os_params, released, up, known, left, hist>>
<1> TypeOK /\ th[t].c \in Handles /\ clnt[th[t].c].ref_count > 1
  BY HeldTwice DEF Inv, OpenClient, At
<1> DEFINE r == [th[t] EXCEPT !.pc = "lookup", !.n = 0]
<1>1. th[t] \in Thread /\ "lookup" \in ThreadPcs
  BY ThreadElements DEF ThreadPcs
<1>2. r \in Thread
  BY <1>1 DEF Thread
<1>3. /\ r.pc = "lookup" /\ r.c = th[t].c /\ r.after = th[t].after /\ r.notifier = th[t].notifier
      /\ r.user = th[t].user /\ r.call = th[t].call /\ r.release = th[t].release
      /\ r.rc = th[t].rc /\ r.s = th[t].s
  BY <1>1 DEF Thread
<1>4. th' = [th EXCEPT ![t] = r]
  BY DEF OpenClient
<1> HIDE DEF r
<1>5. th' \in [Threads -> Thread] /\ Others(t) /\ th'[t] = r
  BY <1>2, <1>4, SetThread
<1>6. OpenXport(th[t].c) /\ clnt' = [clnt EXCEPT ![th[t].c].handle = TRUE]
  BY DEF OpenClient
<1> QED
  BY <1>3, <1>5, <1>6, OpenXportStep, HandleStep DEF OpenClient, At, KeepsHandles

\* The transport of a notifier is opened.
LEMMA OpenNotifierEffect ==
  ASSUME Inv, NEW t \in Threads, OpenNotifier(t)
  PROVE  /\ th[t].pc = "n_open"
         /\ th' \in [Threads -> Thread] /\ Goes(t, "n_lookup") /\ th'[t].rc = th[t].rc
         /\ clnt' \in [Handles -> Client] /\ KeepsClient(th[t].c)
         /\ clnt'[th[t].c].ref_count = clnt[th[t].c].ref_count
         /\ xport' \in [Handles -> Xport] /\ OnlyXport(th[t].c)
         /\ xport'[th[t].c].state = "open" /\ xport'[th[t].c].pc = "poll"
         /\ xport'[th[t].c].more = FALSE
         /\ UNCHANGED <<table, next_clid, os_params, released, up, known, left, hist>>
<1> TypeOK /\ th[t].c \in Handles /\ clnt[th[t].c].ref_count > 1
  BY HeldTwice DEF Inv, OpenNotifier, At
<1>1. "n_lookup" \in ThreadPcs
  BY DEF ThreadPcs
<1>2. th' \in [Threads -> Thread] /\ Goes(t, "n_lookup") /\ th'[t].rc = th[t].rc
  BY <1>1, GoStep DEF OpenNotifier
<1>3. OpenXport(th[t].c) /\ clnt' = [clnt EXCEPT ![th[t].c].handle = TRUE]
  BY DEF OpenNotifier
<1> QED
  BY <1>2, <1>3, OpenXportStep, HandleStep DEF OpenNotifier, At

\* The look-up of the server.
LEMMA RedoLookupEffect ==
  ASSUME Inv, NEW t \in Threads, RedoLookup(t)
  PROVE  /\ th[t].pc = "lookup"
         /\ th' \in [Threads -> Thread] /\ Others(t) /\ KeepsHandles(t)
         /\ th'[t].after = th[t].after /\ th'[t].s = th[t].s
         /\ \/ th'[t].pc = "lookup" /\ th'[t].rc = th[t].rc
            \/ th'[t].pc = "close" /\ th'[t].rc = "internal"
            \/ th'[t].pc = "put" /\ th'[t].rc = "ok" /\ th[t].s \in up
            \/ th'[t].pc = "close" /\ th'[t].rc = "service"
         /\ left'.regs = left.regs
         /\ left' \in Budget
         /\ UNCHANGED <<clnt, table, next_clid, xport, os_params, released, up, known, hist>>
<1> TypeOK
  BY DEF Inv
<1> DEFINE r1 == [th[t] EXCEPT !.n = Cardinality(up)]
           r2 == [th[t] EXCEPT !.n = 0, !.rc = "internal", !.pc = "close"]
           r3 == [th[t] EXCEPT !.n = 0, !.rc = "ok", !.pc = "put"]
           r4 == [th[t] EXCEPT !.n = 0, !.rc = "service", !.pc = "close"]
           K(r) == /\ r \in Thread
                   /\ r.c = th[t].c /\ r.after = th[t].after /\ r.notifier = th[t].notifier
                   /\ r.user = th[t].user /\ r.call = th[t].call /\ r.release = th[t].release
                   /\ r.s = th[t].s
<1>1. th[t] \in Thread /\ {"close", "put"} \subseteq ThreadPcs /\ Cardinality(up) \in Nat
  BY ThreadElements, FS_Subset, FS_CardinalityType, ClientAssumption DEF ThreadPcs, TypeOK
<1>2. K(r1) /\ r1.pc = th[t].pc /\ r1.rc = th[t].rc
  BY <1>1 DEF Thread
<1>3. K(r2) /\ r2.pc = "close" /\ r2.rc = "internal"
  BY <1>1 DEF Thread
<1>4. K(r3) /\ r3.pc = "put" /\ r3.rc = "ok"
  BY <1>1 DEF Thread
<1>5. K(r4) /\ r4.pc = "close" /\ r4.rc = "service"
  BY <1>1 DEF Thread
<1>6. \/ th' = [th EXCEPT ![t] = r1]
      \/ th' = [th EXCEPT ![t] = r2]
      \/ th[t].s \in up /\ th' = [th EXCEPT ![t] = r3]
      \/ th[t].s \notin up /\ th' = [th EXCEPT ![t] = r4]
  BY DEF RedoLookup
<1>7. left' = left \/ (left.events > 0 /\ left' = [left EXCEPT !.events = @ - 1])
  BY DEF RedoLookup
<1>8. /\ left'.regs = left.regs
      /\ left' \in Budget
  BY <1>7, ClientAssumption DEF TypeOK, Budget
<1> HIDE DEF r1, r2, r3, r4
<1>9. \E r \in {r1, r2, r3, r4} : th' = [th EXCEPT ![t] = r] /\ K(r)
  BY <1>2, <1>3, <1>4, <1>5, <1>6
<1>10. th' \in [Threads -> Thread] /\ Others(t) /\ th'[t] \in Thread /\ K(th'[t])
  BY <1>9, SetThread
<1>11. \/ th'[t] = r1
       \/ th'[t] = r2
       \/ th[t].s \in up /\ th'[t] = r3
       \/ th[t].s \notin up /\ th'[t] = r4
  BY <1>6, <1>1 DEF TypeOK
<1> QED
  BY <1>2, <1>3, <1>4, <1>5, <1>8, <1>10, <1>11 DEF RedoLookup, At, KeepsHandles

\* The reader is told to end.
LEMMA CloseXportEffect ==
  ASSUME Inv, NEW t \in Threads, CloseXport(t)
  PROVE  /\ th[t].pc = "close"
         /\ th' \in [Threads -> Thread] /\ Goes(t, "join") /\ th'[t].rc = th[t].rc
         /\ xport' \in [Handles -> Xport] /\ OnlyXport(th[t].c)
         /\ xport'[th[t].c].state = xport[th[t].c].state
         /\ xport'[th[t].c].pc = xport[th[t].c].pc
         /\ xport'[th[t].c].ctl = xport[th[t].c].ctl
         /\ xport'[th[t].c].more = xport[th[t].c].more
         /\ xport'[th[t].c].cb = xport[th[t].c].cb
         /\ xport'[th[t].c].died = xport[th[t].c].died
         /\ UNCHANGED <<clnt, table, next_clid, os_params, released, up, known, left, hist>>
<1> TypeOK /\ th[t].c \in Handles /\ clnt[th[t].c].ref_count > 1
  BY HeldTwice DEF Inv, CloseXport, At
<1>1. "join" \in ThreadPcs
  BY DEF ThreadPcs
<1>2. th' \in [Threads -> Thread] /\ Goes(t, "join") /\ th'[t].rc = th[t].rc
  BY <1>1, GoStep DEF CloseXport
<1> DEFINE x == [xport[th[t].c] EXCEPT !.wakeup = TRUE]
<1>3. xport[th[t].c] \in Xport
  BY XportElements
<1>4. /\ x \in Xport /\ x.state = xport[th[t].c].state /\ x.pc = xport[th[t].c].pc
      /\ x.ctl = xport[th[t].c].ctl /\ x.more = xport[th[t].c].more
      /\ x.cb = xport[th[t].c].cb /\ x.died = xport[th[t].c].died
  BY <1>3 DEF Xport
<1>5. xport' = [xport EXCEPT ![th[t].c] = x]
  BY DEF CloseXport
<1> HIDE DEF x
<1>6. xport' \in [Handles -> Xport] /\ OnlyXport(th[t].c) /\ xport'[th[t].c] = x
  BY <1>4, <1>5, SetXport
<1> QED
  BY <1>2, <1>4, <1>6 DEF CloseXport, At

\* Looking for a server, and waiting for one.
LEMMA CountServersEffect ==
  ASSUME Inv, NEW t \in Threads, CountServers(t)
  PROVE  /\ th[t].pc = "count"
         /\ th' \in [Threads -> Thread] /\ Others(t) /\ KeepsHandles(t)
         /\ th'[t].after = th[t].after /\ th'[t].rc = th[t].rc
         /\ \/ th'[t].pc = "list"
            \/ th[t].call = "first" /\ th'[t].pc = "notifier"
            \/ th[t].call # "first" /\ th'[t].pc = "wait"
         /\ UNCHANGED <<clnt, table, next_clid, xport, os_params, released, up, known, left, hist>>
<1> TypeOK
  BY DEF Inv
<1> DEFINE z == IF up = {} THEN NotFound(t) ELSE "list"
           r == [th[t] EXCEPT !.n = Cardinality(up), !.pc = z]
<1>1. th[t] \in Thread /\ Cardinality(up) \in Nat
  BY ThreadElements, FS_Subset, FS_CardinalityType, ClientAssumption DEF TypeOK
<1>2. /\ z \in ThreadPcs
      /\ \/ z = "list"
         \/ th[t].call = "first" /\ z = "notifier"
         \/ th[t].call # "first" /\ z = "wait"
  BY DEF ThreadPcs, NotFound
<1>3. th' = [th EXCEPT ![t] = r]
  BY DEF CountServers
<1> HIDE DEF z
<1>4. /\ r \in Thread
      /\ r.c = th[t].c /\ r.after = th[t].after /\ r.notifier = th[t].notifier
      /\ r.user = th[t].user /\ r.call = th[t].call /\ r.release = th[t].release
      /\ r.rc = th[t].rc /\ r.pc = z
  BY <1>1, <1>2 DEF Thread
<1> HIDE DEF r
<1>5. th' \in [Threads -> Thread] /\ Others(t) /\ th'[t] = r
  BY <1>3, <1>4, SetThread
<1> QED
  BY <1>2, <1>4, <1>5 DEF CountServers, At, KeepsHandles

\* Where qmi_client_init_instance goes on when there is no server.
LEMMA NotFoundStep ==
  ASSUME TypeOK, NEW t \in Threads, Go(t, NotFound(t))
  PROVE  /\ th' \in [Threads -> Thread] /\ th'[t].rc = th[t].rc
         /\ \/ th[t].call = "first" /\ Goes(t, "notifier")
            \/ th[t].call # "first" /\ Goes(t, "wait")
<1>1. {"notifier", "wait"} \subseteq ThreadPcs
  BY DEF ThreadPcs
<1>2. CASE th[t].call = "first"
  <2>1. Go(t, "notifier")
    BY <1>2 DEF NotFound
  <2> QED
    BY <1>1, <1>2, <2>1, GoStep
<1>3. CASE th[t].call # "first"
  <2>1. Go(t, "wait")
    BY <1>3 DEF NotFound
  <2> QED
    BY <1>1, <1>3, <2>1, GoStep
<1> QED
  BY <1>2, <1>3

\* The servers are listed.
LEMMA ListServersEffect ==
  ASSUME Inv, NEW t \in Threads, ListServers(t)
  PROVE  /\ th[t].pc = "list"
         /\ th' \in [Threads -> Thread] /\ th'[t].rc = th[t].rc
         /\ \/ th[t].call = "first" /\ Goes(t, "notifier")
            \/ th[t].call # "first" /\ Goes(t, "wait")
            \/ /\ Others(t) /\ KeepsHandles(t)
               /\ th'[t].pc = "alloc" /\ th'[t].after = th[t].after
               /\ th'[t].s \in Servers
         /\ UNCHANGED <<clnt, table, next_clid, xport, os_params, released, up, known, left, hist>>
<1> TypeOK
  BY DEF Inv
<1>1. CASE Go(t, NotFound(t))
  BY <1>1, NotFoundStep DEF ListServers, At
<1>2. CASE \E s \in Servers : th' = [th EXCEPT ![t].n = 0, ![t].s = s, ![t].pc = "alloc"]
  <2>1. PICK s \in Servers : th' = [th EXCEPT ![t].n = 0, ![t].s = s, ![t].pc = "alloc"]
    BY <1>2
  <2> DEFINE r == [th[t] EXCEPT !.n = 0, !.s = s, !.pc = "alloc"]
  <2>2. th[t] \in Thread /\ "alloc" \in ThreadPcs
    BY ThreadElements DEF ThreadPcs
  <2>3. /\ r \in Thread
        /\ r.c = th[t].c /\ r.after = th[t].after /\ r.notifier = th[t].notifier
        /\ r.user = th[t].user /\ r.call = th[t].call /\ r.release = th[t].release
        /\ r.rc = th[t].rc /\ r.pc = "alloc" /\ r.s = s
    BY <2>2 DEF Thread
  <2>4. th' = [th EXCEPT ![t] = r]
    BY <2>1
  <2> HIDE DEF r
  <2>5. th' \in [Threads -> Thread] /\ Others(t) /\ th'[t] = r
    BY <2>3, <2>4, SetThread
  <2> QED
    BY <2>3, <2>5 DEF ListServers, At, KeepsHandles
<1>3. up \cap Wanted \subseteq Servers
  BY DEF TypeOK
<1> QED
  BY <1>1, <1>2, <1>3 DEF ListServers

\* The signal of the notifier is cleared.
LEMMA ClearSignalEffect ==
  ASSUME Inv, NEW t \in Threads, ClearSignal(t)
  PROVE  /\ th[t].pc = "clear"
         /\ th' \in [Threads -> Thread] /\ Goes(t, "count") /\ th'[t].rc = th[t].rc
         /\ os_params' \in [Threads -> BOOLEAN]
         /\ UNCHANGED <<clnt, table, next_clid, xport, released, up, known, left, hist>>
<1> TypeOK
  BY DEF Inv
<1>1. "count" \in ThreadPcs
  BY DEF ThreadPcs
<1>2. os_params' \in [Threads -> BOOLEAN]
  BY DEF ClearSignal, TypeOK
<1> QED
  BY <1>1, <1>2, GoStep DEF ClearSignal, At

\* The signal of the notifier is set.
LEMMA WaitForServerEffect ==
  ASSUME Inv, NEW t \in Threads, WaitForServer(t)
  PROVE  /\ th[t].pc = "wait"
         /\ th' \in [Threads -> Thread] /\ Goes(t, "clear") /\ th'[t].rc = th[t].rc
         /\ UNCHANGED <<clnt, table, next_clid, xport, os_params, released, up, known, left, hist>>
<1> TypeOK
  BY DEF Inv
<1>1. "clear" \in ThreadPcs
  BY DEF ThreadPcs
<1> QED
  BY <1>1, GoStep DEF WaitForServer, At

\* The notifier is released, with a client or without.
HandsOver(t, h) ==
  /\ Others(t)
  /\ th'[t].pc = "rel_get" /\ th'[t].after = "idle" /\ th'[t].call = "none"
  /\ th'[t].release = "sync" /\ th'[t].rc = "none"
  /\ th'[t].c = th[t].notifier /\ th'[t].notifier = NULL /\ th'[t].user = h

\* The record of a thread that begins to release its notifier.
LEMMA HandsOverStep ==
  ASSUME TypeOK, NEW t \in Threads, NEW k, ReleaseNotifier(t, k)
  PROVE  /\ th' \in [Threads -> Thread]
         /\ k = "ok" => HandsOver(t, th[t].c)
         /\ k # "ok" => HandsOver(t, NULL)
<1> DEFINE z == IF k = "ok" THEN th[t].c ELSE NULL
           r == [NewThread EXCEPT !.pc = "rel_get", !.release = "sync", !.c = th[t].notifier,
                                  !.user = z]
<1>1. /\ "rel_get" \in ThreadPcs /\ z \in Handles \cup {NULL}
      /\ th[t].notifier \in Handles \cup {NULL}
  BY ThreadElements DEF ThreadPcs, Thread
<1>2. (k = "ok" => z = th[t].c) /\ (k # "ok" => z = NULL)
  OBVIOUS
<1>3. th' = [th EXCEPT ![t] = r]
  BY DEF ReleaseNotifier
<1> HIDE DEF z
<1>4. r \in Thread
  BY <1>1, NewThreadType DEF Thread
<1>5. /\ r.pc = "rel_get" /\ r.after = "idle" /\ r.call = "none" /\ r.release = "sync"
      /\ r.rc = "none" /\ r.c = th[t].notifier /\ r.notifier = NULL /\ r.user = z
  BY NewThreadFields, NewThreadType, <1>1 DEF Thread
<1> HIDE DEF r
<1>6. th' \in [Threads -> Thread] /\ Others(t) /\ th'[t] = r
  BY <1>3, <1>4, SetThread
<1> QED
  BY <1>2, <1>5, <1>6 DEF HandsOver

\* The wait for a server ends.
LEMMA TimeOutEffect ==
  ASSUME Inv, NEW t \in Threads, TimeOut(t)
  PROVE  /\ th[t].pc = "wait"
         /\ th' \in [Threads -> Thread] /\ HandsOver(t, NULL)
         /\ UNCHANGED <<clnt, table, next_clid, xport, os_params, released, up, known, left, hist>>
<1> TypeOK
  BY DEF Inv
<1> QED
  BY HandsOverStep DEF TimeOut, At

\* A function returns to the application.
LEMMA ReturnStep ==
  ASSUME TypeOK, NEW t \in Threads, NEW h \in Handles \cup {NULL}, Return(t, h)
  PROVE  /\ th' \in [Threads -> Thread] /\ Leaves(t)
         /\ known' \subseteq Handles
         /\ \/ h = NULL /\ known' = known
            \/ h # NULL /\ known' = known \cup {h}
         /\ os_params' \in [Threads -> BOOLEAN] /\ released' \in [Threads -> BOOLEAN]
         /\ \A u \in Threads \ {t} : released'[u] = released[u]
<1>1. th' \in [Threads -> Thread] /\ Leaves(t)
  BY NewThreadType, SetThread DEF Return, Leaves
<1> QED
  BY <1>1 DEF Return, TypeOK, NULL

\* qmi_client_init returns to the application, or to qmi_client_init_instance.
LEMMA ReturnInitEffect ==
  ASSUME Inv, NEW t \in Threads, ReturnInit(t)
  PROVE  /\ th[t].pc = "returned"
         /\ th' \in [Threads -> Thread]
         /\ known' \subseteq Handles
         /\ os_params' \in [Threads -> BOOLEAN] /\ released' \in [Threads -> BOOLEAN]
         /\ \A u \in Threads \ {t} : released'[u] = released[u]
         /\ \/ /\ th[t].rc = "service" /\ th[t].call = "first" /\ Goes(t, "notifier")
               /\ th'[t].rc = th[t].rc
               /\ known' = known /\ released' = released
            \/ /\ th[t].rc = "service" /\ th[t].call \notin {"first", "init"} /\ Goes(t, "wait")
               /\ th'[t].rc = th[t].rc
               /\ known' = known /\ released' = released
            \/ /\ th[t].call = "loop" /\ th[t].rc = "ok" /\ HandsOver(t, th[t].c)
               /\ known' = known /\ released' = released
            \/ /\ th[t].call = "loop" /\ th[t].rc # "ok" /\ HandsOver(t, NULL)
               /\ known' = known /\ released' = released
            \/ /\ th[t].call # "loop" /\ th[t].rc = "ok" /\ Leaves(t) /\ th[t].c # NULL
               /\ known' = known \cup {th[t].c}
            \/ /\ th[t].call # "loop" /\ th[t].rc = "ok" /\ Leaves(t) /\ th[t].c = NULL
               /\ known' = known
            \/ /\ th[t].call # "loop" /\ th[t].rc # "ok" /\ Leaves(t)
               /\ known' = known
         /\ UNCHANGED <<clnt, table, next_clid, xport, up, left, hist>>
<1> TypeOK
  BY DEF Inv
<1>1. th[t].pc = "returned" /\ UNCHANGED <<clnt, table, next_clid, xport, up, left, hist>>
  BY DEF ReturnInit, At
<1>2. /\ known \subseteq Handles /\ os_params \in [Threads -> BOOLEAN]
      /\ released \in [Threads -> BOOLEAN] /\ th[t].c \in Handles \cup {NULL}
  BY ThreadElements DEF TypeOK, Thread
<1>3. CASE /\ th[t].rc = "service" /\ th[t].call # "init"
           /\ Go(t, NotFound(t)) /\ UNCHANGED <<known, os_params, released>>
  BY <1>1, <1>2, <1>3, NotFoundStep
<1>4. CASE /\ th[t].call = "loop" /\ ReleaseNotifier(t, th[t].rc)
           /\ UNCHANGED <<known, os_params, released>>
  <2>1. PICK k : k = th[t].rc
    OBVIOUS
  <2>2. ReleaseNotifier(t, k)
    BY <1>4, <2>1 DEF ReleaseNotifier
  <2> QED
    BY <1>1, <1>2, <1>4, <2>1, <2>2, HandsOverStep
<1>5. CASE /\ th[t].call # "loop"
           /\ Return(t, IF th[t].rc = "ok" THEN th[t].c ELSE NULL)
  <2>1. PICK h \in Handles \cup {NULL} : h = IF th[t].rc = "ok" THEN th[t].c ELSE NULL
    BY <1>2
  <2>2. Return(t, h)
    BY <1>5, <2>1 DEF Return
  <2> QED
    BY <1>1, <1>5, <2>1, <2>2, ReturnStep
<1> QED
  BY <1>3, <1>4, <1>5 DEF ReturnInit

\* A release returns, with the client that qmi_client_init_instance hands over, if any.
HandsBack(t) ==
  /\ Leaves(t)
  /\ known' = known \cup ({th[t].user} \ {NULL})

\* The record of a thread whose release returns.
LEMMA ReleaseDoneStep ==
  ASSUME TypeOK, NEW t \in Threads, ReleaseDone(t)
  PROVE  /\ th' \in [Threads -> Thread] /\ HandsBack(t)
         /\ known' \subseteq Handles
         /\ os_params' \in [Threads -> BOOLEAN] /\ released' \in [Threads -> BOOLEAN]
         /\ \A u \in Threads \ {t} : released'[u] = released[u]
<1>1. PICK h \in Handles \cup {NULL} : h = th[t].user
  BY ThreadElements DEF Thread
<1>2. Return(t, h)
  BY <1>1 DEF ReleaseDone, Return
<1> QED
  BY <1>1, <1>2, ReturnStep DEF HandsBack

\* qmi_client_release takes a reference, or finds no client.
LEMMA ReleaseGetEffect ==
  ASSUME Inv, NEW t \in Threads, ReleaseGet(t)
  PROVE  /\ th[t].pc = "rel_get"
         /\ th' \in [Threads -> Thread] /\ clnt' \in [Handles -> Client]
         /\ known' \subseteq Handles
         /\ os_params' \in [Threads -> BOOLEAN] /\ released' \in [Threads -> BOOLEAN]
         /\ \A u \in Threads \ {t} : released'[u] = released[u]
         /\ \/ /\ th[t].c \in table /\ Gains(th[t].c) /\ Goes(t, "rel_put")
               /\ th'[t].rc = th[t].rc /\ ~released'[t] /\ known' = known
            \/ /\ th[t].c \notin table /\ HandsBack(t) /\ clnt' = clnt
         /\ UNCHANGED <<table, next_clid, xport, up, left, hist>>
<1> TypeOK /\ th[t].c \in Handles
  BY ThreadElements DEF Inv, ReleaseGet, At, ShapeInv, Shape, Thread, ReleasePcs
<1>1. th[t].pc = "rel_get" /\ UNCHANGED <<table, next_clid, xport, up, left, hist>>
  BY DEF ReleaseGet, At
<1>2. /\ known \subseteq Handles /\ os_params \in [Threads -> BOOLEAN]
      /\ released \in [Threads -> BOOLEAN] /\ clnt \in [Handles -> Client]
      /\ "rel_put" \in ThreadPcs
  BY DEF TypeOK, ThreadPcs
<1>3. CASE th[t].c \in table
  <2>1. /\ clnt' = [clnt EXCEPT ![th[t].c].ref_count = GetRef(th[t].c)]
        /\ Go(t, "rel_put")
        /\ released' = [released EXCEPT ![t] = FALSE] /\ known' = known /\ os_params' = os_params
    BY <1>3 DEF ReleaseGet
  <2>2. clnt' \in [Handles -> Client] /\ Gains(th[t].c)
    BY <2>1, GetRefStep
  <2>3. th' \in [Threads -> Thread] /\ Goes(t, "rel_put") /\ th'[t].rc = th[t].rc
    BY <1>2, <2>1, GoStep
  <2> QED
    BY <1>1, <1>2, <1>3, <2>1, <2>2, <2>3
<1>4. CASE th[t].c \notin table
  <2>1. ReleaseDone(t) /\ clnt' = clnt
    BY <1>4 DEF ReleaseGet
  <2> QED
    BY <1>1, <1>2, <1>4, <2>1, ReleaseDoneStep
<1> QED
  BY <1>3, <1>4

\* qmi_client_release_async unlinks the client, or finds none.
LEMMA ReleaseAsyncEffect ==
  ASSUME Inv, NEW t \in Threads, ReleaseAsync(t)
  PROVE  /\ th[t].pc = "rel_async"
         /\ th' \in [Threads -> Thread] /\ clnt' \in [Handles -> Client]
         /\ known' \subseteq Handles
         /\ os_params' \in [Threads -> BOOLEAN] /\ released' \in [Threads -> BOOLEAN]
         /\ \A u \in Threads \ {t} : released'[u] = released[u]
         /\ \/ /\ th[t].c \in table /\ Gains(th[t].c) /\ Goes(t, "shut")
               /\ th'[t].rc = th[t].rc /\ released' = released /\ known' = known
               /\ table' = table \ {th[t].c}
            \/ /\ th[t].c \notin table /\ HandsBack(t) /\ clnt' = clnt /\ table' = table
         /\ UNCHANGED <<next_clid, xport, up, left, hist>>
<1> TypeOK /\ th[t].c \in Handles
  BY ThreadElements DEF Inv, ReleaseAsync, At, ShapeInv, Shape, Thread, ReleasePcs
<1>1. th[t].pc = "rel_async" /\ UNCHANGED <<next_clid, xport, up, left, hist>>
  BY DEF ReleaseAsync, At
<1>2. /\ known \subseteq Handles /\ os_params \in [Threads -> BOOLEAN]
      /\ released \in [Threads -> BOOLEAN] /\ clnt \in [Handles -> Client]
      /\ "shut" \in ThreadPcs
  BY DEF TypeOK, ThreadPcs
<1>3. CASE th[t].c \in table
  <2>1. /\ clnt' = [clnt EXCEPT ![th[t].c].ref_count = GetRef(th[t].c)]
        /\ Go(t, "shut") /\ table' = table \ {th[t].c}
        /\ released' = released /\ known' = known /\ os_params' = os_params
    BY <1>3 DEF ReleaseAsync
  <2>2. clnt' \in [Handles -> Client] /\ Gains(th[t].c)
    BY <2>1, GetRefStep
  <2>3. th' \in [Threads -> Thread] /\ Goes(t, "shut") /\ th'[t].rc = th[t].rc
    BY <1>2, <2>1, GoStep
  <2> QED
    BY <1>1, <1>2, <1>3, <2>1, <2>2, <2>3
<1>4. CASE th[t].c \notin table
  <2>1. ReleaseDone(t) /\ clnt' = clnt /\ table' = table
    BY <1>4 DEF ReleaseAsync
  <2> QED
    BY <1>1, <1>2, <1>4, <2>1, ReleaseDoneStep
<1> QED
  BY <1>3, <1>4

\* The client has been freed, and qmi_client_release returns.
LEMMA AwaitReleaseEffect ==
  ASSUME Inv, NEW t \in Threads, AwaitRelease(t)
  PROVE  /\ th[t].pc = "rel_wait" /\ released[t]
         /\ th' \in [Threads -> Thread] /\ HandsBack(t)
         /\ known' \subseteq Handles
         /\ os_params' \in [Threads -> BOOLEAN] /\ released' \in [Threads -> BOOLEAN]
         /\ \A u \in Threads \ {t} : released'[u] = released[u]
         /\ UNCHANGED <<clnt, table, next_clid, xport, up, left, hist>>
<1> TypeOK
  BY DEF Inv
<1> QED
  BY ReleaseDoneStep DEF AwaitRelease, At

\* The client is shut: its release callback is set.
LEMMA ShutEffect ==
  ASSUME Inv, NEW t \in Threads, Shut(t)
  PROVE  /\ th[t].pc = "shut"
         /\ th' \in [Threads -> Thread] /\ Goes(t, "close") /\ th'[t].rc = th[t].rc
         /\ clnt' \in [Handles -> Client] /\ OnlyClient(th[t].c)
         /\ \/ th[t].release = "sync" /\ clnt'[th[t].c].release_cb = "internal"
                 /\ clnt'[th[t].c].waiter = t
            \/ th[t].release # "sync" /\ clnt'[th[t].c].release_cb = "app"
         /\ clnt'[th[t].c].alive = clnt[th[t].c].alive
         /\ clnt'[th[t].c].ref_count = clnt[th[t].c].ref_count
         /\ clnt'[th[t].c].server_addr = clnt[th[t].c].server_addr
         /\ clnt'[th[t].c].addr_valid = clnt[th[t].c].addr_valid
         /\ clnt'[th[t].c].ext_signal = clnt[th[t].c].ext_signal
         /\ clnt'[th[t].c].err_cb = clnt[th[t].c].err_cb
         /\ clnt'[th[t].c].err_pending = clnt[th[t].c].err_pending
         /\ UNCHANGED <<table, next_clid, xport, os_params, released, up, known, left, hist>>
<1> TypeOK /\ th[t].c \in Handles /\ clnt[th[t].c].ref_count > 1
  BY HeldTwice DEF Inv, Shut, At
<1>1. "close" \in ThreadPcs
  BY DEF ThreadPcs
<1>2. th' \in [Threads -> Thread] /\ Goes(t, "close") /\ th'[t].rc = th[t].rc
  BY <1>1, GoStep DEF Shut
<1> DEFINE cb == IF th[t].release = "sync" THEN "internal" ELSE "app"
           w == IF th[t].release = "sync" THEN t ELSE NoThread
           x == [clnt[th[t].c] EXCEPT !.accepting = FALSE, !.handle = FALSE, !.release_cb = cb,
                                      !.waiter = w]
<1>3. /\ cb \in {"app", "internal"} /\ w \in Threads \cup {NoThread}
      /\ \/ th[t].release = "sync" /\ cb = "internal" /\ w = t
         \/ th[t].release # "sync" /\ cb = "app"
  OBVIOUS
<1>4. clnt' = [clnt EXCEPT ![th[t].c] = x]
  BY DEF Shut
<1> HIDE DEF cb, w
<1>5. clnt[th[t].c] \in Client
  BY ClientElements
<1>6. /\ x \in Client /\ x.alive = clnt[th[t].c].alive /\ x.release_cb = cb /\ x.waiter = w
      /\ x.ref_count = clnt[th[t].c].ref_count /\ x.server_addr = clnt[th[t].c].server_addr
      /\ x.addr_valid = clnt[th[t].c].addr_valid /\ x.ext_signal = clnt[th[t].c].ext_signal
      /\ x.err_pending = clnt[th[t].c].err_pending /\ x.err_cb = clnt[th[t].c].err_cb
  BY <1>3, <1>5 DEF Client
<1> HIDE DEF x
<1>7. clnt' \in [Handles -> Client] /\ OnlyClient(th[t].c) /\ clnt'[th[t].c] = x
  BY <1>4, <1>6, SetClient
<1> QED
  BY <1>2, <1>3, <1>6, <1>7 DEF Shut, At

\* The client is freed, its release callback runs.
LEMMA FreeEffect ==
  ASSUME Inv, NEW t \in Threads, Free(t)
  PROVE  /\ th[t].pc = "free"
         /\ th' \in [Threads -> Thread]
         /\ \/ th[t].after = "idle" /\ Leaves(t)
            \/ th[t].after # "idle" /\ Goes(t, th[t].after) /\ th'[t].rc = th[t].rc
         /\ clnt' \in [Handles -> Client] /\ OnlyClient(th[t].c) /\ clnt'[th[t].c] = NewClient
         /\ table' = table \ {th[t].c}
         /\ hist'.released \in [Handles -> Nat]
         /\ \A d \in Handles \ {th[t].c} : hist'.released[d] = hist.released[d]
         /\ \/ clnt[th[t].c].release_cb = "none"
                 /\ hist'.released[th[t].c] = hist.released[th[t].c]
            \/ clnt[th[t].c].release_cb # "none"
                 /\ hist'.released[th[t].c] = hist.released[th[t].c] + 1
         /\ hist'.heard = hist.heard /\ hist'.reg = hist.reg
         /\ DOMAIN hist' = DOMAIN hist
         /\ hist' \in History
         /\ released' \in [Threads -> BOOLEAN]
         /\ \/ clnt[th[t].c].release_cb # "internal" /\ released' = released
            \/ /\ clnt[th[t].c].release_cb = "internal"
               /\ \A u \in Threads \ {clnt[th[t].c].waiter} : released'[u] = released[u]
         /\ UNCHANGED <<next_clid, xport, os_params, up, known, left>>
<1> TypeOK /\ th[t].c \in Handles
  BY ThreadElements DEF Inv, Free, At, ShapeInv, Shape, Thread
<1> clnt[th[t].c].release_cb = "internal" => clnt[th[t].c].waiter \in Threads
  BY DEF Inv, Free, At, FreeInv, WaiterInv
<1>1. th[t].after \in ThreadPcs /\ th[t] \in Thread
  BY ThreadElements DEF Thread
<1>2. /\ th' \in [Threads -> Thread]
      /\ \/ th[t].after = "idle" /\ Leaves(t)
         \/ th[t].after # "idle" /\ Goes(t, th[t].after) /\ th'[t].rc = th[t].rc
  <2>1. PICK pc \in ThreadPcs : pc = th[t].after
    BY <1>1
  <2>2. Go(t, pc)
    BY <2>1 DEF Free, Go
  <2> QED
    BY <2>1, <2>2, GoStep
<1>3. clnt' \in [Handles -> Client] /\ OnlyClient(th[t].c) /\ clnt'[th[t].c] = NewClient
  BY NewClientType, SetClient DEF Free
<1>4. /\ hist'.released \in [Handles -> Nat]
      /\ \A d \in Handles \ {th[t].c} : hist'.released[d] = hist.released[d]
      /\ \/ clnt[th[t].c].release_cb = "none"
              /\ hist'.released[th[t].c] = hist.released[th[t].c]
         \/ clnt[th[t].c].release_cb # "none"
              /\ hist'.released[th[t].c] = hist.released[th[t].c] + 1
      /\ hist'.heard = hist.heard /\ hist'.reg = hist.reg /\ DOMAIN hist' = DOMAIN hist
      /\ hist' \in History
  BY DEF Free, TypeOK, History
<1>5. /\ released' \in [Threads -> BOOLEAN]
      /\ \/ clnt[th[t].c].release_cb # "internal" /\ released' = released
         \/ /\ clnt[th[t].c].release_cb = "internal"
            /\ \A u \in Threads \ {clnt[th[t].c].waiter} : released'[u] = released[u]
  BY DEF Free, TypeOK
<1> QED
  BY <1>2, <1>3, <1>4, <1>5 DEF Free, At

-----------------------------------------------------------------------------
(* The reader threads and the router. *)

\* What a step of the reader thread of c leaves alone.
Reads(c) ==
  /\ OnlyXport(c)
  /\ xport'[c].state = xport[c].state
  /\ xport[c].died => xport'[c].died

\* Where the reader goes on in its round.
LEMMA ContinueRecord ==
  ASSUME NEW x \in Xport
  PROVE  /\ Continue(x) \in Xport
         /\ Continue(x).state = x.state /\ Continue(x).ctl = x.ctl /\ Continue(x).more = x.more
         /\ Continue(x).died = x.died /\ Continue(x).cb = NULL
         /\ \/ x.more /\ Continue(x).pc = "ctl"
            \/ ~x.more /\ Continue(x).pc \in {"exited", "poll"}
<1> DEFINE pc == IF x.more THEN "ctl" ELSE IF x.last THEN "exited" ELSE "poll"
           last == x.more /\ x.last
<1>1. /\ pc \in ReaderPcs /\ last \in BOOLEAN
      /\ \/ x.more /\ pc = "ctl"
         \/ ~x.more /\ pc \in {"exited", "poll"}
  BY DEF ReaderPcs, Xport
<1>2. Continue(x) = [x EXCEPT !.pc = pc, !.cb = NULL, !.last = last]
  BY DEF Continue
<1> HIDE DEF pc, last
<1> QED
  BY <1>1, <1>2 DEF Xport

\* The callback of the reader's round is over, or there is none.
LEMMA ContinueStep ==
  ASSUME TypeOK, NEW c \in Handles, NEW x \in Xport, xport' = [xport EXCEPT ![c] = Continue(x)],
         x.state = xport[c].state, x.died = xport[c].died
  PROVE  /\ xport' \in [Handles -> Xport] /\ Reads(c)
         /\ xport'[c].ctl = x.ctl /\ xport'[c].more = x.more /\ xport'[c].died = x.died
         /\ \/ x.more /\ xport'[c].pc = "ctl"
            \/ ~x.more /\ xport'[c].pc \in {"exited", "poll"}
<1>1. PICK y \in Xport : y = Continue(x)
  BY ContinueRecord
<1>2. xport' \in [Handles -> Xport] /\ OnlyXport(c) /\ xport'[c] = y
  BY <1>1, SetXport
<1> QED
  BY <1>1, <1>2, ContinueRecord DEF Reads

\* A message on the control socket is read.
LEMMA ReadCtlEffect ==
  ASSUME Inv, NEW c \in Handles, ReadCtl(c)
  PROVE  /\ xport[c].pc \in {"ctl", "poll"} /\ xport[c].ctl # <<>>
         /\ xport' \in [Handles -> Xport] /\ Reads(c)
         /\ xport'[c].ctl = Tail(xport[c].ctl) /\ xport'[c].more = FALSE
         /\ \/ /\ Head(xport[c].ctl) = <<"remove", clnt[c].server_addr>>
               /\ xport'[c].pc = "report"
               /\ clnt' \in [Handles -> Client] /\ OnlyClient(c)
               /\ clnt'[c].addr_valid = FALSE /\ clnt'[c].server_addr = NoServer
               /\ clnt'[c].alive = clnt[c].alive /\ clnt'[c].ref_count = clnt[c].ref_count
               /\ clnt'[c].ext_signal = clnt[c].ext_signal /\ clnt'[c].err_cb = clnt[c].err_cb
               /\ clnt'[c].err_pending = clnt[c].err_pending
               /\ clnt'[c].release_cb = clnt[c].release_cb /\ clnt'[c].waiter = clnt[c].waiter
               /\ clnt[c].server_addr \in Servers
            \/ /\ Head(xport[c].ctl) # <<"remove", clnt[c].server_addr>>
               /\ xport'[c].pc \in {"exited", "poll"}
               /\ clnt' = clnt
         /\ os_params' \in [Threads -> BOOLEAN]
         /\ UNCHANGED <<table, next_clid, th, released, up, known, left, hist>>
<1> TypeOK /\ CtlInv
  BY DEF Inv
<1>1. /\ xport[c].pc \in {"ctl", "poll"} /\ xport[c].ctl # <<>>
      /\ os_params' \in [Threads -> BOOLEAN]
      /\ UNCHANGED <<table, next_clid, th, released, up, known, left, hist>>
  BY DEF ReadCtl, AtCtl, CtlInv, TypeOK
<1>2. xport[c] \in Xport /\ clnt[c] \in Client
  BY XportElements, ClientElements
<1>3. xport[c].ctl \in Seq(CtlMsgs)
  BY <1>2 DEF Xport
<1>4. Tail(xport[c].ctl) \in Seq(CtlMsgs) /\ Head(xport[c].ctl) \in CtlMsgs
  BY <1>1, <1>3, HeadTailProperties
<1>5. PICK m : m = Head(xport[c].ctl)
  OBVIOUS
<1>6. m \in {"new", "remove"} \X Servers
  BY <1>4, <1>5 DEF CtlMsgs
<1>7. m = <<m[1], m[2]>> /\ m[2] \in Servers
  BY <1>6
<1>8. PICK x \in Xport : x = Ctl(c)
  <2> DEFINE y == IF xport[c].pc = "poll" THEN Polled(c) ELSE xport[c]
  <2>1. y \in Xport
    BY <1>2 DEF Polled, Xport
  <2>2. Ctl(c) = [y EXCEPT !.ctl = Tail(y.ctl), !.more = FALSE]
    BY DEF Ctl
  <2>3. y.ctl = xport[c].ctl
    BY <1>2 DEF Polled, Xport
  <2> HIDE DEF y
  <2>4. [y EXCEPT !.ctl = Tail(y.ctl), !.more = FALSE] \in Xport
    BY <1>4, <2>1, <2>3 DEF Xport
  <2> QED
    BY <2>2, <2>4
<1>9. /\ x.ctl = Tail(xport[c].ctl) /\ x.more = FALSE /\ x.pc = xport[c].pc
      /\ x.state = xport[c].state /\ x.died = xport[c].died
  BY <1>2, <1>8 DEF Ctl, Polled, Xport
<1>10. CASE m = <<"remove", clnt[c].server_addr>>
  <2>1. m[1] = "remove" /\ m[2] = clnt[c].server_addr
    BY <1>10
  <2>2. /\ xport' = [xport EXCEPT ![c] = [x EXCEPT !.pc = "report"]]
        /\ clnt' = [clnt EXCEPT ![c].addr_valid = FALSE, ![c].server_addr = NoServer]
    BY <1>5, <1>8, <2>1 DEF ReadCtl
  <2>3. "report" \in ReaderPcs
    BY DEF ReaderPcs
  <2>4. PICK y \in Xport : y = [x EXCEPT !.pc = "report"]
    BY <2>3 DEF Xport
  <2>5. /\ y.ctl = x.ctl /\ y.more = x.more /\ y.pc = "report" /\ y.state = x.state
        /\ y.died = x.died
    BY <2>4 DEF Xport
  <2>6. xport' \in [Handles -> Xport] /\ OnlyXport(c) /\ xport'[c] = y
    BY <2>2, <2>4, SetXport
  <2> DEFINE z == [clnt[c] EXCEPT !.addr_valid = FALSE, !.server_addr = NoServer]
  <2>7. /\ z \in Client /\ z.addr_valid = FALSE /\ z.server_addr = NoServer
        /\ z.alive = clnt[c].alive /\ z.ref_count = clnt[c].ref_count
        /\ z.ext_signal = clnt[c].ext_signal /\ z.err_cb = clnt[c].err_cb
        /\ z.err_pending = clnt[c].err_pending
        /\ z.release_cb = clnt[c].release_cb /\ z.waiter = clnt[c].waiter
    BY <1>2 DEF Client
  <2>8. clnt' = [clnt EXCEPT ![c] = z]
    BY <2>2
  <2> HIDE DEF z
  <2>9. clnt' \in [Handles -> Client] /\ OnlyClient(c) /\ clnt'[c] = z
    BY <2>7, <2>8, SetClient
  <2>10. Reads(c)
    BY <1>9, <2>5, <2>6 DEF Reads
  <2> QED
    BY <1>1, <1>5, <1>7, <1>9, <1>10, <2>1, <2>5, <2>6, <2>7, <2>9, <2>10
<1>11. CASE m # <<"remove", clnt[c].server_addr>>
  <2>1. ~(m[1] = "remove" /\ m[2] = clnt[c].server_addr)
    BY <1>7, <1>11
  <2>2. xport' = [xport EXCEPT ![c] = Continue(x)] /\ clnt' = clnt
    BY <1>5, <1>8, <2>1 DEF ReadCtl
  <2> QED
    BY <1>1, <1>5, <1>9, <1>11, <2>2, ContinueStep
<1> QED
  BY <1>10, <1>11

\* The reader reads the error callback, or leaves err_pending.
LEMMA ReportErrorEffect ==
  ASSUME Inv, NEW c \in Handles, ReportError(c)
  PROVE  /\ xport[c].pc = "report"
         /\ xport' \in [Handles -> Xport] /\ Reads(c)
         /\ xport'[c].ctl = xport[c].ctl /\ xport'[c].more = xport[c].more
         /\ \/ /\ clnt[c].err_cb # NULL /\ clnt' = clnt
               /\ xport'[c].pc = "err_cb" /\ xport'[c].cb = clnt[c].err_cb
            \/ /\ clnt[c].err_cb = NULL
               /\ \/ xport[c].more /\ xport'[c].pc = "ctl"
                  \/ ~xport[c].more /\ xport'[c].pc \in {"exited", "poll"}
               /\ clnt' \in [Handles -> Client] /\ OnlyClient(c)
               /\ clnt'[c].err_pending = TRUE
               /\ clnt'[c].alive = clnt[c].alive /\ clnt'[c].ref_count = clnt[c].ref_count
               /\ clnt'[c].ext_signal = clnt[c].ext_signal /\ clnt'[c].err_cb = clnt[c].err_cb
               /\ clnt'[c].addr_valid = clnt[c].addr_valid
               /\ clnt'[c].server_addr = clnt[c].server_addr
               /\ clnt'[c].release_cb = clnt[c].release_cb /\ clnt'[c].waiter = clnt[c].waiter
         /\ UNCHANGED <<table, next_clid, th, os_params, released, up, known, left, hist>>
<1> TypeOK
  BY DEF Inv
<1>1. xport[c].pc = "report" /\ UNCHANGED <<table, next_clid, th, os_params, released, up, known, left, hist>>
  BY DEF ReportError
<1>2. xport[c] \in Xport /\ clnt[c] \in Client
  BY XportElements, ClientElements
<1>3. CASE clnt[c].err_cb # NULL
  <2>1. /\ xport' = [xport EXCEPT ![c] = [xport[c] EXCEPT !.pc = "err_cb", !.cb = clnt[c].err_cb]]
        /\ clnt' = clnt
    BY <1>3 DEF ReportError
  <2>2. "err_cb" \in ReaderPcs /\ clnt[c].err_cb \in Regs \cup {NULL}
    BY <1>2 DEF ReaderPcs, Client
  <2>3. PICK y \in Xport : y = [xport[c] EXCEPT !.pc = "err_cb", !.cb = clnt[c].err_cb]
    BY <1>2, <2>2 DEF Xport
  <2>4. /\ y.ctl = xport[c].ctl /\ y.more = xport[c].more /\ y.pc = "err_cb"
        /\ y.state = xport[c].state /\ y.died = xport[c].died /\ y.cb = clnt[c].err_cb
    BY <1>2, <2>3 DEF Xport
  <2>5. xport' \in [Handles -> Xport] /\ OnlyXport(c) /\ xport'[c] = y
    BY <2>1, <2>3, SetXport
  <2> QED
    BY <1>1, <1>3, <2>1, <2>4, <2>5 DEF Reads
<1>4. CASE clnt[c].err_cb = NULL
  <2>1. /\ xport' = [xport EXCEPT ![c] = Continue(xport[c])]
        /\ clnt' = [clnt EXCEPT ![c].err_pending = TRUE]
    BY <1>4 DEF ReportError
  <2>2. PICK x \in Xport : x = xport[c]
    BY <1>2
  <2>3. xport' = [xport EXCEPT ![c] = Continue(x)]
    BY <2>1, <2>2
  <2>4. /\ xport' \in [Handles -> Xport] /\ Reads(c)
        /\ xport'[c].ctl = x.ctl /\ xport'[c].more = x.more
        /\ \/ x.more /\ xport'[c].pc = "ctl"
           \/ ~x.more /\ xport'[c].pc \in {"exited", "poll"}
    BY <2>2, <2>3, ContinueStep
  <2> DEFINE z == [clnt[c] EXCEPT !.err_pending = TRUE]
  <2>5. /\ z \in Client /\ z.err_pending = TRUE
        /\ z.addr_valid = clnt[c].addr_valid /\ z.server_addr = clnt[c].server_addr
        /\ z.alive = clnt[c].alive /\ z.ref_count = clnt[c].ref_count
        /\ z.ext_signal = clnt[c].ext_signal /\ z.err_cb = clnt[c].err_cb
        /\ z.release_cb = clnt[c].release_cb /\ z.waiter = clnt[c].waiter
    BY <1>2 DEF Client
  <2>6. clnt' = [clnt EXCEPT ![c] = z]
    BY <2>1
  <2> HIDE DEF z
  <2>7. clnt' \in [Handles -> Client] /\ OnlyClient(c) /\ clnt'[c] = z
    BY <2>5, <2>6, SetClient
  <2> QED
    BY <1>1, <1>4, <2>2, <2>4, <2>5, <2>7
<1> QED
  BY <1>3, <1>4

\* The reader goes on after a callback.
LEMMA ErrorCbEffect ==
  ASSUME Inv, NEW c \in Handles, ErrorCb(c)
  PROVE  /\ xport[c].pc = "err_cb"
         /\ xport' \in [Handles -> Xport] /\ Reads(c)
         /\ xport'[c].ctl = xport[c].ctl /\ xport'[c].more = xport[c].more
         /\ \/ xport[c].more /\ xport'[c].pc = "ctl"
            \/ ~xport[c].more /\ xport'[c].pc \in {"exited", "poll"}
         /\ hist' = [hist EXCEPT !.heard[xport[c].cb] = @ + 1]
         /\ UNCHANGED <<clnt, table, next_clid, th, os_params, released, up, known, left>>
<1> TypeOK
  BY DEF Inv
<1>1. PICK x \in Xport : x = xport[c]
  BY XportElements
<1>2. xport' = [xport EXCEPT ![c] = Continue(x)]
  BY <1>1 DEF ErrorCb
<1> QED
  BY <1>1, <1>2, ContinueStep DEF ErrorCb

\* The callback of an indication returns.
LEMMA IndCbEffect ==
  ASSUME Inv, NEW c \in Handles, IndCb(c)
  PROVE  /\ xport[c].pc = "ind_cb"
         /\ xport' \in [Handles -> Xport] /\ Reads(c)
         /\ xport'[c].ctl = xport[c].ctl /\ xport'[c].more = xport[c].more
         /\ \/ xport[c].more /\ xport'[c].pc = "ctl"
            \/ ~xport[c].more /\ xport'[c].pc \in {"exited", "poll"}
         /\ UNCHANGED <<clnt, table, next_clid, th, os_params, released, up, known, left, hist>>
<1> TypeOK
  BY DEF Inv
<1>1. PICK x \in Xport : x = xport[c]
  BY XportElements
<1>2. xport' = [xport EXCEPT ![c] = Continue(x)]
  BY <1>1 DEF IndCb
<1> QED
  BY <1>1, <1>2, ContinueStep DEF IndCb

\* The reader ends, or is told to, or dies.
LEMMA ReaderExitEffect ==
  ASSUME Inv, NEW c \in Handles, ReaderExit(c)
  PROVE  /\ xport[c].pc = "poll"
         /\ xport' \in [Handles -> Xport] /\ Reads(c)
         /\ xport'[c].ctl = xport[c].ctl /\ xport'[c].more = xport[c].more
         /\ xport'[c].pc = "exited"
         /\ UNCHANGED <<clnt, table, next_clid, th, os_params, released, up, known, left, hist>>
<1> TypeOK
  BY DEF Inv
<1>1. xport[c] \in Xport /\ "exited" \in ReaderPcs
  BY XportElements DEF ReaderPcs
<1>2. PICK y \in Xport : y = [xport[c] EXCEPT !.pc = "exited"]
  BY <1>1 DEF Xport
<1>3. /\ y.ctl = xport[c].ctl /\ y.more = xport[c].more /\ y.pc = "exited"
      /\ y.state = xport[c].state /\ y.died = xport[c].died
  BY <1>1, <1>2 DEF Xport
<1>4. xport' = [xport EXCEPT ![c] = y]
  BY <1>2 DEF ReaderExit
<1>5. xport' \in [Handles -> Xport] /\ OnlyXport(c) /\ xport'[c] = y
  BY <1>4, SetXport
<1> QED
  BY <1>3, <1>5 DEF ReaderExit, Reads

\* An indication is read.
LEMMA ReadIndEffect ==
  ASSUME Inv, NEW c \in Handles, ReadInd(c)
  PROVE  /\ xport[c].pc = "poll"
         /\ xport' \in [Handles -> Xport] /\ Reads(c)
         /\ xport'[c].ctl = xport[c].ctl
         /\ xport'[c].more => xport[c].more \/ xport[c].ctl # <<>>
         /\ xport'[c].pc = "ind_cb"
         /\ left.events > 0 /\ left' = [left EXCEPT !.events = @ - 1]
         /\ UNCHANGED <<clnt, table, next_clid, th, os_params, released, up, known, hist>>
<1> TypeOK
  BY DEF Inv
<1>1. xport[c] \in Xport /\ "ind_cb" \in ReaderPcs
  BY XportElements DEF ReaderPcs
<1>2. PICK y \in Xport : y = [Polled(c) EXCEPT !.pc = "ind_cb"]
  BY <1>1 DEF Xport, Polled
<1>3. /\ y.ctl = xport[c].ctl /\ (y.more => xport[c].more \/ xport[c].ctl # <<>>)
      /\ y.pc = "ind_cb" /\ y.state = xport[c].state /\ y.died = xport[c].died
  BY <1>1, <1>2 DEF Xport, Polled
<1>4. xport' = [xport EXCEPT ![c] = y]
  BY <1>2 DEF ReadInd
<1>5. xport' \in [Handles -> Xport] /\ OnlyXport(c) /\ xport'[c] = y
  BY <1>4, SetXport
<1> QED
  BY <1>3, <1>5 DEF ReadInd, Reads

\* The reader ends by itself.
LEMMA ReaderDiesEffect ==
  ASSUME Inv, NEW c \in Handles, ReaderDies(c)
  PROVE  /\ xport[c].pc \in {"poll", "ctl"}
         /\ xport' \in [Handles -> Xport] /\ Reads(c) /\ xport'[c].died
         /\ xport'[c].ctl = xport[c].ctl /\ xport'[c].more = xport[c].more
         /\ xport'[c].pc = "exited"
         /\ left.events > 0 /\ left' = [left EXCEPT !.events = @ - 1]
         /\ UNCHANGED <<clnt, table, next_clid, th, os_params, released, up, known, hist>>
<1> TypeOK
  BY DEF Inv
<1>1. xport[c] \in Xport /\ "exited" \in ReaderPcs
  BY XportElements DEF ReaderPcs
<1>2. PICK y \in Xport : y = [xport[c] EXCEPT !.pc = "exited", !.died = TRUE]
  BY <1>1 DEF Xport
<1>3. /\ y.ctl = xport[c].ctl /\ y.more = xport[c].more /\ y.pc = "exited"
      /\ y.state = xport[c].state /\ y.died
  BY <1>1, <1>2 DEF Xport
<1>4. xport' = [xport EXCEPT ![c] = y]
  BY <1>2 DEF ReaderDies
<1>5. xport' \in [Handles -> Xport] /\ OnlyXport(c) /\ xport'[c] = y
  BY <1>4, SetXport
<1> QED
  BY <1>3, <1>5 DEF ReaderDies, Reads

\* The router appends a message to control sockets.
Tells(m, c) ==
  \/ xport'[c] = xport[c]
  \/ /\ xport[c].state = "open" /\ xport'[c].state = "open"
     /\ xport'[c].ctl = Append(xport[c].ctl, m)
     /\ xport'[c].pc = xport[c].pc /\ xport'[c].more = xport[c].more
     /\ xport'[c].cb = xport[c].cb /\ xport'[c].died = xport[c].died

\* The router writes to the control ports.
LEMMA BroadcastStep ==
  ASSUME TypeOK, NEW cmd \in {"new", "remove"}, NEW s \in Servers, Broadcast(cmd, s)
  PROVE  /\ xport' \in [Handles -> Xport]
         /\ \A c \in Handles :
              /\ Tells(<<cmd, s>>, c)
              /\ cmd = "remove" /\ xport[c].state = "open" =>
                   xport'[c].ctl = Append(xport[c].ctl, <<cmd, s>>)
<1> DEFINE m == <<cmd, s>>
           z(c) == [xport[c] EXCEPT !.ctl = Append(xport[c].ctl, m)]
<1>1. m \in CtlMsgs
  BY DEF CtlMsgs
<1>2. ASSUME NEW c \in Handles
      PROVE  /\ z(c) \in Xport /\ z(c).ctl = Append(xport[c].ctl, m)
             /\ z(c).state = xport[c].state /\ z(c).pc = xport[c].pc
             /\ z(c).more = xport[c].more /\ z(c).cb = xport[c].cb /\ z(c).died = xport[c].died
  <2>1. xport[c] \in Xport
    BY XportElements
  <2>2. xport[c].ctl \in Seq(CtlMsgs)
    BY <2>1 DEF Xport
  <2> HIDE DEF m
  <2>3. Append(xport[c].ctl, m) \in Seq(CtlMsgs)
    BY <1>1, <2>2, AppendProperties
  <2> QED
    BY <2>1, <2>3 DEF Xport
<1>3. xport' = [c \in Handles |-> IF /\ xport[c].state = "open"
                                     /\ cmd = "remove" \/ clnt[c].ext_signal # NoThread
                                  THEN z(c) ELSE xport[c]]
  BY DEF Broadcast
<1> HIDE DEF z
<1>4. xport' \in [Handles -> Xport]
  BY <1>2, <1>3, XportElements
<1>5. ASSUME NEW c \in Handles
      PROVE  /\ Tells(m, c)
             /\ cmd = "remove" /\ xport[c].state = "open" =>
                  xport'[c].ctl = Append(xport[c].ctl, m)
  <2>1. CASE xport[c].state = "open" /\ (cmd = "remove" \/ clnt[c].ext_signal # NoThread)
    <3>1. xport'[c] = z(c)
      BY <1>3, <2>1
    <3> QED
      BY <1>2, <2>1, <3>1 DEF Tells
  <2>2. CASE ~(xport[c].state = "open" /\ (cmd = "remove" \/ clnt[c].ext_signal # NoThread))
    <3>1. xport'[c] = xport[c]
      BY <1>3, <2>2
    <3> QED
      BY <2>2, <3>1 DEF Tells
  <2> QED
    BY <2>1, <2>2
<1> QED
  BY <1>4, <1>5

\* A server is registered.
LEMMA ServerUpEffect ==
  ASSUME Inv, NEW s \in Servers, ServerUp(s)
  PROVE  /\ up' = up \cup {s}
         /\ xport' \in [Handles -> Xport]
         /\ \A c \in Handles : Tells(<<"new", s>>, c)
         /\ left' = [left EXCEPT !.servers = @ \ {s}]
         /\ UNCHANGED <<clnt, table, next_clid, th, os_params, released, known, hist>>
<1> TypeOK
  BY DEF Inv
<1> QED
  BY BroadcastStep DEF ServerUp

\* A server has gone.
LEMMA ServerDownEffect ==
  ASSUME Inv, NEW s \in Servers, ServerDown(s)
  PROVE  /\ s \in up /\ up' = up \ {s}
         /\ xport' \in [Handles -> Xport]
         /\ \A c \in Handles :
              /\ Tells(<<"remove", s>>, c)
              /\ xport[c].state = "open" =>
                   xport'[c].ctl = Append(xport[c].ctl, <<"remove", s>>)
         /\ UNCHANGED <<clnt, table, next_clid, th, os_params, released, known, left, hist>>
<1> TypeOK
  BY DEF Inv
<1> QED
  BY BroadcastStep DEF ServerDown

-----------------------------------------------------------------------------
(* The steps: those of a thread of the application, and those of the reader threads and the      *)
(* router.                                                                                      *)

\* A step of thread t.
ThreadStep(t) == CallStart(t) \/ CallStep(t) \/ OpenFails(t) \/ TimeOut(t)

\* A step of a reader thread or of the router.
OtherStep ==
  \/ \E c \in Handles : ReaderStep(c) \/ ReadInd(c) \/ ReaderDies(c)
  \/ \E s \in Servers : ServerUp(s) \/ ServerDown(s)

\* Every step is one of the two.
LEMMA NextSteps == Next => OtherStep \/ \E t \in Threads : ThreadStep(t)
  BY DEF Next, ThreadStep, OtherStep

-----------------------------------------------------------------------------
(* Types. *)

\* What is left of the bounds is within the bounds.
LEMMA BudgetSteps ==
  ASSUME TypeOK
  PROVE  /\ left.regs \in Regs => [left EXCEPT !.regs = @ - 1] \in Budget
         /\ left.inits > 0 => [left EXCEPT !.inits = @ - 1] \in Budget
         /\ left.events > 0 => [left EXCEPT !.events = @ - 1] \in Budget
         /\ \A s \in Servers : [left EXCEPT !.servers = @ \ {s}] \in Budget
  BY ClientAssumption DEF TypeOK, Budget, Regs

\* A callback that runs or is registered leaves a history.
LEMMA HistorySteps ==
  ASSUME TypeOK
  PROVE  /\ \A k \in Regs : [hist EXCEPT !.heard[k] = @ + 1] \in History
         /\ \A k \in Regs, c \in Handles : [hist EXCEPT !.reg[k] = c] \in History
  BY DEF TypeOK, History

\* The callback that a thread registers, or the reader runs, is one.
LEMMA Callbacks ==
  ASSUME Inv
  PROVE  /\ \A t \in Threads : th[t].pc \in {"reg", "reg_cb"} => th[t].cb \in Regs /\ th[t].c \in Handles
         /\ \A c \in Handles : xport[c].pc = "err_cb" => xport[c].cb \in Regs
<1> TypeOK
  BY DEF Inv
<1>1. ASSUME NEW t \in Threads, th[t].pc \in {"reg", "reg_cb"}
      PROVE  th[t].cb \in Regs /\ th[t].c \in Handles
  BY <1>1, ThreadElements DEF Inv, ShapeInv, Shape, UserPcs, Thread
<1>2. ASSUME NEW c \in Handles, xport[c].pc = "err_cb"
      PROVE  xport[c].cb \in Regs
  BY <1>2, XportElements DEF Inv, ReportInv, Xport
<1> QED
  BY <1>1, <1>2

\* The state is well typed after a step of a thread.
LEMMA ThreadType ==
  ASSUME Inv, NEW t \in Threads, ThreadStep(t)
  PROVE  TypeOK'
<1> TypeOK
  BY DEF Inv
<1>1. ASSUME NEW h \in Handles, Call(t, h) PROVE TypeOK'
  BY <1>1, CallEffect DEF TypeOK
<1>2. ASSUME NEW h \in Handles, RegisterErrorCb(t, h) PROVE TypeOK'
  <2>1. clnt' \in [Handles -> Client] /\ th' \in [Threads -> Thread] /\ left' \in Budget
    BY <1>2, RegisterErrorCbEffect, BudgetSteps
  <2>2. UNCHANGED <<table, next_clid, xport, os_params, released, up, known, hist>>
    BY <1>2, RegisterErrorCbEffect
  <2> QED
    BY <2>1, <2>2 DEF TypeOK
<1>3. ASSUME NEW s \in Servers, InitClient(t, s) PROVE TypeOK'
  <2>1. th' \in [Threads -> Thread] /\ left' \in Budget
    BY <1>3, InitClientEffect, BudgetSteps
  <2>2. UNCHANGED <<clnt, table, next_clid, xport, os_params, released, up, known, hist>>
    BY <1>3, InitClientEffect
  <2> QED
    BY <2>1, <2>2 DEF TypeOK
<1>4. CASE InitInstance(t)
  <2>1. th' \in [Threads -> Thread] /\ left' \in Budget
    BY <1>4, InitInstanceEffect, BudgetSteps
  <2>2. UNCHANGED <<clnt, table, next_clid, xport, os_params, released, up, known, hist>>
    BY <1>4, InitInstanceEffect
  <2> QED
    BY <2>1, <2>2 DEF TypeOK
<1>5. ASSUME NEW h \in Handles, NEW k \in {"sync", "async"}, Release(t, h, k) PROVE TypeOK'
  BY <1>5, ReleaseEffect DEF TypeOK
<1>6. CASE EndCall(t)
  BY <1>6, EndCallEffect DEF TypeOK
<1>7. CASE SetErrorCb(t)
  <2>1. th' \in [Threads -> Thread] /\ clnt' \in [Handles -> Client] /\ hist' \in History
    BY <1>7, SetErrorCbEffect, Callbacks, HistorySteps
  <2>2. UNCHANGED <<table, next_clid, xport, os_params, released, up, known, left>>
    BY <1>7, SetErrorCbEffect
  <2> QED
    BY <2>1, <2>2 DEF TypeOK
<1>8. CASE PendingErrorCb(t)
  BY <1>8, PendingErrorCbEffect, Callbacks, HistorySteps DEF TypeOK
<1>9. ASSUME NEW c \in Handles, AllocClient(t, c) PROVE TypeOK'
  <2>1. th' \in [Threads -> Thread] /\ clnt' \in [Handles -> Client]
    BY <1>9, AllocClientEffect
  <2>2. c = next_clid /\ next_clid' = next_clid + 1 /\ table' = table \cup {c}
    BY <1>9, AllocClientEffect
  <2>3. next_clid' \in 1..MaxClients + 1
    BY <2>2, ClientAssumption DEF Handles
  <2>4. UNCHANGED <<xport, os_params, released, up, known, left, hist>>
    BY <1>9, AllocClientEffect
  <2> QED
    BY <2>1, <2>2, <2>3, <2>4 DEF TypeOK
<1>10. ASSUME NEW c \in Handles, AllocNotifier(t, c) PROVE TypeOK'
  <2>1. th' \in [Threads -> Thread] /\ clnt' \in [Handles -> Client] /\ os_params' \in [Threads -> BOOLEAN]
    BY <1>10, AllocNotifierEffect
  <2>2. c = next_clid /\ next_clid' = next_clid + 1 /\ table' = table \cup {c}
    BY <1>10, AllocNotifierEffect
  <2>3. next_clid' \in 1..MaxClients + 1
    BY <2>2, ClientAssumption DEF Handles
  <2>4. UNCHANGED <<xport, released, up, known, left, hist>>
    BY <1>10, AllocNotifierEffect
  <2> QED
    BY <2>1, <2>2, <2>3, <2>4 DEF TypeOK
<1>11. CASE OpenClient(t)
  <2>1. clnt' \in [Handles -> Client] /\ th' \in [Threads -> Thread] /\ xport' \in [Handles -> Xport]
    BY <1>11, OpenClientEffect
  <2>2. UNCHANGED <<table, next_clid, os_params, released, up, known, left, hist>>
    BY <1>11, OpenClientEffect
  <2> QED
    BY <2>1, <2>2 DEF TypeOK
<1>12. CASE RedoLookup(t)
  BY <1>12, RedoLookupEffect DEF TypeOK
<1>13. CASE CloseXport(t)
  BY <1>13, CloseXportEffect DEF TypeOK
<1>14. CASE JoinReader(t)
  <2>1. clnt' \in [Handles -> Client] /\ th' \in [Threads -> Thread] /\ xport' \in [Handles -> Xport]
    BY <1>14, JoinReaderEffect
  <2>2. UNCHANGED <<table, next_clid, os_params, released, up, known, left, hist>>
    BY <1>14, JoinReaderEffect
  <2> QED
    BY <2>1, <2>2 DEF TypeOK
<1>15. CASE Put(t)
  BY <1>15, PutEffect DEF TypeOK
<1>16. CASE Free(t)
  BY <1>16, FreeEffect DEF TypeOK
<1>17. CASE CountServers(t)
  BY <1>17, CountServersEffect DEF TypeOK
<1>18. CASE ListServers(t)
  BY <1>18, ListServersEffect DEF TypeOK
<1>19. CASE OpenNotifier(t)
  <2>1. clnt' \in [Handles -> Client] /\ th' \in [Threads -> Thread] /\ xport' \in [Handles -> Xport]
    BY <1>19, OpenNotifierEffect
  <2>2. UNCHANGED <<table, next_clid, os_params, released, up, known, left, hist>>
    BY <1>19, OpenNotifierEffect
  <2> QED
    BY <2>1, <2>2 DEF TypeOK
<1>20. CASE NotifierLookup(t)
  BY <1>20, NotifierLookupEffect DEF TypeOK
<1>21. CASE ClearSignal(t)
  BY <1>21, ClearSignalEffect DEF TypeOK
<1>22. CASE WaitForServer(t)
  BY <1>22, WaitForServerEffect DEF TypeOK
<1>23. CASE ReturnInit(t)
  BY <1>23, ReturnInitEffect DEF TypeOK
<1>24. CASE ReleaseGet(t)
  BY <1>24, ReleaseGetEffect DEF TypeOK
<1>25. CASE ReleasePut(t)
  BY <1>25, ReleasePutEffect DEF TypeOK
<1>26. CASE ReleaseAsync(t)
  BY <1>26, ReleaseAsyncEffect DEF TypeOK
<1>27. CASE Shut(t)
  BY <1>27, ShutEffect DEF TypeOK
<1>28. CASE AwaitRelease(t)
  BY <1>28, AwaitReleaseEffect DEF TypeOK
<1>29. CASE OpenFails(t)
  <2>1. clnt' \in [Handles -> Client] /\ th' \in [Threads -> Thread] /\ left' \in Budget
    BY <1>29, OpenFailsEffect, BudgetSteps
  <2>2. UNCHANGED <<table, next_clid, xport, os_params, released, up, known, hist>>
    BY <1>29, OpenFailsEffect
  <2> QED
    BY <2>1, <2>2 DEF TypeOK
<1>30. CASE TimeOut(t)
  BY <1>30, TimeOutEffect DEF TypeOK
<1> QED
  BY <1>1, <1>2, <1>3, <1>4, <1>5, <1>6, <1>7, <1>8, <1>9, <1>10, <1>11, <1>12, <1>13, <1>14,
     <1>15, <1>16, <1>17, <1>18, <1>19, <1>20, <1>21, <1>22, <1>23, <1>24, <1>25, <1>26, <1>27,
     <1>28, <1>29, <1>30 DEF ThreadStep, CallStart, CallStep

\* ... and after one of a reader thread or of the router.
LEMMA OtherType ==
  ASSUME Inv, OtherStep
  PROVE  TypeOK'
<1> TypeOK
  BY DEF Inv
<1>1. ASSUME NEW c \in Handles, ReadCtl(c) PROVE TypeOK'
  BY <1>1, ReadCtlEffect DEF TypeOK
<1>2. ASSUME NEW c \in Handles, ReportError(c) PROVE TypeOK'
  <2>1. xport' \in [Handles -> Xport]
    BY <1>2, ReportErrorEffect
  <2>2. clnt' \in [Handles -> Client]
    BY <1>2, ReportErrorEffect DEF TypeOK
  <2>3. UNCHANGED <<table, next_clid, th, os_params, released, up, known, left, hist>>
    BY <1>2, ReportErrorEffect
  <2> QED
    BY <2>1, <2>2, <2>3 DEF TypeOK
<1>3. ASSUME NEW c \in Handles, ErrorCb(c) PROVE TypeOK'
  <2>1. /\ hist' = [hist EXCEPT !.heard[xport[c].cb] = @ + 1] /\ xport[c].cb \in Regs
        /\ xport' \in [Handles -> Xport]
        /\ UNCHANGED <<clnt, table, next_clid, th, os_params, released, up, known, left>>
    BY <1>3, ErrorCbEffect, Callbacks
  <2>2. hist' \in History
    BY <2>1, HistorySteps
  <2> QED
    BY <2>1, <2>2 DEF TypeOK
<1>4. ASSUME NEW c \in Handles, IndCb(c) PROVE TypeOK'
  BY <1>4, IndCbEffect DEF TypeOK
<1>5. ASSUME NEW c \in Handles, ReaderExit(c) PROVE TypeOK'
  BY <1>5, ReaderExitEffect DEF TypeOK
<1>6. ASSUME NEW c \in Handles, ReadInd(c) PROVE TypeOK'
  <2>1. xport' \in [Handles -> Xport] /\ left' \in Budget
    BY <1>6, ReadIndEffect, BudgetSteps
  <2>2. UNCHANGED <<clnt, table, next_clid, th, os_params, released, up, known, hist>>
    BY <1>6, ReadIndEffect
  <2> QED
    BY <2>1, <2>2 DEF TypeOK
<1>7. ASSUME NEW c \in Handles, ReaderDies(c) PROVE TypeOK'
  <2>1. xport' \in [Handles -> Xport] /\ left' \in Budget
    BY <1>7, ReaderDiesEffect, BudgetSteps
  <2>2. UNCHANGED <<clnt, table, next_clid, th, os_params, released, up, known, hist>>
    BY <1>7, ReaderDiesEffect
  <2> QED
    BY <2>1, <2>2 DEF TypeOK
<1>8. ASSUME NEW s \in Servers, ServerUp(s) PROVE TypeOK'
  <2>1. xport' \in [Handles -> Xport] /\ left' \in Budget /\ up' \subseteq Servers
    BY <1>8, ServerUpEffect, BudgetSteps DEF TypeOK
  <2>2. UNCHANGED <<clnt, table, next_clid, th, os_params, released, known, hist>>
    BY <1>8, ServerUpEffect
  <2> QED
    BY <2>1, <2>2 DEF TypeOK
<1>9. ASSUME NEW s \in Servers, ServerDown(s) PROVE TypeOK'
  BY <1>9, ServerDownEffect DEF TypeOK
<1> QED
  BY <1>1, <1>2, <1>3, <1>4, <1>5, <1>6, <1>7, <1>8, <1>9 DEF OtherStep, ReaderStep
-----------------------------------------------------------------------------
(* What the reader threads and the router leave alone. *)

\* What a step that no thread makes leaves of client c: its life and its references.
AsideClient(c) ==
  /\ xport'[c].state = xport[c].state
  /\ xport'[c].pc = "none" <=> xport[c].pc = "none"
  /\ xport[c].state = "open" \/ (xport'[c] = xport[c] /\ clnt'[c] = clnt[c])
  /\ clnt'[c].alive = clnt[c].alive /\ clnt'[c].ref_count = clnt[c].ref_count
  /\ clnt'[c].ext_signal = clnt[c].ext_signal /\ clnt'[c].err_cb = clnt[c].err_cb
  /\ clnt'[c].release_cb = clnt[c].release_cb /\ clnt'[c].waiter = clnt[c].waiter

\* The threads, the table and the registrations are as they were.
Aside ==
  /\ UNCHANGED <<table, next_clid, th, released, known>>
  /\ hist'.released = hist.released /\ hist'.reg = hist.reg
  /\ \A c \in Handles : AsideClient(c)

\* A reader thread at work has a transport that is open.
LEMMA ReaderOpen ==
  ASSUME Inv, NEW c \in Handles, xport[c].pc # "none"
  PROVE  xport[c].state = "open"
  BY DEF Inv, XportInv

\* A step of a reader thread or of the router changes the handles, the references and the state of
\* no transport.
LEMMA OtherAside ==
  ASSUME Inv, OtherStep
  PROVE  Aside
<1> TypeOK
  BY DEF Inv
<1>1. ASSUME NEW c \in Handles, ReadCtl(c) PROVE Aside
  <2>1. UNCHANGED <<table, next_clid, th, released, known>>
    BY <1>1, ReadCtlEffect
  <2>2. hist' = hist
    BY <1>1, ReadCtlEffect
  <2>3. xport[c].pc # "none" /\ xport'[c].pc # "none" /\ Reads(c)
    BY <1>1, ReadCtlEffect
  <2>4. xport[c].state = "open"
    BY <2>3, ReaderOpen
  <2>5. ASSUME NEW d \in Handles PROVE AsideClient(d)
    BY <1>1, ReadCtlEffect, <2>3, <2>4 DEF AsideClient, Reads, OnlyXport, OnlyClient
  <2> QED
    BY <2>1, <2>2, <2>5 DEF Aside
<1>2. ASSUME NEW c \in Handles, ReportError(c) PROVE Aside
  <2>1. UNCHANGED <<table, next_clid, th, released, known, hist>>
    BY <1>2, ReportErrorEffect
  <2>2. xport[c].pc # "none" /\ xport'[c].pc # "none" /\ Reads(c)
    BY <1>2, ReportErrorEffect
  <2>3. xport[c].state = "open"
    BY <2>2, ReaderOpen
  <2>4. /\ OnlyClient(c)
        /\ clnt'[c].alive = clnt[c].alive /\ clnt'[c].ref_count = clnt[c].ref_count
        /\ clnt'[c].ext_signal = clnt[c].ext_signal /\ clnt'[c].err_cb = clnt[c].err_cb
        /\ clnt'[c].release_cb = clnt[c].release_cb /\ clnt'[c].waiter = clnt[c].waiter
    BY <1>2, ReportErrorEffect DEF OnlyClient
  <2>5. ASSUME NEW d \in Handles PROVE AsideClient(d)
    BY <2>2, <2>3, <2>4 DEF AsideClient, Reads, OnlyXport, OnlyClient
  <2> QED
    BY <2>1, <2>5 DEF Aside
<1>3. ASSUME NEW c \in Handles, ErrorCb(c) PROVE Aside
  <2>1. UNCHANGED <<table, next_clid, th, released, known>>
    BY <1>3, ErrorCbEffect
  <2>2. hist'.released = hist.released /\ hist'.reg = hist.reg
    BY <1>3, ErrorCbEffect DEF TypeOK, History
  <2>3. xport[c].pc # "none" /\ xport'[c].pc # "none" /\ Reads(c)
    BY <1>3, ErrorCbEffect
  <2>4. xport[c].state = "open"
    BY <2>3, ReaderOpen
  <2>5. ASSUME NEW d \in Handles PROVE AsideClient(d)
    BY <1>3, ErrorCbEffect, <2>3, <2>4 DEF AsideClient, Reads, OnlyXport, OnlyClient
  <2> QED
    BY <2>1, <2>2, <2>5 DEF Aside
<1>4. ASSUME NEW c \in Handles, IndCb(c) PROVE Aside
  <2>1. UNCHANGED <<table, next_clid, th, released, known>>
    BY <1>4, IndCbEffect
  <2>2. hist' = hist
    BY <1>4, IndCbEffect
  <2>3. xport[c].pc # "none" /\ xport'[c].pc # "none" /\ Reads(c)
    BY <1>4, IndCbEffect
  <2>4. xport[c].state = "open"
    BY <2>3, ReaderOpen
  <2>5. ASSUME NEW d \in Handles PROVE AsideClient(d)
    BY <1>4, IndCbEffect, <2>3, <2>4 DEF AsideClient, Reads, OnlyXport, OnlyClient
  <2> QED
    BY <2>1, <2>2, <2>5 DEF Aside
<1>5. ASSUME NEW c \in Handles, ReaderExit(c) PROVE Aside
  <2>1. UNCHANGED <<table, next_clid, th, released, known>>
    BY <1>5, ReaderExitEffect
  <2>2. hist' = hist
    BY <1>5, ReaderExitEffect
  <2>3. xport[c].pc # "none" /\ xport'[c].pc # "none" /\ Reads(c)
    BY <1>5, ReaderExitEffect
  <2>4. xport[c].state = "open"
    BY <2>3, ReaderOpen
  <2>5. ASSUME NEW d \in Handles PROVE AsideClient(d)
    BY <1>5, ReaderExitEffect, <2>3, <2>4 DEF AsideClient, Reads, OnlyXport, OnlyClient
  <2> QED
    BY <2>1, <2>2, <2>5 DEF Aside
<1>6. ASSUME NEW c \in Handles, ReadInd(c) PROVE Aside
  <2>1. UNCHANGED <<table, next_clid, th, released, known>>
    BY <1>6, ReadIndEffect
  <2>2. hist' = hist
    BY <1>6, ReadIndEffect
  <2>3. xport[c].pc # "none" /\ xport'[c].pc # "none" /\ Reads(c)
    BY <1>6, ReadIndEffect
  <2>4. xport[c].state = "open"
    BY <2>3, ReaderOpen
  <2>5. ASSUME NEW d \in Handles PROVE AsideClient(d)
    BY <1>6, ReadIndEffect, <2>3, <2>4 DEF AsideClient, Reads, OnlyXport, OnlyClient
  <2> QED
    BY <2>1, <2>2, <2>5 DEF Aside
<1>7. ASSUME NEW c \in Handles, ReaderDies(c) PROVE Aside
  <2>1. UNCHANGED <<table, next_clid, th, released, known>>
    BY <1>7, ReaderDiesEffect
  <2>2. hist' = hist
    BY <1>7, ReaderDiesEffect
  <2>3. xport[c].pc # "none" /\ xport'[c].pc # "none" /\ Reads(c)
    BY <1>7, ReaderDiesEffect
  <2>4. xport[c].state = "open"
    BY <2>3, ReaderOpen
  <2>5. ASSUME NEW d \in Handles PROVE AsideClient(d)
    BY <1>7, ReaderDiesEffect, <2>3, <2>4 DEF AsideClient, Reads, OnlyXport, OnlyClient
  <2> QED
    BY <2>1, <2>2, <2>5 DEF Aside
<1>8. ASSUME NEW s \in Servers, ServerUp(s) PROVE Aside
  <2>1. UNCHANGED <<clnt, table, next_clid, th, released, known, hist>>
    BY <1>8, ServerUpEffect
  <2>2. ASSUME NEW d \in Handles PROVE AsideClient(d)
    BY <1>8, <2>1, ServerUpEffect DEF AsideClient, Tells
  <2> QED
    BY <2>1, <2>2 DEF Aside
<1>9. ASSUME NEW s \in Servers, ServerDown(s) PROVE Aside
  <2>1. UNCHANGED <<clnt, table, next_clid, th, released, known, hist>>
    BY <1>9, ServerDownEffect
  <2>2. ASSUME NEW d \in Handles PROVE AsideClient(d)
    BY <1>9, <2>1, ServerDownEffect DEF AsideClient, Tells
  <2> QED
    BY <2>1, <2>2 DEF Aside
<1> QED
  BY <1>1, <1>2, <1>3, <1>4, <1>5, <1>6, <1>7, <1>8, <1>9 DEF OtherStep, ReaderStep

\* A step that changes nothing is of that kind.
LEMMA StutterAside == UNCHANGED vars => Aside
  BY DEF vars, Aside, AsideClient

-----------------------------------------------------------------------------
(* What the threads have in their hands. *)

\* A thread changes its own record only.
LEMMA OthersStep ==
  ASSUME Inv, NEW t \in Threads, ThreadStep(t)
  PROVE  Others(t)
<1>1. ASSUME NEW h \in Handles, Call(t, h) PROVE Others(t)
  BY <1>1, CallEffect DEF Goes, Leaves, Frees, Enters, HandsOver, HandsBack
<1>2. ASSUME NEW h \in Handles, RegisterErrorCb(t, h) PROVE Others(t)
  BY <1>2, RegisterErrorCbEffect DEF Goes, Leaves, Frees, Enters, HandsOver, HandsBack
<1>3. ASSUME NEW s \in Servers, InitClient(t, s) PROVE Others(t)
  BY <1>3, InitClientEffect DEF Goes, Leaves, Frees, Enters, HandsOver, HandsBack
<1>4. CASE InitInstance(t)
  BY <1>4, InitInstanceEffect DEF Goes, Leaves, Frees, Enters, HandsOver, HandsBack
<1>5. ASSUME NEW h \in Handles, NEW k \in {"sync", "async"}, Release(t, h, k) PROVE Others(t)
  BY <1>5, ReleaseEffect DEF Goes, Leaves, Frees, Enters, HandsOver, HandsBack
<1>6. CASE EndCall(t)
  BY <1>6, EndCallEffect DEF Goes, Leaves, Frees, Enters, HandsOver, HandsBack
<1>7. CASE SetErrorCb(t)
  BY <1>7, SetErrorCbEffect DEF Goes, Leaves, Frees, Enters, HandsOver, HandsBack
<1>8. CASE PendingErrorCb(t)
  BY <1>8, PendingErrorCbEffect DEF Goes, Leaves, Frees, Enters, HandsOver, HandsBack
<1>9. ASSUME NEW c \in Handles, AllocClient(t, c) PROVE Others(t)
  BY <1>9, AllocClientEffect DEF Goes, Leaves, Frees, Enters, HandsOver, HandsBack
<1>10. ASSUME NEW c \in Handles, AllocNotifier(t, c) PROVE Others(t)
  BY <1>10, AllocNotifierEffect DEF Goes, Leaves, Frees, Enters, HandsOver, HandsBack
<1>11. CASE OpenClient(t)
  BY <1>11, OpenClientEffect DEF Goes, Leaves, Frees, Enters, HandsOver, HandsBack
<1>12. CASE RedoLookup(t)
  BY <1>12, RedoLookupEffect DEF Goes, Leaves, Frees, Enters, HandsOver, HandsBack
<1>13. CASE CloseXport(t)
  BY <1>13, CloseXportEffect DEF Goes, Leaves, Frees, Enters, HandsOver, HandsBack
<1>14. CASE JoinReader(t)
  BY <1>14, JoinReaderEffect DEF Goes, Leaves, Frees, Enters, HandsOver, HandsBack
<1>15. CASE Put(t)
  BY <1>15, PutEffect DEF Goes, Leaves, Frees, Enters, HandsOver, HandsBack
<1>16. CASE Free(t)
  BY <1>16, FreeEffect DEF Goes, Leaves, Frees, Enters, HandsOver, HandsBack
<1>17. CASE CountServers(t)
  BY <1>17, CountServersEffect DEF Goes, Leaves, Frees, Enters, HandsOver, HandsBack
<1>18. CASE ListServers(t)
  BY <1>18, ListServersEffect DEF Goes, Leaves, Frees, Enters, HandsOver, HandsBack
<1>19. CASE OpenNotifier(t)
  BY <1>19, OpenNotifierEffect DEF Goes, Leaves, Frees, Enters, HandsOver, HandsBack
<1>20. CASE NotifierLookup(t)
  BY <1>20, NotifierLookupEffect DEF Goes, Leaves, Frees, Enters, HandsOver, HandsBack
<1>21. CASE ClearSignal(t)
  BY <1>21, ClearSignalEffect DEF Goes, Leaves, Frees, Enters, HandsOver, HandsBack
<1>22. CASE WaitForServer(t)
  BY <1>22, WaitForServerEffect DEF Goes, Leaves, Frees, Enters, HandsOver, HandsBack
<1>23. CASE ReturnInit(t)
  BY <1>23, ReturnInitEffect DEF Goes, Leaves, Frees, Enters, HandsOver, HandsBack
<1>24. CASE ReleaseGet(t)
  BY <1>24, ReleaseGetEffect DEF Goes, Leaves, Frees, Enters, HandsOver, HandsBack
<1>25. CASE ReleasePut(t)
  BY <1>25, ReleasePutEffect DEF Goes, Leaves, Frees, Enters, HandsOver, HandsBack
<1>26. CASE ReleaseAsync(t)
  BY <1>26, ReleaseAsyncEffect DEF Goes, Leaves, Frees, Enters, HandsOver, HandsBack
<1>27. CASE Shut(t)
  BY <1>27, ShutEffect DEF Goes, Leaves, Frees, Enters, HandsOver, HandsBack
<1>28. CASE AwaitRelease(t)
  BY <1>28, AwaitReleaseEffect DEF Goes, Leaves, Frees, Enters, HandsOver, HandsBack
<1>29. CASE OpenFails(t)
  BY <1>29, OpenFailsEffect DEF Goes, Leaves, Frees, Enters, HandsOver, HandsBack
<1>30. CASE TimeOut(t)
  BY <1>30, TimeOutEffect DEF Goes, Leaves, Frees, Enters, HandsOver, HandsBack
<1> QED
  BY <1>1, <1>2, <1>3, <1>4, <1>5, <1>6, <1>7, <1>8, <1>9, <1>10, <1>11, <1>12, <1>13, <1>14,
     <1>15, <1>16, <1>17, <1>18, <1>19, <1>20, <1>21, <1>22, <1>23, <1>24, <1>25, <1>26, <1>27,
     <1>28, <1>29, <1>30 DEF ThreadStep, CallStart, CallStep

\* The null values are none.
LEMMA Nulls ==
  /\ NULL \notin Handles /\ NULL \notin Regs /\ NoServer \notin Servers /\ NoThread \notin Threads
  BY ClientAssumption DEF NULL, Handles, Regs

\* A thread outside the library has nothing in its hands.
LEMMA ShapeNew == Shape(NewThread)
  BY NewThreadFields DEF Shape, CallPcs, ReleasePcs, UserPcs, Creating, InitCalls

\* Its local variables agree with the place it goes to.
LEMMA ShapeStep ==
  ASSUME Inv, NEW t \in Threads, ThreadStep(t)
  PROVE  Shape(th'[t])
<1> Shape(th[t])
  BY DEF Inv, ShapeInv
<1>1. ASSUME NEW h \in Handles, Call(t, h) PROVE Shape(th'[t])
  BY <1>1, CallEffect, ShapeNew, Nulls DEF Shape, KeepsHandles, HandsBack, HandsOver, Goes,
     Leaves, Frees, Enters, CallPcs, ReleasePcs, UserPcs, Creating, InitCalls
<1>2. ASSUME NEW h \in Handles, RegisterErrorCb(t, h) PROVE Shape(th'[t])
  BY <1>2, RegisterErrorCbEffect, ShapeNew, Nulls DEF Shape, KeepsHandles, HandsBack, HandsOver,
     Goes, Leaves, Frees, Enters, CallPcs, ReleasePcs, UserPcs, Creating, InitCalls
<1>3. ASSUME NEW s \in Servers, InitClient(t, s) PROVE Shape(th'[t])
  BY <1>3, InitClientEffect, ShapeNew, Nulls DEF Shape, KeepsHandles, HandsBack, HandsOver, Goes,
     Leaves, Frees, Enters, CallPcs, ReleasePcs, UserPcs, Creating, InitCalls
<1>4. CASE InitInstance(t)
  BY <1>4, InitInstanceEffect, ShapeNew, Nulls DEF Shape, KeepsHandles, HandsBack, HandsOver,
     Goes, Leaves, Frees, Enters, CallPcs, ReleasePcs, UserPcs, Creating, InitCalls
<1>5. ASSUME NEW h \in Handles, NEW k \in {"sync", "async"}, Release(t, h, k) PROVE Shape(th'[t])
  BY <1>5, ReleaseEffect, ShapeNew, Nulls DEF Shape, KeepsHandles, HandsBack, HandsOver, Goes,
     Leaves, Frees, Enters, CallPcs, ReleasePcs, UserPcs, Creating, InitCalls
<1>6. CASE EndCall(t)
  BY <1>6, EndCallEffect, ShapeNew, Nulls DEF Shape, KeepsHandles, HandsBack, HandsOver, Goes,
     Leaves, Frees, Enters, CallPcs, ReleasePcs, UserPcs, Creating, InitCalls
<1>7. CASE SetErrorCb(t)
  BY <1>7, SetErrorCbEffect, ShapeNew, Nulls DEF Shape, KeepsHandles, HandsBack, HandsOver, Goes,
     Leaves, Frees, Enters, CallPcs, ReleasePcs, UserPcs, Creating, InitCalls
<1>8. CASE PendingErrorCb(t)
  BY <1>8, PendingErrorCbEffect, ShapeNew, Nulls DEF Shape, KeepsHandles, HandsBack, HandsOver,
     Goes, Leaves, Frees, Enters, CallPcs, ReleasePcs, UserPcs, Creating, InitCalls
<1>9. ASSUME NEW c \in Handles, AllocClient(t, c) PROVE Shape(th'[t])
  <2>1. Fresh(c) /\ c # NULL
    BY <1>9, AllocClientEffect, Nulls DEF Fresh, Handles
  <2>2. th[t].notifier # c
    BY <2>1 DEF Inv, FreshInv, Refs
  <2>3. /\ th[t].pc = "alloc" /\ th'[t].pc = "open" /\ th'[t].c = c /\ th'[t].after = th[t].after
        /\ th'[t].notifier = th[t].notifier /\ th'[t].user = th[t].user
        /\ th'[t].call = th[t].call /\ th'[t].release = th[t].release
        /\ th'[t].rc = th[t].rc /\ th'[t].s = th[t].s
    BY <1>9, AllocClientEffect
  <2> QED
    BY <2>1, <2>2, <2>3 DEF Shape, CallPcs, ReleasePcs, UserPcs, Creating, InitCalls
<1>10. ASSUME NEW c \in Handles, AllocNotifier(t, c) PROVE Shape(th'[t])
  BY <1>10, AllocNotifierEffect, ShapeNew, Nulls DEF Shape, KeepsHandles, HandsBack, HandsOver,
     Goes, Leaves, Frees, Enters, CallPcs, ReleasePcs, UserPcs, Creating, InitCalls
<1>11. CASE OpenClient(t)
  <2>1. /\ th[t].pc = "open" /\ th'[t].pc = "lookup" /\ th'[t].after = th[t].after
        /\ th'[t].rc = th[t].rc /\ th'[t].s = th[t].s /\ KeepsHandles(t)
    BY <1>11, OpenClientEffect
  <2> QED
    BY <2>1 DEF Shape, KeepsHandles, CallPcs, ReleasePcs, UserPcs, Creating, InitCalls
<1>12. CASE RedoLookup(t)
  BY <1>12, RedoLookupEffect, ShapeNew, Nulls DEF Shape, KeepsHandles, HandsBack, HandsOver,
     Goes, Leaves, Frees, Enters, CallPcs, ReleasePcs, UserPcs, Creating, InitCalls
<1>13. CASE CloseXport(t)
  BY <1>13, CloseXportEffect, ShapeNew, Nulls DEF Shape, KeepsHandles, HandsBack, HandsOver,
     Goes, Leaves, Frees, Enters, CallPcs, ReleasePcs, UserPcs, Creating, InitCalls
<1>14. CASE JoinReader(t)
  <2>1. th[t].pc = "join" /\ Goes(t, "put") /\ th'[t].rc = th[t].rc
    BY <1>14, JoinReaderEffect
  <2> QED
    BY <2>1 DEF Goes, Shape, KeepsHandles, CallPcs, ReleasePcs, UserPcs, Creating, InitCalls
<1>15. CASE Put(t)
  <2>1. th[t].pc = "put"
    BY <1>15, PutEffect
  <2>2. CASE /\ Frees(t, PutReturns(t)) /\ th'[t].rc = th[t].rc
             /\ clnt[th[t].c].ref_count = 1
    <3>1. /\ th[t].release = "none" /\ th[t].call = "none" => PutReturns(t) = "idle"
          /\ th[t].release = "none" /\ th[t].call # "none" => PutReturns(t) = "returned"
          /\ th[t].release = "sync" => PutReturns(t) = "rel_wait"
          /\ th[t].release = "async" => PutReturns(t) = "idle"
      BY DEF PutReturns
    <3>2. th[t].release \in {"none", "sync", "async"}
      BY ThreadElements DEF Inv, Thread
    <3>3. th[t].release # "none" => th[t].call = "none"
      BY DEF Shape
    <3>7. th[t].rc # "ok"
      <4> SUFFICES ASSUME th[t].rc = "ok" PROVE FALSE
        OBVIOUS
      <4>1. TransportHolds(th[t].c)
        BY DEF Inv, XportInv, Ready, TransportHolds
      <4>2. th[t].pc \in UserPcs
        BY <2>1 DEF UserPcs
      <4> QED
        BY <2>2, <4>1, <4>2, Held
    <3>4. CASE PutReturns(t) = "idle" /\ th[t].release # "sync" /\ th[t].call = "none"
      BY <2>1, <2>2, <3>4 DEF Frees, Shape, KeepsHandles, CallPcs, ReleasePcs, UserPcs, Creating, InitCalls
    <3>5. CASE PutReturns(t) = "returned" /\ th[t].release = "none" /\ th[t].call # "none"
      BY <2>1, <2>2, <3>5, <3>7 DEF Frees, Shape, KeepsHandles, CallPcs, ReleasePcs, UserPcs, Creating, InitCalls
    <3>6. CASE PutReturns(t) = "rel_wait" /\ th[t].release = "sync" /\ th[t].call = "none"
      BY <2>1, <2>2, <3>6 DEF Frees, Shape, KeepsHandles, CallPcs, ReleasePcs, UserPcs, Creating, InitCalls
    <3> QED
      BY <3>1, <3>2, <3>3, <3>4, <3>5, <3>6
  <2>3. CASE Leaves(t)
    BY <2>3, ShapeNew DEF Leaves
  <2>4. CASE Goes(t, PutReturns(t)) /\ PutReturns(t) # "idle" /\ th'[t].rc = th[t].rc
    BY <2>1, <2>4 DEF Goes, PutReturns, Shape, KeepsHandles, CallPcs, ReleasePcs, UserPcs, Creating, InitCalls
  <2> QED
    BY <1>15, <2>2, <2>3, <2>4, PutEffect
<1>16. CASE Free(t)
  BY <1>16, FreeEffect, ShapeNew, Nulls DEF Shape, KeepsHandles, HandsBack, HandsOver, Goes,
     Leaves, Frees, Enters, CallPcs, ReleasePcs, UserPcs, Creating, InitCalls
<1>17. CASE CountServers(t)
  BY <1>17, CountServersEffect, ShapeNew, Nulls DEF Shape, KeepsHandles, HandsBack, HandsOver,
     Goes, Leaves, Frees, Enters, CallPcs, ReleasePcs, UserPcs, Creating, InitCalls
<1>18. CASE ListServers(t)
  BY <1>18, ListServersEffect, ShapeNew, Nulls DEF Shape, KeepsHandles, HandsBack, HandsOver,
     Goes, Leaves, Frees, Enters, CallPcs, ReleasePcs, UserPcs, Creating, InitCalls
<1>19. CASE OpenNotifier(t)
  <2>1. /\ th[t].pc = "n_open" /\ th'[t].pc = "n_lookup" /\ th'[t].after = "idle"
        /\ th'[t].rc = th[t].rc /\ KeepsHandles(t)
    BY <1>19, OpenNotifierEffect DEF Goes
  <2> QED
    BY <2>1 DEF Shape, KeepsHandles, CallPcs, ReleasePcs, UserPcs, Creating, InitCalls
<1>20. CASE NotifierLookup(t)
  BY <1>20, NotifierLookupEffect, ShapeNew, Nulls DEF Shape, KeepsHandles, HandsBack, HandsOver,
     Goes, Leaves, Frees, Enters, CallPcs, ReleasePcs, UserPcs, Creating, InitCalls
<1>21. CASE ClearSignal(t)
  BY <1>21, ClearSignalEffect, ShapeNew, Nulls DEF Shape, KeepsHandles, HandsBack, HandsOver,
     Goes, Leaves, Frees, Enters, CallPcs, ReleasePcs, UserPcs, Creating, InitCalls
<1>22. CASE WaitForServer(t)
  BY <1>22, WaitForServerEffect, ShapeNew, Nulls DEF Shape, KeepsHandles, HandsBack, HandsOver,
     Goes, Leaves, Frees, Enters, CallPcs, ReleasePcs, UserPcs, Creating, InitCalls
<1>23. CASE ReturnInit(t)
  <2>1. th[t].pc = "returned"
    BY <1>23, ReturnInitEffect
  <2>2. CASE Goes(t, "notifier") /\ th[t].call = "first" /\ th'[t].rc = th[t].rc /\ th[t].rc = "service"
    BY <2>1, <2>2 DEF Goes, Shape, KeepsHandles, CallPcs, ReleasePcs, UserPcs, Creating, InitCalls
  <2>3. CASE Goes(t, "wait") /\ th[t].call \notin {"first", "init"} /\ th'[t].rc = th[t].rc
             /\ th[t].rc = "service"
    <3>1. th[t].call = "loop"
      BY <2>1, <2>3, ThreadElements DEF Inv, Shape, Thread
    <3> QED
      BY <2>1, <2>3, <3>1 DEF Goes, Shape, KeepsHandles, CallPcs, ReleasePcs, UserPcs, Creating, InitCalls
  <2>4. CASE HandsOver(t, th[t].c) /\ th[t].call = "loop"
    BY <2>1, <2>4 DEF HandsOver, Shape, KeepsHandles, CallPcs, ReleasePcs, UserPcs, Creating, InitCalls
  <2>5. CASE HandsOver(t, NULL) /\ th[t].call = "loop"
    BY <2>1, <2>5 DEF HandsOver, Shape, KeepsHandles, CallPcs, ReleasePcs, UserPcs, Creating, InitCalls
  <2>6. CASE Leaves(t)
    BY <2>6, ShapeNew DEF Leaves
  <2> QED
    BY <1>23, <2>2, <2>3, <2>4, <2>5, <2>6, ReturnInitEffect
<1>24. CASE ReleaseGet(t)
  BY <1>24, ReleaseGetEffect, ShapeNew, Nulls DEF Shape, KeepsHandles, HandsBack, HandsOver,
     Goes, Leaves, Frees, Enters, CallPcs, ReleasePcs, UserPcs, Creating, InitCalls
<1>25. CASE ReleasePut(t)
  BY <1>25, ReleasePutEffect, ShapeNew, Nulls DEF Shape, KeepsHandles, HandsBack, HandsOver,
     Goes, Leaves, Frees, Enters, CallPcs, ReleasePcs, UserPcs, Creating, InitCalls
<1>26. CASE ReleaseAsync(t)
  BY <1>26, ReleaseAsyncEffect, ShapeNew, Nulls DEF Shape, KeepsHandles, HandsBack, HandsOver,
     Goes, Leaves, Frees, Enters, CallPcs, ReleasePcs, UserPcs, Creating, InitCalls
<1>27. CASE Shut(t)
  BY <1>27, ShutEffect, ShapeNew, Nulls DEF Shape, KeepsHandles, HandsBack, HandsOver, Goes,
     Leaves, Frees, Enters, CallPcs, ReleasePcs, UserPcs, Creating, InitCalls
<1>28. CASE AwaitRelease(t)
  BY <1>28, AwaitReleaseEffect, ShapeNew, Nulls DEF Shape, KeepsHandles, HandsBack, HandsOver,
     Goes, Leaves, Frees, Enters, CallPcs, ReleasePcs, UserPcs, Creating, InitCalls
<1>29. CASE OpenFails(t)
  BY <1>29, OpenFailsEffect, ShapeNew, Nulls DEF Shape, KeepsHandles, HandsBack, HandsOver, Goes,
     Leaves, Frees, Enters, CallPcs, ReleasePcs, UserPcs, Creating, InitCalls
<1>30. CASE TimeOut(t)
  BY <1>30, TimeOutEffect, ShapeNew, Nulls DEF Shape, KeepsHandles, HandsBack, HandsOver, Goes,
     Leaves, Frees, Enters, CallPcs, ReleasePcs, UserPcs, Creating, InitCalls
<1> QED
  BY <1>1, <1>2, <1>3, <1>4, <1>5, <1>6, <1>7, <1>8, <1>9, <1>10, <1>11, <1>12, <1>13, <1>14,
     <1>15, <1>16, <1>17, <1>18, <1>19, <1>20, <1>21, <1>22, <1>23, <1>24, <1>25, <1>26, <1>27,
     <1>28, <1>29, <1>30 DEF ThreadStep, CallStart, CallStep
-----------------------------------------------------------------------------
(* Handles that only one thread knows. *)

\* A step of thread t: it has the handles it had and some of those that were given to the
\* application, and may give away its own; or it has a new one.
Takes(t) ==
  \/ /\ next_clid' = next_clid
     /\ Refs(t)' \subseteq Refs(t) \cup known
     /\ known \subseteq known' /\ known' \subseteq known \cup Refs(t)
  \/ /\ next_clid \in Handles /\ next_clid' = next_clid + 1
     /\ Refs(t)' \subseteq Refs(t) \cup {next_clid}
     /\ known' = known

\* Every step of a thread is like that.
LEMMA TakesStep ==
  ASSUME Inv, NEW t \in Threads, ThreadStep(t)
  PROVE  Takes(t)
<1>1. ASSUME NEW h \in Handles, Call(t, h) PROVE Takes(t)
  BY <1>1, CallEffect, NewThreadFields DEF Refs, Takes, KeepsHandles, Goes, Leaves, Frees,
     Enters, HandsOver, HandsBack
<1>2. ASSUME NEW h \in Handles, RegisterErrorCb(t, h) PROVE Takes(t)
  BY <1>2, RegisterErrorCbEffect, NewThreadFields DEF Refs, Takes, KeepsHandles, Goes, Leaves,
     Frees, Enters, HandsOver, HandsBack
<1>3. ASSUME NEW s \in Servers, InitClient(t, s) PROVE Takes(t)
  BY <1>3, InitClientEffect, NewThreadFields DEF Refs, Takes, KeepsHandles, Goes, Leaves, Frees,
     Enters, HandsOver, HandsBack
<1>4. CASE InitInstance(t)
  BY <1>4, InitInstanceEffect, NewThreadFields DEF Refs, Takes, KeepsHandles, Goes, Leaves,
     Frees, Enters, HandsOver, HandsBack
<1>5. ASSUME NEW h \in Handles, NEW k \in {"sync", "async"}, Release(t, h, k) PROVE Takes(t)
  BY <1>5, ReleaseEffect, NewThreadFields DEF Refs, Takes, KeepsHandles, Goes, Leaves, Frees,
     Enters, HandsOver, HandsBack
<1>6. CASE EndCall(t)
  BY <1>6, EndCallEffect, NewThreadFields DEF Refs, Takes, KeepsHandles, Goes, Leaves, Frees,
     Enters, HandsOver, HandsBack
<1>7. CASE SetErrorCb(t)
  BY <1>7, SetErrorCbEffect, NewThreadFields DEF Refs, Takes, KeepsHandles, Goes, Leaves, Frees,
     Enters, HandsOver, HandsBack
<1>8. CASE PendingErrorCb(t)
  BY <1>8, PendingErrorCbEffect, NewThreadFields DEF Refs, Takes, KeepsHandles, Goes, Leaves,
     Frees, Enters, HandsOver, HandsBack
<1>9. ASSUME NEW c \in Handles, AllocClient(t, c) PROVE Takes(t)
  BY <1>9, AllocClientEffect, NewThreadFields DEF Refs, Takes, KeepsHandles, Goes, Leaves, Frees,
     Enters, HandsOver, HandsBack
<1>10. ASSUME NEW c \in Handles, AllocNotifier(t, c) PROVE Takes(t)
  BY <1>10, AllocNotifierEffect, NewThreadFields DEF Refs, Takes, KeepsHandles, Goes, Leaves,
     Frees, Enters, HandsOver, HandsBack
<1>11. CASE OpenClient(t)
  BY <1>11, OpenClientEffect, NewThreadFields DEF Refs, Takes, KeepsHandles, Goes, Leaves, Frees,
     Enters, HandsOver, HandsBack
<1>12. CASE RedoLookup(t)
  BY <1>12, RedoLookupEffect, NewThreadFields DEF Refs, Takes, KeepsHandles, Goes, Leaves, Frees,
     Enters, HandsOver, HandsBack
<1>13. CASE CloseXport(t)
  BY <1>13, CloseXportEffect, NewThreadFields DEF Refs, Takes, KeepsHandles, Goes, Leaves, Frees,
     Enters, HandsOver, HandsBack
<1>14. CASE JoinReader(t)
  BY <1>14, JoinReaderEffect, NewThreadFields DEF Refs, Takes, KeepsHandles, Goes, Leaves, Frees,
     Enters, HandsOver, HandsBack
<1>15. CASE Put(t)
  BY <1>15, PutEffect, NewThreadFields DEF Refs, Takes, KeepsHandles, Goes, Leaves, Frees,
     Enters, HandsOver, HandsBack
<1>16. CASE Free(t)
  BY <1>16, FreeEffect, NewThreadFields DEF Refs, Takes, KeepsHandles, Goes, Leaves, Frees,
     Enters, HandsOver, HandsBack
<1>17. CASE CountServers(t)
  BY <1>17, CountServersEffect, NewThreadFields DEF Refs, Takes, KeepsHandles, Goes, Leaves,
     Frees, Enters, HandsOver, HandsBack
<1>18. CASE ListServers(t)
  BY <1>18, ListServersEffect, NewThreadFields DEF Refs, Takes, KeepsHandles, Goes, Leaves,
     Frees, Enters, HandsOver, HandsBack
<1>19. CASE OpenNotifier(t)
  BY <1>19, OpenNotifierEffect, NewThreadFields DEF Refs, Takes, KeepsHandles, Goes, Leaves,
     Frees, Enters, HandsOver, HandsBack
<1>20. CASE NotifierLookup(t)
  BY <1>20, NotifierLookupEffect, NewThreadFields DEF Refs, Takes, KeepsHandles, Goes, Leaves,
     Frees, Enters, HandsOver, HandsBack
<1>21. CASE ClearSignal(t)
  BY <1>21, ClearSignalEffect, NewThreadFields DEF Refs, Takes, KeepsHandles, Goes, Leaves,
     Frees, Enters, HandsOver, HandsBack
<1>22. CASE WaitForServer(t)
  BY <1>22, WaitForServerEffect, NewThreadFields DEF Refs, Takes, KeepsHandles, Goes, Leaves,
     Frees, Enters, HandsOver, HandsBack
<1>23. CASE ReturnInit(t)
  BY <1>23, ReturnInitEffect, NewThreadFields DEF Refs, Takes, KeepsHandles, Goes, Leaves, Frees,
     Enters, HandsOver, HandsBack
<1>24. CASE ReleaseGet(t)
  BY <1>24, ReleaseGetEffect, NewThreadFields DEF Refs, Takes, KeepsHandles, Goes, Leaves, Frees,
     Enters, HandsOver, HandsBack
<1>25. CASE ReleasePut(t)
  BY <1>25, ReleasePutEffect, NewThreadFields DEF Refs, Takes, KeepsHandles, Goes, Leaves, Frees,
     Enters, HandsOver, HandsBack
<1>26. CASE ReleaseAsync(t)
  BY <1>26, ReleaseAsyncEffect, NewThreadFields DEF Refs, Takes, KeepsHandles, Goes, Leaves,
     Frees, Enters, HandsOver, HandsBack
<1>27. CASE Shut(t)
  BY <1>27, ShutEffect, NewThreadFields DEF Refs, Takes, KeepsHandles, Goes, Leaves, Frees,
     Enters, HandsOver, HandsBack
<1>28. CASE AwaitRelease(t)
  BY <1>28, AwaitReleaseEffect, NewThreadFields DEF Refs, Takes, KeepsHandles, Goes, Leaves,
     Frees, Enters, HandsOver, HandsBack
<1>29. CASE OpenFails(t)
  BY <1>29, OpenFailsEffect, NewThreadFields DEF Refs, Takes, KeepsHandles, Goes, Leaves, Frees,
     Enters, HandsOver, HandsBack
<1>30. CASE TimeOut(t)
  BY <1>30, TimeOutEffect, NewThreadFields DEF Refs, Takes, KeepsHandles, Goes, Leaves, Frees,
     Enters, HandsOver, HandsBack
<1> QED
  BY <1>1, <1>2, <1>3, <1>4, <1>5, <1>6, <1>7, <1>8, <1>9, <1>10, <1>11, <1>12, <1>13, <1>14,
     <1>15, <1>16, <1>17, <1>18, <1>19, <1>20, <1>21, <1>22, <1>23, <1>24, <1>25, <1>26, <1>27,
     <1>28, <1>29, <1>30 DEF ThreadStep, CallStart, CallStep

\* What a thread has in its hands after it was or was not given to the application.
LEMMA GivenStep ==
  ASSUME Inv, NEW t \in Threads, ThreadStep(t)
  PROVE  GivenTo(t)'
<1> GivenTo(t) /\ Shape(th[t])
  BY DEF Inv, Given, ShapeInv
<1>1. ASSUME NEW h \in Handles, Call(t, h) PROVE GivenTo(t)'
  BY <1>1, CallEffect, NewThreadFields, Nulls DEF GivenTo, Refs, KeepsHandles, Goes, Leaves,
     Frees, Enters, HandsOver, HandsBack, Shape
<1>2. ASSUME NEW h \in Handles, RegisterErrorCb(t, h) PROVE GivenTo(t)'
  BY <1>2, RegisterErrorCbEffect, NewThreadFields, Nulls DEF GivenTo, Refs, KeepsHandles, Goes,
     Leaves, Frees, Enters, HandsOver, HandsBack, Shape
<1>3. ASSUME NEW s \in Servers, InitClient(t, s) PROVE GivenTo(t)'
  BY <1>3, InitClientEffect, NewThreadFields, Nulls DEF GivenTo, Refs, KeepsHandles, Goes,
     Leaves, Frees, Enters, HandsOver, HandsBack, Shape
<1>4. CASE InitInstance(t)
  BY <1>4, InitInstanceEffect, NewThreadFields, Nulls DEF GivenTo, Refs, KeepsHandles, Goes,
     Leaves, Frees, Enters, HandsOver, HandsBack, Shape
<1>5. ASSUME NEW h \in Handles, NEW k \in {"sync", "async"}, Release(t, h, k) PROVE GivenTo(t)'
  BY <1>5, ReleaseEffect, NewThreadFields, Nulls DEF GivenTo, Refs, KeepsHandles, Goes, Leaves,
     Frees, Enters, HandsOver, HandsBack, Shape
<1>6. CASE EndCall(t)
  BY <1>6, EndCallEffect, NewThreadFields, Nulls DEF GivenTo, Refs, KeepsHandles, Goes, Leaves,
     Frees, Enters, HandsOver, HandsBack, Shape
<1>7. CASE SetErrorCb(t)
  BY <1>7, SetErrorCbEffect, NewThreadFields, Nulls DEF GivenTo, Refs, KeepsHandles, Goes,
     Leaves, Frees, Enters, HandsOver, HandsBack, Shape
<1>8. CASE PendingErrorCb(t)
  BY <1>8, PendingErrorCbEffect, NewThreadFields, Nulls DEF GivenTo, Refs, KeepsHandles, Goes,
     Leaves, Frees, Enters, HandsOver, HandsBack, Shape
<1>9. ASSUME NEW c \in Handles, AllocClient(t, c) PROVE GivenTo(t)'
  <2>1. c = next_clid /\ known' = known
    BY <1>9, AllocClientEffect
  <2>2. c \notin known
    BY <2>1 DEF Inv, FreshInv, Fresh, Handles
  <2>3. th[t].call # "none"
    BY <1>9, AllocClientEffect DEF Creating, InitCalls, Shape
  <2> QED
    BY <1>9, <2>1, <2>2, <2>3, AllocClientEffect DEF GivenTo, Refs
<1>10. ASSUME NEW c \in Handles, AllocNotifier(t, c) PROVE GivenTo(t)'
  <2>1. c = next_clid /\ known' = known
    BY <1>10, AllocNotifierEffect
  <2>2. c \notin known
    BY <2>1 DEF Inv, FreshInv, Fresh, Handles
  <2>3. th[t].call # "none"
    BY <1>10, AllocNotifierEffect DEF Shape
  <2> QED
    BY <1>10, <2>1, <2>2, <2>3, AllocNotifierEffect DEF GivenTo, Refs
<1>11. CASE OpenClient(t)
  <2>1. th[t].pc # "idle" /\ KeepsHandles(t) /\ known' = known
    BY <1>11, OpenClientEffect DEF Goes
  <2> QED
    BY <2>1 DEF GivenTo, KeepsHandles, Refs
<1>12. CASE RedoLookup(t)
  BY <1>12, RedoLookupEffect, NewThreadFields, Nulls DEF GivenTo, Refs, KeepsHandles, Goes,
     Leaves, Frees, Enters, HandsOver, HandsBack, Shape
<1>13. CASE CloseXport(t)
  BY <1>13, CloseXportEffect, NewThreadFields, Nulls DEF GivenTo, Refs, KeepsHandles, Goes,
     Leaves, Frees, Enters, HandsOver, HandsBack, Shape
<1>14. CASE JoinReader(t)
  <2>1. th[t].pc # "idle" /\ KeepsHandles(t) /\ known' = known
    BY <1>14, JoinReaderEffect DEF Goes
  <2> QED
    BY <2>1 DEF GivenTo, KeepsHandles, Refs
<1>15. CASE Put(t)
  BY <1>15, PutEffect, NewThreadFields, Nulls DEF GivenTo, Refs, KeepsHandles, Goes, Leaves,
     Frees, Enters, HandsOver, HandsBack, Shape
<1>16. CASE Free(t)
  BY <1>16, FreeEffect, NewThreadFields, Nulls DEF GivenTo, Refs, KeepsHandles, Goes, Leaves,
     Frees, Enters, HandsOver, HandsBack, Shape
<1>17. CASE CountServers(t)
  BY <1>17, CountServersEffect, NewThreadFields, Nulls DEF GivenTo, Refs, KeepsHandles, Goes,
     Leaves, Frees, Enters, HandsOver, HandsBack, Shape
<1>18. CASE ListServers(t)
  BY <1>18, ListServersEffect, NewThreadFields, Nulls DEF GivenTo, Refs, KeepsHandles, Goes,
     Leaves, Frees, Enters, HandsOver, HandsBack, Shape
<1>19. CASE OpenNotifier(t)
  BY <1>19, OpenNotifierEffect, NewThreadFields, Nulls DEF GivenTo, Refs, KeepsHandles, Goes,
     Leaves, Frees, Enters, HandsOver, HandsBack, Shape
<1>20. CASE NotifierLookup(t)
  BY <1>20, NotifierLookupEffect, NewThreadFields, Nulls DEF GivenTo, Refs, KeepsHandles, Goes,
     Leaves, Frees, Enters, HandsOver, HandsBack, Shape
<1>21. CASE ClearSignal(t)
  BY <1>21, ClearSignalEffect, NewThreadFields, Nulls DEF GivenTo, Refs, KeepsHandles, Goes,
     Leaves, Frees, Enters, HandsOver, HandsBack, Shape
<1>22. CASE WaitForServer(t)
  BY <1>22, WaitForServerEffect, NewThreadFields, Nulls DEF GivenTo, Refs, KeepsHandles, Goes,
     Leaves, Frees, Enters, HandsOver, HandsBack, Shape
<1>23. CASE ReturnInit(t)
  BY <1>23, ReturnInitEffect, NewThreadFields, Nulls DEF GivenTo, Refs, KeepsHandles, Goes,
     Leaves, Frees, Enters, HandsOver, HandsBack, Shape
<1>24. CASE ReleaseGet(t)
  BY <1>24, ReleaseGetEffect, NewThreadFields, Nulls DEF GivenTo, Refs, KeepsHandles, Goes,
     Leaves, Frees, Enters, HandsOver, HandsBack, Shape
<1>25. CASE ReleasePut(t)
  BY <1>25, ReleasePutEffect, NewThreadFields, Nulls DEF GivenTo, Refs, KeepsHandles, Goes,
     Leaves, Frees, Enters, HandsOver, HandsBack, Shape
<1>26. CASE ReleaseAsync(t)
  BY <1>26, ReleaseAsyncEffect, NewThreadFields, Nulls DEF GivenTo, Refs, KeepsHandles, Goes,
     Leaves, Frees, Enters, HandsOver, HandsBack, Shape
<1>27. CASE Shut(t)
  BY <1>27, ShutEffect, NewThreadFields, Nulls DEF GivenTo, Refs, KeepsHandles, Goes, Leaves,
     Frees, Enters, HandsOver, HandsBack, Shape
<1>28. CASE AwaitRelease(t)
  BY <1>28, AwaitReleaseEffect, NewThreadFields, Nulls DEF GivenTo, Refs, KeepsHandles, Goes,
     Leaves, Frees, Enters, HandsOver, HandsBack, Shape
<1>29. CASE OpenFails(t)
  BY <1>29, OpenFailsEffect, NewThreadFields, Nulls DEF GivenTo, Refs, KeepsHandles, Goes,
     Leaves, Frees, Enters, HandsOver, HandsBack, Shape
<1>30. CASE TimeOut(t)
  BY <1>30, TimeOutEffect, NewThreadFields, Nulls DEF GivenTo, Refs, KeepsHandles, Goes, Leaves,
     Frees, Enters, HandsOver, HandsBack, Shape
<1> QED
  BY <1>1, <1>2, <1>3, <1>4, <1>5, <1>6, <1>7, <1>8, <1>9, <1>10, <1>11, <1>12, <1>13, <1>14,
     <1>15, <1>16, <1>17, <1>18, <1>19, <1>20, <1>21, <1>22, <1>23, <1>24, <1>25, <1>26, <1>27,
     <1>28, <1>29, <1>30 DEF ThreadStep, CallStart, CallStep
\* A handle that two threads have was given to the application, and neither creates its client.
LEMMA Shared ==
  ASSUME Inv, NEW t \in Threads, NEW u \in Threads, t # u,
         NEW c \in Handles, c \in Refs(t), c \in Refs(u)
  PROVE  /\ c \in known
         /\ th[t].call = "none" /\ th[t].user = NULL
         /\ th[u].call = "none" /\ th[u].user = NULL
<1>1. c \in known
  BY DEF Inv, Private
<1>2. GivenTo(t) /\ GivenTo(u)
  BY DEF Inv, Given
<1> QED
  BY <1>1, <1>2 DEF GivenTo

\* The handles a thread has are not fresh.
LEMMA NotFresh ==
  ASSUME Inv, NEW t \in Threads, NEW c \in Refs(t)
  PROVE  c \in Handles /\ c < next_clid
<1>1. c \in Handles
  BY ThreadElements, Nulls DEF Inv, Refs, Thread
<1>2. ~Fresh(c)
  BY DEF Inv, FreshInv
<1> QED
  BY <1>1, <1>2 DEF Inv, TypeOK, Fresh, Handles

\* A handle that only one thread knows is not learnt by another, save from the application.
LEMMA PrivateStep ==
  ASSUME Inv, NEW t \in Threads, ThreadStep(t)
  PROVE  Private'
<1>1. Takes(t) /\ Others(t)
  BY TakesStep, OthersStep
<1>2. next_clid \in Handles => \A u \in Threads : next_clid \notin Refs(u)
  BY NotFresh DEF Handles
<1>3. known \subseteq known'
  BY <1>1 DEF Takes
<1>4. \A u \in Threads \ {t} : Refs(u)' = Refs(u)
  BY <1>1 DEF Others, Refs
<1>5. \A u \in Threads \ {t} : Refs(t)' \cap Refs(u) \subseteq known
  BY <1>1, <1>2 DEF Takes, Inv, Private
<1>6. SUFFICES ASSUME NEW u \in Threads, NEW v \in Threads, u # v
               PROVE  (Refs(u) \cap Refs(v))' \subseteq known'
  BY DEF Private
<1>7. CASE u # t /\ v # t
  BY <1>3, <1>4, <1>6, <1>7 DEF Inv, Private
<1>8. CASE u = t
  BY <1>3, <1>4, <1>5, <1>6, <1>8
<1>9. CASE v = t
  BY <1>3, <1>4, <1>5, <1>6, <1>9
<1> QED
  BY <1>7, <1>8, <1>9

\* A client that is being made is not given to anybody; calls are made with clients that were.
LEMMA GivenNext ==
  ASSUME Inv, NEW t \in Threads, ThreadStep(t)
  PROVE  Given'
<1>1. Takes(t) /\ Others(t) /\ GivenTo(t)'
  BY TakesStep, OthersStep, GivenStep
<1>2. known \subseteq known' /\ known' \subseteq known \cup Refs(t)
  BY <1>1 DEF Takes
<1>3. ASSUME NEW u \in Threads, u # t
      PROVE  GivenTo(u)'
  <2>1. th'[u] = th[u] /\ Refs(u)' = Refs(u) /\ GivenTo(u)
    BY <1>1, <1>3 DEF Others, Refs, Inv, Given
  <2>2. th[u].call # "none" \/ th[u].user # NULL => Refs(u) \cap Refs(t) = {}
    BY <1>3, Shared, NotFresh
  <2> QED
    BY <1>2, <2>1, <2>2 DEF GivenTo
<1> QED
  BY <1>1, <1>3 DEF Given

-----------------------------------------------------------------------------
(* A step of a thread touches the client it works on, or starts to work on, and no other. *)

\* A step leaves client c alone: its struct, its transport, its place in the table, its history.
Untouched(c) ==
  /\ clnt'[c] = clnt[c] /\ xport'[c] = xport[c] /\ hist'.released[c] = hist.released[c]
  /\ c \in table' <=> c \in table
  /\ \A k \in Regs : hist'.reg[k] = c <=> hist.reg[k] = c

\* That is what every action of a thread does.
LEMMA TouchStep ==
  ASSUME Inv, NEW t \in Threads, ThreadStep(t)
  PROVE  \A d \in Handles : d = th[t].c \/ d = th'[t].c \/ Untouched(d)
<1> TypeOK
  BY DEF Inv
<1>1. ASSUME NEW h \in Handles, Call(t, h)
      PROVE  \A d \in Handles : d = th[t].c \/ d = th'[t].c \/ Untouched(d)
  BY <1>1, CallEffect, LeftElements DEF Enters, Untouched, OnlyClient, OnlyXport, KeepsClient,
     Gains, Loses
<1>2. ASSUME NEW h \in Handles, RegisterErrorCb(t, h)
      PROVE  \A d \in Handles : d = th[t].c \/ d = th'[t].c \/ Untouched(d)
  BY <1>2, RegisterErrorCbEffect DEF Enters, Untouched, OnlyClient, OnlyXport, KeepsClient,
     Gains, Loses
<1>3. ASSUME NEW s \in Servers, InitClient(t, s)
      PROVE  \A d \in Handles : d = th[t].c \/ d = th'[t].c \/ Untouched(d)
  BY <1>3, InitClientEffect DEF Untouched, OnlyClient, OnlyXport, KeepsClient, Gains, Loses
<1>4. CASE InitInstance(t)
  BY <1>4, InitInstanceEffect DEF Untouched, OnlyClient, OnlyXport, KeepsClient, Gains, Loses
<1>5. ASSUME NEW h \in Handles, NEW k \in {"sync", "async"}, Release(t, h, k)
      PROVE  \A d \in Handles : d = th[t].c \/ d = th'[t].c \/ Untouched(d)
  BY <1>5, ReleaseEffect DEF Untouched, OnlyClient, OnlyXport, KeepsClient, Gains, Loses
<1>6. CASE EndCall(t)
  BY <1>6, EndCallEffect DEF Untouched, OnlyClient, OnlyXport, KeepsClient, Gains, Loses
<1>7. CASE SetErrorCb(t)
  <2>1. /\ th[t].c \in Handles /\ th[t].cb \in Regs /\ hist.reg[th[t].cb] = NULL
        /\ hist'.reg = [hist.reg EXCEPT ![th[t].cb] = th[t].c] /\ hist'.released = hist.released
        /\ hist.reg \in [Regs -> Handles \cup {NULL}]
    BY <1>7, SetErrorCbEffect, Callbacks DEF Inv, RegInv, TypeOK, History
  <2>2. OnlyClient(th[t].c) /\ xport' = xport /\ table' = table
    BY <1>7, SetErrorCbEffect
  <2> QED
    BY <2>1, <2>2, Nulls DEF Untouched, OnlyClient
<1>8. CASE PendingErrorCb(t)
  BY <1>8, PendingErrorCbEffect, Callbacks DEF TypeOK, History, Untouched, OnlyClient, OnlyXport,
     KeepsClient, Gains, Loses
<1>9. ASSUME NEW c \in Handles, AllocClient(t, c)
      PROVE  \A d \in Handles : d = th[t].c \/ d = th'[t].c \/ Untouched(d)
  BY <1>9, AllocClientEffect DEF Untouched, OnlyClient, OnlyXport, KeepsClient, Gains, Loses
<1>10. ASSUME NEW c \in Handles, AllocNotifier(t, c)
       PROVE  \A d \in Handles : d = th[t].c \/ d = th'[t].c \/ Untouched(d)
  BY <1>10, AllocNotifierEffect DEF Untouched, OnlyClient, OnlyXport, KeepsClient, Gains, Loses
<1>11. CASE OpenClient(t)
  <2>1. OnlyClient(th[t].c) /\ OnlyXport(th[t].c) /\ table' = table /\ hist' = hist
    BY <1>11, OpenClientEffect DEF KeepsClient, Loses
  <2> QED
    BY <2>1 DEF Untouched, OnlyClient, OnlyXport
<1>12. CASE RedoLookup(t)
  BY <1>12, RedoLookupEffect DEF Untouched, OnlyClient, OnlyXport, KeepsClient, Gains, Loses
<1>13. CASE CloseXport(t)
  BY <1>13, CloseXportEffect DEF Untouched, OnlyClient, OnlyXport, KeepsClient, Gains, Loses
<1>14. CASE JoinReader(t)
  <2>1. OnlyClient(th[t].c) /\ OnlyXport(th[t].c) /\ table' = table /\ hist' = hist
    BY <1>14, JoinReaderEffect DEF KeepsClient, Loses
  <2> QED
    BY <2>1 DEF Untouched, OnlyClient, OnlyXport
<1>15. CASE Put(t)
  BY <1>15, PutEffect DEF Untouched, OnlyClient, OnlyXport, KeepsClient, Gains, Loses
<1>16. CASE Free(t)
  BY <1>16, FreeEffect DEF Untouched, OnlyClient, OnlyXport, KeepsClient, Gains, Loses
<1>17. CASE CountServers(t)
  BY <1>17, CountServersEffect DEF Untouched, OnlyClient, OnlyXport, KeepsClient, Gains, Loses
<1>18. CASE ListServers(t)
  BY <1>18, ListServersEffect DEF Untouched, OnlyClient, OnlyXport, KeepsClient, Gains, Loses
<1>19. CASE OpenNotifier(t)
  <2>1. OnlyClient(th[t].c) /\ OnlyXport(th[t].c) /\ table' = table /\ hist' = hist
    BY <1>19, OpenNotifierEffect DEF KeepsClient, Loses
  <2> QED
    BY <2>1 DEF Untouched, OnlyClient, OnlyXport
<1>20. CASE NotifierLookup(t)
  BY <1>20, NotifierLookupEffect DEF Untouched, OnlyClient, OnlyXport, KeepsClient, Gains, Loses
<1>21. CASE ClearSignal(t)
  BY <1>21, ClearSignalEffect DEF Untouched, OnlyClient, OnlyXport, KeepsClient, Gains, Loses
<1>22. CASE WaitForServer(t)
  BY <1>22, WaitForServerEffect DEF Untouched, OnlyClient, OnlyXport, KeepsClient, Gains, Loses
<1>23. CASE ReturnInit(t)
  BY <1>23, ReturnInitEffect DEF Untouched, OnlyClient, OnlyXport, KeepsClient, Gains, Loses
<1>24. CASE ReleaseGet(t)
  BY <1>24, ReleaseGetEffect DEF Untouched, OnlyClient, OnlyXport, KeepsClient, Gains, Loses
<1>25. CASE ReleasePut(t)
  BY <1>25, ReleasePutEffect DEF Untouched, OnlyClient, OnlyXport, KeepsClient, Gains, Loses
<1>26. CASE ReleaseAsync(t)
  BY <1>26, ReleaseAsyncEffect DEF Untouched, OnlyClient, OnlyXport, KeepsClient, Gains, Loses
<1>27. CASE Shut(t)
  BY <1>27, ShutEffect DEF Untouched, OnlyClient, OnlyXport, KeepsClient, Gains, Loses
<1>28. CASE AwaitRelease(t)
  BY <1>28, AwaitReleaseEffect DEF Untouched, OnlyClient, OnlyXport, KeepsClient, Gains, Loses
<1>29. CASE OpenFails(t)
  BY <1>29, OpenFailsEffect DEF Untouched, OnlyClient, OnlyXport, KeepsClient, Gains, Loses
<1>30. CASE TimeOut(t)
  BY <1>30, TimeOutEffect DEF Untouched, OnlyClient, OnlyXport, KeepsClient, Gains, Loses
<1> QED
  BY <1>1, <1>2, <1>3, <1>4, <1>5, <1>6, <1>7, <1>8, <1>9, <1>10, <1>11, <1>12, <1>13, <1>14,
     <1>15, <1>16, <1>17, <1>18, <1>19, <1>20, <1>21, <1>22, <1>23, <1>24, <1>25, <1>26, <1>27,
     <1>28, <1>29, <1>30 DEF ThreadStep, CallStart, CallStep

\* Handles that next_clid has not reached are in no table and in nobody's hands.
LEMMA FreshNext ==
  ASSUME Inv, NEW t \in Threads, ThreadStep(t)
  PROVE  FreshInv'
<1>1. Takes(t) /\ Others(t) /\ TypeOK'
  BY TakesStep, OthersStep, ThreadType
<1>2. /\ next_clid \in Nat /\ next_clid' \in Nat
      /\ next_clid' = next_clid \/ next_clid' = next_clid + 1
  BY <1>1 DEF Inv, TypeOK, Takes
<1>3. known \subseteq Handles /\ \A d \in Handles : d \in Nat
  BY DEF Inv, TypeOK, Handles
<1>4. \A d \in known : d < next_clid
  BY <1>2, <1>3 DEF Inv, FreshInv, Fresh
<1>5. \A d \in Refs(t)' \cup known' : d < next_clid'
  BY <1>1, <1>2, <1>3, <1>4, NotFresh DEF Takes
<1>6. ASSUME NEW u \in Threads, NEW d \in Refs(u)'
      PROVE  ~Fresh(d)'
  <2>1. d < next_clid'
    <3>1. CASE u = t
      BY <1>5, <1>6, <3>1
    <3>2. CASE u # t
      <4>1. d \in Refs(u)
        BY <1>1, <1>6, <3>2 DEF Others, Refs
      <4>2. d \in Handles /\ d < next_clid
        BY <4>1, NotFresh
      <4> QED
        BY <1>2, <1>3, <4>2
    <3> QED
      BY <3>1, <3>2
  <2>2. d \in Handles
    BY <1>1, <1>6, ThreadElements, Nulls DEF TypeOK, Refs, Thread
  <2> QED
    BY <1>2, <1>3, <2>1, <2>2 DEF Fresh
<1>7. ASSUME NEW c \in Handles, Fresh(c)'
      PROVE  /\ clnt'[c] = NewClient /\ xport'[c] = NewXport
             /\ c \notin table' /\ c \notin known'
             /\ hist'.released[c] = 0
             /\ \A k \in Regs : hist'.reg[k] # c
  <2>1. c >= next_clid' /\ c \in Nat
    BY <1>3, <1>7 DEF Fresh
  <2>2. Fresh(c)
    BY <1>2, <2>1 DEF Fresh
  <2>3. c \notin Refs(t) /\ c \notin Refs(t)' /\ c \notin known'
    BY <1>2, <1>5, <2>1, <2>2, NotFresh DEF Fresh
  <2>4. c # th[t].c /\ c # th'[t].c
    BY <2>3, Nulls DEF Refs
  <2>5. Untouched(c)
    BY <2>4, TouchStep
  <2> QED
    BY <2>2, <2>3, <2>5 DEF Untouched, Inv, FreshInv
<1> QED
  BY <1>6, <1>7 DEF FreshInv

\* One thread more at most is in the library.
LEMMA ActiveNext ==
  ASSUME Inv, NEW t \in Threads, ThreadStep(t)
  PROVE  IsFiniteSet(Active)'
<1>1. Active' \subseteq Active \cup {t}
  BY OthersStep DEF Active, Others
<1>2. IsFiniteSet(Active \cup {t})
  BY FS_AddElement DEF Inv
<1> QED
  BY <1>1, <1>2, FS_Subset

\* The local variables of every thread are as Shape says.
LEMMA ShapeNext ==
  ASSUME Inv, NEW t \in Threads, ThreadStep(t)
  PROVE  ShapeInv'
<1>1. Others(t) /\ Shape(th'[t])
  BY OthersStep, ShapeStep
<1> QED
  BY <1>1 DEF ShapeInv, Others, Inv

\* The steps of the others leave the threads alone.
LEMMA OtherHands ==
  ASSUME Inv, OtherStep
  PROVE  /\ ShapeInv' /\ IsFiniteSet(Active)' /\ Private' /\ Given' /\ FreshInv'
<1>1. Aside
  BY OtherAside
<1>2. th' = th /\ known' = known /\ next_clid' = next_clid /\ table' = table
  BY <1>1 DEF Aside
<1>3. Active' = Active
  BY <1>2 DEF Active
<1>4. \A t \in Threads : Refs(t)' = Refs(t)
  BY <1>2 DEF Refs
<1>5. Private' /\ Given'
  BY <1>2, <1>4 DEF Inv, Private, Given, GivenTo
<1>6. FreshInv'
  <2>1. ASSUME NEW c \in Handles, Fresh(c)
        PROVE  xport[c].state # "open" /\ AsideClient(c)
    BY <1>1, <2>1, NewXportFields DEF Aside, Inv, FreshInv
  <2>2. hist'.released = hist.released /\ hist'.reg = hist.reg
    BY <1>1 DEF Aside
  <2> QED
    BY <1>2, <1>4, <2>1, <2>2 DEF FreshInv, Fresh, Inv, AsideClient
<1> QED
  BY <1>2, <1>3, <1>5, <1>6 DEF Inv, ShapeInv

-----------------------------------------------------------------------------
(* What a step of a thread means for the references of a client. *)

\* Thread t has a reference of its own to client c.
Uses(t, c) == th[t].c = c /\ th[t].pc \in UserPcs
\* Thread t is about to open the transport of client c.
Opens(t, c) == th[t].c = c /\ th[t].pc \in {"open", "n_open"}

\* Whether it uses or opens c does not change.
SameUse(t, c) == (Uses(t, c)' <=> Uses(t, c)) /\ (Opens(t, c)' <=> Opens(t, c))
\* It does not open c, before or after.
NoOpener(t, c) == ~Opens(t, c) /\ ~Opens(t, c)'
\* It does not free c, before or after.
NotFreeing(t, c) == ~Freeing(t, c) /\ ~Freeing(t, c)'
\* The state of c's transport does not change.
SameState(c) == xport'[c].state = xport[c].state

\* It has nothing to do with the references of c ...
Rests(t, c) ==
  /\ clnt'[c].alive = clnt[c].alive /\ clnt'[c].ref_count = clnt[c].ref_count
  /\ SameState(c) /\ SameUse(t, c)
  /\ Freeing(t, c)' <=> Freeing(t, c)
  /\ c \in table' => c \in table
\* ... or takes a reference of a client that has a transport ...
Joins(t, c) ==
  /\ ~Uses(t, c) /\ Uses(t, c)' /\ NoOpener(t, c) /\ NotFreeing(t, c)
  /\ c \in table /\ xport[c].state = "open" /\ SameState(c)
  /\ clnt'[c].alive = clnt[c].alive /\ clnt'[c].ref_count = clnt[c].ref_count + 1
\* ... or gives one back ...
Quits(t, c) ==
  /\ Uses(t, c) /\ ~Uses(t, c)' /\ NoOpener(t, c) /\ SameState(c)
  /\ clnt'[c].alive = clnt[c].alive /\ clnt'[c].ref_count = clnt[c].ref_count - 1
  /\ Freeing(t, c)' <=> clnt[c].ref_count = 1
  /\ c \in table' => c \in table
\* ... or creates the client ...
Creates(t, c) ==
  /\ c = next_clid /\ Uses(t, c)' /\ Opens(t, c)' /\ ~Freeing(t, c)'
  /\ clnt'[c].alive /\ clnt'[c].ref_count = 2 /\ SameState(c)
\* ... or opens its transport ...
Connects(t, c) ==
  /\ Uses(t, c) /\ Uses(t, c)' /\ Opens(t, c) /\ ~Opens(t, c)' /\ NotFreeing(t, c)
  /\ xport[c].state = "none" /\ xport'[c].state = "open"
  /\ clnt'[c].alive = clnt[c].alive /\ clnt'[c].ref_count = clnt[c].ref_count
  /\ c \in table
\* ... or fails to, or closes it ...
Disconnects(t, c) ==
  /\ Uses(t, c) /\ Uses(t, c)' /\ ~Opens(t, c)' /\ NotFreeing(t, c)
  /\ xport[c].state = IF Opens(t, c) THEN "none" ELSE "open"
  /\ xport'[c].state # "open"
  /\ clnt'[c].alive = clnt[c].alive /\ clnt'[c].ref_count = clnt[c].ref_count - 1
  /\ c \in table' => c \in table
\* ... or frees the client.
Deletes(t, c) ==
  /\ Freeing(t, c) /\ ~Freeing(t, c)' /\ ~Uses(t, c) /\ ~Uses(t, c)' /\ NoOpener(t, c)
  /\ ~clnt'[c].alive /\ SameState(c) /\ c \notin table'

\* What a step of thread t may mean for the references of client c.
Kind(t, c) ==
  \/ Rests(t, c) \/ Joins(t, c) \/ Quits(t, c) \/ Creates(t, c)
  \/ Connects(t, c) \/ Disconnects(t, c) \/ Deletes(t, c)

\* To clients that are neither in its hands before nor after, it does nothing.
LEMMA RestsElse ==
  ASSUME Inv, NEW t \in Threads, ThreadStep(t), NEW c \in Handles, c # th[t].c, c # th'[t].c
  PROVE  Rests(t, c)
<1>1. Untouched(c)
  BY TouchStep
<1> QED
  BY <1>1 DEF Rests, Untouched, SameState, SameUse, Uses, Opens, Freeing

\* That is all a step of a thread can mean for a client.
LEMMA KindStep ==
  ASSUME Inv, NEW t \in Threads, ThreadStep(t), NEW c \in Handles
  PROVE  Kind(t, c)
<1> TypeOK
  BY DEF Inv
<1>1. ASSUME NEW h \in Handles, Call(t, h) PROVE Kind(t, c)
  <2>1. th[t].pc = "idle" /\ Enters(t, "call", "none", "none", h) /\ Gains(h) /\ h \in known
        /\ h \in table /\ UNCHANGED <<xport, table>>
    BY <1>1, CallEffect
  <2>2. xport[h].state = "open"
    BY <2>1 DEF Inv, XportInv
  <2>3. Joins(t, h)
    BY <2>1, <2>2 DEF Joins, Enters, Gains, KeepsClient, NoOpener, NotFreeing, UserPcs, SameState, SameUse, Uses, Opens, Freeing
  <2>4. c # h => Rests(t, c)
    BY <2>1 DEF Rests, Enters, Gains, KeepsClient, OnlyClient, UserPcs, SameState, SameUse, Uses, Opens, Freeing
  <2> QED
    BY <2>3, <2>4 DEF Kind
<1>2. ASSUME NEW h \in Handles, RegisterErrorCb(t, h) PROVE Kind(t, c)
  <2>1. th[t].pc = "idle" /\ Enters(t, "reg", "none", "none", h) /\ Gains(h) /\ h \in known
        /\ h \in table /\ UNCHANGED <<xport, table>>
    BY <1>2, RegisterErrorCbEffect
  <2>2. xport[h].state = "open"
    BY <2>1 DEF Inv, XportInv
  <2>3. Joins(t, h)
    BY <2>1, <2>2 DEF Joins, Enters, Gains, KeepsClient, NoOpener, NotFreeing, UserPcs, SameState, SameUse, Uses, Opens, Freeing
  <2>4. c # h => Rests(t, c)
    BY <2>1 DEF Rests, Enters, Gains, KeepsClient, OnlyClient, UserPcs, SameState, SameUse, Uses, Opens, Freeing
  <2> QED
    BY <2>3, <2>4 DEF Kind
<1>3. ASSUME NEW s \in Servers, InitClient(t, s) PROVE Kind(t, c)
  BY <1>3, InitClientEffect, Nulls, NewThreadFields DEF Kind, Rests, SameState, SameUse, Uses,
     Opens, Freeing, UserPcs, Goes, Frees, Leaves, Enters, HandsOver, HandsBack, KeepsHandles
<1>4. CASE InitInstance(t)
  BY <1>4, InitInstanceEffect, Nulls, NewThreadFields DEF Kind, Rests, SameState, SameUse, Uses,
     Opens, Freeing, UserPcs, Goes, Frees, Leaves, Enters, HandsOver, HandsBack, KeepsHandles
<1>5. ASSUME NEW h \in Handles, NEW k \in {"sync", "async"}, Release(t, h, k) PROVE Kind(t, c)
  BY <1>5, ReleaseEffect, Nulls, NewThreadFields DEF Kind, Rests, SameState, SameUse, Uses,
     Opens, Freeing, UserPcs, Goes, Frees, Leaves, Enters, HandsOver, HandsBack, KeepsHandles
<1>6. CASE EndCall(t)
  <2>1. th[t].pc = "call" /\ Loses(th[t].c) /\ UNCHANGED <<xport, table>>
    BY <1>6, EndCallEffect
  <2>2. \/ clnt[th[t].c].ref_count = 1 /\ Frees(t, "idle")
        \/ clnt[th[t].c].ref_count # 1 /\ Leaves(t)
    BY <1>6, EndCallEffect
  <2>3. Quits(t, th[t].c)
    BY <2>1, <2>2 DEF Quits, Loses, KeepsClient, NoOpener, UserPcs, Goes, Frees, Leaves,
       KeepsHandles, NewThread, SameState, SameUse, Uses, Opens, Freeing
  <2>4. th'[t].c \in {th[t].c, NULL}
    BY <2>2, NewThreadFields DEF Goes, Frees, Leaves, KeepsHandles
  <2> QED
    BY <2>3, <2>4, RestsElse, Nulls DEF Kind
<1>7. CASE SetErrorCb(t)
  <2>1. /\ th[t].pc = "reg" /\ (Goes(t, "reg_cb") \/ Goes(t, "put"))
        /\ OnlyClient(th[t].c)
        /\ clnt'[th[t].c].alive = clnt[th[t].c].alive
        /\ clnt'[th[t].c].ref_count = clnt[th[t].c].ref_count /\ UNCHANGED <<xport, table>>
    BY <1>7, SetErrorCbEffect
  <2> QED
    BY <2>1 DEF Kind, Rests, OnlyClient, Goes, KeepsHandles, UserPcs, SameState, SameUse, Uses, Opens, Freeing
<1>8. CASE PendingErrorCb(t)
  BY <1>8, PendingErrorCbEffect, Nulls, NewThreadFields DEF Kind, Rests, SameState, SameUse,
     Uses, Opens, Freeing, UserPcs, Goes, Frees, Leaves, Enters, HandsOver, HandsBack,
     KeepsHandles
<1>9. ASSUME NEW d \in Handles, AllocClient(t, d) PROVE Kind(t, c)
  <2>1. /\ th[t].pc = "alloc" /\ th'[t].c = d /\ th'[t].pc \in {"open", "n_open"}
        /\ d = next_clid /\ clnt'[d].alive /\ clnt'[d].ref_count = 2
        /\ table' = table \cup {d} /\ OnlyClient(d) /\ xport' = xport
    BY <1>9, AllocClientEffect
  <2>2. Creates(t, d)
    BY <2>1 DEF Creates, UserPcs, SameState, SameUse, Uses, Opens, Freeing
  <2>3. d # c => Rests(t, c)
    BY <2>1 DEF Rests, OnlyClient, UserPcs, SameState, SameUse, Uses, Opens, Freeing
  <2> QED
    BY <2>2, <2>3 DEF Kind
<1>10. ASSUME NEW d \in Handles, AllocNotifier(t, d) PROVE Kind(t, c)
  <2>1. /\ th[t].pc = "notifier" /\ th'[t].c = d /\ th'[t].pc \in {"open", "n_open"}
        /\ d = next_clid /\ clnt'[d].alive /\ clnt'[d].ref_count = 2
        /\ table' = table \cup {d} /\ OnlyClient(d) /\ xport' = xport
    BY <1>10, AllocNotifierEffect
  <2>2. Creates(t, d)
    BY <2>1 DEF Creates, UserPcs, SameState, SameUse, Uses, Opens, Freeing
  <2>3. d # c => Rests(t, c)
    BY <2>1 DEF Rests, OnlyClient, UserPcs, SameState, SameUse, Uses, Opens, Freeing
  <2> QED
    BY <2>2, <2>3 DEF Kind
<1>11. CASE OpenClient(t)
  <2>1. /\ th[t].pc = "open" /\ th'[t].pc = "lookup" /\ KeepsHandles(t)
        /\ KeepsClient(th[t].c) /\ clnt'[th[t].c].ref_count = clnt[th[t].c].ref_count
        /\ xport'[th[t].c].state = "open" /\ table' = table
    BY <1>11, OpenClientEffect
  <2>2. xport[th[t].c].state = "none" /\ th[t].c \in table
    BY <2>1 DEF Inv, XportInv, Opening
  <2>3. Connects(t, th[t].c)
    BY <2>1, <2>2 DEF Connects, KeepsClient, Goes, KeepsHandles, NotFreeing, UserPcs, SameState, SameUse, Uses, Opens, Freeing
  <2> QED
    BY <2>1, <2>3, RestsElse DEF Kind, Goes, KeepsHandles
<1>12. CASE RedoLookup(t)
  BY <1>12, RedoLookupEffect, Nulls, NewThreadFields DEF Kind, Rests, SameState, SameUse, Uses,
     Opens, Freeing, UserPcs, Goes, Frees, Leaves, Enters, HandsOver, HandsBack, KeepsHandles
<1>13. CASE CloseXport(t)
  <2>1. /\ th[t].pc = "close" /\ Goes(t, "join") /\ OnlyXport(th[t].c)
        /\ xport'[th[t].c].state = xport[th[t].c].state /\ UNCHANGED <<clnt, table>>
    BY <1>13, CloseXportEffect
  <2> QED
    BY <2>1 DEF Kind, Rests, OnlyXport, Goes, KeepsHandles, UserPcs, SameState, SameUse, Uses, Opens, Freeing
<1>14. CASE JoinReader(t)
  <2>1. /\ th[t].pc = "join" /\ Goes(t, "put") /\ Loses(th[t].c)
        /\ xport'[th[t].c].state = "freed" /\ table' = table /\ th[t].c \in Handles
    BY <1>14, JoinReaderEffect, HeldTwice
  <2>2. xport[th[t].c].state = "open"
    BY <2>1 DEF Inv, XportInv, Closing
  <2>3. Disconnects(t, th[t].c)
    BY <2>1, <2>2 DEF Disconnects, Loses, KeepsClient, Goes, KeepsHandles, NotFreeing, UserPcs, SameState, SameUse, Uses, Opens, Freeing
  <2> QED
    BY <2>1, <2>3, RestsElse DEF Kind, Goes, KeepsHandles
<1>15. CASE Put(t)
  <2>1. th[t].pc = "put" /\ Loses(th[t].c) /\ UNCHANGED <<xport, table>>
    BY <1>15, PutEffect
  <2>2. \/ clnt[th[t].c].ref_count = 1 /\ Frees(t, PutReturns(t))
        \/ clnt[th[t].c].ref_count # 1 /\ Leaves(t)
        \/ clnt[th[t].c].ref_count # 1 /\ Goes(t, PutReturns(t))
    BY <1>15, PutEffect
  <2>3. Quits(t, th[t].c)
    BY <2>1, <2>2 DEF Quits, Loses, KeepsClient, NoOpener, UserPcs, Goes, Frees, Leaves,
       KeepsHandles, NewThread, PutReturns, SameState, SameUse, Uses, Opens, Freeing
  <2>4. th'[t].c \in {th[t].c, NULL}
    BY <2>2, NewThreadFields DEF Goes, Frees, Leaves, KeepsHandles
  <2> QED
    BY <2>3, <2>4, RestsElse, Nulls DEF Kind
<1>16. CASE Free(t)
  <2>1. /\ th[t].pc = "free" /\ clnt'[th[t].c] = NewClient /\ table' = table \ {th[t].c}
        /\ xport' = xport
    BY <1>16, FreeEffect
  <2>2. Leaves(t) \/ (Goes(t, th[t].after) /\ th[t].after \in {"idle", "returned", "rel_wait", "rel_async"})
    BY <1>16, <2>1, FreeEffect DEF Inv, ShapeInv, Shape
  <2>3. Deletes(t, th[t].c)
    BY <2>1, <2>2, NewClientFields, NewThreadFields DEF Deletes, NoOpener, UserPcs, Goes, Leaves,
       KeepsHandles, SameState, SameUse, Uses, Opens, Freeing
  <2>4. th'[t].c \in {th[t].c, NULL}
    BY <2>2, NewThreadFields DEF Goes, Leaves, KeepsHandles
  <2> QED
    BY <2>3, <2>4, RestsElse, Nulls DEF Kind
<1>17. CASE CountServers(t)
  BY <1>17, CountServersEffect, Nulls, NewThreadFields DEF Kind, Rests, SameState, SameUse, Uses,
     Opens, Freeing, UserPcs, Goes, Frees, Leaves, Enters, HandsOver, HandsBack, KeepsHandles
<1>18. CASE ListServers(t)
  BY <1>18, ListServersEffect, Nulls, NewThreadFields DEF Kind, Rests, SameState, SameUse, Uses,
     Opens, Freeing, UserPcs, Goes, Frees, Leaves, Enters, HandsOver, HandsBack, KeepsHandles
<1>19. CASE OpenNotifier(t)
  <2>1. /\ th[t].pc = "n_open" /\ Goes(t, "n_lookup")
        /\ KeepsClient(th[t].c) /\ clnt'[th[t].c].ref_count = clnt[th[t].c].ref_count
        /\ xport'[th[t].c].state = "open" /\ table' = table
    BY <1>19, OpenNotifierEffect
  <2>2. xport[th[t].c].state = "none" /\ th[t].c \in table
    BY <2>1 DEF Inv, XportInv, Opening
  <2>3. Connects(t, th[t].c)
    BY <2>1, <2>2 DEF Connects, KeepsClient, Goes, KeepsHandles, NotFreeing, UserPcs, SameState, SameUse, Uses, Opens, Freeing
  <2> QED
    BY <2>1, <2>3, RestsElse DEF Kind, Goes, KeepsHandles
<1>20. CASE NotifierLookup(t)
  <2>1. /\ th[t].pc = "n_lookup" /\ Loses(th[t].c) /\ UNCHANGED <<xport, table>>
        /\ th'[t].pc = "clear" /\ th'[t].c = th[t].c
    BY <1>20, NotifierLookupEffect
  <2>2. clnt[th[t].c].ref_count > 1
    BY <2>1, HeldTwice
  <2>3. Quits(t, th[t].c)
    BY <2>1, <2>2 DEF Quits, Loses, KeepsClient, NoOpener, UserPcs, SameState, SameUse, Uses, Opens, Freeing
  <2> QED
    BY <2>1, <2>3, RestsElse DEF Kind
<1>21. CASE ClearSignal(t)
  BY <1>21, ClearSignalEffect, Nulls, NewThreadFields DEF Kind, Rests, SameState, SameUse, Uses,
     Opens, Freeing, UserPcs, Goes, Frees, Leaves, Enters, HandsOver, HandsBack, KeepsHandles
<1>22. CASE WaitForServer(t)
  BY <1>22, WaitForServerEffect, Nulls, NewThreadFields DEF Kind, Rests, SameState, SameUse,
     Uses, Opens, Freeing, UserPcs, Goes, Frees, Leaves, Enters, HandsOver, HandsBack,
     KeepsHandles
<1>23. CASE ReturnInit(t)
  BY <1>23, ReturnInitEffect, Nulls, NewThreadFields DEF Kind, Rests, SameState, SameUse, Uses,
     Opens, Freeing, UserPcs, Goes, Frees, Leaves, Enters, HandsOver, HandsBack, KeepsHandles
<1>24. CASE ReleaseGet(t)
  <2>1. th[t].pc = "rel_get" /\ xport' = xport
    BY <1>24, ReleaseGetEffect
  <2>2. CASE th[t].c \in table
    <3>1. Gains(th[t].c) /\ Goes(t, "rel_put")
      BY <1>24, <2>2, ReleaseGetEffect
    <3>2. xport[th[t].c].state = "open"
      BY <2>1, <2>2 DEF Inv, XportInv
    <3>3. Joins(t, th[t].c)
      BY <2>1, <2>2, <3>1, <3>2 DEF Joins, Gains, KeepsClient, Goes, KeepsHandles, NoOpener,
         NotFreeing, UserPcs, SameState, SameUse, Uses, Opens, Freeing
    <3> QED
      BY <3>1, <3>3, RestsElse DEF Kind, Goes, KeepsHandles
  <2>3. CASE th[t].c \notin table
    <3>1. HandsBack(t) /\ clnt' = clnt /\ table' = table
      BY <1>24, <2>3, ReleaseGetEffect
    <3> QED
      BY <2>1, <3>1, NewThreadFields, Nulls DEF Kind, Rests, HandsBack, Leaves, UserPcs, SameState, SameUse, Uses, Opens, Freeing
  <2> QED
    BY <2>2, <2>3
<1>25. CASE ReleasePut(t)
  <2>1. th[t].pc = "rel_put" /\ Loses(th[t].c) /\ UNCHANGED <<xport, table>>
    BY <1>25, ReleasePutEffect
  <2>2. \/ clnt[th[t].c].ref_count = 1 /\ Frees(t, "rel_async")
        \/ clnt[th[t].c].ref_count # 1 /\ Goes(t, "rel_async")
    BY <1>25, ReleasePutEffect
  <2>3. Quits(t, th[t].c)
    BY <2>1, <2>2 DEF Quits, Loses, KeepsClient, NoOpener, UserPcs, Goes, Frees, Leaves,
       KeepsHandles, NewThread, SameState, SameUse, Uses, Opens, Freeing
  <2>4. th'[t].c \in {th[t].c, NULL}
    BY <2>2, NewThreadFields DEF Goes, Frees, Leaves, KeepsHandles
  <2> QED
    BY <2>3, <2>4, RestsElse, Nulls DEF Kind
<1>26. CASE ReleaseAsync(t)
  <2>1. th[t].pc = "rel_async" /\ xport' = xport
    BY <1>26, ReleaseAsyncEffect
  <2>2. CASE th[t].c \in table
    <3>1. Gains(th[t].c) /\ Goes(t, "shut")
      BY <1>26, <2>2, ReleaseAsyncEffect
    <3>2. xport[th[t].c].state = "open"
      BY <2>1, <2>2 DEF Inv, XportInv
    <3>3. Joins(t, th[t].c)
      BY <2>1, <2>2, <3>1, <3>2 DEF Joins, Gains, KeepsClient, Goes, KeepsHandles, NoOpener,
         NotFreeing, UserPcs, SameState, SameUse, Uses, Opens, Freeing
    <3> QED
      BY <3>1, <3>3, RestsElse DEF Kind, Goes, KeepsHandles
  <2>3. CASE th[t].c \notin table
    <3>1. HandsBack(t) /\ clnt' = clnt /\ table' = table
      BY <1>26, <2>3, ReleaseAsyncEffect
    <3> QED
      BY <2>1, <3>1, NewThreadFields, Nulls DEF Kind, Rests, HandsBack, Leaves, UserPcs, SameState, SameUse, Uses, Opens, Freeing
  <2> QED
    BY <2>2, <2>3
<1>27. CASE Shut(t)
  <2>1. /\ th[t].pc = "shut" /\ Goes(t, "close") /\ OnlyClient(th[t].c)
        /\ clnt'[th[t].c].alive = clnt[th[t].c].alive
        /\ clnt'[th[t].c].ref_count = clnt[th[t].c].ref_count /\ UNCHANGED <<xport, table>>
    BY <1>27, ShutEffect
  <2> QED
    BY <2>1 DEF Kind, Rests, OnlyClient, Goes, KeepsHandles, UserPcs, SameState, SameUse, Uses, Opens, Freeing
<1>28. CASE AwaitRelease(t)
  BY <1>28, AwaitReleaseEffect, Nulls, NewThreadFields DEF Kind, Rests, SameState, SameUse, Uses,
     Opens, Freeing, UserPcs, Goes, Frees, Leaves, Enters, HandsOver, HandsBack, KeepsHandles
<1>29. CASE OpenFails(t)
  <2>1. /\ th[t].pc \in {"open", "n_open"} /\ Goes(t, "put") /\ Loses(th[t].c)
        /\ UNCHANGED <<xport, table>>
    BY <1>29, OpenFailsEffect
  <2>2. xport[th[t].c].state = "none"
    BY <2>1 DEF Inv, XportInv, Opening
  <2>3. /\ Uses(t, th[t].c) /\ Opens(t, th[t].c)
        /\ th'[t].c = th[t].c /\ th'[t].pc = "put" /\ xport'[th[t].c].state = "none"
    BY <2>1, <2>2 DEF Goes, KeepsHandles, UserPcs, Uses, Opens
  <2>4. /\ clnt'[th[t].c].alive = clnt[th[t].c].alive
        /\ clnt'[th[t].c].ref_count = clnt[th[t].c].ref_count - 1
    BY <2>1 DEF Loses, KeepsClient
  <2>5. Disconnects(t, th[t].c)
    BY <2>1, <2>2, <2>3, <2>4 DEF Disconnects, NotFreeing, UserPcs, Uses, Opens, Freeing
  <2> QED
    BY <2>1, <2>5, RestsElse DEF Kind, Goes, KeepsHandles
<1>30. CASE TimeOut(t)
  BY <1>30, TimeOutEffect, Nulls, NewThreadFields DEF Kind, Rests, SameState, SameUse, Uses,
     Opens, Freeing, UserPcs, Goes, Frees, Leaves, Enters, HandsOver, HandsBack, KeepsHandles
<1> QED
  BY <1>1, <1>2, <1>3, <1>4, <1>5, <1>6, <1>7, <1>8, <1>9, <1>10, <1>11, <1>12, <1>13, <1>14,
     <1>15, <1>16, <1>17, <1>18, <1>19, <1>20, <1>21, <1>22, <1>23, <1>24, <1>25, <1>26, <1>27,
     <1>28, <1>29, <1>30 DEF ThreadStep, CallStart, CallStep

-----------------------------------------------------------------------------
(* References. *)

\* What is counted of one client.
RefsOf(c) ==
  /\ clnt[c].alive =>
       clnt[c].ref_count = Cardinality(Users(c)) + (IF TransportHolds(c) THEN 1 ELSE 0)
  /\ clnt[c].alive /\ clnt[c].ref_count = 0 => \E u \in Threads : Freeing(u, c)
  /\ \A u \in Threads : Freeing(u, c) => clnt[c].alive /\ clnt[c].ref_count = 0
  /\ \A u, v \in Threads : Freeing(u, c) /\ Freeing(v, c) => u = v
  /\ \A u \in Threads : Uses(u, c) => clnt[c].alive
  /\ xport[c].state = "open" \/ c \in table => clnt[c].alive

\* It says of every client what the invariant says.
LEMMA RefsOfEvery ==
  ASSUME Inv, NEW c \in Handles
  PROVE  RefsOf(c) /\ clnt[c].ref_count \in Nat
<1>1. Counted /\ FreeInv /\ AliveInv /\ clnt[c] \in Client
  BY ClientElements DEF Inv
<1> QED
  BY <1>1 DEF Counted, FreeInv, AliveInv, RefsOf, Freeing, Uses, Client

\* The count of one client is right when the three parts of the invariant are.
LEMMA EveryRefs ==
  ASSUME TypeOK', ShapeInv', \A c \in Handles : RefsOf(c)'
  PROVE  Counted' /\ FreeInv' /\ AliveInv'
<1>1. ASSUME NEW u \in Threads, th'[u].pc \in UserPcs \cup {"free"}
      PROVE  th'[u].c \in Handles
  <2>1. th'[u] \in Thread /\ Shape(th'[u])
    BY DEF TypeOK, ShapeInv
  <2> QED
    BY <1>1, <2>1 DEF Shape, Thread
<1>2. Counted'
  BY DEF Counted, RefsOf
<1>3. FreeInv'
  <2>1. \A c \in Handles : clnt'[c].alive /\ clnt'[c].ref_count = 0 => \E u \in Threads : Freeing(u, c)'
    BY DEF RefsOf
  <2>2. \A u \in Threads, c \in Handles : th'[u].pc = "free" /\ th'[u].c = c =>
          clnt'[c].alive /\ clnt'[c].ref_count = 0
    BY DEF RefsOf, Freeing
  <2>3. \A u, v \in Threads, c \in Handles :
          th'[u].pc = "free" /\ th'[v].pc = "free" /\ th'[u].c = c /\ th'[v].c = c => u = v
    BY DEF RefsOf, Freeing
  <2> QED
    BY <1>1, <2>1, <2>2, <2>3 DEF FreeInv, Freeing
<1>4. AliveInv'
  BY <1>1 DEF AliveInv, RefsOf, Uses
<1> QED
  BY <1>2, <1>3, <1>4

\* Who has a reference.
LEMMA UsersAre ==
  ASSUME NEW c
  PROVE  Users(c) = {u \in Threads : Uses(u, c)}
  BY DEF Users, Uses, UserPcs

\* A client with a user or with a transport has references, one that is freed has neither.
LEMMA UsedRefs ==
  ASSUME Inv, NEW c \in Handles
  PROVE  /\ \A u \in Threads : Uses(u, c) =>
              /\ clnt[c].alive /\ clnt[c].ref_count > 0
              /\ TransportHolds(c) => clnt[c].ref_count > 1
         /\ xport[c].state = "open" => clnt[c].alive /\ clnt[c].ref_count > 0
         /\ \A u \in Threads : Freeing(u, c) =>
              /\ xport[c].state # "open"
              /\ \A v \in Threads : ~Uses(v, c)
<1>1. \A u \in Threads : Uses(u, c) =>
        /\ clnt[c].alive /\ clnt[c].ref_count > 0
        /\ TransportHolds(c) => clnt[c].ref_count > 1
  BY Held DEF Uses
<1>2. ASSUME xport[c].state = "open"
      PROVE  clnt[c].alive /\ clnt[c].ref_count > 0
  <2>1. IsFiniteSet(Users(c)) /\ Cardinality(Users(c)) \in Nat
    BY UsersFinite DEF Inv
  <2> QED
    BY <1>2, <2>1, RefsOfEvery DEF RefsOf, TransportHolds
<1>3. \A u \in Threads : Freeing(u, c) => clnt[c].ref_count = 0
  BY RefsOfEvery DEF RefsOf
<1> QED
  BY <1>1, <1>2, <1>3

\* A step of thread t: c has the users it had, one more or one less.
LEMMA CountStep ==
  ASSUME Inv, NEW t \in Threads, Others(t), NEW c \in Handles
  PROVE  /\ (Uses(t, c)' <=> Uses(t, c)) => Cardinality(Users(c))' = Cardinality(Users(c))
         /\ Uses(t, c)' /\ ~Uses(t, c) => Cardinality(Users(c))' = Cardinality(Users(c)) + 1
         /\ ~Uses(t, c)' /\ Uses(t, c) => Cardinality(Users(c))' = Cardinality(Users(c)) - 1
<1>1. IsFiniteSet(Users(c)) /\ Cardinality(Users(c)) \in Nat
  BY UsersFinite DEF Inv
<1>2. Users(c) = {u \in Threads : Uses(u, c)}
  BY UsersAre
<1>3. Users(c)' = {u \in Threads : Uses(u, c)'}
  BY DEF Users, Uses, UserPcs
<1>4. \A u \in Threads \ {t} : Uses(u, c)' <=> Uses(u, c)
  BY DEF Others, Uses
<1>5. CASE Uses(t, c)' <=> Uses(t, c)
  <2>1. Users(c)' = Users(c)
    BY <1>2, <1>3, <1>4, <1>5
  <2> QED
    BY <2>1, <1>5
<1>6. CASE Uses(t, c)' /\ ~Uses(t, c)
  <2>1. Users(c)' = Users(c) \cup {t} /\ t \notin Users(c)
    BY <1>2, <1>3, <1>4, <1>6
  <2> QED
    BY <1>1, <1>6, <2>1, FS_AddElement
<1>7. CASE ~Uses(t, c)' /\ Uses(t, c)
  <2>1. Users(c)' = Users(c) \ {t} /\ t \in Users(c)
    BY <1>2, <1>3, <1>4, <1>7
  <2> QED
    BY <1>1, <1>7, <2>1, FS_RemoveElement
<1> QED
  BY <1>5, <1>6, <1>7

\* The transport's reference: t and the others who may be about to open it.
OtherOpens(t, c) == \E u \in Threads \ {t} : Opens(u, c)

\* Whether the transport has a reference changes only with the transport or its opener.
LEMMA HoldStep ==
  ASSUME NEW t \in Threads, Others(t), NEW c \in Handles
  PROVE  /\ TransportHolds(c) <=> xport[c].state = "open" \/ Opens(t, c) \/ OtherOpens(t, c)
         /\ TransportHolds(c)' <=> xport'[c].state = "open" \/ Opens(t, c)' \/ OtherOpens(t, c)
<1>1. TransportHolds(c) <=> xport[c].state = "open" \/ \E u \in Threads : Opens(u, c)
  BY DEF TransportHolds, Opens, Users
<1>2. TransportHolds(c)' <=> xport'[c].state = "open" \/ \E u \in Threads : Opens(u, c)'
  BY DEF TransportHolds, Opens, Users
<1>3. \A u \in Threads \ {t} : Opens(u, c)' <=> Opens(u, c)
  BY DEF Others, Opens
<1> QED
  BY <1>1, <1>2, <1>3 DEF OtherOpens

\* A client that is not allocated yet has nobody.
LEMMA FreshUnused ==
  ASSUME Inv, NEW c \in Handles, c = next_clid
  PROVE  /\ \A u \in Threads : ~Uses(u, c) /\ ~Opens(u, c) /\ ~Freeing(u, c)
         /\ Cardinality(Users(c)) = 0
         /\ xport[c] = NewXport /\ c \notin table /\ c \notin known
<1>1. \A u \in Threads : th[u].c # c
  BY NotFresh, Nulls DEF Refs, Handles
<1>2. Users(c) = {}
  BY <1>1 DEF Users
<1>3. Fresh(c)
  BY DEF Fresh, Handles
<1> QED
  BY <1>1, <1>2, <1>3, FS_EmptySet DEF Uses, Opens, Freeing, Inv, FreshInv

\* Nobody else opens the transport of a client whose transport goes.
LEMMA NoOtherOpens ==
  ASSUME Inv, NEW t \in Threads, NEW c \in Handles,
         xport[c].state = "open" \/ Opens(t, c)
  PROVE  ~OtherOpens(t, c)
<1> SUFFICES ASSUME NEW u \in Threads \ {t}, Opens(u, c) PROVE FALSE
  BY DEF OtherOpens
<1>1. CASE xport[c].state = "open"
  BY <1>1 DEF Inv, XportInv, Opening, Opens
<1>2. CASE Opens(t, c)
  <2>1. c \in Refs(t) /\ c \in Refs(u)
    BY <1>2, Nulls DEF Opens, Refs
  <2>2. th[t].call = "none"
    BY <2>1, Shared
  <2>3. Shape(th[t])
    BY DEF Inv, ShapeInv
  <2> QED
    BY <1>2, <2>2, <2>3 DEF Opens, Shape, Creating, InitCalls
<1> QED
  BY <1>1, <1>2
\* The references of one client after each kind of step.
LEMMA RefsStep ==
  ASSUME Inv, NEW t \in Threads, Others(t), NEW c \in Handles, Kind(t, c)
  PROVE  RefsOf(c)'
<1>1. RefsOf(c) /\ clnt[c].ref_count \in Nat
  BY RefsOfEvery
<1>2. \A u \in Threads \ {t} :
        (Freeing(u, c)' <=> Freeing(u, c)) /\ (Uses(u, c)' <=> Uses(u, c))
  BY DEF Others, Freeing, Uses
<1>3. IsFiniteSet(Users(c)) /\ Cardinality(Users(c)) \in Nat
  BY UsersFinite DEF Inv
<1> DEFINE n == Cardinality(Users(c))
           m == Cardinality(Users(c))'
           some == \E u \in Threads : Freeing(u, c)'
<1>4. SUFFICES
        /\ clnt'[c].alive => clnt'[c].ref_count = m + (IF TransportHolds(c)' THEN 1 ELSE 0)
        /\ clnt'[c].alive /\ clnt'[c].ref_count = 0 => some
        /\ \A u \in Threads : Freeing(u, c)' => clnt'[c].alive /\ clnt'[c].ref_count = 0
        /\ \A u, v \in Threads : Freeing(u, c)' /\ Freeing(v, c)' => u = v
        /\ \A u \in Threads : Uses(u, c)' => clnt'[c].alive
        /\ xport'[c].state = "open" \/ c \in table' => clnt'[c].alive
  BY DEF RefsOf
<1>5. CASE Rests(t, c)
  <2>1. m = n /\ (TransportHolds(c)' <=> TransportHolds(c))
    BY <1>5, CountStep, HoldStep DEF Rests, SameUse, SameState
  <2>2. \A u \in Threads : (Freeing(u, c)' <=> Freeing(u, c)) /\ (Uses(u, c)' <=> Uses(u, c))
    BY <1>2, <1>5 DEF Rests, SameUse
  <2>3. /\ clnt'[c].alive = clnt[c].alive /\ clnt'[c].ref_count = clnt[c].ref_count
        /\ xport'[c].state = xport[c].state /\ (c \in table' => c \in table)
    BY <1>5 DEF Rests, SameState
  <2> HIDE DEF n, m
  <2> QED
    BY <1>1, <2>1, <2>2, <2>3 DEF RefsOf, n
<1>6. CASE Joins(t, c)
  <2>1. m = n + 1 /\ TransportHolds(c)' /\ TransportHolds(c)
    BY <1>6, CountStep, HoldStep DEF Joins, SameState
  <2>2. clnt[c].alive /\ clnt[c].ref_count > 0
    BY <1>6, UsedRefs DEF Joins
  <2>3. \A u \in Threads : ~Freeing(u, c)'
    BY <1>1, <1>2, <1>6, <2>2 DEF Joins, NotFreeing, RefsOf
  <2>4. clnt'[c].alive /\ clnt'[c].ref_count = clnt[c].ref_count + 1
    BY <1>6, <2>2 DEF Joins
  <2>5. clnt[c].ref_count = n + 1
    BY <1>1, <2>1, <2>2 DEF RefsOf
  <2> HIDE DEF n, m
  <2> QED
    BY <1>1, <1>3, <2>1, <2>2, <2>3, <2>4, <2>5
<1>7. CASE Quits(t, c)
  <2>1. m = n - 1 /\ (TransportHolds(c)' <=> TransportHolds(c))
    BY <1>7, CountStep, HoldStep DEF Quits, NoOpener, SameState
  <2>2. clnt[c].alive /\ clnt[c].ref_count > 0
    BY <1>7, UsedRefs DEF Quits
  <2>3. \A u \in Threads \ {t} : ~Freeing(u, c)'
    BY <1>1, <1>2, <2>2 DEF RefsOf
  <2>4. /\ clnt'[c].alive /\ clnt'[c].ref_count = clnt[c].ref_count - 1
        /\ Freeing(t, c)' <=> clnt[c].ref_count = 1
    BY <1>7, <2>2 DEF Quits
  <2>5. clnt[c].ref_count = n + (IF TransportHolds(c) THEN 1 ELSE 0)
    BY <1>1, <2>2 DEF RefsOf
  <2>6. clnt'[c].ref_count = m + (IF TransportHolds(c)' THEN 1 ELSE 0)
    BY <1>3, <2>1, <2>4, <2>5
  <2>7. clnt'[c].ref_count = 0 <=> clnt[c].ref_count = 1
    BY <1>1, <2>4
  <2> HIDE DEF n, m
  <2> QED
    BY <2>3, <2>4, <2>6, <2>7
<1>8. CASE Creates(t, c)
  <2>1. /\ \A u \in Threads : ~Uses(u, c) /\ ~Freeing(u, c)
        /\ n = 0
    BY <1>8, FreshUnused DEF Creates
  <2>2. m = 1 /\ TransportHolds(c)'
    BY <1>8, <2>1, CountStep, HoldStep DEF Creates
  <2>3. \A u \in Threads : ~Freeing(u, c)'
    BY <1>2, <1>8, <2>1 DEF Creates
  <2>4. clnt'[c].alive /\ clnt'[c].ref_count = 2
    BY <1>8 DEF Creates
  <2> HIDE DEF n, m
  <2> QED
    BY <2>2, <2>3, <2>4
<1>9. CASE Connects(t, c)
  <2>1. m = n /\ TransportHolds(c)' /\ TransportHolds(c)
    BY <1>9, CountStep, HoldStep DEF Connects
  <2>2. clnt[c].alive /\ clnt[c].ref_count > 0
    BY <1>9, UsedRefs DEF Connects
  <2>3. \A u \in Threads : ~Freeing(u, c)'
    BY <1>1, <1>2, <1>9, <2>2 DEF Connects, NotFreeing, RefsOf
  <2>4. clnt'[c].alive /\ clnt'[c].ref_count = clnt[c].ref_count
    BY <1>9, <2>2 DEF Connects
  <2>5. clnt[c].ref_count = n + 1
    BY <1>1, <2>1, <2>2 DEF RefsOf
  <2> HIDE DEF n, m
  <2> QED
    BY <1>1, <1>3, <2>1, <2>2, <2>3, <2>4, <2>5
<1>10. CASE Disconnects(t, c)
  <2>1. ~OtherOpens(t, c)
    BY <1>10, NoOtherOpens DEF Disconnects
  <2>2. m = n /\ ~TransportHolds(c)' /\ TransportHolds(c)
    BY <1>10, <2>1, CountStep, HoldStep DEF Disconnects
  <2>3. clnt[c].alive /\ clnt[c].ref_count > 1
    BY <1>10, <2>2, UsedRefs DEF Disconnects
  <2>4. \A u \in Threads : ~Freeing(u, c)'
    BY <1>1, <1>2, <1>10, <2>3 DEF Disconnects, NotFreeing, RefsOf
  <2>5. clnt'[c].alive /\ clnt'[c].ref_count = clnt[c].ref_count - 1
    BY <1>10, <2>3 DEF Disconnects
  <2>6. clnt[c].ref_count = n + 1
    BY <1>1, <2>2, <2>3 DEF RefsOf
  <2>7. clnt'[c].ref_count = m /\ clnt'[c].ref_count # 0 /\ m \in Nat
    BY <1>1, <1>3, <2>2, <2>3, <2>5, <2>6
  <2> HIDE DEF n, m
  <2> QED
    BY <2>2, <2>4, <2>5, <2>7
<1>11. CASE Deletes(t, c)
  <2>1. Freeing(t, c) /\ ~Freeing(t, c)' /\ ~Uses(t, c)' /\ ~clnt'[c].alive /\ c \notin table'
        /\ xport'[c].state = xport[c].state
    BY <1>11 DEF Deletes, SameState
  <2>2. xport[c].state # "open" /\ \A v \in Threads : ~Uses(v, c)
    BY <2>1, UsedRefs
  <2>3. \A u \in Threads : ~Freeing(u, c)'
    BY <1>1, <1>2, <2>1 DEF RefsOf
  <2>4. \A u \in Threads : ~Uses(u, c)'
    BY <1>2, <2>1, <2>2
  <2> QED
    BY <2>1, <2>2, <2>3, <2>4
<1> QED
  BY <1>5, <1>6, <1>7, <1>8, <1>9, <1>10, <1>11 DEF Kind

\* The references after a step of a thread ...
LEMMA RefsNext ==
  ASSUME Inv, NEW t \in Threads, ThreadStep(t)
  PROVE  Counted' /\ FreeInv' /\ AliveInv'
<1>1. \A c \in Handles : RefsOf(c)'
  BY OthersStep, KindStep, RefsStep
<1>2. TypeOK' /\ ShapeInv'
  BY ThreadType, ShapeNext
<1> QED
  BY <1>1, <1>2, EveryRefs

\* ... and after one of the others, who have none.
LEMMA OtherRefs ==
  ASSUME Inv, OtherStep
  PROVE  Counted' /\ FreeInv' /\ AliveInv'
<1>1. Aside
  BY OtherAside
<1>2. ASSUME NEW c \in Handles
      PROVE  RefsOf(c)'
  <2>1. RefsOf(c)
    BY RefsOfEvery
  <2>2. /\ th' = th /\ table' = table /\ AsideClient(c)
    BY <1>1 DEF Aside
  <2>3. Users(c)' = Users(c) /\ (TransportHolds(c)' <=> TransportHolds(c))
    BY <2>2 DEF Users, TransportHolds, AsideClient
  <2> QED
    BY <2>1, <2>2, <2>3 DEF RefsOf, AsideClient, Freeing, Uses
<1>3. TypeOK' /\ ShapeInv'
  BY OtherType, OtherHands
<1> QED
  BY <1>2, <1>3, EveryRefs

-----------------------------------------------------------------------------
(* Transports. *)

\* What a thread relies on.
OwnXport(t) ==
  /\ Opening(t) => xport[th[t].c].state = "none" /\ th[t].c \in table
  /\ \A c \in Ready(t) : xport[c].state = "open" /\ c \in table
  /\ \A c \in Handles : Closing(t, c) =>
       /\ xport[c].state = "open"
       /\ th[t].release # "none" => c \notin table
  /\ th[t].pc \in {"put", "free"} /\ th[t].call # "none" /\ th[t].rc # "ok" =>
       xport[th[t].c].state # "open"
  /\ th[t].pc \in {"rel_get", "rel_put", "rel_async"} /\ th[t].c \in table =>
       xport[th[t].c].state = "open"

\* The invariant says it of every thread.
LEMMA OwnXportOf == ASSUME Inv, NEW t \in Threads PROVE OwnXport(t)
  BY DEF Inv, XportInv, OwnXport

\* What a step of thread t does with the transport of client c: nothing ...
SamePlace(c) ==
  /\ SameState(c) /\ (xport'[c].pc = "none" <=> xport[c].pc = "none")
\* Nothing changes for the transport ...
Keeps(t, c) ==
  /\ SamePlace(c) /\ (c \in table' <=> c \in table)
  /\ Closing(t, c) => Closing(t, c)'
\* ... or the client is new, or the transport is opened ...
Births(t, c) == c = next_clid /\ SamePlace(c) /\ c \in table'
\* ... it is opened ...
Starts(t, c) ==
  /\ Opens(t, c) /\ xport[c].state = "none"
  /\ xport'[c].state = "open" /\ xport'[c].pc # "none" /\ c \in table /\ c \in table'
\* ... or closed ...
Stops(t, c) ==
  /\ Closing(t, c) /\ th[t].pc = "join"
  /\ xport'[c].state = "freed" /\ xport'[c].pc = "none" /\ (c \in table' <=> c \in table)
\* ... or the client is unlinked by a release, or removed.
Unlinks(t, c) ==
  /\ c = th[t].c /\ c \in table /\ c \notin table' /\ SamePlace(c) /\ xport[c].state = "open"
  /\ Closing(t, c)' /\ th'[t].pc = "shut"
\* ... or the client is freed.
Removes(t, c) == Freeing(t, c) /\ SamePlace(c) /\ c \notin table'

\* What a step of thread t may mean for the transport and the table entry of client c.
XportKind(t, c) ==
  \/ Keeps(t, c) \/ Births(t, c) \/ Starts(t, c) \/ Stops(t, c) \/ Unlinks(t, c) \/ Removes(t, c)

\* To clients that are neither in its hands before nor after, it does nothing.
LEMMA KeepsElse ==
  ASSUME Inv, NEW t \in Threads, ThreadStep(t), NEW c \in Handles, c # th[t].c, c # th'[t].c
  PROVE  Keeps(t, c)
<1>1. Untouched(c)
  BY TouchStep
<1> QED
  BY <1>1 DEF Keeps, Untouched, SamePlace, SameState, Closing

\* That is all a step of a thread can mean for a transport.
LEMMA XportKindStep ==
  ASSUME Inv, NEW t \in Threads, ThreadStep(t), NEW c \in Handles
  PROVE  XportKind(t, c)

<1>1. ASSUME NEW h \in Handles, Call(t, h) PROVE XportKind(t, c)
  BY <1>1, CallEffect DEF XportKind, Keeps, SamePlace, SameState, Closing, Goes, Frees, Leaves,
     Enters, HandsOver, HandsBack, KeepsHandles
<1>2. ASSUME NEW h \in Handles, RegisterErrorCb(t, h) PROVE XportKind(t, c)
  BY <1>2, RegisterErrorCbEffect DEF XportKind, Keeps, SamePlace, SameState, Closing, Goes,
     Frees, Leaves, Enters, HandsOver, HandsBack, KeepsHandles
<1>3. ASSUME NEW s \in Servers, InitClient(t, s) PROVE XportKind(t, c)
  BY <1>3, InitClientEffect DEF XportKind, Keeps, SamePlace, SameState, Closing, Goes, Frees,
     Leaves, Enters, HandsOver, HandsBack, KeepsHandles
<1>4. CASE InitInstance(t)
  BY <1>4, InitInstanceEffect DEF XportKind, Keeps, SamePlace, SameState, Closing, Goes, Frees,
     Leaves, Enters, HandsOver, HandsBack, KeepsHandles
<1>5. ASSUME NEW h \in Handles, NEW k \in {"sync", "async"}, Release(t, h, k)
      PROVE  XportKind(t, c)
  BY <1>5, ReleaseEffect DEF XportKind, Keeps, SamePlace, SameState, Closing, Goes, Frees,
     Leaves, Enters, HandsOver, HandsBack, KeepsHandles
<1>6. CASE EndCall(t)
  BY <1>6, EndCallEffect DEF XportKind, Keeps, SamePlace, SameState, Closing, Goes, Frees,
     Leaves, Enters, HandsOver, HandsBack, KeepsHandles
<1>7. CASE SetErrorCb(t)
  BY <1>7, SetErrorCbEffect DEF XportKind, Keeps, SamePlace, SameState, Closing, Goes, Frees,
     Leaves, Enters, HandsOver, HandsBack, KeepsHandles
<1>8. CASE PendingErrorCb(t)
  BY <1>8, PendingErrorCbEffect DEF XportKind, Keeps, SamePlace, SameState, Closing, Goes, Frees,
     Leaves, Enters, HandsOver, HandsBack, KeepsHandles
<1>9. ASSUME NEW d \in Handles, AllocClient(t, d) PROVE XportKind(t, c)
  <2>1. /\ th[t].pc \in {"alloc", "notifier"} /\ d = next_clid
        /\ table' = table \cup {d} /\ xport' = xport
    BY <1>9, AllocClientEffect
  <2>2. CASE c = d
    BY <2>1, <2>2 DEF XportKind, Births, SamePlace, SameState
  <2>3. CASE c # d
    BY <2>1, <2>3 DEF XportKind, Keeps, SamePlace, SameState, Closing
  <2> QED
    BY <2>2, <2>3
<1>10. ASSUME NEW d \in Handles, AllocNotifier(t, d) PROVE XportKind(t, c)
  <2>1. /\ th[t].pc \in {"alloc", "notifier"} /\ d = next_clid
        /\ table' = table \cup {d} /\ xport' = xport
    BY <1>10, AllocNotifierEffect
  <2>2. CASE c = d
    BY <2>1, <2>2 DEF XportKind, Births, SamePlace, SameState
  <2>3. CASE c # d
    BY <2>1, <2>3 DEF XportKind, Keeps, SamePlace, SameState, Closing
  <2> QED
    BY <2>2, <2>3
<1>11. CASE OpenClient(t)
  <2>1. /\ th[t].pc = "open" /\ OnlyXport(th[t].c)
        /\ xport'[th[t].c].state = "open" /\ xport'[th[t].c].pc = "poll" /\ table' = table
    BY <1>11, OpenClientEffect
  <2>2. xport[th[t].c].state = "none" /\ th[t].c \in table
    BY <2>1, OwnXportOf DEF OwnXport, Opening
  <2>3. CASE c = th[t].c
    BY <2>1, <2>2, <2>3 DEF XportKind, Starts, Opens
  <2>4. CASE c # th[t].c
    BY <2>1, <2>4 DEF OnlyXport, XportKind, Keeps, SamePlace, SameState, Closing
  <2> QED
    BY <2>3, <2>4
<1>12. CASE RedoLookup(t)
  BY <1>12, RedoLookupEffect DEF XportKind, Keeps, SamePlace, SameState, Closing, Goes, Frees,
     Leaves, Enters, HandsOver, HandsBack, KeepsHandles
<1>13. CASE CloseXport(t)
  <2>1. /\ th[t].pc = "close" /\ Goes(t, "join") /\ OnlyXport(th[t].c)
        /\ xport'[th[t].c].state = xport[th[t].c].state /\ table' = table
        /\ xport'[th[t].c].pc = xport[th[t].c].pc
    BY <1>13, CloseXportEffect
  <2> QED
    BY <2>1 DEF OnlyXport, Goes, KeepsHandles, XportKind, Keeps, SamePlace, SameState, Closing
<1>14. CASE JoinReader(t)
  <2>1. /\ th[t].pc = "join" /\ OnlyXport(th[t].c)
        /\ xport'[th[t].c].state = "freed" /\ xport'[th[t].c].pc = "none" /\ table' = table
    BY <1>14, JoinReaderEffect
  <2>2. CASE c = th[t].c
    BY <2>1, <2>2 DEF XportKind, Stops, Closing
  <2>3. CASE c # th[t].c
    BY <2>1, <2>3 DEF OnlyXport, XportKind, Keeps, SamePlace, SameState, Closing
  <2> QED
    BY <2>2, <2>3
<1>15. CASE Put(t)
  BY <1>15, PutEffect DEF XportKind, Keeps, SamePlace, SameState, Closing, Goes, Frees, Leaves,
     Enters, HandsOver, HandsBack, KeepsHandles
<1>16. CASE Free(t)
  <2>1. /\ th[t].pc = "free" /\ table' = table \ {th[t].c} /\ xport' = xport
    BY <1>16, FreeEffect
  <2>2. CASE c = th[t].c
    BY <2>1, <2>2 DEF XportKind, Removes, Freeing, SamePlace, SameState
  <2>3. CASE c # th[t].c
    BY <2>1, <2>3 DEF XportKind, Keeps, SamePlace, SameState, Closing
  <2> QED
    BY <2>2, <2>3
<1>17. CASE CountServers(t)
  BY <1>17, CountServersEffect DEF XportKind, Keeps, SamePlace, SameState, Closing, Goes, Frees,
     Leaves, Enters, HandsOver, HandsBack, KeepsHandles
<1>18. CASE ListServers(t)
  BY <1>18, ListServersEffect DEF XportKind, Keeps, SamePlace, SameState, Closing, Goes, Frees,
     Leaves, Enters, HandsOver, HandsBack, KeepsHandles
<1>19. CASE OpenNotifier(t)
  <2>1. /\ th[t].pc = "n_open" /\ OnlyXport(th[t].c)
        /\ xport'[th[t].c].state = "open" /\ xport'[th[t].c].pc = "poll" /\ table' = table
    BY <1>19, OpenNotifierEffect
  <2>2. xport[th[t].c].state = "none" /\ th[t].c \in table
    BY <2>1, OwnXportOf DEF OwnXport, Opening
  <2>3. CASE c = th[t].c
    BY <2>1, <2>2, <2>3 DEF XportKind, Starts, Opens
  <2>4. CASE c # th[t].c
    BY <2>1, <2>4 DEF OnlyXport, XportKind, Keeps, SamePlace, SameState, Closing
  <2> QED
    BY <2>3, <2>4
<1>20. CASE NotifierLookup(t)
  BY <1>20, NotifierLookupEffect DEF XportKind, Keeps, SamePlace, SameState, Closing, Goes,
     Frees, Leaves, Enters, HandsOver, HandsBack, KeepsHandles
<1>21. CASE ClearSignal(t)
  BY <1>21, ClearSignalEffect DEF XportKind, Keeps, SamePlace, SameState, Closing, Goes, Frees,
     Leaves, Enters, HandsOver, HandsBack, KeepsHandles
<1>22. CASE WaitForServer(t)
  BY <1>22, WaitForServerEffect DEF XportKind, Keeps, SamePlace, SameState, Closing, Goes, Frees,
     Leaves, Enters, HandsOver, HandsBack, KeepsHandles
<1>23. CASE ReturnInit(t)
  BY <1>23, ReturnInitEffect DEF XportKind, Keeps, SamePlace, SameState, Closing, Goes, Frees,
     Leaves, Enters, HandsOver, HandsBack, KeepsHandles
<1>24. CASE ReleaseGet(t)
  BY <1>24, ReleaseGetEffect DEF XportKind, Keeps, SamePlace, SameState, Closing, Goes, Frees,
     Leaves, Enters, HandsOver, HandsBack, KeepsHandles
<1>25. CASE ReleasePut(t)
  BY <1>25, ReleasePutEffect DEF XportKind, Keeps, SamePlace, SameState, Closing, Goes, Frees,
     Leaves, Enters, HandsOver, HandsBack, KeepsHandles
<1>26. CASE ReleaseAsync(t)
  <2>1. th[t].pc = "rel_async" /\ xport' = xport
    BY <1>26, ReleaseAsyncEffect
  <2>2. CASE th[t].c \in table
    <3>1. Goes(t, "shut") /\ table' = table \ {th[t].c}
      BY <1>26, <2>2, ReleaseAsyncEffect
    <3>2. CASE c = th[t].c
      <4>1. xport[c].state = "open"
        BY <2>1, <2>2, <3>2, OwnXportOf DEF OwnXport
      <4> QED
        BY <2>1, <2>2, <3>1, <3>2, <4>1 DEF XportKind, Unlinks, Goes, KeepsHandles, Closing,
           SamePlace, SameState
    <3>3. CASE c # th[t].c
      BY <2>1, <3>1, <3>3 DEF XportKind, Keeps, SamePlace, SameState, Closing
    <3> QED
      BY <3>2, <3>3
  <2>3. CASE th[t].c \notin table
    <3>1. table' = table
      BY <1>26, <2>3, ReleaseAsyncEffect
    <3> QED
      BY <2>1, <3>1 DEF XportKind, Keeps, SamePlace, SameState, Closing
  <2> QED
    BY <2>2, <2>3
<1>27. CASE Shut(t)
  <2>1. th[t].pc = "shut" /\ Goes(t, "close") /\ UNCHANGED <<xport, table>>
    BY <1>27, ShutEffect
  <2> QED
    BY <2>1 DEF Goes, KeepsHandles, XportKind, Keeps, SamePlace, SameState, Closing
<1>28. CASE AwaitRelease(t)
  BY <1>28, AwaitReleaseEffect DEF XportKind, Keeps, SamePlace, SameState, Closing, Goes, Frees,
     Leaves, Enters, HandsOver, HandsBack, KeepsHandles
<1>29. CASE OpenFails(t)
  BY <1>29, OpenFailsEffect DEF XportKind, Keeps, SamePlace, SameState, Closing, Goes, Frees,
     Leaves, Enters, HandsOver, HandsBack, KeepsHandles
<1>30. CASE TimeOut(t)
  BY <1>30, TimeOutEffect DEF XportKind, Keeps, SamePlace, SameState, Closing, Goes, Frees,
     Leaves, Enters, HandsOver, HandsBack, KeepsHandles
<1> QED
  BY <1>1, <1>2, <1>3, <1>4, <1>5, <1>6, <1>7, <1>8, <1>9, <1>10, <1>11, <1>12, <1>13, <1>14,
     <1>15, <1>16, <1>17, <1>18, <1>19, <1>20, <1>21, <1>22, <1>23, <1>24, <1>25, <1>26, <1>27,
     <1>28, <1>29, <1>30 DEF ThreadStep, CallStart, CallStep

\* The clients a thread has ready are among those it has, and it creates or releases them.
LEMMA ReadyRefs ==
  ASSUME Inv, NEW t \in Threads, NEW c \in Ready(t)
  PROVE  c \in Refs(t) /\ c \in Handles /\ (th[t].call # "none" \/ th[t].user # NULL)
<1>1. Shape(th[t])
  BY DEF Inv, ShapeInv
<1>2. c \in Refs(t) /\ (th[t].call # "none" \/ th[t].user # NULL)
  BY <1>1 DEF Ready, Refs, Shape, UserPcs, Creating, InitCalls
<1> QED
  BY <1>2, NotFresh

\* What it relies on holds after its step.
LEMMA OwnXportStep ==
  ASSUME Inv, NEW t \in Threads, ThreadStep(t)
  PROVE  OwnXport(t)'
<1> OwnXport(t) /\ Shape(th[t])
  BY OwnXportOf DEF Inv, ShapeInv
<1>1. ASSUME NEW h \in Handles, Call(t, h) PROVE OwnXport(t)'
  <2>1. Enters(t, "call", "none", "none", h) /\ UNCHANGED <<xport, table>>
    BY <1>1, CallEffect
  <2> QED
    BY <2>1 DEF Enters, OwnXport, Opening, Ready, Closing
<1>2. ASSUME NEW h \in Handles, RegisterErrorCb(t, h) PROVE OwnXport(t)'
  <2>1. Enters(t, "reg", "none", "none", h) /\ UNCHANGED <<xport, table>>
    BY <1>2, RegisterErrorCbEffect
  <2> QED
    BY <2>1 DEF Enters, OwnXport, Opening, Ready, Closing
<1>3. ASSUME NEW s \in Servers, InitClient(t, s) PROVE OwnXport(t)'
  BY <1>3, InitClientEffect, NewThreadFields DEF OwnXport, Opening, Ready, Closing, Goes, Frees,
     Leaves, Enters, HandsOver, HandsBack, KeepsHandles
<1>4. CASE InitInstance(t)
  BY <1>4, InitInstanceEffect, NewThreadFields DEF OwnXport, Opening, Ready, Closing, Goes,
     Frees, Leaves, Enters, HandsOver, HandsBack, KeepsHandles
<1>5. ASSUME NEW h \in Handles, NEW k \in {"sync", "async"}, Release(t, h, k) PROVE OwnXport(t)'
  <2>1. Enters(t, "rel_get", "none", k, h) \/ Enters(t, "rel_async", "none", k, h)
    BY <1>5, ReleaseEffect
  <2>2. h \in known /\ UNCHANGED <<xport, table>>
    BY <1>5, ReleaseEffect
  <2>3. h \in table => xport[h].state = "open"
    BY <2>2 DEF Inv, XportInv
  <2> QED
    BY <2>1, <2>2, <2>3 DEF Enters, OwnXport, Opening, Ready, Closing
<1>6. CASE EndCall(t)
  <2>1. /\ th[t].pc = "call" /\ UNCHANGED <<xport, table>>
        /\ \/ Frees(t, "idle") /\ th'[t].rc = th[t].rc
           \/ Leaves(t)
    BY <1>6, EndCallEffect
  <2>2. th[t].call = "none"
    BY <2>1 DEF Shape, CallPcs
  <2> QED
    BY <2>1, <2>2, NewThreadFields DEF Leaves, Frees, KeepsHandles, OwnXport, Opening, Ready, Closing
<1>7. CASE SetErrorCb(t)
  <2>1. /\ th[t].pc = "reg" /\ UNCHANGED <<xport, table>> /\ th'[t].rc = th[t].rc
        /\ (Goes(t, "reg_cb") \/ Goes(t, "put"))
    BY <1>7, SetErrorCbEffect
  <2>2. th[t].call = "none"
    BY <2>1 DEF Shape, CallPcs
  <2> QED
    BY <2>1, <2>2 DEF Goes, KeepsHandles, OwnXport, Opening, Ready, Closing
<1>8. CASE PendingErrorCb(t)
  <2>1. /\ th[t].pc = "reg_cb" /\ UNCHANGED <<xport, table>> /\ th'[t].rc = th[t].rc
        /\ (Goes(t, "reg_cb") \/ Goes(t, "put"))
    BY <1>8, PendingErrorCbEffect
  <2>2. th[t].call = "none"
    BY <2>1 DEF Shape, CallPcs
  <2> QED
    BY <2>1, <2>2 DEF Goes, KeepsHandles, OwnXport, Opening, Ready, Closing
<1>9. ASSUME NEW d \in Handles, AllocClient(t, d) PROVE OwnXport(t)'
  <2>1. /\ th[t].pc = "alloc" /\ th'[t].pc \in {"open", "n_open"}
        /\ th'[t].c = d /\ th'[t].user = th[t].user /\ th'[t].rc = th[t].rc
        /\ (th'[t].call = "loop" => th[t].call = "loop" /\ th'[t].notifier = th[t].notifier)
        /\ d = next_clid /\ xport' = xport /\ table' = table \cup {d}
    BY <1>9, AllocClientEffect
  <2>2. xport[d] = NewXport
    BY <2>1, FreshUnused
  <2>3. th[t].rc # "ok"
    BY <2>1 DEF Shape
  <2> QED
    BY <2>1, <2>2, <2>3, NewXportFields DEF OwnXport, Opening, Ready, Closing
<1>10. ASSUME NEW d \in Handles, AllocNotifier(t, d) PROVE OwnXport(t)'
  <2>1. /\ th[t].pc = "notifier" /\ th'[t].pc \in {"open", "n_open"}
        /\ th'[t].c = d /\ th'[t].user = th[t].user /\ th'[t].rc = th[t].rc
        /\ (th'[t].call = "loop" => th[t].call = "loop" /\ th'[t].notifier = th[t].notifier)
        /\ d = next_clid /\ xport' = xport /\ table' = table \cup {d}
    BY <1>10, AllocNotifierEffect
  <2>2. xport[d] = NewXport
    BY <2>1, FreshUnused
  <2>3. th[t].rc # "ok"
    BY <2>1 DEF Shape
  <2> QED
    BY <2>1, <2>2, <2>3, NewXportFields DEF OwnXport, Opening, Ready, Closing
<1>11. CASE OpenClient(t)
  <2>1. /\ th[t].pc = "open" /\ th'[t].pc = "lookup" /\ KeepsHandles(t) /\ th'[t].rc = th[t].rc
        /\ OnlyXport(th[t].c) /\ xport'[th[t].c].state = "open" /\ table' = table
    BY <1>11, OpenClientEffect
  <2>2. \A c \in Ready(t) : c \in Handles /\ xport'[c].state = "open"
    BY <2>1, ReadyRefs DEF OwnXport, OnlyXport
  <2> QED
    BY <2>1, <2>2 DEF KeepsHandles, OwnXport, Opening, Ready, Closing
<1>12. CASE RedoLookup(t)
  <2>1. /\ th[t].pc = "lookup" /\ KeepsHandles(t) /\ UNCHANGED <<xport, table>>
        /\ \/ th'[t].pc = "lookup" /\ th'[t].rc = th[t].rc
           \/ th'[t].pc = "close" /\ th'[t].rc # "ok"
           \/ th'[t].pc = "put" /\ th'[t].rc = "ok"
    BY <1>12, RedoLookupEffect
  <2>2. th[t].release = "none"
    BY <2>1 DEF Shape, Creating, InitCalls
  <2> QED
    BY <2>1, <2>2 DEF KeepsHandles, OwnXport, Opening, Ready, Closing
<1>13. CASE CloseXport(t)
  <2>1. /\ th[t].pc = "close" /\ Goes(t, "join") /\ th'[t].rc = th[t].rc /\ OnlyXport(th[t].c)
        /\ xport'[th[t].c].state = xport[th[t].c].state /\ table' = table
    BY <1>13, CloseXportEffect
  <2>2. \A c \in Handles : xport'[c].state = xport[c].state
    BY <2>1 DEF OnlyXport
  <2>3. Ready(t)' = Ready(t)
    BY <2>1 DEF Goes, KeepsHandles, Ready
  <2> QED
    BY <2>1, <2>2, <2>3, ReadyRefs DEF Goes, KeepsHandles, OwnXport, Opening, Closing
<1>14. CASE JoinReader(t)
  <2>1. /\ th[t].pc = "join" /\ Goes(t, "put") /\ th'[t].rc = th[t].rc
        /\ OnlyXport(th[t].c) /\ xport'[th[t].c].state = "freed" /\ table' = table
    BY <1>14, JoinReaderEffect
  <2>2. th[t].rc # "ok" /\ th[t].c \notin Ready(t)
    BY <2>1 DEF Ready, Shape, UserPcs, Creating, InitCalls
  <2>3. \A c \in Ready(t) : c \in Handles /\ xport'[c].state = "open"
    BY <2>1, <2>2, ReadyRefs DEF OwnXport, OnlyXport
  <2> QED
    BY <2>1, <2>2, <2>3 DEF Goes, KeepsHandles, OwnXport, Opening, Ready, Closing
<1>15. CASE Put(t)
  <2>1. /\ th[t].pc = "put" /\ UNCHANGED <<xport, table>>
        /\ \/ Frees(t, PutReturns(t)) /\ th'[t].rc = th[t].rc
           \/ Leaves(t)
           \/ Goes(t, PutReturns(t)) /\ th'[t].rc = th[t].rc
    BY <1>15, PutEffect
  <2> QED
    BY <2>1, NewThreadFields DEF Frees, Leaves, Goes, KeepsHandles, PutReturns, OwnXport, Opening, Ready, Closing
<1>16. CASE Free(t)
  <2>1. /\ th[t].pc = "free" /\ xport' = xport /\ table' = table \ {th[t].c}
        /\ \/ Leaves(t)
           \/ Goes(t, th[t].after) /\ th'[t].rc = th[t].rc
    BY <1>16, FreeEffect
  <2>2. th[t].rc # "ok" /\ th[t].c \notin Ready(t)
    BY <2>1 DEF Ready, Shape, UserPcs, Creating, InitCalls
  <2>3. th[t].after \in {"idle", "returned", "rel_wait", "rel_async"}
    BY <2>1 DEF Shape
  <2>4. CASE Leaves(t)
    BY <2>4, NewThreadFields DEF Leaves, OwnXport, Opening, Ready, Closing
  <2>5. CASE Goes(t, th[t].after) /\ th'[t].rc = th[t].rc
    <3>1. Ready(t)' = Ready(t)
      BY <2>1, <2>2, <2>3, <2>5 DEF Goes, KeepsHandles, Ready
    <3> QED
      BY <2>1, <2>2, <2>3, <2>5, <3>1 DEF Goes, KeepsHandles, OwnXport, Opening, Closing
  <2> QED
    BY <2>1, <2>4, <2>5
<1>17. CASE CountServers(t)
  BY <1>17, CountServersEffect, NewThreadFields DEF OwnXport, Opening, Ready, Closing, Goes,
     Frees, Leaves, Enters, HandsOver, HandsBack, KeepsHandles
<1>18. CASE ListServers(t)
  BY <1>18, ListServersEffect, NewThreadFields DEF OwnXport, Opening, Ready, Closing, Goes,
     Frees, Leaves, Enters, HandsOver, HandsBack, KeepsHandles
<1>19. CASE OpenNotifier(t)
  <2>1. /\ th[t].pc = "n_open" /\ Goes(t, "n_lookup") /\ th'[t].rc = th[t].rc
        /\ OnlyXport(th[t].c) /\ xport'[th[t].c].state = "open" /\ table' = table
    BY <1>19, OpenNotifierEffect
  <2>2. \A c \in Ready(t) : c \in Handles /\ xport'[c].state = "open"
    BY <2>1, ReadyRefs DEF OwnXport, OnlyXport
  <2> QED
    BY <2>1, <2>2 DEF Goes, KeepsHandles, OwnXport, Opening, Ready, Closing
<1>20. CASE NotifierLookup(t)
  <2>1. /\ th[t].pc = "n_lookup" /\ th'[t].pc = "clear" /\ th'[t].rc = th[t].rc
        /\ th'[t].notifier = th[t].notifier /\ th'[t].user = th[t].user
        /\ UNCHANGED <<xport, table>>
    BY <1>20, NotifierLookupEffect
  <2>2. th[t].notifier = th[t].c /\ th[t].rc # "ok"
    BY <2>1 DEF Shape
  <2> QED
    BY <2>1, <2>2 DEF OwnXport, Opening, Ready, Closing
<1>21. CASE ClearSignal(t)
  BY <1>21, ClearSignalEffect, NewThreadFields DEF OwnXport, Opening, Ready, Closing, Goes,
     Frees, Leaves, Enters, HandsOver, HandsBack, KeepsHandles
<1>22. CASE WaitForServer(t)
  BY <1>22, WaitForServerEffect, NewThreadFields DEF OwnXport, Opening, Ready, Closing, Goes,
     Frees, Leaves, Enters, HandsOver, HandsBack, KeepsHandles
<1>23. CASE ReturnInit(t)
  <2>1. /\ th[t].pc = "returned" /\ UNCHANGED <<xport, table>>
        /\ \/ Leaves(t)
           \/ (Goes(t, "notifier") \/ Goes(t, "wait")) /\ th'[t].rc = th[t].rc
           \/ th[t].call = "loop" /\ th[t].rc = "ok" /\ HandsOver(t, th[t].c)
           \/ th[t].call = "loop" /\ HandsOver(t, NULL)
    BY <1>23, ReturnInitEffect
  <2>2. CASE Leaves(t)
    BY <2>1, <2>2, NewThreadFields DEF Leaves, OwnXport, Opening, Ready, Closing
  <2>3. CASE (Goes(t, "notifier") \/ Goes(t, "wait")) /\ th'[t].rc = th[t].rc
    BY <2>1, <2>3 DEF Goes, KeepsHandles, OwnXport, Opening, Ready, Closing
  <2>4. CASE th[t].call = "loop" /\ th[t].rc = "ok" /\ HandsOver(t, th[t].c)
    BY <2>1, <2>4 DEF HandsOver, OwnXport, Opening, Ready, Closing
  <2>5. CASE th[t].call = "loop" /\ HandsOver(t, NULL)
    BY <2>1, <2>5 DEF HandsOver, OwnXport, Opening, Ready, Closing
  <2> QED
    BY <2>1, <2>2, <2>3, <2>4, <2>5
<1>24. CASE ReleaseGet(t)
  <2>1. /\ th[t].pc = "rel_get" /\ UNCHANGED <<xport, table>>
        /\ \/ Goes(t, "rel_put") /\ th'[t].rc = th[t].rc
           \/ Leaves(t)
    BY <1>24, ReleaseGetEffect DEF HandsBack
  <2> QED
    BY <2>1, NewThreadFields DEF Goes, Leaves, KeepsHandles, OwnXport, Opening, Ready, Closing
<1>25. CASE ReleasePut(t)
  <2>1. /\ th[t].pc = "rel_put" /\ UNCHANGED <<xport, table>>
        /\ \/ Frees(t, "rel_async") /\ th'[t].rc = th[t].rc
           \/ Goes(t, "rel_async") /\ th'[t].rc = th[t].rc
    BY <1>25, ReleasePutEffect
  <2>2. th[t].call = "none"
    BY <2>1 DEF Shape, ReleasePcs
  <2> QED
    BY <2>1, <2>2 DEF Goes, Frees, KeepsHandles, OwnXport, Opening, Ready, Closing
<1>26. CASE ReleaseAsync(t)
  <2>1. th[t].pc = "rel_async" /\ xport' = xport
    BY <1>26, ReleaseAsyncEffect
  <2>2. CASE th[t].c \in table
    <3>1. Goes(t, "shut") /\ th'[t].rc = th[t].rc /\ table' = table \ {th[t].c}
      BY <1>26, <2>2, ReleaseAsyncEffect
    <3>2. th[t].rc # "ok" /\ th[t].c \notin Ready(t)
      BY <2>1 DEF Ready, ReleasePcs, Shape, UserPcs, Creating, InitCalls
    <3>3. Ready(t)' = Ready(t)
      BY <2>1, <3>1, <3>2 DEF Goes, KeepsHandles, Ready
    <3>4. xport[th[t].c].state = "open"
      BY <2>1, <2>2 DEF OwnXport
    <3> QED
      BY <2>1, <3>1, <3>2, <3>3, <3>4 DEF Goes, KeepsHandles, OwnXport, Opening, Closing
  <2>3. CASE th[t].c \notin table
    <3>1. HandsBack(t)
      BY <1>26, <2>3, ReleaseAsyncEffect
    <3> QED
      BY <3>1, NewThreadFields DEF HandsBack, Leaves, OwnXport, Opening, Ready, Closing
  <2> QED
    BY <2>2, <2>3
<1>27. CASE Shut(t)
  BY <1>27, ShutEffect, NewThreadFields DEF OwnXport, Opening, Ready, Closing, Goes, Frees,
     Leaves, Enters, HandsOver, HandsBack, KeepsHandles
<1>28. CASE AwaitRelease(t)
  BY <1>28, AwaitReleaseEffect, NewThreadFields DEF OwnXport, Opening, Ready, Closing, Goes,
     Frees, Leaves, Enters, HandsOver, HandsBack, KeepsHandles
<1>29. CASE OpenFails(t)
  <2>1. /\ th[t].pc \in {"open", "n_open"} /\ Goes(t, "put") /\ th'[t].rc = "internal"
        /\ UNCHANGED <<xport, table>>
    BY <1>29, OpenFailsEffect
  <2>2. xport[th[t].c].state = "none"
    BY <2>1 DEF OwnXport, Opening
  <2> QED
    BY <2>1, <2>2 DEF Goes, KeepsHandles, OwnXport, Opening, Ready, Closing
<1>30. CASE TimeOut(t)
  <2>1. /\ th[t].pc = "wait" /\ HandsOver(t, NULL) /\ UNCHANGED <<xport, table>>
    BY <1>30, TimeOutEffect
  <2>2. th[t].call = "loop"
    BY <2>1 DEF Shape
  <2> QED
    BY <2>1, <2>2 DEF HandsOver, OwnXport, Opening, Ready, Closing
<1> QED
  BY <1>1, <1>2, <1>3, <1>4, <1>5, <1>6, <1>7, <1>8, <1>9, <1>10, <1>11, <1>12, <1>13, <1>14,
     <1>15, <1>16, <1>17, <1>18, <1>19, <1>20, <1>21, <1>22, <1>23, <1>24, <1>25, <1>26, <1>27,
     <1>28, <1>29, <1>30 DEF ThreadStep, CallStart, CallStep

\* A client that is given to the application is ready.
LEMMA GivesReady ==
  ASSUME Inv, NEW t \in Threads, ThreadStep(t)
  PROVE  known' \subseteq known \cup Ready(t)

<1>1. ASSUME NEW h \in Handles, Call(t, h) PROVE known' \subseteq known \cup Ready(t)
  BY <1>1, CallEffect
<1>2. ASSUME NEW h \in Handles, RegisterErrorCb(t, h) PROVE known' \subseteq known \cup Ready(t)
  BY <1>2, RegisterErrorCbEffect
<1>3. ASSUME NEW s \in Servers, InitClient(t, s) PROVE known' \subseteq known \cup Ready(t)
  BY <1>3, InitClientEffect
<1>4. CASE InitInstance(t)
  BY <1>4, InitInstanceEffect
<1>5. ASSUME NEW h \in Handles, NEW k \in {"sync", "async"}, Release(t, h, k)
      PROVE  known' \subseteq known \cup Ready(t)
  BY <1>5, ReleaseEffect
<1>6. CASE EndCall(t)
  BY <1>6, EndCallEffect
<1>7. CASE SetErrorCb(t)
  BY <1>7, SetErrorCbEffect
<1>8. CASE PendingErrorCb(t)
  BY <1>8, PendingErrorCbEffect
<1>9. ASSUME NEW d \in Handles, AllocClient(t, d) PROVE known' \subseteq known \cup Ready(t)
  BY <1>9, AllocClientEffect
<1>10. ASSUME NEW d \in Handles, AllocNotifier(t, d) PROVE known' \subseteq known \cup Ready(t)
  BY <1>10, AllocNotifierEffect
<1>11. CASE OpenClient(t)
  BY <1>11, OpenClientEffect
<1>12. CASE RedoLookup(t)
  BY <1>12, RedoLookupEffect
<1>13. CASE CloseXport(t)
  BY <1>13, CloseXportEffect
<1>14. CASE JoinReader(t)
  BY <1>14, JoinReaderEffect
<1>15. CASE Put(t)
  BY <1>15, PutEffect
<1>16. CASE Free(t)
  BY <1>16, FreeEffect
<1>17. CASE CountServers(t)
  BY <1>17, CountServersEffect
<1>18. CASE ListServers(t)
  BY <1>18, ListServersEffect
<1>19. CASE OpenNotifier(t)
  BY <1>19, OpenNotifierEffect
<1>20. CASE NotifierLookup(t)
  BY <1>20, NotifierLookupEffect
<1>21. CASE ClearSignal(t)
  BY <1>21, ClearSignalEffect
<1>22. CASE WaitForServer(t)
  BY <1>22, WaitForServerEffect
<1>23. CASE ReturnInit(t)
  <2>1. th[t].pc = "returned" /\ (known' = known \/ (th[t].rc = "ok" /\ known' = known \cup {th[t].c}))
    BY <1>23, ReturnInitEffect
  <2> QED
    BY <2>1 DEF Ready
<1>24. CASE ReleaseGet(t)
  <2>1. known' = known \/ HandsBack(t)
    BY <1>24, ReleaseGetEffect
  <2> QED
    BY <2>1, Nulls DEF HandsBack, Ready
<1>25. CASE ReleasePut(t)
  BY <1>25, ReleasePutEffect
<1>26. CASE ReleaseAsync(t)
  <2>1. known' = known \/ HandsBack(t)
    BY <1>26, ReleaseAsyncEffect
  <2> QED
    BY <2>1, Nulls DEF HandsBack, Ready
<1>27. CASE Shut(t)
  BY <1>27, ShutEffect
<1>28. CASE AwaitRelease(t)
  <2>1. known' = known \/ HandsBack(t)
    BY <1>28, AwaitReleaseEffect
  <2> QED
    BY <2>1, Nulls DEF HandsBack, Ready
<1>29. CASE OpenFails(t)
  BY <1>29, OpenFailsEffect
<1>30. CASE TimeOut(t)
  BY <1>30, TimeOutEffect
<1> QED
  BY <1>1, <1>2, <1>3, <1>4, <1>5, <1>6, <1>7, <1>8, <1>9, <1>10, <1>11, <1>12, <1>13, <1>14,
     <1>15, <1>16, <1>17, <1>18, <1>19, <1>20, <1>21, <1>22, <1>23, <1>24, <1>25, <1>26, <1>27,
     <1>28, <1>29, <1>30 DEF ThreadStep, CallStart, CallStep

\* A thread that comes to close a transport created the client or has unlinked it.
LEMMA NewCloser ==
  ASSUME Inv, NEW t \in Threads, ThreadStep(t), NEW c \in Handles
  PROVE  Closing(t, c)' => Closing(t, c) \/ (c \in Refs(t) /\ th[t].call # "none") \/ Unlinks(t, c)

<1>1. ASSUME NEW h \in Handles, Call(t, h)
      PROVE  Closing(t, c)' => Closing(t, c) \/ (c \in Refs(t) /\ th[t].call # "none") \/ Unlinks(t, c)
  BY <1>1, CallEffect, NewThreadFields DEF Closing, Goes, Frees, Leaves, Enters, HandsOver,
     HandsBack, KeepsHandles
<1>2. ASSUME NEW h \in Handles, RegisterErrorCb(t, h)
      PROVE  Closing(t, c)' => Closing(t, c) \/ (c \in Refs(t) /\ th[t].call # "none") \/ Unlinks(t, c)
  BY <1>2, RegisterErrorCbEffect, NewThreadFields DEF Closing, Goes, Frees, Leaves, Enters,
     HandsOver, HandsBack, KeepsHandles
<1>3. ASSUME NEW s \in Servers, InitClient(t, s)
      PROVE  Closing(t, c)' => Closing(t, c) \/ (c \in Refs(t) /\ th[t].call # "none") \/ Unlinks(t, c)
  BY <1>3, InitClientEffect, NewThreadFields DEF Closing, Goes, Frees, Leaves, Enters, HandsOver,
     HandsBack, KeepsHandles
<1>4. CASE InitInstance(t)
  BY <1>4, InitInstanceEffect, NewThreadFields DEF Closing, Goes, Frees, Leaves, Enters,
     HandsOver, HandsBack, KeepsHandles
<1>5. ASSUME NEW h \in Handles, NEW k \in {"sync", "async"}, Release(t, h, k)
      PROVE  Closing(t, c)' => Closing(t, c) \/ (c \in Refs(t) /\ th[t].call # "none") \/ Unlinks(t, c)
  BY <1>5, ReleaseEffect, NewThreadFields DEF Closing, Goes, Frees, Leaves, Enters, HandsOver,
     HandsBack, KeepsHandles
<1>6. CASE EndCall(t)
  BY <1>6, EndCallEffect, NewThreadFields DEF Closing, Goes, Frees, Leaves, Enters, HandsOver,
     HandsBack, KeepsHandles
<1>7. CASE SetErrorCb(t)
  BY <1>7, SetErrorCbEffect, NewThreadFields DEF Closing, Goes, Frees, Leaves, Enters, HandsOver,
     HandsBack, KeepsHandles
<1>8. CASE PendingErrorCb(t)
  BY <1>8, PendingErrorCbEffect, NewThreadFields DEF Closing, Goes, Frees, Leaves, Enters,
     HandsOver, HandsBack, KeepsHandles
<1>9. ASSUME NEW d \in Handles, AllocClient(t, d)
      PROVE  Closing(t, c)' => Closing(t, c) \/ (c \in Refs(t) /\ th[t].call # "none") \/ Unlinks(t, c)
  BY <1>9, AllocClientEffect, NewThreadFields DEF Closing, Goes, Frees, Leaves, Enters,
     HandsOver, HandsBack, KeepsHandles
<1>10. ASSUME NEW d \in Handles, AllocNotifier(t, d)
       PROVE  Closing(t, c)' => Closing(t, c) \/ (c \in Refs(t) /\ th[t].call # "none") \/ Unlinks(t, c)
  BY <1>10, AllocNotifierEffect, NewThreadFields DEF Closing, Goes, Frees, Leaves, Enters,
     HandsOver, HandsBack, KeepsHandles
<1>11. CASE OpenClient(t)
  BY <1>11, OpenClientEffect, NewThreadFields DEF Closing, Goes, Frees, Leaves, Enters,
     HandsOver, HandsBack, KeepsHandles
<1>12. CASE RedoLookup(t)
  <2>1. th[t].pc = "lookup" /\ th'[t].c = th[t].c
    BY <1>12, RedoLookupEffect DEF KeepsHandles
  <2>2. th[t].call # "none"
    BY <2>1 DEF Inv, ShapeInv, Shape, Creating, InitCalls
  <2> QED
    BY <2>1, <2>2, Nulls DEF Closing, Refs
<1>13. CASE CloseXport(t)
  <2>1. th[t].pc = "close" /\ Goes(t, "join")
    BY <1>13, CloseXportEffect
  <2> QED
    BY <2>1 DEF Goes, KeepsHandles, Closing
<1>14. CASE JoinReader(t)
  BY <1>14, JoinReaderEffect, NewThreadFields DEF Closing, Goes, Frees, Leaves, Enters,
     HandsOver, HandsBack, KeepsHandles
<1>15. CASE Put(t)
  <2>1. \/ Frees(t, PutReturns(t))
        \/ Leaves(t)
        \/ Goes(t, PutReturns(t))
    BY <1>15, PutEffect
  <2> QED
    BY <2>1, NewThreadFields DEF Frees, Leaves, Goes, KeepsHandles, PutReturns, Closing
<1>16. CASE Free(t)
  <2>1. th[t].pc = "free" /\ (Leaves(t) \/ Goes(t, th[t].after))
    BY <1>16, FreeEffect
  <2>2. th[t].after \in {"idle", "returned", "rel_wait", "rel_async"}
    BY <2>1 DEF Inv, ShapeInv, Shape
  <2> QED
    BY <2>1, <2>2, NewThreadFields DEF Leaves, Goes, KeepsHandles, Closing
<1>17. CASE CountServers(t)
  BY <1>17, CountServersEffect, NewThreadFields DEF Closing, Goes, Frees, Leaves, Enters,
     HandsOver, HandsBack, KeepsHandles
<1>18. CASE ListServers(t)
  BY <1>18, ListServersEffect, NewThreadFields DEF Closing, Goes, Frees, Leaves, Enters,
     HandsOver, HandsBack, KeepsHandles
<1>19. CASE OpenNotifier(t)
  BY <1>19, OpenNotifierEffect, NewThreadFields DEF Closing, Goes, Frees, Leaves, Enters,
     HandsOver, HandsBack, KeepsHandles
<1>20. CASE NotifierLookup(t)
  BY <1>20, NotifierLookupEffect, NewThreadFields DEF Closing, Goes, Frees, Leaves, Enters,
     HandsOver, HandsBack, KeepsHandles
<1>21. CASE ClearSignal(t)
  BY <1>21, ClearSignalEffect, NewThreadFields DEF Closing, Goes, Frees, Leaves, Enters,
     HandsOver, HandsBack, KeepsHandles
<1>22. CASE WaitForServer(t)
  BY <1>22, WaitForServerEffect, NewThreadFields DEF Closing, Goes, Frees, Leaves, Enters,
     HandsOver, HandsBack, KeepsHandles
<1>23. CASE ReturnInit(t)
  BY <1>23, ReturnInitEffect, NewThreadFields DEF Closing, Goes, Frees, Leaves, Enters,
     HandsOver, HandsBack, KeepsHandles
<1>24. CASE ReleaseGet(t)
  BY <1>24, ReleaseGetEffect, NewThreadFields DEF Closing, Goes, Frees, Leaves, Enters,
     HandsOver, HandsBack, KeepsHandles
<1>25. CASE ReleasePut(t)
  BY <1>25, ReleasePutEffect, NewThreadFields DEF Closing, Goes, Frees, Leaves, Enters,
     HandsOver, HandsBack, KeepsHandles
<1>26. CASE ReleaseAsync(t)
  <2>1. CASE th[t].c \in table
    <3>1. Goes(t, "shut") /\ table' = table \ {th[t].c} /\ xport' = xport /\ th[t].pc = "rel_async"
      BY <1>26, <2>1, ReleaseAsyncEffect
    <3>2. xport[th[t].c].state = "open"
      BY <2>1, <3>1, OwnXportOf DEF OwnXport
    <3> QED
      BY <2>1, <3>1, <3>2 DEF Unlinks, SamePlace, SameState, Goes, KeepsHandles, Closing
  <2>2. CASE th[t].c \notin table
    <3>1. Leaves(t)
      BY <1>26, <2>2, ReleaseAsyncEffect DEF HandsBack
    <3> QED
      BY <3>1, NewThreadFields DEF Leaves, Closing
  <2> QED
    BY <2>1, <2>2
<1>27. CASE Shut(t)
  <2>1. th[t].pc = "shut" /\ Goes(t, "close")
    BY <1>27, ShutEffect
  <2> QED
    BY <2>1 DEF Goes, KeepsHandles, Closing
<1>28. CASE AwaitRelease(t)
  BY <1>28, AwaitReleaseEffect, NewThreadFields DEF Closing, Goes, Frees, Leaves, Enters,
     HandsOver, HandsBack, KeepsHandles
<1>29. CASE OpenFails(t)
  BY <1>29, OpenFailsEffect, NewThreadFields DEF Closing, Goes, Frees, Leaves, Enters, HandsOver,
     HandsBack, KeepsHandles
<1>30. CASE TimeOut(t)
  BY <1>30, TimeOutEffect, NewThreadFields DEF Closing, Goes, Frees, Leaves, Enters, HandsOver,
     HandsBack, KeepsHandles
<1> QED
  BY <1>1, <1>2, <1>3, <1>4, <1>5, <1>6, <1>7, <1>8, <1>9, <1>10, <1>11, <1>12, <1>13, <1>14,
     <1>15, <1>16, <1>17, <1>18, <1>19, <1>20, <1>21, <1>22, <1>23, <1>24, <1>25, <1>26, <1>27,
     <1>28, <1>29, <1>30 DEF ThreadStep, CallStart, CallStep

\* What the other threads rely on in the transports they have stays true.
LEMMA OthersXport ==
  ASSUME Inv, NEW t \in Threads, ThreadStep(t), NEW u \in Threads \ {t}
  PROVE  OwnXport(u)'
<1>1. th'[u] = th[u]
  BY OthersStep DEF Others
<1>2. OwnXport(u) /\ Shape(th[u])
  BY OwnXportOf DEF Inv, ShapeInv
<1>3. \A c \in Handles : XportKind(t, c)
  BY XportKindStep
<1>4. \A c \in Refs(u) : c \in Handles /\ c # next_clid
  BY NotFresh DEF Handles
<1>5. \A c \in Refs(u) : th[u].call # "none" \/ th[u].user # NULL => c \notin Refs(t)
  BY <1>4, Shared
<1>6. /\ \A c \in Handles : Opens(t, c) => c \in Refs(t) /\ th[t].call # "none"
      /\ \A c \in Handles : Closing(t, c) => c \in Refs(t)
      /\ \A c \in Handles : Unlinks(t, c) => c \in Refs(t)
  <2>1. Shape(th[t])
    BY DEF Inv, ShapeInv
  <2> QED
    BY <2>1, Nulls DEF Opens, Closing, Unlinks, Refs, Shape, Creating, InitCalls
<1>7. \A c \in Handles : Freeing(t, c) => xport[c].state # "open" /\ ~Uses(u, c)
  BY UsedRefs
<1>8. th[u].c # NULL => th[u].c \in Refs(u)
  BY DEF Refs
<1>9. Opening(u)' => xport'[th'[u].c].state = "none" /\ th'[u].c \in table'
  <2> SUFFICES ASSUME Opening(u)'
               PROVE  xport'[th[u].c].state = "none" /\ th[u].c \in table'
    BY <1>1
  <2> DEFINE c == th[u].c
  <2>1. Opening(u) /\ Uses(u, c) /\ Opens(u, c)
    BY <1>1 DEF Opening, Uses, UserPcs, Opens
  <2>2. c \in Handles /\ c # next_clid /\ c \in Refs(u) /\ th[u].call # "none"
    BY <1>2, <1>4, <1>8, <2>1 DEF Opening, Shape, UserPcs, Creating, InitCalls
  <2>3. xport[c].state = "none" /\ c \in table
    BY <1>2, <2>1 DEF OwnXport
  <2>4. ~Starts(t, c) /\ ~Stops(t, c) /\ ~Unlinks(t, c)
    BY <1>5, <1>6, <2>2 DEF Starts, Stops
  <2>5. ~Births(t, c) /\ ~Removes(t, c)
    BY <1>7, <2>1, <2>2 DEF Births, Removes
  <2>6. Keeps(t, c)
    BY <1>3, <2>2, <2>4, <2>5 DEF XportKind
  <2> QED
    BY <2>3, <2>6 DEF Keeps, SamePlace, SameState
<1>10. ASSUME NEW c \in Ready(u)'
       PROVE  xport'[c].state = "open" /\ c \in table'
  <2>1. c \in Ready(u)
    BY <1>1, <1>10 DEF Ready
  <2>2. c \in Refs(u) /\ (th[u].call # "none" \/ th[u].user # NULL) /\ c \in Handles
    BY <2>1, ReadyRefs
  <2>3. c \notin Refs(t) /\ c # next_clid
    BY <1>4, <1>5, <2>2
  <2>4. xport[c].state = "open" /\ c \in table
    BY <1>2, <2>1 DEF OwnXport
  <2>5. Keeps(t, c)
    BY <1>3, <1>6, <1>7, <2>2, <2>3, <2>4 DEF XportKind, Births, Starts, Stops, Removes
  <2> QED
    BY <2>4, <2>5 DEF Keeps, SamePlace, SameState
<1>11. ASSUME NEW c \in Handles, Closing(u, c)'
       PROVE  xport'[c].state = "open" /\ (th'[u].release # "none" => c \notin table')
  <2>1. Closing(u, c) /\ c \in Refs(u)
    BY <1>1, <1>11, Nulls DEF Closing, Refs
  <2>2. xport[c].state = "open" /\ (th[u].release # "none" => c \notin table)
    BY <1>2, <2>1 DEF OwnXport
  <2>3. th[u].release # "none" \/ th[u].call # "none"
    BY <1>2, <2>1 DEF Closing, Shape, ReleasePcs, InitCalls
  <2>4. ~Births(t, c) /\ ~Starts(t, c) /\ ~Removes(t, c)
    BY <1>4, <1>7, <2>1, <2>2 DEF Births, Starts, Removes
  <2>5. ~Stops(t, c)
    BY <2>1 DEF Stops, Inv, XportInv
  <2>6. ~Unlinks(t, c)
    BY <1>5, <1>6, <2>1, <2>2, <2>3 DEF Unlinks
  <2>7. Keeps(t, c)
    BY <1>3, <2>4, <2>5, <2>6 DEF XportKind
  <2> QED
    BY <1>1, <2>2, <2>7 DEF Keeps, SamePlace, SameState
<1>12. ASSUME th'[u].pc \in {"put", "free"}, th'[u].call # "none", th'[u].rc # "ok"
       PROVE  xport'[th'[u].c].state # "open"
  <2> DEFINE c == th[u].c
  <2>1. xport[c].state # "open" /\ c \in Refs(u) /\ c \in Handles /\ c \notin Refs(t)
    BY <1>1, <1>2, <1>4, <1>5, <1>8, <1>12 DEF OwnXport, Shape, UserPcs
  <2>2. ~Starts(t, c) /\ ~Stops(t, c)
    BY <1>6, <2>1 DEF Starts, Stops
  <2>3. SameState(c)
    BY <1>3, <2>1, <2>2 DEF XportKind, Keeps, Births, Unlinks, Removes, SamePlace
  <2> QED
    BY <1>1, <2>1, <2>3 DEF SameState
<1>13. ASSUME th'[u].pc \in {"rel_get", "rel_put", "rel_async"}, th'[u].c \in table'
       PROVE  xport'[th'[u].c].state = "open"
  <2> DEFINE c == th[u].c
  <2>1. c \in Refs(u) /\ c \in Handles /\ c # next_clid
    BY <1>1, <1>2, <1>4, <1>8, <1>13 DEF Shape, UserPcs, ReleasePcs
  <2>2. ~Starts(t, c)
    BY <1>6, <2>1, Shared DEF Starts
  <2>3. CASE Stops(t, c)
    <3>1. c \in table /\ c \in Refs(t)
      BY <1>1, <1>6, <1>13, <2>1, <2>3 DEF Stops
    <3>2. th[t].release = "none"
      BY <2>1, <2>3, <3>1, OwnXportOf DEF Stops, OwnXport
    <3>3. th[t].call # "none"
      BY <2>3, <3>2 DEF Stops, Inv, ShapeInv, Shape, InitCalls
    <3> QED
      BY <2>1, <3>1, <3>3, Shared
  <2>4. CASE Keeps(t, c)
    BY <1>1, <1>2, <1>13, <2>4 DEF OwnXport, Keeps, SamePlace, SameState
  <2>5. ~Births(t, c) /\ ~Unlinks(t, c) /\ ~Removes(t, c)
    BY <1>1, <1>13, <2>1 DEF Births, Unlinks, Removes
  <2> QED
    BY <1>3, <2>1, <2>2, <2>3, <2>4, <2>5 DEF XportKind
<1> QED
  BY <1>9, <1>10, <1>11, <1>12, <1>13 DEF OwnXport

\* The transports after a step of a thread ...
LEMMA XportNext ==
  ASSUME Inv, NEW t \in Threads, ThreadStep(t)
  PROVE  XportInv'
<1>1. \A u \in Threads : OwnXport(u)'
  BY OwnXportStep, OthersXport
<1>2. \A c \in Handles : XportKind(t, c)
  BY XportKindStep
<1>3. \A u \in Threads \ {t} : th'[u] = th[u]
  BY OthersStep DEF Others
<1>4. ASSUME NEW c \in Handles PROVE xport'[c].state = "open" <=> xport'[c].pc # "none"
  <2>1. xport[c].state = "open" <=> xport[c].pc # "none"
    BY DEF Inv, XportInv
  <2> QED
    BY <1>2, <2>1 DEF XportKind, Keeps, Births, Starts, Stops, Unlinks, Removes, SamePlace, SameState
<1>5. ASSUME NEW c \in known' \cap table' PROVE xport'[c].state = "open"
  <2>1. c \in Handles /\ c # next_clid /\ XportKind(t, c)
    <3>1. c \in Handles
      BY <1>5, ThreadType DEF TypeOK
    <3>2. next_clid \in Handles => next_clid \notin known /\ next_clid \notin Refs(t)
      BY FreshUnused, NotFresh DEF Handles
    <3> QED
      BY <1>2, <1>5, <3>1, <3>2, GivesReady, ReadyRefs
  <2>2. c \in table => xport[c].state = "open"
    BY <1>5, GivesReady, OwnXportOf DEF Inv, XportInv, OwnXport
  <2>3. CASE Stops(t, c)
    <3>1. c \in table /\ c \in Refs(t)
      BY <1>5, <2>1, <2>3, Nulls DEF Stops, Closing, Refs
    <3>2. th[t].release = "none"
      BY <2>1, <2>3, <3>1, OwnXportOf DEF Stops, OwnXport
    <3>3. th[t].call # "none" /\ th[t].rc # "ok" /\ th[t].user = NULL
      BY <2>3, <3>2 DEF Stops, Inv, ShapeInv, Shape, InitCalls
    <3>4. c \notin known
      BY <3>1, <3>3 DEF Inv, Given, GivenTo
    <3>5. c \in Ready(t)
      BY <1>5, <3>4, GivesReady
    <3>6. c = th[t].c /\ (th[t].call = "loop" => th[t].c # th[t].notifier)
      BY <2>3 DEF Stops, Closing, Inv, ShapeInv, Shape, UserPcs
    <3> QED
      BY <2>3, <3>3, <3>5, <3>6 DEF Ready, Stops
  <2> QED
    BY <1>5, <2>1, <2>2, <2>3 DEF XportKind, Keeps, Births, Starts, Unlinks, Removes, SamePlace, SameState
<1>6. ASSUME NEW u \in Threads, NEW v \in Threads, NEW c \in Handles, Closing(u, c)', Closing(v, c)'
      PROVE  u = v
  <2>1. ASSUME NEW w \in Threads \ {t}, Closing(w, c)', Closing(t, c)'
        PROVE  FALSE
    <3>1. Closing(w, c) /\ c \in Refs(w) /\ OwnXport(w)
      BY <1>3, <2>1, Nulls, OwnXportOf DEF Closing, Refs
    <3>2. ~Closing(t, c)
      BY <3>1 DEF Inv, XportInv
    <3>3. ~(c \in Refs(t) /\ th[t].call # "none")
      BY <3>1, Shared
    <3>4. CASE Unlinks(t, c)
      <4>1. c \in Refs(t) /\ c \in table
        BY <3>4, Nulls DEF Unlinks, Refs
      <4>2. th[w].release = "none"
        BY <3>1, <4>1 DEF OwnXport
      <4>3. th[w].call # "none"
        BY <3>1, <4>2 DEF Inv, ShapeInv, Shape, Closing, ReleasePcs, InitCalls
      <4> QED
        BY <3>1, <4>1, <4>3, Shared
    <3> QED
      BY <2>1, <3>2, <3>3, <3>4, NewCloser
  <2>2. CASE u # t /\ v # t
    BY <1>3, <1>6, <2>2 DEF Closing, Inv, XportInv
  <2> QED
    BY <1>6, <2>1, <2>2
<1>7. ASSUME NEW c \in Handles, xport'[c].state = "open", c \notin table'
      PROVE  \E u \in Threads : Closing(u, c)'
  <2>1. Keeps(t, c) \/ Unlinks(t, c) \/ Removes(t, c)
    BY <1>2, <1>7 DEF XportKind, Births, Starts, Stops
  <2>2. CASE Keeps(t, c)
    <3>1. \E u \in Threads : Closing(u, c)
      BY <1>7, <2>2 DEF Keeps, SamePlace, SameState, Inv, XportInv
    <3> QED
      BY <1>3, <2>2, <3>1 DEF Keeps, Closing
  <2>3. CASE Unlinks(t, c)
    BY <2>3 DEF Unlinks
  <2>4. ~Removes(t, c)
    BY <1>7, UsedRefs DEF Removes, SamePlace, SameState
  <2> QED
    BY <2>1, <2>2, <2>3, <2>4
<1> QED
  BY <1>1, <1>4, <1>5, <1>6, <1>7 DEF XportInv, OwnXport

\* ... and after one of the others.
LEMMA OtherXport ==
  ASSUME Inv, OtherStep
  PROVE  XportInv'
<1>1. Aside
  BY OtherAside
<1>2. /\ th' = th /\ table' = table /\ known' = known
      /\ \A c \in Handles : /\ xport'[c].state = xport[c].state
                            /\ xport'[c].pc = "none" <=> xport[c].pc = "none"
  BY <1>1 DEF Aside, AsideClient
<1>3. \A t \in Threads : th[t].pc \in {"open", "n_open", "put", "free", "rel_get", "rel_put", "rel_async"}
        => th[t].c \in Handles
  BY ThreadElements DEF Inv, ShapeInv, Shape, UserPcs, ReleasePcs, Thread
<1>4. \A t \in Threads : Ready(t)' = Ready(t) /\ Ready(t) \subseteq Handles
  BY <1>2, ReadyRefs DEF Ready
<1>5. XportInv /\ table \subseteq Handles
  BY DEF Inv, TypeOK
<1> QED
  BY <1>2, <1>3, <1>4, <1>5 DEF XportInv, Opening, Closing
=============================================================================
