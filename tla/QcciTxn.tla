------------------------------- MODULE QcciTxn -------------------------------
(***************************************************************************)
(* The transaction engine of one QCCI client (qcci/src/qmi_cci_common.c):  *)
(* application threads that send synchronous and asynchronous requests,    *)
(* delete asynchronous ones or release the client, and the transport's     *)
(* reader thread that delivers responses, resume events and the server's   *)
(* exit.  They share the list of outstanding transactions (txn_list), the  *)
(* transmit queue (tx_q) and reference-counted transaction blocks.         *)
(*                                                                         *)
(* One action is one critical section of the code, or one access it makes  *)
(* outside every lock.  A transaction is named by its serial number, the   *)
(* order in which qmi_client_get_txn allocated it; `addr' is the address   *)
(* of its heap block, which the allocator hands out again after a free, so *)
(* that comparing two pointers compares two addresses.  Dereferencing a    *)
(* block that was freed is undefined behaviour: the model sets `fault' and *)
(* says nothing of what the program does after that.                       *)
(***************************************************************************)
EXTENDS Integers, FiniteSets, SequencesExt

CONSTANTS
  Threads,      \* application threads
  Reader,       \* the transport's reader thread
  Addrs,        \* addresses the allocator uses for transaction blocks
  Reuse,        \* TRUE if the allocator hands out the address of a freed block again
  MaxTxns,      \* bound: transactions allocated in a behaviour
  LastTxnId,    \* largest transaction id: 65535 in the code (a uint16_t)
  Kinds,        \* the send calls made: subset of {"sync", "async"}
  SendResults,  \* what the transport's send returns: subset of {"ok", "busy", "internal"}
  MaxBusy,      \* bound: times the transport reports flow control
  Timeouts,     \* TRUE if synchronous calls are given a time-out
  BadReplies,   \* TRUE if the service may answer with another message id
  Deletes,      \* TRUE if qmi_client_delete_async_txn is called
  ServerExits,  \* TRUE if the service may go away
  Releases      \* TRUE if the client is released

Procs == Threads \cup {Reader}
Ids   == 1..MaxTxns
NoTxn == 0
NoAddr == "null"

ASSUME ReaderAssumption == IsFiniteSet(Threads) /\ Reader \notin Threads
ASSUME BoundAssumption  == MaxTxns \in Nat /\ LastTxnId \in Nat \ {0} /\ MaxBusy \in Nat
ASSUME KindAssumption   == /\ Kinds \subseteq {"sync", "async"}
                           /\ SendResults \subseteq {"ok", "busy", "internal"}
ASSUME FlagAssumption   == /\ Timeouts \in BOOLEAN /\ BadReplies \in BOOLEAN
                           /\ Deletes \in BOOLEAN  /\ ServerExits \in BOOLEAN
                           /\ Releases \in BOOLEAN /\ Reuse \in BOOLEAN

VARIABLES
  next,      \* transactions allocated so far
  txn,       \* the transaction blocks, by serial number
  txn_list,  \* outstanding transactions
  tx_q,      \* transactions waiting to be transmitted
  clnt,      \* the client's flags
  th,        \* the threads: where they are and their local variables
  net,       \* the transport: requests not answered, flow control
  hist,      \* history: what the application saw of each transaction
  fault      \* TRUE once a freed block was dereferenced

vars == <<next, txn, txn_list, tx_q, clnt, th, net, hist, fault>>

Rcs == {"none", "timeout", "ok", "internal", "service", "invalid_txn"}

Labels == {"idle", "get_txn", "own", "clear", "set_rc", "check", "inc", "enq",
           "dec_enq", "flush", "tx", "dec_tx", "find", "fail_cb", "fail_dec",
           "detach_q", "clean_q", "detach_l", "clean_cb", "clean_inv", "clean_dec",
           "sent", "wait", "woken", "inval", "remove", "dec_own",
           "del_q", "del_dec_q", "del_l", "del_inv", "del_dec",
           "deliver", "mismatch", "recv_dec",
           "stop", "close", "join", "exit"}

\* The id qmi_client_get_txn gives to the n-th transaction: next_txn_id starts
\* at 1, wraps at 16 bits, and 0 is skipped.
TxnId(n) == ((n - 1) % LastTxnId) + 1

\* A block is allocated exactly while its reference count is positive.
Live(n) == n \in Ids /\ txn[n].ref > 0

\* LIST_FIND(list, i, link, i == ptr): the members of S at the address of n.
SameAddr(S, n) == {i \in S : txn[i].addr = txn[n].addr}

FreeAddrs == Addrs \ {txn[n].addr : n \in {m \in 1..next : Live(m) \/ ~Reuse}}

-----------------------------------------------------------------------------
Block == [kind : {"sync", "async"}, addr : Addrs \cup {NoAddr}, ref : Int,
          rc : Rcs, sig : BOOLEAN, rx_buf : BOOLEAN]

\* What the application saw: `api' is how the call that created the
\* transaction stands, `del' the result of deleting it, `cb' counts the calls
\* of its callback and `wr' the writes into its response buffer.
History == [api : {"none", "calling", "sent", "refused", "ok", "error", "timeout"},
            del : {"no", "ok", "invalid"}, cb : Nat, wr : Nat]

Client  == [linked : BOOLEAN, addr_valid : BOOLEAN, accepting : BOOLEAN, handle : BOOLEAN]
Thread  == [pc : Labels, ret : Labels, txn : Ids \cup {NoTxn}, cur : Ids \cup {NoTxn},
            work : SUBSET Ids, rc : Rcs]
Network == [wire : SUBSET Ids, resume : BOOLEAN, busy : 0..MaxBusy]

TypeOK ==
  /\ next \in 0..MaxTxns
  /\ txn \in [Ids -> Block]
  /\ txn_list \subseteq Ids
  /\ tx_q \in Seq(Ids)
  /\ clnt \in Client
  /\ th \in [Procs -> Thread]
  /\ net \in Network
  /\ hist \in [Ids -> History]
  /\ fault \in BOOLEAN

Idle == [pc |-> "idle", ret |-> "idle", txn |-> NoTxn,
         cur |-> NoTxn, work |-> {}, rc |-> "none"]

Init ==
  /\ next = 0
  /\ txn = [n \in Ids |-> [kind |-> "sync", addr |-> NoAddr, ref |-> 0,
                           rc |-> "none", sig |-> FALSE, rx_buf |-> FALSE]]
  /\ txn_list = {}
  /\ tx_q = <<>>
  /\ clnt = [linked |-> TRUE, addr_valid |-> TRUE, accepting |-> TRUE, handle |-> TRUE]
  /\ th = [p \in Procs |-> Idle]
  /\ net = [wire |-> {}, resume |-> FALSE, busy |-> 0]
  /\ hist = [n \in Ids |-> [api |-> "none", del |-> "no", cb |-> 0, wr |-> 0]]
  /\ fault = FALSE

-----------------------------------------------------------------------------
At(p, l)   == th[p].pc = l
Goto(p, l) == th' = [th EXCEPT ![p].pc = l]

\* A flush or a cleanup goes back to its caller.
Return(p) ==
  th' = [th EXCEPT ![p] = IF th[p].ret = "idle" THEN Idle
                          ELSE [th[p] EXCEPT !.pc = th[p].ret, !.cur = NoTxn]]

\* QMI_CCI_DEC_TXN: drop a reference; with the last one the block is freed and
\* its contents are gone, only the pointers to it keep its address.
Freed(b)   == [kind |-> b.kind, addr |-> b.addr, ref |-> 0,
               rc |-> "none", sig |-> FALSE, rx_buf |-> FALSE]
Dropped(b) == IF b.ref = 1 THEN Freed(b) ELSE [b EXCEPT !.ref = b.ref - 1]
DecTxn(n)  == txn' = [txn EXCEPT ![n] = Dropped(txn[n])]

\* Mutant of HandleTxnError: the waiter is not signalled.
HandleTxnError_NoSignal(n, error) ==
  IF txn[n].kind = "sync"
  THEN txn' = [txn EXCEPT ![n].rc = error] /\ UNCHANGED hist
  ELSE txn' = [txn EXCEPT ![n].rc = error] /\ hist' = [hist EXCEPT ![n].cb = @ + 1]

\* handle_txn_error: a synchronous waiter is given the error and signalled, an
\* asynchronous transaction's callback runs with it.
HandleTxnError(n, error) ==
  IF txn[n].kind = "sync"
  THEN /\ txn' = [txn EXCEPT ![n].rc = error, ![n].sig = TRUE]
       /\ UNCHANGED hist
  ELSE /\ txn' = [txn EXCEPT ![n].rc = error]
       /\ hist' = [hist EXCEPT ![n].cb = @ + 1]

-----------------------------------------------------------------------------
(* qmi_client_send_msg_sync, qmi_client_send_msg_async and their raw forms  *)

\* The call finds the client in the table and its transport open.
SendStart(p, k) ==
  /\ At(p, "idle") /\ clnt.linked /\ clnt.handle /\ next < MaxTxns
  /\ th' = [th EXCEPT ![p].pc = "get_txn", ![p].ret = IF k = "sync" THEN "own" ELSE "check"]
  /\ UNCHANGED <<next, txn, txn_list, tx_q, clnt, net, hist, fault>>

\* qmi_client_get_txn: the only reference is the list's.
GetTxn(p) ==
  /\ At(p, "get_txn") /\ next < MaxTxns
  /\ \E a \in FreeAddrs :
       txn' = [txn EXCEPT ![next + 1] =
                 [kind |-> IF th[p].ret = "own" THEN "sync" ELSE "async", addr |-> a,
                  ref |-> 1, rc |-> "none", sig |-> FALSE, rx_buf |-> TRUE]]
  /\ next' = next + 1
  /\ txn_list' = txn_list \cup {next + 1}
  /\ hist' = [hist EXCEPT ![next + 1].api = "calling"]
  /\ th' = [th EXCEPT ![p].pc = th[p].ret, ![p].txn = next + 1]
  /\ UNCHANGED <<tx_q, clnt, net, fault>>

\* Mutant of OwnTxn: the caller relies on the list's reference.
OwnTxn_NoRef(p) ==
  /\ At(p, "own") /\ Live(th[p].txn)
  /\ Goto(p, "clear")
  /\ UNCHANGED <<next, txn, txn_list, tx_q, clnt, net, hist, fault>>

\* A synchronous call takes a reference of its own ...
OwnTxn(p) ==
  /\ At(p, "own") /\ Live(th[p].txn)
  /\ txn' = [txn EXCEPT ![th[p].txn].ref = @ + 1]
  /\ Goto(p, "clear")
  /\ UNCHANGED <<next, txn_list, tx_q, clnt, net, hist, fault>>

\* ... clears the transaction's signal ...
ClearSignal(p) ==
  /\ At(p, "clear") /\ Live(th[p].txn)
  /\ txn' = [txn EXCEPT ![th[p].txn].sig = FALSE]
  /\ Goto(p, "set_rc")
  /\ UNCHANGED <<next, txn_list, tx_q, clnt, net, hist, fault>>

\* ... and marks it unanswered.
SetRc(p) ==
  /\ At(p, "set_rc") /\ Live(th[p].txn)
  /\ txn' = [txn EXCEPT ![th[p].txn].rc = "timeout"]
  /\ Goto(p, "check")
  /\ UNCHANGED <<next, txn_list, tx_q, clnt, net, hist, fault>>

Sync(p)    == txn[th[p].txn].kind = "sync"
Refused(p) == IF Sync(p) THEN "inval" ELSE "remove"

\* The header is encoded with txn->txn_id, then qmi_cci_send looks at the
\* server's address.
CheckServer(p) ==
  /\ At(p, "check") /\ Live(th[p].txn)
  /\ th' = IF clnt.addr_valid
           THEN [th EXCEPT ![p].pc = "inc"]
           ELSE [th EXCEPT ![p].pc = Refused(p), ![p].rc = "service"]
  /\ UNCHANGED <<next, txn, txn_list, tx_q, clnt, net, hist, fault>>

\* Mutant of IncTxn: the queue takes no reference.
IncTxn_NoRef(p) ==
  /\ At(p, "inc") /\ Live(th[p].txn)
  /\ Goto(p, "enq")
  /\ UNCHANGED <<next, txn, txn_list, tx_q, clnt, net, hist, fault>>

\* The reference of the transmit queue.
IncTxn(p) ==
  /\ At(p, "inc") /\ Live(th[p].txn)
  /\ txn' = [txn EXCEPT ![th[p].txn].ref = @ + 1]
  /\ Goto(p, "enq")
  /\ UNCHANGED <<next, txn_list, tx_q, clnt, net, hist, fault>>

Enqueue(p) ==
  /\ At(p, "enq") /\ Live(th[p].txn)
  /\ IF clnt.accepting
     THEN /\ tx_q' = Append(tx_q, th[p].txn)
          /\ th' = [th EXCEPT ![p].pc = "flush", ![p].ret = IF Sync(p) THEN "wait" ELSE "sent"]
     ELSE /\ th' = [th EXCEPT ![p].pc = "dec_enq", ![p].rc = "internal"]
          /\ UNCHANGED tx_q
  /\ UNCHANGED <<next, txn, txn_list, clnt, net, hist, fault>>

DecEnqueue(p) ==
  /\ At(p, "dec_enq") /\ Live(th[p].txn)
  /\ DecTxn(th[p].txn)
  /\ Goto(p, Refused(p))
  /\ UNCHANGED <<next, txn_list, tx_q, clnt, net, hist, fault>>

-----------------------------------------------------------------------------
(* qmi_cci_flush_tx_q, run by senders and by the reader on a resume event   *)

\* Mutant of FlushStart: a flush that finds the server gone just returns.
FlushStart_NoCleanup(p) ==
  /\ At(p, "flush")
  /\ IF clnt.addr_valid THEN Goto(p, "tx") ELSE Return(p)
  /\ UNCHANGED <<next, txn, txn_list, tx_q, clnt, net, hist, fault>>

FlushStart(p) ==
  /\ At(p, "flush")
  /\ Goto(p, IF clnt.addr_valid THEN "tx" ELSE "detach_q")
  /\ UNCHANGED <<next, txn, txn_list, tx_q, clnt, net, hist, fault>>

FlushDone(p) ==
  /\ At(p, "tx") /\ tx_q = <<>>
  /\ Return(p)
  /\ UNCHANGED <<next, txn, txn_list, tx_q, clnt, net, hist, fault>>

\* Mutant of FlushSend: flow control is treated like any other failure.
FlushSend_NoBusy(p) ==
  /\ At(p, "tx") /\ tx_q # <<>> /\ Live(Head(tx_q))
  /\ \E r \in IF clnt.accepting /\ clnt.handle THEN SendResults ELSE {"internal"} :
       /\ net' = IF r = "ok" THEN [net EXCEPT !.wire = @ \cup {Head(tx_q)}] ELSE net
       /\ tx_q' = Tail(tx_q)
       /\ th' = [th EXCEPT ![p].pc = "dec_tx", ![p].cur = Head(tx_q), ![p].rc = r]
  /\ UNCHANGED <<next, txn, txn_list, clnt, hist, fault>>

\* The head of the queue is handed to the transport with tx_q_lock held; it
\* stays in the queue when the transport is flow controlled.
FlushSend(p) ==
  /\ At(p, "tx") /\ tx_q # <<>> /\ Live(Head(tx_q))
  /\ \E r \in IF clnt.accepting /\ clnt.handle THEN SendResults ELSE {"internal"} :
       \/ /\ r = "busy" /\ net.busy < MaxBusy
          /\ net' = [net EXCEPT !.resume = TRUE, !.busy = @ + 1]
          /\ Return(p)
          /\ UNCHANGED tx_q
       \/ /\ r # "busy"
          /\ net' = IF r = "ok" THEN [net EXCEPT !.wire = @ \cup {Head(tx_q)}] ELSE net
          /\ tx_q' = Tail(tx_q)
          /\ th' = [th EXCEPT ![p].pc = "dec_tx", ![p].cur = Head(tx_q),
                              ![p].rc = r]
  /\ UNCHANGED <<next, txn, txn_list, clnt, hist, fault>>

\* The queue's reference is given up.
FlushDec(p) ==
  /\ At(p, "dec_tx") /\ Live(th[p].cur)
  /\ DecTxn(th[p].cur)
  /\ Goto(p, IF th[p].rc = "ok" THEN "tx" ELSE "find")
  /\ UNCHANGED <<next, txn_list, tx_q, clnt, net, hist, fault>>

\* After a failed send the transaction is looked up by its address, which may
\* by now belong to another transaction.
FlushFind(p) ==
  /\ At(p, "find")
  /\ LET found == SameAddr(txn_list, th[p].cur) IN
       IF found = {}
       THEN Goto(p, "tx") /\ UNCHANGED txn_list
       ELSE \E m \in found : /\ txn_list' = txn_list \ {m}
                             /\ th' = [th EXCEPT ![p].pc = "fail_cb", ![p].cur = m]
  /\ UNCHANGED <<next, txn, tx_q, clnt, net, hist, fault>>

FlushFail(p) ==
  /\ At(p, "fail_cb") /\ Live(th[p].cur)
  /\ HandleTxnError(th[p].cur, "internal")
  /\ Goto(p, "fail_dec")
  /\ UNCHANGED <<next, txn_list, tx_q, clnt, net, fault>>

FlushFailDec(p) ==
  /\ At(p, "fail_dec") /\ Live(th[p].cur)
  /\ DecTxn(th[p].cur)
  /\ Goto(p, "tx")
  /\ UNCHANGED <<next, txn_list, tx_q, clnt, net, hist, fault>>

-----------------------------------------------------------------------------
(* cleanup_client_lists; th[p].rc is the error it reports                   *)

DetachQueue(p) ==
  /\ At(p, "detach_q")
  /\ tx_q' = <<>>
  /\ th' = [th EXCEPT ![p].pc = "clean_q", ![p].work = ToSet(tx_q)]
  /\ UNCHANGED <<next, txn, txn_list, clnt, net, hist, fault>>

\* Lists keep the order in which transactions were allocated, and the
\* cleanup walks them from the head.
First(m, S) == m \in S /\ \A k \in S : m <= k

CleanQueue(p) ==
  /\ At(p, "clean_q")
  /\ IF th[p].work = {}
     THEN Goto(p, "detach_l") /\ UNCHANGED txn
     ELSE \E m \in th[p].work :
            /\ First(m, th[p].work) /\ Live(m)
            /\ DecTxn(m)
            /\ th' = [th EXCEPT ![p].work = @ \ {m}]
  /\ UNCHANGED <<next, txn_list, tx_q, clnt, net, hist, fault>>

DetachList(p) ==
  /\ At(p, "detach_l")
  /\ txn_list' = {}
  /\ th' = [th EXCEPT ![p].pc = "clean_cb", ![p].work = txn_list]
  /\ UNCHANGED <<next, txn, tx_q, clnt, net, hist, fault>>

\* The error a cleanup reports: a release's is internal, every other one says
\* that the service is gone.
CleanupError(p) == IF th[p].ret = "close" THEN "internal" ELSE "service"

CleanFail(p) ==
  /\ At(p, "clean_cb")
  /\ IF th[p].work = {}
     THEN Return(p) /\ UNCHANGED <<txn, hist>>
     ELSE \E m \in th[p].work :
            /\ First(m, th[p].work) /\ Live(m)
            /\ HandleTxnError(m, CleanupError(p))
            /\ th' = [th EXCEPT ![p].pc = "clean_inv", ![p].cur = m]
  /\ UNCHANGED <<next, txn_list, tx_q, clnt, net, fault>>

CleanInvalidate(p) ==
  /\ At(p, "clean_inv") /\ Live(th[p].cur)
  /\ txn' = [txn EXCEPT ![th[p].cur].rx_buf = FALSE]
  /\ Goto(p, "clean_dec")
  /\ UNCHANGED <<next, txn_list, tx_q, clnt, net, hist, fault>>

CleanDec(p) ==
  /\ At(p, "clean_dec") /\ Live(th[p].cur)
  /\ DecTxn(th[p].cur)
  /\ th' = [th EXCEPT ![p].pc = "clean_cb", ![p].work = @ \ {th[p].cur}]
  /\ UNCHANGED <<next, txn_list, tx_q, clnt, net, hist, fault>>

-----------------------------------------------------------------------------
(* the end of a send call                                                   *)

\* An asynchronous call returns the transaction's handle.
AsyncReturn(p) ==
  /\ At(p, "sent")
  /\ hist' = [hist EXCEPT ![th[p].txn].api = "sent"]
  /\ th' = [th EXCEPT ![p] = Idle]
  /\ UNCHANGED <<next, txn, txn_list, tx_q, clnt, net, fault>>

\* qmi_cci_response_wait_loop: woken by the signal, the caller clears it and
\* looks at the return code; a stray wake-up waits again.
Wake(p) ==
  /\ At(p, "wait") /\ Live(th[p].txn) /\ txn[th[p].txn].sig
  /\ Goto(p, "woken")
  /\ UNCHANGED <<next, txn, txn_list, tx_q, clnt, net, hist, fault>>

Woken(p) ==
  /\ At(p, "woken") /\ Live(th[p].txn)
  /\ txn' = [txn EXCEPT ![th[p].txn].sig = FALSE]
  /\ th' = IF txn[th[p].txn].rc = "timeout"
           THEN [th EXCEPT ![p].pc = "wait"]
           ELSE [th EXCEPT ![p].pc = "inval", ![p].rc = txn[th[p].txn].rc]
  /\ UNCHANGED <<next, txn_list, tx_q, clnt, net, hist, fault>>

\* pthread_cond_timedwait may report the time-out although the signal has been
\* set meanwhile, and the code does not look at it again.
WaitTimeout(p) ==
  /\ Timeouts /\ At(p, "wait") /\ Live(th[p].txn)
  /\ txn' = [txn EXCEPT ![th[p].txn].sig = FALSE]
  /\ th' = [th EXCEPT ![p].pc = "inval", ![p].rc = "timeout"]
  /\ UNCHANGED <<next, txn_list, tx_q, clnt, net, hist, fault>>

\* Mutant of Invalidate: the buffer is not taken back.
Invalidate_Dropped(p) ==
  /\ At(p, "inval") /\ Live(th[p].txn)
  /\ Goto(p, "remove")
  /\ UNCHANGED <<next, txn, txn_list, tx_q, clnt, net, hist, fault>>

\* INVALIDATE_TXN_RX_BUF_SAFE: under txn->lock, which a delivery holds too.
Invalidate(p) ==
  /\ At(p, "inval") /\ Live(th[p].txn)
  /\ txn' = [txn EXCEPT ![th[p].txn].rx_buf = FALSE]
  /\ Goto(p, "remove")
  /\ UNCHANGED <<next, txn_list, tx_q, clnt, net, hist, fault>>

\* remove_txn: found by its address; a refused asynchronous call ends here.
RemoveTxn(p) ==
  /\ At(p, "remove")
  /\ LET found == SameAddr(txn_list, th[p].txn) IN
       IF found = {}
       THEN UNCHANGED <<txn, txn_list>>
       ELSE \E m \in found : DecTxn(m) /\ txn_list' = txn_list \ {m}
  /\ IF Sync(p)
     THEN Goto(p, "dec_own") /\ UNCHANGED hist
     ELSE /\ th' = [th EXCEPT ![p] = Idle]
          /\ hist' = [hist EXCEPT ![th[p].txn].api = "refused"]
  /\ UNCHANGED <<next, tx_q, clnt, net, fault>>

SyncReturn(p) ==
  /\ At(p, "dec_own") /\ Live(th[p].txn)
  /\ DecTxn(th[p].txn)
  /\ hist' = [hist EXCEPT ![th[p].txn].api =
                 IF th[p].rc \in {"ok", "timeout"} THEN th[p].rc ELSE "error"]
  /\ th' = [th EXCEPT ![p] = Idle]
  /\ UNCHANGED <<next, txn_list, tx_q, clnt, net, fault>>

-----------------------------------------------------------------------------
(* qmi_client_delete_async_txn: the application passes a handle it was given *)

DeleteStart(p) ==
  /\ Deletes /\ At(p, "idle") /\ clnt.linked
  /\ \E n \in Ids : /\ hist[n].api = "sent" /\ hist[n].del = "no"
                    /\ \A q \in Threads : th[q].txn # n
                    /\ th' = [th EXCEPT ![p].pc = "del_q", ![p].txn = n]
  /\ UNCHANGED <<next, txn, txn_list, tx_q, clnt, net, hist, fault>>

DeleteQueued(p) ==
  /\ At(p, "del_q")
  /\ IF SameAddr(ToSet(tx_q), th[p].txn) = {}
     THEN Goto(p, "del_l") /\ UNCHANGED tx_q
     ELSE \E i \in DOMAIN tx_q :
            /\ txn[tx_q[i]].addr = txn[th[p].txn].addr
            /\ tx_q' = RemoveAt(tx_q, i)
            /\ th' = [th EXCEPT ![p].pc = "del_dec_q", ![p].cur = tx_q[i]]
  /\ UNCHANGED <<next, txn, txn_list, clnt, net, hist, fault>>

DeleteQueuedDec(p) ==
  /\ At(p, "del_dec_q") /\ Live(th[p].cur)
  /\ DecTxn(th[p].cur)
  /\ Goto(p, "del_l")
  /\ UNCHANGED <<next, txn_list, tx_q, clnt, net, hist, fault>>

DeleteListed(p) ==
  /\ At(p, "del_l")
  /\ LET found == SameAddr(txn_list, th[p].txn) IN
       IF found = {}
       THEN /\ hist' = [hist EXCEPT ![th[p].txn].del = "invalid"]
            /\ th' = [th EXCEPT ![p] = Idle]
            /\ UNCHANGED txn_list
       ELSE \E m \in found : /\ txn_list' = txn_list \ {m}
                             /\ th' = [th EXCEPT ![p].pc = "del_inv", ![p].cur = m]
                             /\ UNCHANGED hist
  /\ UNCHANGED <<next, txn, tx_q, clnt, net, fault>>

DeleteInvalidate(p) ==
  /\ At(p, "del_inv") /\ Live(th[p].cur)
  /\ txn' = [txn EXCEPT ![th[p].cur].rx_buf = FALSE]
  /\ Goto(p, "del_dec")
  /\ UNCHANGED <<next, txn_list, tx_q, clnt, net, hist, fault>>

DeleteReturn(p) ==
  /\ At(p, "del_dec") /\ Live(th[p].cur)
  /\ DecTxn(th[p].cur)
  /\ hist' = [hist EXCEPT ![th[p].txn].del = "ok"]
  /\ th' = [th EXCEPT ![p] = Idle]
  /\ UNCHANGED <<next, txn_list, tx_q, clnt, net, fault>>

-----------------------------------------------------------------------------
(* the transport's up-calls, all made by its reader thread                   *)

\* qmi_cci_xport_recv: a response to m is matched by its transaction id.
Recv ==
  /\ At(Reader, "idle")
  /\ \E m \in net.wire, same_msg \in IF BadReplies THEN BOOLEAN ELSE {TRUE} :
       LET found == {i \in txn_list : TxnId(i) = TxnId(m)} IN
       /\ net' = [net EXCEPT !.wire = @ \ {m}]
       /\ IF found = {}
          THEN UNCHANGED <<th, txn_list>>
          ELSE \E n \in found :
                 /\ First(n, found)
                 /\ txn_list' = txn_list \ {n}
                 /\ th' = [th EXCEPT ![Reader].pc = IF same_msg THEN "deliver" ELSE "mismatch",
                                     ![Reader].cur = n]
  /\ UNCHANGED <<next, txn, tx_q, clnt, hist, fault>>

\* Mutant of Deliver: a synchronous caller gets its response but no signal.
Deliver_NoSignal ==
  /\ At(Reader, "deliver") /\ Live(th[Reader].cur)
  /\ LET n == th[Reader].cur IN
       IF ~txn[n].rx_buf
       THEN UNCHANGED <<txn, hist>>
       ELSE IF txn[n].kind = "sync"
       THEN /\ txn' = [txn EXCEPT ![n].rc = "ok"]
            /\ hist' = [hist EXCEPT ![n].wr = @ + 1]
       ELSE /\ hist' = [hist EXCEPT ![n].wr = @ + 1, ![n].cb = @ + 1]
            /\ UNCHANGED txn
  /\ Goto(Reader, "recv_dec")
  /\ UNCHANGED <<next, txn_list, tx_q, clnt, net, fault>>

\* With txn->lock held, unless the buffer was taken back.
Deliver ==
  /\ At(Reader, "deliver") /\ Live(th[Reader].cur)
  /\ LET n == th[Reader].cur IN
       IF ~txn[n].rx_buf
       THEN UNCHANGED <<txn, hist>>
       ELSE IF txn[n].kind = "sync"
       THEN /\ txn' = [txn EXCEPT ![n].rc = "ok", ![n].sig = TRUE]
            /\ hist' = [hist EXCEPT ![n].wr = @ + 1]
       ELSE /\ hist' = [hist EXCEPT ![n].wr = @ + 1, ![n].cb = @ + 1]
            /\ UNCHANGED txn
  /\ Goto(Reader, "recv_dec")
  /\ UNCHANGED <<next, txn_list, tx_q, clnt, net, fault>>

\* A response with another message id than the request's.
Mismatch ==
  /\ At(Reader, "mismatch") /\ Live(th[Reader].cur)
  /\ HandleTxnError(th[Reader].cur, "invalid_txn")
  /\ Goto(Reader, "recv_dec")
  /\ UNCHANGED <<next, txn_list, tx_q, clnt, net, fault>>

RecvDec ==
  /\ At(Reader, "recv_dec") /\ Live(th[Reader].cur)
  /\ DecTxn(th[Reader].cur)
  /\ th' = [th EXCEPT ![Reader] = Idle]
  /\ UNCHANGED <<next, txn_list, tx_q, clnt, net, hist, fault>>

\* Mutant of Resume: the event is consumed but the queue is not flushed.
Resume_NoFlush ==
  /\ At(Reader, "idle") /\ net.resume
  /\ net' = [net EXCEPT !.resume = FALSE]
  /\ UNCHANGED <<next, txn, txn_list, tx_q, clnt, th, hist, fault>>

\* qmi_cci_xport_resume: the router takes messages again.
Resume ==
  /\ At(Reader, "idle") /\ net.resume
  /\ net' = [net EXCEPT !.resume = FALSE]
  /\ th' = [th EXCEPT ![Reader].pc = "flush", ![Reader].ret = "idle"]
  /\ UNCHANGED <<next, txn, txn_list, tx_q, clnt, hist, fault>>

\* qmi_cci_xport_event_remove_server for the server the client talks to.
ServerGone ==
  /\ ServerExits /\ At(Reader, "idle") /\ clnt.addr_valid
  /\ clnt' = [clnt EXCEPT !.addr_valid = FALSE]
  /\ th' = [th EXCEPT ![Reader].pc = "detach_q", ![Reader].ret = "idle"]
  /\ UNCHANGED <<next, txn, txn_list, tx_q, net, hist, fault>>

ReaderExit ==
  /\ At(Reader, "idle") /\ ~clnt.handle
  /\ Goto(Reader, "exit")
  /\ UNCHANGED <<next, txn, txn_list, tx_q, clnt, net, hist, fault>>

-----------------------------------------------------------------------------
(* qmi_client_release_async                                                  *)

\* qmi_cci_get_ref(handle, 1): no later call finds the client.
ReleaseStart(p) ==
  /\ Releases /\ At(p, "idle") /\ clnt.linked
  /\ clnt' = [clnt EXCEPT !.linked = FALSE]
  /\ Goto(p, "stop")
  /\ UNCHANGED <<next, txn, txn_list, tx_q, net, hist, fault>>

StopAccepting(p) ==
  /\ At(p, "stop")
  /\ clnt' = [clnt EXCEPT !.accepting = FALSE]
  /\ th' = [th EXCEPT ![p].pc = "detach_q", ![p].ret = "close"]
  /\ UNCHANGED <<next, txn, txn_list, tx_q, net, hist, fault>>

\* Mutant of CloseXport: the reader is not told to stop.
CloseXport_NoWake(p) ==
  /\ At(p, "close")
  /\ Goto(p, "join")
  /\ UNCHANGED <<next, txn, txn_list, tx_q, clnt, net, hist, fault>>

CloseXport(p) ==
  /\ At(p, "close")
  /\ clnt' = [clnt EXCEPT !.handle = FALSE]
  /\ Goto(p, "join")
  /\ UNCHANGED <<next, txn, txn_list, tx_q, net, hist, fault>>

\* The transport's close waits for its reader thread.
JoinReader(p) ==
  /\ At(p, "join") /\ At(Reader, "exit")
  /\ th' = [th EXCEPT ![p] = Idle]
  /\ UNCHANGED <<next, txn, txn_list, tx_q, clnt, net, hist, fault>>

-----------------------------------------------------------------------------
\* The blocks p dereferences in its next step.
OwnLabels == {"own", "clear", "set_rc", "check", "inc", "enq", "dec_enq",
              "wait", "woken", "inval", "dec_own"}
CurLabels == {"dec_tx", "fail_cb", "fail_dec", "clean_inv", "clean_dec", "del_dec_q",
              "del_inv", "del_dec", "deliver", "mismatch", "recv_dec"}

Derefs(p) ==
  CASE th[p].pc \in OwnLabels -> {th[p].txn}
    [] th[p].pc \in CurLabels -> {th[p].cur}
    [] th[p].pc \in {"clean_q", "clean_cb"} -> th[p].work
    [] th[p].pc = "tx" -> ToSet(tx_q)
    [] OTHER -> {}

UseAfterFree(p) ==
  /\ \E n \in Derefs(p) : ~Live(n)
  /\ fault' = TRUE
  /\ UNCHANGED <<next, txn, txn_list, tx_q, clnt, th, net, hist>>

Cleanup(p) == \/ DetachQueue(p) \/ CleanQueue(p) \/ DetachList(p)
              \/ CleanFail(p) \/ CleanInvalidate(p) \/ CleanDec(p)

Flush(p) == \/ FlushStart(p) \/ FlushDone(p) \/ FlushSend(p) \/ FlushDec(p)
            \/ FlushFind(p) \/ FlushFail(p) \/ FlushFailDec(p) \/ Cleanup(p)

Send(p) == \/ GetTxn(p) \/ OwnTxn(p) \/ ClearSignal(p) \/ SetRc(p)
           \/ CheckServer(p) \/ IncTxn(p) \/ Enqueue(p) \/ DecEnqueue(p)
           \/ AsyncReturn(p) \/ Wake(p) \/ Woken(p)
           \/ Invalidate(p) \/ RemoveTxn(p) \/ SyncReturn(p)

Delete(p) == \/ DeleteQueued(p) \/ DeleteQueuedDec(p) \/ DeleteListed(p)
             \/ DeleteInvalidate(p) \/ DeleteReturn(p)

Release(p) == StopAccepting(p) \/ CloseXport(p) \/ JoinReader(p)

\* A call that was made goes on; whether one is made is the application's choice.
CallStart(p) == (\E k \in Kinds : SendStart(p, k)) \/ DeleteStart(p) \/ ReleaseStart(p)
CallStep(p)  == Send(p) \/ Flush(p) \/ Delete(p) \/ Release(p)

UpcallStep == Deliver \/ Mismatch \/ RecvDec \/ Flush(Reader) \/ ReaderExit

Next ==
  /\ ~fault
  /\ \/ \E p \in Threads : CallStart(p) \/ CallStep(p) \/ WaitTimeout(p)
     \/ Recv \/ Resume \/ ServerGone \/ UpcallStep
     \/ \E p \in Procs : UseAfterFree(p)

Spec == Init /\ [][Next]_vars

\* Threads run, the router resumes a flow-controlled client, and a server that has
\* a request answers or goes away.
Fairness ==
  /\ \A p \in Threads : WF_vars(~fault /\ CallStep(p))
  /\ WF_vars(~fault /\ UpcallStep)
  /\ WF_vars(~fault /\ Resume)
  /\ WF_vars(~fault /\ clnt.addr_valid /\ net.wire # {} /\ (Recv \/ ServerGone))

FairSpec == Spec /\ Fairness

-----------------------------------------------------------------------------
(* Safety                                                                   *)

\* The references on transaction n: the two lists', a synchronous caller's, the
\* one a sender took for the queue, and those a thread took off a list.
HoldsOwn(p, n)  == /\ th[p].txn = n /\ txn[n].kind = "sync"
                   /\ th[p].pc \notin {"idle", "get_txn", "own"}
HoldsEnq(p, n)  == th[p].txn = n /\ th[p].pc \in {"enq", "dec_enq"}
HoldsCur(p, n)  == th[p].cur = n /\ th[p].pc \in CurLabels \ {"clean_inv", "clean_dec"}
HoldsWork(p, n) == n \in th[p].work

Holders(n) ==
  {<<"txn_list", p>> : p \in {q \in {Reader} : n \in txn_list}}
    \cup {<<"tx_q", p>> : p \in {q \in {Reader} : n \in ToSet(tx_q)}}
    \cup {<<"own", p>>  : p \in {q \in Procs : HoldsOwn(q, n)}}
    \cup {<<"enq", p>>  : p \in {q \in Procs : HoldsEnq(q, n)}}
    \cup {<<"cur", p>>  : p \in {q \in Procs : HoldsCur(q, n)}}
    \cup {<<"work", p>> : p \in {q \in Procs : HoldsWork(q, n)}}

\* A transaction's ref_count is the number of its holders: nobody drops a
\* reference twice (a second free) or forgets one (a leak), whichever way the
\* transaction leaves the lists.
RefCountExact == \A n \in Ids : txn[n].ref = Cardinality(Holders(n))

\* No thread dereferences a transaction after its last reference was dropped.
NoUseAfterFree == ~fault

\* The one place where a freed block is in reach is that of the finding: the call
\* that allocated it has not taken its first reference, and the server's exit or
\* a release has run a cleanup.  Everywhere else - flushes, cleanups, deletions,
\* the reader, a caller that waits - the blocks in use are allocated.
DanglingOnlyWhenUnheld ==
  \A p \in Procs : \A n \in Derefs(p) : ~Live(n) =>
    /\ th[p].txn = n /\ th[p].pc \in IF Sync(p) THEN {"own"} ELSE {"check", "inc"}
    /\ ~clnt.addr_valid \/ ~clnt.accepting

\* Someone is going to complete n: it is still outstanding, or a thread took it
\* off the list and has not yet handled it.
InGoodHands(n) ==
  \/ n \in txn_list
  \/ \E p \in Procs : \/ /\ th[p].cur = n
                          /\ th[p].pc \in {"fail_cb", "deliver", "mismatch"}
                       \/ /\ n \in th[p].work /\ th[p].pc # "clean_q"
                          /\ th[p].pc # "clean_cb" => n # th[p].cur

\* No lost wake-up: a synchronous caller waits only on a transaction that has
\* been signalled or that someone is still going to signal.
WaiterNotForgotten ==
  \A p \in Threads :
    At(p, "wait") => txn[th[p].txn].sig \/ InGoodHands(th[p].txn)

\* Once the server is gone or the client released, and every call has returned,
\* no request is left in the transmit queue or outstanding, and no block leaks.
Quiet == \A p \in Procs : th[p].pc \in {"idle", "exit"}
NothingLeftBehind ==
  Quiet /\ ~(clnt.addr_valid /\ clnt.linked) /\ ~fault
    => txn_list = {} /\ tx_q = <<>> /\ \A n \in Ids : ~Live(n)

\* Whatever the threads, the lists and the transport do, the application sees the
\* behaviour of QmiRequests: a response is written once, never into the buffer of a
\* call that has returned or of a request that was deleted, a synchronous call
\* reports success exactly when it has the response, and an asynchronous request ends with one callback or a successful deletion.
Requests == INSTANCE QmiRequests WITH
  Requests <- Ids,
  kind <- [n \in Ids |-> txn[n].kind],
  call <- [n \in Ids |-> hist[n].api],
  writes <- [n \in Ids |-> hist[n].wr],
  callbacks <- [n \in Ids |-> hist[n].cb],
  deleted <- [n \in Ids |-> hist[n].del]

ImplementsRequests == Requests!Spec

-----------------------------------------------------------------------------
(* Liveness                                                                 *)

\* A synchronous call returns although it has no time-out.
SyncReturns == \A p \in Threads : At(p, "wait") ~> At(p, "idle") \/ fault

\* An asynchronous request that was accepted is called back, or was deleted.
AsyncCompletes ==
  \A n \in Ids : hist[n].api = "sent" ~> hist[n].cb > 0 \/ hist[n].del = "ok" \/ fault

\* qmi_client_release returns: the reader is never waited for in vain.
ReleaseReturns == \A p \in Threads : At(p, "stop") ~> At(p, "idle") \/ fault
=============================================================================
