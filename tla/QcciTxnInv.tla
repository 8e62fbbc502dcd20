------------------------------ MODULE QcciTxnInv ------------------------------
(***************************************************************************)
(* The inductive invariant behind the exact reference counts of QcciTxn:   *)
(* which transaction a thread works on at each place of the code, and that *)
(* the transmit queue holds no transaction twice.                          *)
(***************************************************************************)
EXTENDS QcciTxn

\* Where a thread has a synchronous, an asynchronous, some or no transaction.
SyncLabels   == {"own", "clear", "set_rc", "wait", "woken", "inval", "dec_own"}
AsyncLabels  == {"sent", "del_q", "del_dec_q", "del_l", "del_inv", "del_dec"}
EitherLabels == {"check", "inc", "enq", "dec_enq", "remove"}
NoTxnLabels  == {"idle", "get_txn", "stop", "close", "join", "exit",
                 "deliver", "mismatch", "recv_dec"}
FlushLabels  == {"flush", "tx", "dec_tx", "find", "fail_cb", "fail_dec",
                 "detach_q", "clean_q", "detach_l", "clean_cb", "clean_inv", "clean_dec"}
WorkLabels   == {"clean_q", "clean_cb", "clean_inv", "clean_dec"}
BeforeQueue  == {"own", "clear", "set_rc", "check", "inc", "enq", "dec_enq"}

SyncTxn(t)  == t.txn \in Ids /\ txn[t.txn].kind = "sync"
AsyncTxn(t) == t.txn \in Ids /\ txn[t.txn].kind = "async"

\* The transaction a thread works on has the kind its place in the code says; a
\* flush remembers for whom it runs.
TxnOf(t) ==
  /\ t.pc \in SyncLabels   => SyncTxn(t)
  /\ t.pc \in AsyncLabels  => AsyncTxn(t)
  /\ t.pc \in EitherLabels => t.txn \in Ids
  /\ t.pc \in NoTxnLabels  => t.txn = NoTxn
  /\ t.pc = "get_txn"      => t.ret \in {"own", "check"}
  /\ t.pc \in FlushLabels  => \/ t.ret = "wait" /\ SyncTxn(t)
                              \/ t.ret = "sent" /\ AsyncTxn(t)
                              \/ t.ret \in {"idle", "close"} /\ t.txn = NoTxn

\* A thread has detached transactions only while it cleans them up.
WorkOf(t) == /\ t.pc \notin WorkLabels => t.work = {}
             /\ t.pc \in {"clean_inv", "clean_dec"} => t.cur \in t.work

ThreadInv == \A p \in Procs : TxnOf(th[p]) /\ WorkOf(th[p])

\* A transaction is queued once, after its sender has taken the queue's
\* reference, and no two senders have the same transaction.
QueueInv ==
  /\ \A i, j \in DOMAIN tx_q : tx_q[i] = tx_q[j] => i = j
  /\ \A p \in Procs : th[p].pc \in BeforeQueue => th[p].txn \notin ToSet(tx_q)
  /\ \A p, q \in Procs : /\ th[p].pc \in BeforeQueue /\ th[q].pc \in BeforeQueue
                         /\ th[p].txn = th[q].txn
                         => p = q

\* Nothing refers to a transaction that has not been allocated.
AllocInv ==
  /\ \A n \in txn_list \cup ToSet(tx_q) : n <= next
  /\ \A p \in Procs : /\ th[p].txn <= next /\ th[p].cur <= next
                      /\ \A n \in th[p].work : n <= next
  /\ \A n \in Ids : hist[n].api = "sent" => n <= next /\ txn[n].kind = "async"

CountInv == TypeOK /\ ThreadInv /\ QueueInv /\ AllocInv /\ RefCountExact
-----------------------------------------------------------------------------
(***************************************************************************)
(* The inductive invariant behind the other safety properties and the      *)
(* refinement of QmiRequests.  It holds while no address is handed out     *)
(* twice and no transaction id comes round again, DistinctTxns below: the  *)
(* code looks transactions up by their address and by their id.            *)
(***************************************************************************)
DistinctTxns == ~Reuse /\ MaxTxns <= LastTxnId

\* Thread t took n off txn_list and still has it, owes n its completion, or is
\* deleting n.
ListCur    == {"fail_cb", "fail_dec", "deliver", "mismatch", "recv_dec", "del_inv", "del_dec"}
ListWork   == {"clean_cb", "clean_inv", "clean_dec"}
Took(t, n) == \/ t.pc \in ListCur /\ t.cur = n
              \/ t.pc \in ListWork /\ n \in t.work
Owes(t, n) == \/ t.pc \in {"fail_cb", "deliver", "mismatch"} /\ t.cur = n
              \/ t.pc \in ListWork /\ n \in t.work /\ (t.pc # "clean_cb" => t.cur # n)
Deleting(t, n) == t.pc \in {"del_inv", "del_dec"} /\ t.cur = n
Owed(n)    == n \in txn_list \/ \E p \in Procs : Owes(th[p], n)

\* n has reached the transmit queue and may be answered.
Passes(t, n) == t.pc \in {"dec_tx", "find", "deliver", "mismatch", "recv_dec"} /\ t.cur = n
Sent(n)    == n \in ToSet(tx_q) \/ n \in net.wire \/ \E p \in Procs : Passes(th[p], n)

\* An address names one transaction, and what was sent has been allocated.
AddrInv ==
  /\ \A m, n \in Ids : m <= next /\ n <= next /\ txn[m].addr = txn[n].addr => m = n
  /\ \A n \in net.wire : n <= next
  /\ \A p \in Procs : th[p].pc \in CurLabels \cup {"find"} => th[p].cur \in Ids

\* A transaction has one caller, and its history says where the call is.
DeleteLabels == {"del_q", "del_dec_q", "del_l", "del_inv", "del_dec"}
OwnerInv ==
  /\ th[Reader].txn = NoTxn
  /\ \A p, q \in Procs : th[p].txn # NoTxn /\ th[p].txn = th[q].txn => p = q
  /\ \A p \in Procs : th[p].txn # NoTxn =>
       IF th[p].pc \in DeleteLabels
       THEN hist[th[p].txn].api = "sent" /\ hist[th[p].txn].del = "no"
       ELSE hist[th[p].txn].api = "calling"
  /\ \A p \in Procs : th[p].pc \in {"del_inv", "del_dec"} => th[p].cur = th[p].txn
  /\ \A n \in Ids : n > next => hist[n] = [api |-> "none", del |-> "no", cb |-> 0, wr |-> 0]
  /\ \A n \in Ids : hist[n].api = "none" => n > next
  /\ \A n \in Ids : hist[n].del # "no" => hist[n].api = "sent"
  /\ \A n \in Ids : hist[n].api \in {"ok", "error", "timeout"} => txn[n].kind = "sync"

\* A transaction is taken off the list once, by one thread.
TookInv ==
  \A p \in Procs, n \in Ids : Took(th[p], n) =>
    n \notin txn_list /\ \A q \in Procs : Took(th[q], n) => p = q

\* What is still owed, or being deleted, has not ended.
OpenInv ==
  \A n \in Ids :
    /\ hist[n].wr \in {0, 1}
    /\ Owed(n) \/ (\E p \in Procs : Deleting(th[p], n)) =>
         hist[n].wr = 0 /\ hist[n].cb = 0 /\ hist[n].del # "ok"

\* Before it reaches the transmit queue a transaction is not answered, and only a
\* cleanup takes it off the list.
Unsent(t) == t.pc \in BeforeQueue \/ (t.pc = "remove" /\ AsyncTxn(t))
SetupInv ==
  /\ \A p \in Procs :
    /\ Unsent(th[p]) => ~Sent(th[p].txn) /\ hist[th[p].txn].wr = 0
    /\ th[p].pc \in BeforeQueue =>
         th[p].txn \in txn_list \/ ~clnt.addr_valid \/ ~clnt.accepting
    /\ th[p].pc = "dec_enq" => th[p].rc = "internal"
  /\ \A n \in Ids : hist[n].api = "refused" => ~Sent(n)

\* A cleanup runs only for a server that is gone or a client being released.
CleanupLabels == {"detach_q", "clean_q", "detach_l"} \cup ListWork
CleanupInv ==
  \A p \in Procs : th[p].pc \in CleanupLabels => ~clnt.addr_valid \/ ~clnt.accepting

\* A buffer is taken back by its caller, or after the transaction has ended.
Leaving(t) == t.pc \in {"remove", "dec_own"}
BufferInv ==
  /\ \A n \in Ids : Owed(n) /\ ~txn[n].rx_buf =>
       txn[n].kind = "sync" /\ \A p \in Procs : th[p].txn = n => Leaving(th[p])
  /\ \A p \in Procs : Leaving(th[p]) /\ SyncTxn(th[p]) => ~txn[th[p].txn].rx_buf
  /\ \A n \in Ids : txn[n].kind = "sync" /\ txn[n].rx_buf => hist[n].api = "calling"

\* A caller that waits has been told the outcome, or somebody owes it.
Told(n)   == txn[n].sig /\ txn[n].rc # "timeout"
Awaits(t) == t.pc \in {"wait", "woken"} \/ (t.pc \in FlushLabels /\ t.ret = "wait")
WaitInv ==
  \A p \in Procs :
    /\ Awaits(th[p]) => Told(th[p].txn) \/ Owed(th[p].txn)
    /\ th[p].pc \in {"inc", "enq"} /\ SyncTxn(th[p]) =>
         Told(th[p].txn) \/ Owed(th[p].txn) \/ ~clnt.accepting

\* The return code of a synchronous transaction says whether it was answered.
Asked(t) == Awaits(t) \/ t.pc \in {"check", "inc", "enq"}
RcInv ==
  \A p \in Procs : SyncTxn(th[p]) =>
    /\ Asked(th[p]) /\ Owed(th[p].txn) => txn[th[p].txn].rc = "timeout"
    /\ Asked(th[p]) => (txn[th[p].txn].rc = "ok" <=> hist[th[p].txn].wr = 1)
    /\ th[p].pc \in {"inval", "remove", "dec_own"} =>
         /\ th[p].rc = "ok" => hist[th[p].txn].wr = 1
         /\ th[p].rc \notin {"ok", "timeout"} =>
              hist[th[p].txn].wr = 0 /\ ~(Owed(th[p].txn) /\ Sent(th[p].txn))

\* What is queued or outstanding once the server is gone, or the client released,
\* is known to a thread that will still clean it up.
QueueLeft ==
  /\ tx_q # <<>> /\ ~clnt.addr_valid => \E p \in Procs : th[p].pc \in {"flush", "detach_q"}
  /\ tx_q # <<>> /\ ~clnt.accepting => \E p \in Procs : th[p].pc = "detach_q"
  /\ ~clnt.linked /\ clnt.accepting => \E p \in Procs : th[p].pc = "stop"

Cleaning == \E p \in Procs : th[p].pc \in {"detach_q", "clean_q", "detach_l"}
ListLeft ==
  \A n \in txn_list :
    /\ ~clnt.addr_valid => Cleaning \/ \E p \in Procs :
         th[p].txn = n /\ th[p].pc \in BeforeQueue \cup {"inval", "remove", "flush"}
    /\ ~clnt.accepting => Cleaning \/ \E p \in Procs :
         th[p].txn = n /\ th[p].pc \in BeforeQueue \cup {"inval", "remove"}

SafeInv ==
  /\ AddrInv /\ OwnerInv /\ TookInv /\ OpenInv /\ SetupInv /\ CleanupInv
  /\ BufferInv /\ WaitInv /\ RcInv /\ QueueLeft /\ ListLeft
=============================================================================
