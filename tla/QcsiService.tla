---------------------------- MODULE QcsiService ----------------------------
(***************************************************************************)
(* The clients and transactions of one registered service                   *)
(* (qcsi/src/qmi_csi_common.c).  The event thread runs the transport's       *)
(* up-calls: requests, which connect their sender when it is new, and        *)
(* disconnects.  Application threads send responses and indications and      *)
(* unregister the service.                                                   *)
(*                                                                         *)
(* A critical section that frees nothing it needs later and calls nobody is  *)
(* one action; it needs its locks to be free.  A section during which other  *)
(* threads matter (a send, a callback) holds its locks over several actions. *)
(* The locks are recursive mutexes.                                          *)
(***************************************************************************)
EXTENDS Integers, Sequences, FiniteSets

CONSTANTS
    Apps,           \* application threads
    Ev,             \* the thread that calls qmi_csi_handle_event
    Addrs,          \* the addresses of clients
    None,
    AllocFails,     \* whether an allocation may fail
    Unregisters,    \* whether the service is unregistered
    MaxReqs,        \* bound: requests received
    MaxClients      \* bound: client structs created

ASSUME ThreadAssumption == Ev \notin Apps /\ None \notin Apps \cup {Ev} \cup Addrs
ASSUME BoundAssumption == MaxReqs \in Nat /\ MaxClients \in Nat
ASSUME SwitchAssumption == {AllocFails, Unregisters} \subseteq BOOLEAN

Threads == Apps \cup {Ev}
Handles == 1..MaxClients
TxnIds == 1..MaxReqs

VARIABLES
    lock,       \* client_list_lock, txn_list_lock, service_list_lock: who holds
                \* each, and how often
    clnt,       \* the client structs in the order of creation; a handle is a place
    txn,        \* the transactions in the order of creation; a handle is a place
    svc,        \* the service: listed, its transport closed, freed
    th,         \* what each thread is doing
    hist,       \* history: the sender of each request and its answers, requests
                \* accepted, whether an answer went astray or a lock was left
    fault       \* whether a freed struct was used

vars == <<lock, clnt, txn, svc, th, hist, fault>>

Locks == {"client", "txn", "service"}
Errors == {"malformed", "no_memory", "refused", "internal", "not_supported", "encoding"}
Client == [addr : Addrs, linked : BOOLEAN, live : BOOLEAN,
           conn : {"connecting", "connected", "refused", "disconnected", "closed"}]
Txn == [clnt : Handles, req : TxnIds, linked : BOOLEAN, live : BOOLEAN]
Thread == [pc : {"idle", "find", "connect", "process", "return", "free_txn", "reply",
                 "clean", "resp", "send_resp", "ind", "send_ind", "bcast", "find_svc",
                 "broadcast", "closed", "unlist"},
           addr : Addrs \cup {None}, clnt : 0..MaxClients, txn : 0..MaxReqs,
           req : 0..MaxReqs, rc : Errors \cup {"none"}, todo : SUBSET Handles]
Free == [by |-> None, n |-> 0]
Idle == [pc |-> "idle", addr |-> None, clnt |-> 0, txn |-> 0, req |-> 0, rc |-> "none",
         todo |-> {}]

TypeOK ==
    /\ lock \in [Locks -> [by : Threads \cup {None}, n : Nat]]
    /\ clnt \in Seq(Client) /\ Len(clnt) <= MaxClients
    /\ txn \in Seq(Txn) /\ Len(txn) <= MaxReqs
    /\ svc \in {"registered", "closing", "freed"}
    /\ th \in [Threads -> Thread]
    /\ hist \in [from : [TxnIds -> Addrs \cup {None}], answers : [TxnIds -> Nat],
                 accepted : SUBSET TxnIds, misdirected : BOOLEAN, leaked : BOOLEAN]
    /\ fault \in BOOLEAN

Init ==
    /\ lock = [l \in Locks |-> Free]
    /\ clnt = <<>>
    /\ txn = <<>>
    /\ svc = "registered"
    /\ th = [p \in Threads |-> Idle]
    /\ hist = [from |-> [r \in TxnIds |-> None], answers |-> [r \in TxnIds |-> 0],
               accepted |-> {}, misdirected |-> FALSE, leaked |-> FALSE]
    /\ fault = FALSE

-----------------------------------------------------------------------------
At(p, pc) == th[p].pc = pc /\ ~fault
Goto(p, pc) == th' = [th EXCEPT ![p].pc = pc]
Return(p) == th' = [th EXCEPT ![p] = Idle]
CanLock(p, l) == lock[l].by \in {None, p}
Lock(p, l) == lock' = [lock EXCEPT ![l] = [by |-> p, n |-> @.n + 1]]
Unlock(ls) ==
    lock' = [l \in Locks |-> IF l \notin ls THEN lock[l]
                             ELSE IF lock[l].n = 1 THEN Free
                             ELSE [lock[l] EXCEPT !.n = @ - 1]]

\* find_client_by_addr, find_client, find_txn
ClientAt(a) == {h \in DOMAIN clnt : clnt[h].linked /\ clnt[h].addr = a}
FindClient(h) == h \in DOMAIN clnt /\ clnt[h].linked
FindTxn(t) == t \in DOMAIN txn /\ txn[t].linked

\* the service's list of clients
ClientList == {h \in DOMAIN clnt : clnt[h].linked}
TxnsOf(h) == {t \in DOMAIN txn : txn[t].clnt = h /\ txn[t].linked}

\* Transactions are taken off both lists and freed.
FreeTxns(ts) ==
    [t \in DOMAIN txn |-> IF t \in ts THEN [txn[t] EXCEPT !.linked = FALSE, !.live = FALSE]
                          ELSE txn[t]]

\* A message is sent to the address in a client struct.
Answer(r, a) ==
    hist' = [hist EXCEPT !.answers[r] = @ + 1,
                         !.misdirected = @ \/ hist.from[r] # a]

-----------------------------------------------------------------------------
(* Requests.                                                                 *)

Received == Cardinality({r \in TxnIds : hist.from[r] # None})

\* A request arrives; one that is no request or is too short is answered with
\* an error.
Recv(a) ==
    /\ At(Ev, "idle")
    /\ svc = "registered"
    /\ Received < MaxReqs
    /\ LET r == Received + 1 IN
       /\ hist' = [hist EXCEPT !.from[r] = a]
       /\ th' \in {[th EXCEPT ![Ev] = [Idle EXCEPT !.pc = "find", !.addr = a, !.req = r]],
                   [th EXCEPT ![Ev] = [Idle EXCEPT !.pc = "reply", !.addr = a, !.req = r,
                                                   !.rc = "malformed"]]}
    /\ UNCHANGED <<lock, clnt, txn, svc, fault>>

\* A known client: its transaction is created and its address of callback
\* parameters is cached.
AddTxn(h) ==
    /\ At(Ev, "find")
    /\ h \in ClientAt(th[Ev].addr)
    /\ CanLock(Ev, "client") /\ CanLock(Ev, "txn")
    /\ txn' = Append(txn, [clnt |-> h, req |-> th[Ev].req, linked |-> TRUE, live |-> TRUE])
    /\ th' = [th EXCEPT ![Ev].pc = "process", ![Ev].txn = Len(txn) + 1, ![Ev].clnt = h]
    /\ UNCHANGED <<lock, clnt, svc, hist, fault>>

\* The transaction cannot be allocated: the reply is sent with client_list_lock
\* still locked.
AddTxnNoMem(h) ==
    /\ AllocFails
    /\ At(Ev, "find")
    /\ h \in ClientAt(th[Ev].addr)
    /\ CanLock(Ev, "client")
    /\ Lock(Ev, "client")
    /\ th' = [th EXCEPT ![Ev].pc = "reply", ![Ev].rc = "no_memory"]
    /\ hist' = [hist EXCEPT !.leaked = TRUE]
    /\ UNCHANGED <<clnt, txn, svc, fault>>

\* qmi_csi_xport_connect: a new client is entered in the lists before the
\* service's connect callback has agreed.
CreateClient ==
    /\ At(Ev, "find")
    /\ ClientAt(th[Ev].addr) = {}
    /\ CanLock(Ev, "client")
    /\ Len(clnt) < MaxClients
    /\ clnt' = Append(clnt, [addr |-> th[Ev].addr, linked |-> TRUE, live |-> TRUE,
                             conn |-> "connecting"])
    /\ th' = [th EXCEPT ![Ev].pc = "connect", ![Ev].clnt = Len(clnt) + 1]
    /\ UNCHANGED <<lock, txn, svc, hist, fault>>

CreateClientNoMem ==
    /\ AllocFails \/ Len(clnt) = MaxClients
    /\ At(Ev, "find")
    /\ ClientAt(th[Ev].addr) = {}
    /\ CanLock(Ev, "client")
    /\ th' = [th EXCEPT ![Ev].pc = "reply", ![Ev].rc = "no_memory"]
    /\ UNCHANGED <<lock, clnt, txn, svc, hist, fault>>

\* The connect callback has run without the lock; the client is looked up again
\* by its handle.
Connected ==
    LET h == th[Ev].clnt IN
    /\ At(Ev, "connect")
    /\ CanLock(Ev, "client")
    /\ IF FindClient(h)
       THEN /\ clnt' = [clnt EXCEPT ![h].conn = "connected"]
            /\ Goto(Ev, "find")
       ELSE /\ th' = [th EXCEPT ![Ev].pc = "reply", ![Ev].rc = "internal"]
            /\ UNCHANGED clnt
    /\ UNCHANGED <<lock, txn, svc, hist, fault>>

ConnectRefused ==
    LET h == th[Ev].clnt IN
    /\ At(Ev, "connect")
    /\ CanLock(Ev, "client")
    /\ clnt' = IF FindClient(h)
               THEN [clnt EXCEPT ![h].linked = FALSE, ![h].live = FALSE, ![h].conn = "refused"]
               ELSE clnt
    /\ th' \in {[th EXCEPT ![Ev].pc = "reply", ![Ev].rc = e] : e \in {"no_memory", "refused"}}
    /\ UNCHANGED <<lock, txn, svc, hist, fault>>

\* The service's callback takes the request: from now on any thread of the
\* service may answer it, before the callback returns as well.
ProcessReq ==
    /\ At(Ev, "process")
    /\ hist' = [hist EXCEPT !.accepted = @ \cup {th[Ev].txn}]
    /\ Goto(Ev, "return")
    /\ UNCHANGED <<lock, clnt, txn, svc, fault>>

CallbackReturns ==
    /\ At(Ev, "return")
    /\ Return(Ev)
    /\ UNCHANGED <<lock, clnt, txn, svc, hist, fault>>

\* The request is refused by a pre-request or raw callback, or cannot be decoded.
\* When process_req refuses it, rc is still the decoder's success.
ProcessFails ==
    /\ At(Ev, "process")
    /\ th' \in {[th EXCEPT ![Ev].pc = "free_txn", ![Ev].rc = e] :
                   e \in {"not_supported", "internal", "encoding", "no_memory", "none"}}
    /\ UNCHANGED <<lock, clnt, txn, svc, hist, fault>>

\* mutant: no error response
FreeTxn_Silent ==
    /\ At(Ev, "free_txn")
    /\ CanLock(Ev, "txn")
    /\ txn' = FreeTxns({th[Ev].txn} \cap {t \in DOMAIN txn : txn[t].linked})
    /\ Return(Ev)
    /\ UNCHANGED <<lock, clnt, svc, hist, fault>>

FreeTxn ==
    /\ At(Ev, "free_txn")
    /\ CanLock(Ev, "txn")
    /\ txn' = FreeTxns({th[Ev].txn} \cap {t \in DOMAIN txn : txn[t].linked})
    /\ Goto(Ev, "reply")
    /\ UNCHANGED <<lock, clnt, svc, hist, fault>>

\* encode_and_send_resp
Reply ==
    /\ At(Ev, "reply")
    /\ Answer(th[Ev].req, th[Ev].addr)
    /\ Return(Ev)
    /\ UNCHANGED <<lock, clnt, txn, svc, fault>>

-----------------------------------------------------------------------------
(* Disconnection.                                                            *)

\* The client is unlinked and the service's callback runs, with
\* client_list_lock held.
Disconnect(a) ==
    /\ At(Ev, "idle")
    /\ svc = "registered"
    /\ CanLock(Ev, "client")
    /\ \E h \in ClientAt(a) :
          /\ clnt' = [clnt EXCEPT ![h].linked = FALSE, ![h].conn = "disconnected"]
          /\ th' = [th EXCEPT ![Ev].pc = "clean", ![Ev].clnt = h]
    /\ Lock(Ev, "client")
    /\ UNCHANGED <<txn, svc, hist, fault>>

\* mutant: the transactions are cleaned without txn_list_lock
CleanTxns_NoLock ==
    /\ At(Ev, "clean")
    /\ txn' = FreeTxns(TxnsOf(th[Ev].clnt))
    /\ clnt' = [clnt EXCEPT ![th[Ev].clnt].live = FALSE]
    /\ Unlock({"client"})
    /\ Return(Ev)
    /\ UNCHANGED <<svc, hist, fault>>

\* mutant: a lock is released that is not held
CleanTxns_Unlocks ==
    /\ At(Ev, "clean")
    /\ CanLock(Ev, "txn")
    /\ txn' = FreeTxns(TxnsOf(th[Ev].clnt))
    /\ clnt' = [clnt EXCEPT ![th[Ev].clnt].live = FALSE]
    /\ Unlock({"client", "txn"})
    /\ Return(Ev)
    /\ UNCHANGED <<svc, hist, fault>>

\* clean_txns, and the client struct is freed
CleanTxns ==
    /\ At(Ev, "clean")
    /\ CanLock(Ev, "txn")
    /\ txn' = FreeTxns(TxnsOf(th[Ev].clnt))
    /\ clnt' = [clnt EXCEPT ![th[Ev].clnt].live = FALSE]
    /\ Unlock({"client"})
    /\ Return(Ev)
    /\ UNCHANGED <<svc, hist, fault>>

-----------------------------------------------------------------------------
(* Responses and indications.                                                *)

\* A call starts: with the handle and message id of a request the service
\* accepted, or the handle of any client it ever had.
CallSendResp(p, t) ==
    /\ At(p, "idle")
    /\ t \in hist.accepted
    /\ th' = [th EXCEPT ![p].pc = "resp", ![p].txn = t]
    /\ UNCHANGED <<lock, clnt, txn, svc, hist, fault>>

CallSendInd(p, h) ==
    /\ At(p, "idle")
    /\ h \in DOMAIN clnt
    /\ th' = [th EXCEPT ![p].pc = "ind", ![p].clnt = h]
    /\ UNCHANGED <<lock, clnt, txn, svc, hist, fault>>

CallBroadcast(p) ==
    /\ At(p, "idle")
    /\ Goto(p, "bcast")
    /\ UNCHANGED <<lock, clnt, txn, svc, hist, fault>>

\* mutant: the transaction stays on the lists
TakeTxn_Kept(p) ==
    LET t == th[p].txn IN
    /\ At(p, "resp")
    /\ CanLock(p, "txn")
    /\ FindTxn(t)
    /\ th' = [th EXCEPT ![p].pc = "send_resp", ![p].clnt = txn[t].clnt]
    /\ Lock(p, "txn")
    /\ UNCHANGED <<clnt, txn, svc, hist, fault>>

\* qmi_csi_send_resp_internal: the transaction is taken off the lists; while
\* txn_list_lock is held its client is used.
TakeTxn(p) ==
    LET t == th[p].txn IN
    /\ At(p, "resp")
    /\ CanLock(p, "txn")
    /\ FindTxn(t)
    /\ txn' = [txn EXCEPT ![t].linked = FALSE]
    /\ th' = [th EXCEPT ![p].pc = "send_resp", ![p].clnt = txn[t].clnt]
    /\ Lock(p, "txn")
    /\ UNCHANGED <<clnt, svc, hist, fault>>

SendResp(p) ==
    LET t == th[p].txn IN
    /\ At(p, "send_resp")
    /\ fault' = (~txn[t].live \/ ~clnt[txn[t].clnt].live \/ svc = "freed")
    /\ Answer(txn[t].req, clnt[txn[t].clnt].addr)
    /\ txn' = [txn EXCEPT ![t].live = FALSE]
    /\ Unlock({"txn"})
    /\ Return(p)
    /\ UNCHANGED <<clnt, svc>>

\* qmi_csi_send_ind_internal
TakeClient(p) ==
    /\ At(p, "ind")
    /\ CanLock(p, "client")
    /\ FindClient(th[p].clnt)
    /\ Lock(p, "client")
    /\ Goto(p, "send_ind")
    /\ UNCHANGED <<clnt, txn, svc, hist, fault>>

\* mutant: the lock is kept
SendInd_NoUnlock(p) ==
    /\ At(p, "send_ind")
    /\ fault' = (~clnt[th[p].clnt].live \/ svc = "freed")
    /\ Return(p)
    /\ UNCHANGED <<lock, clnt, txn, svc, hist>>

SendInd(p) ==
    /\ At(p, "send_ind")
    /\ fault' = (~clnt[th[p].clnt].live \/ svc = "freed")
    /\ Unlock({"client"})
    /\ Return(p)
    /\ UNCHANGED <<clnt, txn, svc, hist>>

\* QMI_CSI_INVALID_HANDLE
InvalidHandle(p) ==
    /\ \/ At(p, "resp") /\ CanLock(p, "txn") /\ ~FindTxn(th[p].txn)
       \/ At(p, "ind") /\ CanLock(p, "client") /\ ~FindClient(th[p].clnt)
    /\ Return(p)
    /\ UNCHANGED <<lock, clnt, txn, svc, hist, fault>>

\* qmi_csi_send_broadcast_ind_internal: client_list_lock first, then
\* service_list_lock, and both are held while all clients are walked.
BroadcastLock(p) ==
    /\ At(p, "bcast")
    /\ CanLock(p, "client")
    /\ Lock(p, "client")
    /\ Goto(p, "find_svc")
    /\ UNCHANGED <<clnt, txn, svc, hist, fault>>

\* mutant: an unknown service returns with the lock held
BroadcastFind_NoUnlock(p) ==
    /\ At(p, "find_svc")
    /\ CanLock(p, "service")
    /\ IF svc # "freed"
       THEN /\ Lock(p, "service")
            /\ th' = [th EXCEPT ![p].pc = "broadcast", ![p].todo = ClientList]
       ELSE UNCHANGED lock /\ Return(p)
    /\ UNCHANGED <<clnt, txn, svc, hist, fault>>

BroadcastFind(p) ==
    /\ At(p, "find_svc")
    /\ CanLock(p, "service")
    /\ IF svc # "freed"
       THEN /\ Lock(p, "service")
            /\ th' = [th EXCEPT ![p].pc = "broadcast", ![p].todo = ClientList]
       ELSE /\ Unlock({"client"})
            /\ Return(p)
    /\ UNCHANGED <<clnt, txn, svc, hist, fault>>

BroadcastSend(p) ==
    /\ At(p, "broadcast")
    /\ \E h \in th[p].todo :
          /\ \A k \in th[p].todo : h <= k
          /\ fault' = (~clnt[h].live \/ svc = "freed")
          /\ th' = [th EXCEPT ![p].todo = @ \ {h}]
    /\ UNCHANGED <<lock, clnt, txn, svc, hist>>

BroadcastDone(p) ==
    /\ At(p, "broadcast")
    /\ th[p].todo = {}
    /\ Unlock({"client", "service"})
    /\ Return(p)
    /\ UNCHANGED <<clnt, txn, svc, hist, fault>>

-----------------------------------------------------------------------------
(* qmi_csi_unregister closes the transport, which calls qmi_csi_xport_closed. *)
(* It is called once, while no event is being handled, as the comment in      *)
(* qmi_csi_handle_event asks.                                                 *)

Unregister(p) ==
    /\ Unregisters
    /\ At(p, "idle") /\ At(Ev, "idle")
    /\ svc = "registered"
    /\ CanLock(p, "service")
    /\ svc' = "closing"
    /\ Goto(p, "closed")
    /\ UNCHANGED <<lock, clnt, txn, hist, fault>>

\* mutant: the transactions of the clients are left behind
FreeClients_NoTxns(p) ==
    /\ At(p, "closed")
    /\ CanLock(p, "client") /\ CanLock(p, "txn")
    /\ clnt' = [h \in DOMAIN clnt |->
                  IF h \in ClientList
                  THEN [clnt[h] EXCEPT !.linked = FALSE, !.live = FALSE, !.conn = "closed"]
                  ELSE clnt[h]]
    /\ Goto(p, "unlist")
    /\ UNCHANGED <<lock, txn, svc, hist, fault>>

FreeClients(p) ==
    /\ At(p, "closed")
    /\ CanLock(p, "client") /\ CanLock(p, "txn")
    /\ txn' = FreeTxns(UNION {TxnsOf(h) : h \in ClientList})
    /\ clnt' = [h \in DOMAIN clnt |->
                  IF h \in ClientList
                  THEN [clnt[h] EXCEPT !.linked = FALSE, !.live = FALSE, !.conn = "closed"]
                  ELSE clnt[h]]
    /\ Goto(p, "unlist")
    /\ UNCHANGED <<lock, svc, hist, fault>>

\* remove_service, and the service is freed
FreeService(p) ==
    /\ At(p, "unlist")
    /\ CanLock(p, "service")
    /\ svc' = "freed"
    /\ Return(p)
    /\ UNCHANGED <<lock, clnt, txn, hist, fault>>

-----------------------------------------------------------------------------
EventStep ==
    \/ \E h \in Handles : AddTxn(h) \/ AddTxnNoMem(h)
    \/ CreateClient \/ CreateClientNoMem \/ Connected \/ ConnectRefused
    \/ ProcessReq \/ ProcessFails \/ CallbackReturns \/ FreeTxn \/ Reply
    \/ CleanTxns

CallStep(p) ==
    \/ TakeTxn(p) \/ SendResp(p)
    \/ TakeClient(p) \/ SendInd(p)
    \/ InvalidHandle(p)
    \/ BroadcastLock(p) \/ BroadcastFind(p) \/ BroadcastSend(p) \/ BroadcastDone(p)
    \/ FreeClients(p) \/ FreeService(p)

Next ==
    \/ \E a \in Addrs : Recv(a) \/ Disconnect(a)
    \/ EventStep
    \/ \E p \in Apps :
          \/ \E t \in TxnIds : CallSendResp(p, t)
          \/ \E h \in Handles : CallSendInd(p, h)
          \/ CallBroadcast(p)
          \/ Unregister(p)
          \/ CallStep(p)

Spec == Init /\ [][Next]_vars

\* Threads inside a call go on, and a thread that waits for a lock that is
\* released again and again gets it; the service answers what it accepted.
Fairness ==
    /\ SF_vars(EventStep)
    /\ \A p \in Apps : SF_vars(CallStep(p))
    /\ \A t \in TxnIds : SF_vars(\E p \in Apps : FindTxn(t) /\ CallSendResp(p, t))

FairSpec == Spec /\ Fairness

-----------------------------------------------------------------------------
(* Properties.                                                               *)

\* No thread uses a client struct, a transaction or a service after it was
\* freed: "as long as we hold the txn_list_lock, the client, service, and xport
\* ptrs will be valid", and client_list_lock does the same for indications.
NoUseAfterFree == ~fault

\* A request is answered at most once, by the service or by the framework in its
\* name, and the answer goes to its sender.
AnsweredOnce == ~hist.misdirected /\ \A r \in TxnIds : hist.answers[r] <= 1

\* A thread that is back from the framework left no lock behind, unless an
\* allocation failed (see ConnectUnlocked).
LocksReleased ==
    ~hist.leaked => \A p \in Threads : th[p].pc = "idle" => \A l \in Locks : lock[l].by # p

\* The connect callback runs without a lock ("invoke service_connect without
\* lock held"), so that it may wait for other threads of the service.
ConnectUnlocked == At(Ev, "connect") => \A l \in Locks : lock[l].by # Ev

\* When the service is gone so are its clients and their transactions.
NothingLeft ==
    svc = "freed" => /\ \A h \in DOMAIN clnt : ~clnt[h].live
                     /\ \A t \in DOMAIN txn : ~txn[t].live

\* Nothing is promised after a use after free or a lock that is never released.
Broken == fault \/ hist.leaked

\* An indication, a response or a broadcast returns to its caller.
CallsReturn == \A p \in Apps : th[p].pc # "idle" ~> th[p].pc = "idle" \/ Broken

\* Every request is answered, unless its client has gone or the service has.
RequestAnswered ==
    \A r \in TxnIds :
        hist.from[r] # None ~>
            \/ hist.answers[r] > 0 \/ svc # "registered" \/ Broken
            \/ \E t \in DOMAIN txn : txn[t].req = r /\ ~clnt[txn[t].clnt].linked

=============================================================================
