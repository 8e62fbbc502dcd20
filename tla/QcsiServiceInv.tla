--------------------------- MODULE QcsiServiceInv ---------------------------
(***************************************************************************)
(* The inductive invariant behind the safety properties of QcsiService: who  *)
(* is inside the critical section of which lock, which thread relies on      *)
(* which struct, and who is left to answer a request.                        *)
(***************************************************************************)
EXTENDS QcsiService

\* The places in the code of the event thread and of a thread of the service.
EvPcs  == {"idle", "find", "connect", "process", "return", "free_txn", "reply", "clean"}
AppPcs == {"idle", "resp", "send_resp", "ind", "send_ind", "bcast", "find_svc", "broadcast",
           "closed", "unlist"}

\* The event thread still has to answer the request it is working on.
Owing == {"find", "connect", "process", "free_txn", "reply"}

\* Each lock belongs to the thread that is inside its critical section, once.  Only
\* client_list_lock may be left behind, and then the event thread has it for ever.
LockInv ==
    /\ \A l \in Locks : lock[l].by = None => lock[l].n = 0
    /\ \A p \in Apps :
         /\ lock["client"].by = p <=> th[p].pc \in {"send_ind", "find_svc", "broadcast"}
         /\ lock["txn"].by = p <=> th[p].pc = "send_resp"
         /\ lock["service"].by = p <=> th[p].pc = "broadcast"
    /\ \A l \in Locks : lock[l].by \in Apps => lock[l].n = 1
    /\ lock["txn"].by # Ev /\ lock["service"].by # Ev
    /\ ~hist.leaked => /\ lock["client"].by = Ev <=> th[Ev].pc = "clean"
                       /\ lock["client"].by = Ev => lock["client"].n = 1
    /\ hist.leaked => /\ lock["client"].by = Ev /\ lock["client"].n >= 1
                      /\ th[Ev].pc = "clean" => lock["client"].n >= 2

\* The threads run the code that is theirs; the service is closed by one thread while no
\* event is handled.
ThreadInv ==
    /\ th[Ev].pc \in EvPcs
    /\ \A p \in Apps : th[p].pc \in AppPcs
    /\ svc # "registered" => th[Ev].pc = "idle"
    /\ \A p, q \in Apps : {th[p].pc, th[q].pc} \subseteq {"closed", "unlist"} => p = q
    /\ \A p \in Apps : th[p].pc \in {"closed", "unlist"} => svc = "closing"

\* The clients are gone: freed by the thread that closes the service.
Emptied == svc = "freed" \/ \E p \in Apps : th[p].pc = "unlist"

\* A client struct lives while it is on its list, and until its transactions are cleaned
\* when its client disconnects; closing the service empties the list.
ClientsLive ==
    \A h \in DOMAIN clnt :
        /\ clnt[h].live <=> clnt[h].linked \/ (th[Ev].pc = "clean" /\ th[Ev].clnt = h)
        /\ clnt[h].linked => ~Emptied

\* qmi_csi_xport_connect and qmi_csi_xport_disconnect work on one struct each: the first has
\* no transactions yet, the second is off its list.
EventClient ==
    /\ th[Ev].pc \in {"connect", "clean"} => th[Ev].clnt \in DOMAIN clnt
    /\ th[Ev].pc = "clean" => ~clnt[th[Ev].clnt].linked
    /\ th[Ev].pc = "connect" => \A t \in DOMAIN txn : txn[t].clnt # th[Ev].clnt

\* A thread that sends an indication or a broadcast finds its clients on their list, because
\* it has client_list_lock.
CallClients ==
    \A p \in Apps :
        /\ th[p].pc = "send_ind" => th[p].clnt \in ClientList
        /\ th[p].pc = "broadcast" => th[p].todo \subseteq ClientList /\ svc # "freed"

ClientInv == ClientsLive /\ EventClient /\ CallClients

\* A thread is sending the response of transaction t.
Sending(t) == \E p \in Apps : th[p].pc = "send_resp" /\ th[p].txn = t

\* A transaction lives while it is on the lists or its response is being sent.
TxnsLive == \A t \in DOMAIN txn : txn[t].live <=> txn[t].linked \/ Sending(t)

\* As long as it lives, so does its client.
TxnClients ==
    \A t \in DOMAIN txn :
        /\ txn[t].clnt \in DOMAIN clnt
        /\ txn[t].live => clnt[txn[t].clnt].live /\ ~Emptied

\* Responses are sent of requests the service accepted; a transaction whose response is
\* being sent has been taken off the lists.
CallTxns ==
    /\ hist.accepted \subseteq DOMAIN txn
    /\ \A p \in Apps :
         /\ th[p].pc \in {"resp", "send_resp"} => th[p].txn \in hist.accepted
         /\ th[p].pc = "send_resp" => ~txn[th[p].txn].linked

TxnInv == TxnsLive /\ TxnClients /\ CallTxns

\* Requests are numbered as they arrive, and each has at most one transaction.
Counted ==
    /\ \A r \in TxnIds : hist.from[r] # None <=> r <= Received
    /\ \A t \in DOMAIN txn : t <= Received /\ (th[Ev].pc \in {"find", "connect"} => t < Received)

\* No request has a second answer or an answer that went astray.
Answers ==
    /\ \A r \in TxnIds : hist.answers[r] <= 1 /\ (hist.from[r] = None => hist.answers[r] = 0)
    /\ ~hist.misdirected

\* A living transaction is a request without an answer; its client is the request's sender,
\* and no other transaction answers the same request.
TxnAnswers ==
    \A t \in DOMAIN txn :
        /\ hist.from[txn[t].req] = clnt[txn[t].clnt].addr
        /\ txn[t].live => hist.answers[txn[t].req] = 0
        /\ \A u \in DOMAIN txn : txn[t].req = txn[u].req => t = u

\* The request the event thread still has to answer has no answer, and its sender is known.
EventAnswer ==
    th[Ev].pc \in Owing =>
        /\ th[Ev].req \in TxnIds
        /\ hist.from[th[Ev].req] = th[Ev].addr
        /\ th[Ev].addr # None
        /\ hist.answers[th[Ev].req] = 0

\* The event thread answers only for a request that has no transaction, or one the service
\* has not accepted, so that no thread answers it as well.
EventTxn ==
    /\ th[Ev].pc \in {"find", "connect"} => \A t \in DOMAIN txn : txn[t].req # th[Ev].req
    /\ th[Ev].pc \in {"process", "free_txn"} =>
         /\ th[Ev].txn \in DOMAIN txn \ hist.accepted
         /\ txn[th[Ev].txn].req = th[Ev].req
    /\ th[Ev].pc = "reply" =>
         \A t \in DOMAIN txn : txn[t].req = th[Ev].req => ~txn[t].linked /\ t \notin hist.accepted

AnswerInv == Counted /\ Answers /\ TxnAnswers /\ EventAnswer /\ EventTxn

Inv == TypeOK /\ ~fault /\ LockInv /\ ThreadInv /\ ClientInv /\ TxnInv /\ AnswerInv

=============================================================================
