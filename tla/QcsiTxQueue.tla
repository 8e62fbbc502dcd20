---------------------------- MODULE QcsiTxQueue ----------------------------
(***************************************************************************)
(* The transmit queues of one service handle of the QCSI transport         *)
(* (qcsi/src/qmi_csi_xport_ipc_router.c): messages are sent straight away   *)
(* while the router takes them, queued per destination when it does not,    *)
(* and flushed when the router reports that a client accepts again.         *)
(*                                                                         *)
(* Application threads call xport_send; one thread, here the event thread,  *)
(* calls xport_handle_event; closing is done by the thread that unregisters *)
(* the service.  An action is a critical section of tx_q_lock, a step of     *)
(* the long one of the flush, or what the event thread does between two.    *)
(***************************************************************************)
EXTENDS Naturals, Sequences, FiniteSets, FiniteSetsExt, SequencesExt

CONSTANTS
    Clients,        \* addresses of clients, and the client structs that hold them
    Stack,          \* the address of the local variable addr of xport_handle_event
    Junk,           \* bytes that are no client's address
    RateLimit,      \* rate_limited_queue_size, the limit for indications
    MaxTxBufs,      \* MAX_TX_BUFS, the limit for everything else
    ErrorReplies,   \* whether the framework answers some requests itself
    Removals,       \* whether clients go away
    Closes,         \* whether the service is unregistered
    MaxMsgs,        \* bound: messages accepted for each client
    MaxBlocks       \* bound: how often the router pushes back

ASSUME LimitsAssumption == /\ RateLimit \in Nat \ {0}
                           /\ MaxTxBufs \in Nat \ {0}
ASSUME BoundsAssumption == MaxMsgs \in Nat /\ MaxBlocks \in Nat
ASSUME AddressAssumption == Stack \notin Clients /\ Junk \notin Clients
ASSUME SwitchAssumption == {ErrorReplies, Removals, Closes} \subseteq BOOLEAN

VARIABLES
    tx_q,       \* the list of destinations, each with its messages
    addr,       \* the local variable addr of xport_handle_event
    ev,         \* where the event thread is
    clients,    \* the clients that have a client struct in the service
    handle,     \* the state of the transport handle
    net,        \* the router: blocked, resume events, ports gone, control events
    inbox,      \* what each client received, in order
    hist        \* history: messages accepted and lost, clients told busy and
                \* due a callback, and whether a destination ever pointed to Stack

vars == <<tx_q, addr, ev, clients, handle, net, inbox, hist>>

Msg == [to : Clients, n : 1..MaxMsgs]
Dest == [dest_addr : Clients \cup {Stack}, bufs : Seq(Msg), dest_busy : BOOLEAN]
Idle == [pc |-> "idle"]
EvState == {Idle} \cup [pc : {"reply", "resume", "flush", "notify", "purge", "disconnect"}, clnt : Clients]

TypeOK ==
    /\ tx_q \in Seq(Dest)
    /\ addr \in Clients \cup {Junk}
    /\ ev \in EvState
    /\ clients \subseteq Clients
    /\ handle \in {"open", "purged", "closed", "freed"}
    /\ net \in [blocked : SUBSET Clients, resume : SUBSET Clients,
                gone : SUBSET Clients, ctl : SUBSET Clients, blocks : 0..MaxBlocks]
    /\ inbox \in [Clients -> Seq(Msg)]
    /\ hist \in [accepted : [Clients -> 0..MaxMsgs], lost : SUBSET Msg,
                 told : SUBSET Clients, due : SUBSET Clients, stacked : BOOLEAN]

Init ==
    /\ tx_q = <<>>
    /\ addr = Junk
    /\ ev = Idle
    /\ clients = {}
    /\ handle = "open"
    /\ net = [blocked |-> {}, resume |-> {}, gone |-> {}, ctl |-> {}, blocks |-> 0]
    /\ inbox = [c \in Clients |-> <<>>]
    /\ hist = [accepted |-> [c \in Clients |-> 0], lost |-> {},
               told |-> {}, due |-> {}, stacked |-> FALSE]

-----------------------------------------------------------------------------
(* The queues.  A destination keeps a pointer to the address it was created  *)
(* with, not a copy; the address is read through it at every comparison.     *)

Value(ptr) == IF ptr = Stack THEN addr ELSE ptr

Matches(c) == {i \in DOMAIN tx_q : Value(tx_q[i].dest_addr) = c}

FindTxQ(c) == IF Matches(c) = {} THEN 0 ELSE Min(Matches(c))

Queued(c) == IF FindTxQ(c) = 0 THEN <<>> ELSE tx_q[FindTxQ(c)].bufs

\* mutant: a new destination's address is not set
GetTxQ_NoAddr(c, ptr) ==
    IF FindTxQ(c) = 0
    THEN Append(tx_q, [dest_addr |-> Junk, bufs |-> <<>>, dest_busy |-> FALSE])
    ELSE tx_q

\* get_tx_q: the queues with a destination for c, and its place among them
GetTxQ(c, ptr) ==
    IF FindTxQ(c) = 0
    THEN Append(tx_q, [dest_addr |-> ptr, bufs |-> <<>>, dest_busy |-> FALSE])
    ELSE tx_q

Place(c) == IF FindTxQ(c) = 0 THEN Len(tx_q) + 1 ELSE FindTxQ(c)

Full(c, limit) == Len(Queued(c)) >= limit

\* mutant: a refused message leaves no trace
PutBusy_Forgotten(c, ptr, limit) == Full(c, limit) /\ UNCHANGED tx_q

\* mutant: the message is not linked into the queue
PutMsg_Lost(c, ptr, limit, m) == ~Full(c, limit) /\ tx_q' = GetTxQ(c, ptr)

\* put_tx_q when the destination's queue is full, has room, or memory runs out
PutBusy(c, ptr, limit) ==
    /\ Full(c, limit)
    /\ tx_q' = [GetTxQ(c, ptr) EXCEPT ![Place(c)].dest_busy = TRUE]

PutMsg(c, ptr, limit, m) ==
    /\ ~Full(c, limit)
    /\ tx_q' = [GetTxQ(c, ptr) EXCEPT ![Place(c)].bufs = Append(@, m)]

PutNoMem(c, ptr, limit) ==
    /\ ~Full(c, limit)
    /\ tx_q' \in {tx_q, GetTxQ(c, ptr)}

-----------------------------------------------------------------------------
(* The router.                                                               *)

FdOpen == handle \in {"open", "purged"}

\* what sendto may answer to a message for c
Sendto(c) ==
    IF ~FdOpen \/ c \in net.gone THEN {"error"}
    ELSE IF c \in net.blocked THEN {"again", "error"}
    ELSE IF net.blocks < MaxBlocks THEN {"sent", "again", "error"} ELSE {"sent", "error"}

PushBack(c) ==
    IF c \in net.blocked THEN net
    ELSE [net EXCEPT !.blocked = @ \cup {c}, !.blocks = @ + 1]

\* A blocked client accepts again; the router tells the service.
RouterResume(c) ==
    /\ c \in net.blocked
    /\ net' = [net EXCEPT !.blocked = @ \ {c}, !.resume = @ \cup {c}]
    /\ UNCHANGED <<tx_q, addr, ev, clients, handle, inbox, hist>>

\* A client's port is removed; every control port is told.
RouterRemove(c) ==
    /\ Removals
    /\ c \notin net.gone
    /\ net' = [net EXCEPT !.blocked = @ \ {c}, !.gone = @ \cup {c}, !.ctl = @ \cup {c}]
    /\ UNCHANGED <<tx_q, addr, ev, clients, handle, inbox, hist>>

-----------------------------------------------------------------------------
(* xport_send.  kind is "ind" for an indication to one client, "bcast" for   *)
(* one message of a broadcast, whose result the caller ignores, and "resp".  *)

\* tx_q_lock is taken only by the event thread for longer than one action, to flush.
LockFree == ev.pc # "flush"

Limit(kind) == IF kind = "resp" THEN MaxTxBufs ELSE RateLimit

\* what the history keeps of a message, and of a destination made for it
Stacked == hist.stacked \/ \E i \in DOMAIN tx_q' : tx_q'[i].dest_addr = Stack

Accept(c) ==
    /\ hist.accepted[c] < MaxMsgs
    /\ hist' = [hist EXCEPT !.accepted[c] = @ + 1, !.stacked = Stacked]

Refuse(c, kind) ==
    hist' = [hist EXCEPT !.told = IF kind = "ind" THEN @ \cup {c} ELSE @]

Drop == hist' = [hist EXCEPT !.stacked = Stacked]

NextMsg(c) == [to |-> c, n |-> hist.accepted[c] + 1]

Put(c, ptr, kind) ==
    /\ UNCHANGED inbox
    /\ \/ PutBusy(c, ptr, Limit(kind)) /\ Refuse(c, kind)
       \/ PutMsg(c, ptr, Limit(kind), NextMsg(c)) /\ Accept(c)
       \/ PutNoMem(c, ptr, Limit(kind)) /\ Drop

\* mutant: a message does not wait behind those already queued
XportSend_NoOrder(c, ptr, kind) ==
    /\ handle # "freed" /\ LockFree
    /\ \/ /\ "again" \in Sendto(c)
          /\ Put(c, ptr, kind)
          /\ net' = PushBack(c)
       \/ /\ "sent" \in Sendto(c)
          /\ UNCHANGED <<tx_q, net>>
          /\ inbox' = [inbox EXCEPT ![c] = Append(@, NextMsg(c))]
          /\ Accept(c)

XportSend(c, ptr, kind) ==
    /\ handle # "freed" /\ LockFree
    /\ IF Queued(c) # <<>>
       THEN Put(c, ptr, kind) /\ UNCHANGED net
       ELSE \/ /\ "again" \in Sendto(c)
               /\ Put(c, ptr, kind)
               /\ net' = PushBack(c)
            \/ /\ "sent" \in Sendto(c)
               /\ UNCHANGED <<tx_q, net>>
               /\ inbox' = [inbox EXCEPT ![c] = Append(@, NextMsg(c))]
               /\ Accept(c)
            \/ /\ "error" \in Sendto(c)
               /\ UNCHANGED <<tx_q, net, inbox, hist>>

\* An application thread answers or notifies a client it knows.
Send(c, kind) ==
    /\ c \in clients
    /\ XportSend(c, c, kind)
    /\ UNCHANGED <<addr, ev, clients, handle>>

-----------------------------------------------------------------------------
(* The event thread: what it reads from its sockets, and what it does about  *)
(* it.  addr is overwritten by everything it reads.                          *)

At(pc, c) == ev = [pc |-> pc, clnt |-> c]
Goto(pc, c) == ev' = [pc |-> pc, clnt |-> c]
Receives == ev = Idle /\ handle = "open"

\* A request: qmi_csi_xport_recv connects an unknown client and hands the
\* request to the service, or answers with an error itself, which it sends to
\* the address in the event thread's variable.  A client that the service
\* refuses gets no client struct.
RecvRequest(c) ==
    /\ Receives
    /\ addr' = c
    /\ \/ clients' = clients \cup {c} /\ ev' = Idle
       \/ /\ ErrorReplies
          /\ clients' \in {clients, clients \cup {c}}
          /\ Goto("reply", c)
    /\ UNCHANGED <<tx_q, handle, net, inbox, hist>>

ErrorReply(c) ==
    /\ At("reply", c)
    /\ ev' = Idle
    /\ XportSend(c, Stack, "resp")
    /\ UNCHANGED <<addr, clients, handle>>

\* mutant: an empty datagram is taken for the end of the input
RecvResume_Ignored(c) ==
    /\ Receives
    /\ c \in net.resume
    /\ net' = [net EXCEPT !.resume = @ \ {c}]
    /\ addr' = c
    /\ UNCHANGED <<tx_q, ev, clients, handle, inbox, hist>>

RecvResume(c) ==
    /\ Receives
    /\ c \in net.resume
    /\ net' = [net EXCEPT !.resume = @ \ {c}]
    /\ addr' = c
    /\ Goto("resume", c)
    /\ UNCHANGED <<tx_q, clients, handle, inbox, hist>>

\* handle_resume_tx: with tx_q_lock held, the messages queued for the client are
\* sent one by one until the router pushes back.
BeginFlush(c) ==
    /\ At("resume", c)
    /\ FindTxQ(c) # 0
    /\ Goto("flush", c)
    /\ UNCHANGED <<tx_q, addr, clients, handle, net, inbox, hist>>

\* A message leaves the queue also when the router fails to send it.
FlushSend(c) ==
    /\ At("flush", c)
    /\ Queued(c) # <<>>
    /\ tx_q' = [tx_q EXCEPT ![FindTxQ(c)].bufs = Tail(@)]
    /\ \/ /\ "sent" \in Sendto(c)
          /\ inbox' = [inbox EXCEPT ![c] = Append(@, Head(Queued(c)))]
          /\ UNCHANGED hist
       \/ /\ "error" \in Sendto(c)
          /\ hist' = [hist EXCEPT !.lost = @ \cup {Head(Queued(c))}]
          /\ UNCHANGED inbox
    /\ UNCHANGED <<addr, ev, clients, handle, net>>

\* The service is notified when the queue it was told is full has room again.
Relieved(c) == tx_q[FindTxQ(c)].dest_busy /\ Len(Queued(c)) < RateLimit

FlushEnd(c) ==
    /\ At("flush", c)
    /\ \/ /\ Queued(c) = <<>>
          /\ tx_q' = RemoveAt(tx_q, FindTxQ(c))
          /\ UNCHANGED net
       \/ /\ Queued(c) # <<>>
          /\ "again" \in Sendto(c)
          /\ tx_q' = [tx_q EXCEPT ![FindTxQ(c)].dest_busy = @ /\ ~Relieved(c)]
          /\ net' = PushBack(c)
    /\ IF Relieved(c)
       THEN /\ Goto("notify", c)
            /\ hist' = [hist EXCEPT !.told = @ \ {c}, !.due = @ \cup (hist.told \cap {c})]
       ELSE ev' = Idle /\ UNCHANGED hist
    /\ UNCHANGED <<addr, clients, handle, inbox>>

ResumeNothing(c) ==
    /\ At("resume", c)
    /\ FindTxQ(c) = 0
    /\ ev' = Idle
    /\ UNCHANGED <<tx_q, addr, clients, handle, net, inbox, hist>>

\* qmi_csi_xport_resume_client: the service's resume callback
Notify(c) ==
    /\ At("notify", c)
    /\ ev' = Idle
    /\ hist' = [hist EXCEPT !.due = IF c \in clients THEN @ \ {c} ELSE @]
    /\ UNCHANGED <<tx_q, addr, clients, handle, net, inbox>>

RecvRemoveClient(c) ==
    /\ Receives
    /\ c \in net.ctl
    /\ net' = [net EXCEPT !.ctl = @ \ {c}]
    /\ addr' = c
    /\ Goto("purge", c)
    /\ UNCHANGED <<tx_q, clients, handle, inbox, hist>>

\* mutant: the queue of a removed client is kept
PurgeTxQ_Kept(c) ==
    /\ At("purge", c)
    /\ Goto("disconnect", c)
    /\ UNCHANGED <<tx_q, addr, clients, handle, net, inbox, hist>>

PurgeTxQ(c) ==
    /\ At("purge", c)
    /\ Goto("disconnect", c)
    /\ tx_q' = IF FindTxQ(c) = 0 THEN tx_q ELSE RemoveAt(tx_q, FindTxQ(c))
    /\ hist' = [hist EXCEPT !.lost = @ \cup ToSet(Queued(c))]
    /\ UNCHANGED <<addr, clients, handle, net, inbox>>

\* qmi_csi_xport_disconnect: the client struct is freed
Disconnect(c) ==
    /\ At("disconnect", c)
    /\ ev' = Idle
    /\ clients' = clients \ {c}
    /\ hist' = [hist EXCEPT !.told = @ \ {c}, !.due = @ \ {c}]
    /\ UNCHANGED <<tx_q, addr, handle, net, inbox>>

\* xport_handle_event returns: what its variable leaves on the stack is
\* whatever the thread does next.
HandleEventReturns ==
    /\ ev = Idle
    /\ addr' = Junk
    /\ UNCHANGED <<tx_q, ev, clients, handle, net, inbox, hist>>

-----------------------------------------------------------------------------
(* xport_close.  The caller keeps the event thread out of the transport.     *)

PurgeAll ==
    /\ Closes
    /\ Receives
    /\ handle' = "purged"
    /\ tx_q' = <<>>
    /\ hist' = [hist EXCEPT !.lost = @ \cup UNION {ToSet(tx_q[i].bufs) : i \in DOMAIN tx_q}]
    /\ UNCHANGED <<addr, ev, clients, net, inbox>>

CloseFds ==
    /\ handle = "purged"
    /\ handle' = "closed"
    /\ UNCHANGED <<tx_q, addr, ev, clients, net, inbox, hist>>

\* qmi_csi_xport_closed frees the clients, xport_close frees the handle
XportClosed ==
    /\ handle = "closed"
    /\ handle' = "freed"
    /\ clients' = {}
    /\ hist' = [hist EXCEPT !.told = {}, !.due = {}]
    /\ UNCHANGED <<tx_q, addr, ev, net, inbox>>

-----------------------------------------------------------------------------
Kinds == {"ind", "bcast", "resp"}

EventStep(c) ==
    \/ RecvResume(c) \/ BeginFlush(c) \/ FlushSend(c) \/ FlushEnd(c)
    \/ ResumeNothing(c) \/ Notify(c)
    \/ RecvRemoveClient(c) \/ PurgeTxQ(c) \/ Disconnect(c)
    \/ ErrorReply(c)

Next ==
    \/ \E c \in Clients :
          \/ \E kind \in Kinds : Send(c, kind)
          \/ RecvRequest(c)
          \/ EventStep(c)
          \/ RouterResume(c)
          \/ RouterRemove(c)
    \/ HandleEventReturns
    \/ PurgeAll \/ CloseFds \/ XportClosed

Spec == Init /\ [][Next]_vars

\* The event thread and the closing thread go on, and a client that was blocked
\* accepts again or goes away.
Fairness ==
    /\ \A c \in Clients : WF_vars(EventStep(c)) /\ WF_vars(RouterResume(c))
    /\ WF_vars(CloseFds \/ XportClosed)

FairSpec == Spec /\ Fairness

-----------------------------------------------------------------------------
(* Properties.  Those that fail once a destination points to the event        *)
(* thread's variable (ForYou is one) are stated up to that moment.           *)

\* What a client received and what is still queued for it is, in order and
\* without repetition, what the transport accepted for it (xport_send returned
\* QMI_CSI_NO_ERR), except what the router failed to send or a purge dropped.
Accepted(c) == {[to |-> c, n |-> k] : k \in 1..hist.accepted[c]}
Conserved ==
    ~hist.stacked => \A c \in Clients :
        LET s == inbox[c] \o Queued(c)
        IN  /\ ToSet(s) = Accepted(c) \ hist.lost
            /\ \A i, j \in DOMAIN s : i < j => s[i].n < s[j].n

\* A message reaches nobody but the client it was sent to.
ForYou == \A c \in Clients : \A i \in DOMAIN inbox[c] : inbox[c][i].to = c

\* The address of a destination is read through a pointer into a client struct:
\* while a queue is in use its struct has not been freed.
NoDangling ==
    handle # "freed" /\ ~hist.stacked => \A i \in DOMAIN tx_q : tx_q[i].dest_addr \in clients

\* A queue that holds messages is waited for: the client is blocked, or its
\* resume event or its removal has still to be handled.  A later xport_send
\* would only add to the queue.
NothingStuck ==
    handle = "open" /\ ~hist.stacked =>
        \A c \in Clients : Queued(c) # <<>> =>
            \/ c \in net.blocked \cup net.resume \cup net.ctl
            \/ At("resume", c) \/ At("flush", c) \/ At("purge", c)

\* A client of which the service was told QMI_CSI_CONN_BUSY by qmi_csi_send_ind
\* is remembered as busy, with a queue that a resume event will flush or flushes.
BusyRemembered ==
    handle = "open" /\ ~hist.stacked =>
        \A c \in hist.told :
            \/ /\ FindTxQ(c) # 0
               /\ tx_q[FindTxQ(c)].dest_busy
               /\ Queued(c) # <<>> \/ At("flush", c)
            \/ At("disconnect", c)

\* Each accepted message is in one place: with a client, in a queue, or lost.
\* Nothing else is anywhere.
Received(m) == UNION {{c} \X {i \in DOMAIN inbox[c] : inbox[c][i] = m} : c \in Clients}
Waiting(m) == UNION {{k} \X {i \in DOMAIN tx_q[k].bufs : tx_q[k].bufs[i] = m} : k \in DOMAIN tx_q}
Places(m) ==
    ({"inbox"} \X Received(m)) \cup ({"queue"} \X Waiting(m))
        \cup (IF m \in hist.lost THEN {<<"lost", <<>>>>} ELSE {})
AccountedFor ==
    \A m \in Msg :
        IF m.n <= hist.accepted[m.to] THEN \E p \in Places(m) : Places(m) = {p}
        ELSE Places(m) = {}

\* The queues implement the channel that qmi_csi_common.h promises a service.
Channel == INSTANCE QcsiChannel WITH
    accepted <- hist.accepted,
    pending <- [c \in Clients |-> IF handle = "freed" THEN <<>> ELSE Queued(c)],
    busy <- hist.told \cup hist.due
ImplementsFairChannel == Channel!FairSpec

=============================================================================
