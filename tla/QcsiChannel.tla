---------------------------- MODULE QcsiChannel ----------------------------
(***************************************************************************)
(* What a service may rely on when it sends to its clients (the contract of *)
(* xport_send, the resume callback and the flow control of                  *)
(* qcsi/inc/qmi_csi_common.h): an accepted message is handed over to its     *)
(* client at most once and in order, or dropped; a service that was told     *)
(* QMI_CSI_CONN_BUSY hears of the client again.                              *)
(***************************************************************************)
EXTENDS Naturals, Sequences, SequencesExt

CONSTANTS Clients, MaxMsgs      \* bound: messages accepted for each client

VARIABLES
    accepted,   \* how many messages were accepted for each client
    pending,    \* messages accepted and not handed over
    inbox,      \* messages handed over
    busy        \* clients the service was told are busy, and waits for

vars == <<accepted, pending, inbox, busy>>

Init ==
    /\ accepted = [c \in Clients |-> 0]
    /\ pending = [c \in Clients |-> <<>>]
    /\ inbox = [c \in Clients |-> <<>>]
    /\ busy = {}

NextMsg(c) == [to |-> c, n |-> accepted[c] + 1]

\* A message is accepted and waits behind the others.
Accept(c) ==
    /\ accepted[c] < MaxMsgs
    /\ accepted' = [accepted EXCEPT ![c] = @ + 1]
    /\ pending' = [pending EXCEPT ![c] = Append(@, NextMsg(c))]
    /\ UNCHANGED <<inbox, busy>>

\* A message is handed over at once; none is waiting.
Pass(c) ==
    /\ accepted[c] < MaxMsgs
    /\ pending[c] = <<>>
    /\ accepted' = [accepted EXCEPT ![c] = @ + 1]
    /\ inbox' = [inbox EXCEPT ![c] = Append(@, NextMsg(c))]
    /\ UNCHANGED <<pending, busy>>

\* The message that waited longest is handed over or dropped.
Flush(c) ==
    /\ pending[c] # <<>>
    /\ pending' = [pending EXCEPT ![c] = Tail(@)]
    /\ inbox' \in {inbox, [inbox EXCEPT ![c] = Append(@, Head(pending[c]))]}
    /\ UNCHANGED <<accepted, busy>>

\* The client is gone, and what waits for it is dropped.
Drop(c) ==
    /\ pending' = [pending EXCEPT ![c] = <<>>]
    /\ UNCHANGED <<accepted, inbox, busy>>

\* A message is refused because others wait; the service will be told when the
\* client accepts again.
Refuse(c) ==
    /\ pending[c] # <<>>
    /\ busy' = busy \cup {c}
    /\ UNCHANGED <<accepted, pending, inbox>>

\* The resume callback, or the end of the client.
Resume(c) ==
    /\ c \in busy
    /\ busy' = busy \ {c}
    /\ UNCHANGED <<accepted, pending, inbox>>

\* The service is being unregistered.
Unregister ==
    /\ pending' = [c \in Clients |-> <<>>]
    /\ busy' \in {busy, {}}
    /\ UNCHANGED <<accepted, inbox>>

Next ==
    \/ \E c \in Clients : Accept(c) \/ Pass(c) \/ Flush(c) \/ Drop(c) \/ Refuse(c) \/ Resume(c)
    \/ Unregister

Spec == Init /\ [][Next]_vars

FairSpec == Spec /\ \A c \in Clients : WF_vars(Flush(c)) /\ WF_vars(Resume(c))

=============================================================================
