--------------------------- MODULE QcsiTxQueueInv ---------------------------
(***************************************************************************)
(* The inductive invariant behind the safety properties of QcsiTxQueue.     *)
(*                                                                         *)
(* A part that begins with ~hist.stacked holds until a destination points   *)
(* to the event thread's variable; the others always hold.                  *)
(***************************************************************************)
EXTENDS QcsiTxQueue

\* Messages in order, each later than those before it
Ordered(s) == \A i, j \in DOMAIN s : i < j => s[i].n < s[j].n

Bufs(k) == ToSet(tx_q[k].bufs)
Box(c) == ToSet(inbox[c])

\* Only a destination that points to the variable is found under several addresses.
StackInv == ~hist.stacked => \A k \in DOMAIN tx_q : tx_q[k].dest_addr \in Clients

\* A client has at most one destination.
DestInv ==
    ~hist.stacked =>
        \A k, l \in DOMAIN tx_q : tx_q[k].dest_addr = tx_q[l].dest_addr => k = l

\* What was accepted, and nothing else, is somewhere, ...
Somewhere(m) ==
    \/ \E c \in Clients : m \in Box(c)
    \/ \E k \in DOMAIN tx_q : m \in Bufs(k)
    \/ m \in hist.lost
AcceptedInv == \A m \in Msg : Somewhere(m) <=> m.n <= hist.accepted[m.to]

\* ... and in one place.
OnceInv ==
    /\ \A c \in Clients : IsInjective(inbox[c])
    /\ \A k \in DOMAIN tx_q : IsInjective(tx_q[k].bufs)
    /\ \A m \in Msg :
          /\ \A c, d \in Clients : m \in Box(c) /\ m \in Box(d) => c = d
          /\ \A k, l \in DOMAIN tx_q : m \in Bufs(k) /\ m \in Bufs(l) => k = l
          /\ \A c \in Clients : m \in Box(c) =>
                m \notin hist.lost /\ \A k \in DOMAIN tx_q : m \notin Bufs(k)
          /\ \A k \in DOMAIN tx_q : m \in Bufs(k) => m \notin hist.lost

\* Messages are where their addressee's are.
AddressInv ==
    ~hist.stacked =>
        /\ \A c \in Clients : \A m \in Box(c) : m.to = c
        /\ \A k \in DOMAIN tx_q : \A m \in Bufs(k) : m.to = tx_q[k].dest_addr

\* What waits is in order, and after what was received.
OrderInv ==
    ~hist.stacked =>
        /\ \A c \in Clients : Ordered(inbox[c])
        /\ \A k \in DOMAIN tx_q :
              /\ Ordered(tx_q[k].bufs)
              /\ \A x \in Box(tx_q[k].dest_addr), y \in Bufs(k) : x.n < y.n

\* The event thread runs only while the handle is open, and flushes a queue that exists.
EventInv ==
    /\ ev # Idle => handle = "open"
    /\ \A c \in Clients : At("flush", c) => FindTxQ(c) # 0

\* A client of whose removal the service hears is gone: between the purge of its
\* queue and the end of its client struct no queue for it can be made.
GoneInv ==
    /\ net.ctl \subseteq net.gone
    /\ \A c \in Clients : At("purge", c) \/ At("disconnect", c) => c \in net.gone
    /\ ~hist.stacked => \A c \in Clients :
          At("disconnect", c) => \A k \in DOMAIN tx_q : tx_q[k].dest_addr # c

PlaceInv == AcceptedInv /\ OnceInv
TableInv == StackInv /\ DestInv /\ EventInv /\ GoneInv
Inv == TypeOK /\ TableInv /\ PlaceInv /\ AddressInv /\ OrderInv
          /\ NoDangling /\ NothingStuck /\ BusyRemembered

\* The part of the refinement that the step relation says: no fairness.
ImplementsChannel == Channel!Spec

=============================================================================
