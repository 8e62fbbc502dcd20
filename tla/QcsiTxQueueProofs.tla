------------------------- MODULE QcsiTxQueueProofs -------------------------
(***************************************************************************)
(* Proofs that the transmit queues of QcsiTxQueue lose, repeat and reorder   *)
(* nothing, that no destination's pointer dangles, that queues and busy      *)
(* clients are not forgotten, and that the queues implement QcsiChannel.     *)
(*                                                                         *)
(* A step does two things that are proved apart: what it does to messages    *)
(* (DataStep), whoever takes it, and what it does to those who wait for a    *)
(* queue (SeenFor), client by client.                                        *)
(***************************************************************************)
EXTENDS QcsiTxQueueInv, WellFoundedInduction, SequenceTheorems, TLAPS

-----------------------------------------------------------------------------
(* The place of a client's destination among the queues.                     *)

\* The least element of a set of naturals, which Min takes, is in the set.
LEMMA MinInSet ==
    ASSUME NEW S \in SUBSET Nat, S # {}
    PROVE  Min(S) \in S
<1> DEFINE Before == {ss \in Nat \X Nat : ss[1] < ss[2]}
<1>1. IsWellFoundedOn(Before, Nat)
  BY NatLessThanWellFounded DEF OpToRel
<1>2. PICK x \in S : \A y \in S : <<y, x>> \notin Before
  <2> HIDE DEF Before
  <2> QED BY <1>1, WFMin
<1>3. ASSUME NEW y \in S PROVE x =< y
  <2>1. x \in Nat /\ y \in Nat
    OBVIOUS
  <2>2. y < x => <<y, x>> \in Before
    BY <2>1
  <2>3. ~(y < x)
    BY <1>2, <2>2
  <2> QED BY <2>1, <2>3
<1> QED BY <1>3 DEF Min

FindFacts ==
    TypeOK =>
        \A c \in Clients :
            /\ FindTxQ(c) # 0 => /\ FindTxQ(c) \in DOMAIN tx_q
                                 /\ Value(tx_q[FindTxQ(c)].dest_addr) = c
            /\ FindTxQ(c) = 0 => \A k \in DOMAIN tx_q : Value(tx_q[k].dest_addr) # c

\* get_tx_q finds the destination of an address, if there is one.
LEMMA FindFound == FindFacts
<1> SUFFICES ASSUME TypeOK, NEW c \in Clients
             PROVE  /\ FindTxQ(c) # 0 => /\ FindTxQ(c) \in DOMAIN tx_q
                                         /\ Value(tx_q[FindTxQ(c)].dest_addr) = c
                    /\ FindTxQ(c) = 0 => \A k \in DOMAIN tx_q : Value(tx_q[k].dest_addr) # c
  BY DEF FindFacts
<1>1. Matches(c) \in SUBSET Nat /\ 0 \notin Matches(c)
  BY DEF TypeOK, Matches
<1>2. CASE Matches(c) = {}
  BY <1>2 DEF FindTxQ, Matches
<1>3. CASE Matches(c) # {}
  <2>1. FindTxQ(c) \in Matches(c)
    BY <1>1, <1>3, MinInSet DEF FindTxQ
  <2> QED BY <1>1, <2>1 DEF Matches
<1> QED BY <1>2, <1>3

LEMMA FindFoundNext == FindFacts'
BY FindFound, PTL

-----------------------------------------------------------------------------
(* What a message does: the steps of the data (queues, inboxes, counts of    *)
(* accepted and lost messages), and that xport_send takes one of them.       *)

IsFun(q) == q = [k \in DOMAIN q |-> q[k]]

Changed(p, b, v) ==
    /\ IsFun(tx_q')
    /\ p \in DOMAIN tx_q
    /\ DOMAIN tx_q' = DOMAIN tx_q
    /\ \A k \in DOMAIN tx_q : k # p => tx_q'[k] = tx_q[k]
    /\ tx_q'[p] = [dest_addr |-> tx_q[p].dest_addr, bufs |-> b, dest_busy |-> v]
    /\ v \in BOOLEAN

Opened(ptr, b) ==
    /\ IsFun(tx_q')
    /\ DOMAIN tx_q' = 1..(Len(tx_q) + 1)
    /\ \A k \in DOMAIN tx_q : tx_q'[k] = tx_q[k]
    /\ tx_q'[Len(tx_q) + 1] = [dest_addr |-> ptr, bufs |-> b, dest_busy |-> FALSE]

Removed(p) ==
    /\ IsFun(tx_q')
    /\ p \in DOMAIN tx_q
    /\ DOMAIN tx_q' = 1..(Len(tx_q) - 1)
    /\ \A k \in DOMAIN tx_q' : tx_q'[k] = IF k < p THEN tx_q[k] ELSE tx_q[k + 1]

Counts(c) ==
    /\ hist.accepted[c] < MaxMsgs
    /\ hist'.accepted = [hist.accepted EXCEPT ![c] = @ + 1]
    /\ hist'.lost = hist.lost
CountsNothing == hist'.accepted = hist.accepted /\ hist'.lost = hist.lost
Loses(S) == hist'.accepted = hist.accepted /\ hist'.lost = hist.lost \cup S
StackNoted == hist.stacked => hist'.stacked

Quiet == tx_q' = tx_q /\ inbox' = inbox /\ CountsNothing
Marks(c, v) ==
    /\ Changed(FindTxQ(c), tx_q[FindTxQ(c)].bufs, v)
    /\ inbox' = inbox /\ CountsNothing
Enqueues(c) ==
    /\ Changed(FindTxQ(c), Append(Queued(c), NextMsg(c)), tx_q[FindTxQ(c)].dest_busy)
    /\ FindTxQ(c) # 0
    /\ inbox' = inbox /\ Counts(c)
Opens(c, ptr) ==
    /\ FindTxQ(c) = 0
    /\ ptr = Stack => hist'.stacked
    /\ inbox' = inbox
    /\ \/ Opened(ptr, <<NextMsg(c)>>) /\ Counts(c)
       \/ Opened(ptr, <<>>) /\ CountsNothing
Passes(c) ==
    /\ Queued(c) = <<>>
    /\ tx_q' = tx_q
    /\ inbox' = [inbox EXCEPT ![c] = Append(@, NextMsg(c))]
    /\ Counts(c)
Sends(c) ==
    /\ FindTxQ(c) # 0
    /\ Queued(c) # <<>>
    /\ Changed(FindTxQ(c), Tail(Queued(c)), tx_q[FindTxQ(c)].dest_busy)
    /\ \/ inbox' = [inbox EXCEPT ![c] = Append(@, Head(Queued(c)))] /\ CountsNothing
       \/ inbox' = inbox /\ Loses({Head(Queued(c))})
Removes(c) ==
    /\ FindTxQ(c) # 0
    /\ Removed(FindTxQ(c))
    /\ inbox' = inbox /\ Loses(ToSet(Queued(c)))
Clears ==
    /\ tx_q' = <<>>
    /\ inbox' = inbox
    /\ Loses(UNION {ToSet(tx_q[i].bufs) : i \in DOMAIN tx_q})

DataStep ==
    /\ StackNoted
    /\ \/ Quiet \/ Clears
       \/ \E c \in Clients :
             \/ \E v \in BOOLEAN : Marks(c, v)
             \/ Enqueues(c) \/ Passes(c) \/ Sends(c) \/ Removes(c)
             \/ Opens(c, c) \/ Opens(c, Stack)

\* What a message that is sent, or not, does to the queues and to the service
ToldNothing == hist'.told = hist.told /\ hist'.due = hist.due
Refuses(c) ==
    /\ FindTxQ(c) # 0 /\ Queued(c) # <<>>
    /\ Marks(c, TRUE)
    /\ hist'.told \in {hist.told, hist.told \cup {c}} /\ hist'.due = hist.due
PutStep(c, ptr) ==
    /\ StackNoted
    /\ Refuses(c) \/ ((Enqueues(c) \/ Opens(c, ptr) \/ Quiet) /\ ToldNothing)
SendStep(c, ptr) ==
    \/ /\ PutStep(c, ptr)
       /\ \/ Queued(c) # <<>> /\ net' = net
          \/ "again" \in Sendto(c) /\ net' = PushBack(c)
    \/ Passes(c) /\ StackNoted /\ ToldNothing /\ net' = net /\ "sent" \in Sendto(c)
    \/ Quiet /\ hist' = hist /\ net' = net

HistType == [accepted : [Clients -> 0..MaxMsgs], lost : SUBSET Msg,
             told : SUBSET Clients, due : SUBSET Clients, stacked : BOOLEAN]

LEMMA FindDest ==
    ASSUME TypeOK, NEW c \in Clients, FindTxQ(c) # 0
    PROVE  FindTxQ(c) \in DOMAIN tx_q /\ tx_q[FindTxQ(c)] \in Dest
<1>1. FindTxQ(c) \in DOMAIN tx_q
  BY FindFound DEF FindFacts
<1>2. tx_q \in Seq(Dest)
  BY DEF TypeOK
<1> QED BY <1>1, <1>2

LEMMA NewDestBufs ==
    ASSUME NEW ptr, NEW r, NEW b, NEW s,
           r = [dest_addr |-> ptr, bufs |-> <<>>, dest_busy |-> FALSE],
           s = [r EXCEPT !.bufs = b]
    PROVE  s = [dest_addr |-> ptr, bufs |-> b, dest_busy |-> FALSE]
OBVIOUS

\* put_tx_q appends, refuses a message for a queue that is full, or fails.
LEMMA PutData ==
    ASSUME TypeOK, NEW c \in Clients, NEW ptr \in {c, Stack}, NEW kind \in Kinds,
           Put(c, ptr, kind)
    PROVE  PutStep(c, ptr)
<1> USE LimitsAssumption
<1>0. tx_q \in Seq(Dest)
  BY DEF TypeOK
<1>1. Limit(kind) \in Nat \ {0}
  BY DEF Limit
<1>2. FindTxQ(c) # 0 => FindTxQ(c) \in DOMAIN tx_q /\ tx_q[FindTxQ(c)] \in Dest
  BY FindDest
<1>3. hist \in HistType
  BY DEF TypeOK, HistType
<1>4. CASE PutBusy(c, ptr, Limit(kind)) /\ Refuse(c, kind)
  <2>1. Queued(c) # <<>> /\ FindTxQ(c) # 0
    BY <1>1, <1>4 DEF PutBusy, Full, Queued
  <2>2. tx_q' = [tx_q EXCEPT ![FindTxQ(c)].dest_busy = TRUE]
    BY <2>1, <1>4 DEF PutBusy, GetTxQ, Place
  <2>3. tx_q[FindTxQ(c)] \in Dest
    BY <1>2, <2>1
  <2>4. Changed(FindTxQ(c), tx_q[FindTxQ(c)].bufs, TRUE)
    BY <1>0, <1>2, <2>1, <2>2, <2>3 DEF Changed, Dest, IsFun
  <2>5. /\ CountsNothing /\ StackNoted /\ inbox' = inbox
        /\ hist'.told \in {hist.told, hist.told \cup {c}} /\ hist'.due = hist.due
    BY <1>3, <1>4 DEF Refuse, CountsNothing, StackNoted, HistType, Put
  <2> QED BY <2>1, <2>4, <2>5 DEF PutStep, Refuses, Marks
<1>5. CASE PutMsg(c, ptr, Limit(kind), NextMsg(c)) /\ Accept(c)
  <2>1. Counts(c) /\ StackNoted /\ ToldNothing /\ inbox' = inbox
    BY <1>3, <1>5 DEF Accept, Counts, StackNoted, ToldNothing, Stacked, HistType, Put
  <2>2. CASE FindTxQ(c) # 0
    <3>1. tx_q' = [tx_q EXCEPT ![FindTxQ(c)].bufs = Append(@, NextMsg(c))]
      BY <2>2, <1>5 DEF PutMsg, GetTxQ, Place
    <3>2. tx_q[FindTxQ(c)] \in Dest /\ Queued(c) = tx_q[FindTxQ(c)].bufs
      <4>1. Queued(c) = tx_q[FindTxQ(c)].bufs
        BY <2>2 DEF Queued
      <4> QED BY <1>2, <2>2, <4>1
    <3>3. Changed(FindTxQ(c), Append(Queued(c), NextMsg(c)), tx_q[FindTxQ(c)].dest_busy)
      BY <1>0, <1>2, <2>2, <3>1, <3>2 DEF Changed, Dest, IsFun
    <3> QED BY <2>1, <2>2, <3>3 DEF PutStep, Enqueues
  <2>3. CASE FindTxQ(c) = 0
    <3> DEFINE q == Append(tx_q, [dest_addr |-> ptr, bufs |-> <<>>, dest_busy |-> FALSE])
    <3>1. tx_q' = [q EXCEPT ![Len(tx_q) + 1].bufs = Append(@, NextMsg(c))]
      BY <2>3, <1>5 DEF PutMsg, GetTxQ, Place
    <3>2. /\ DOMAIN q = 1..(Len(tx_q) + 1)
          /\ \A k \in DOMAIN tx_q : q[k] = tx_q[k]
          /\ q[Len(tx_q) + 1] = [dest_addr |-> ptr, bufs |-> <<>>, dest_busy |-> FALSE]
      BY <1>0
    <3>3. \A x : Append(<<>>, x) = <<x>>
      OBVIOUS
    <3>4. Opened(ptr, <<NextMsg(c)>>)
      <4> HIDE DEF q
      <4>1. DOMAIN tx_q = 1..Len(tx_q) /\ Len(tx_q) \in Nat
        BY <1>0
      <4>2. DOMAIN tx_q' = 1..(Len(tx_q) + 1) /\ IsFun(tx_q')
        BY <3>1, <3>2 DEF IsFun
      <4>3. \A k \in DOMAIN tx_q : tx_q'[k] = tx_q[k]
        BY <3>1, <3>2, <4>1
      <4>4. q[Len(tx_q) + 1].bufs = <<>>
        BY <3>2
      <4>5. tx_q'[Len(tx_q) + 1] = [q[Len(tx_q) + 1] EXCEPT !.bufs = Append(<<>>, NextMsg(c))]
        BY <3>1, <3>2, <4>1, <4>4
      <4>6. tx_q'[Len(tx_q) + 1]
              = [dest_addr |-> ptr, bufs |-> Append(<<>>, NextMsg(c)), dest_busy |-> FALSE]
        <5> DEFINE r == q[Len(tx_q) + 1]
                   t == tx_q'[Len(tx_q) + 1]
                   b == Append(<<>>, NextMsg(c))
        <5>1. r = [dest_addr |-> ptr, bufs |-> <<>>, dest_busy |-> FALSE] /\ t = [r EXCEPT !.bufs = b]
          BY <3>2, <4>5
        <5> HIDE DEF r, t, b
        <5>2. t = [dest_addr |-> ptr, bufs |-> b, dest_busy |-> FALSE]
          BY <5>1, NewDestBufs
        <5> QED BY <5>2 DEF t, b
      <4> QED BY <3>3, <4>2, <4>3, <4>6 DEF Opened
    <3>5. ptr = Stack => hist'.stacked
      <4>1. tx_q'[Len(tx_q) + 1].dest_addr = ptr /\ Len(tx_q) + 1 \in DOMAIN tx_q'
        BY <1>0, <3>4 DEF Opened
      <4> QED BY <1>3, <1>5, <4>1 DEF Accept, Stacked, HistType
    <3> QED BY <2>1, <2>3, <3>4, <3>5 DEF PutStep, Opens
  <2> QED BY <2>2, <2>3
<1>6. CASE PutNoMem(c, ptr, Limit(kind)) /\ Drop
  <2>1. CountsNothing /\ StackNoted /\ ToldNothing /\ inbox' = inbox
    BY <1>3, <1>6 DEF Drop, CountsNothing, StackNoted, ToldNothing, Stacked, HistType, Put
  <2>2. CASE tx_q' = tx_q
    BY <2>1, <2>2 DEF PutStep, Quiet
  <2>3. CASE tx_q' # tx_q
    <3>1. /\ FindTxQ(c) = 0
          /\ tx_q' = Append(tx_q, [dest_addr |-> ptr, bufs |-> <<>>, dest_busy |-> FALSE])
      BY <1>6, <2>3 DEF PutNoMem, GetTxQ
    <3>2. Opened(ptr, <<>>)
      BY <1>0, <3>1 DEF Opened, IsFun
    <3>3. ptr = Stack => hist'.stacked
      <4>1. tx_q'[Len(tx_q) + 1].dest_addr = ptr /\ Len(tx_q) + 1 \in DOMAIN tx_q'
        BY <1>0, <3>2 DEF Opened
      <4> QED BY <1>3, <1>6, <4>1 DEF Drop, Stacked, HistType
    <3> QED BY <2>1, <3>1, <3>2, <3>3 DEF PutStep, Opens
  <2> QED BY <2>2, <2>3
<1> QED BY <1>4, <1>5, <1>6 DEF Put

\* xport_send appends behind what waits, or asks the router.
LEMMA SendSteps ==
    ASSUME TypeOK, NEW c \in Clients, NEW ptr \in {c, Stack}, NEW kind \in Kinds,
           XportSend(c, ptr, kind)
    PROVE  SendStep(c, ptr)
<1>1. ASSUME Put(c, ptr, kind), \/ Queued(c) # <<>> /\ net' = net
                                \/ "again" \in Sendto(c) /\ net' = PushBack(c)
      PROVE  SendStep(c, ptr)
  BY <1>1, PutData DEF SendStep
<1>2. CASE tx_q' = tx_q /\ inbox' = inbox /\ hist' = hist /\ net' = net
  BY <1>2 DEF SendStep, Quiet, CountsNothing
<1>3. CASE /\ Queued(c) = <<>> /\ tx_q' = tx_q /\ Accept(c) /\ "sent" \in Sendto(c) /\ net' = net
           /\ inbox' = [inbox EXCEPT ![c] = Append(@, NextMsg(c))]
  <2>1. hist \in HistType
    BY DEF TypeOK, HistType
  <2>2. Counts(c) /\ StackNoted /\ ToldNothing
    BY <1>3, <2>1 DEF Accept, Counts, StackNoted, ToldNothing, Stacked, HistType
  <2> QED BY <1>3, <2>2 DEF SendStep, Passes
<1> QED BY <1>1, <1>2, <1>3 DEF XportSend

LEMMA SendData ==
    ASSUME NEW c \in Clients, NEW ptr \in {c, Stack}, SendStep(c, ptr)
    PROVE  DataStep
BY DEF SendStep, PutStep, Refuses, DataStep, StackNoted

-----------------------------------------------------------------------------
(* The steps of the event thread and of the closing thread, as data steps.   *)

LEMMA SeqIsFun == ASSUME NEW T, NEW s \in Seq(T) PROVE IsFun(s)
BY LenProperties DEF IsFun

\* Where an element of the second of two sequences is in their concatenation.
LEMMA PlaceInSecond ==
    ASSUME NEW n \in Nat, NEW p \in 1..n, NEW i \in 1..(n - p)
    PROVE  /\ i + (p - 1) \in 1..(n - 1)
           /\ ~(i + (p - 1) <= p - 1)
           /\ (i + (p - 1)) - (p - 1) = i
OBVIOUS

\* Removing an element of a sequence moves those behind it.
LEMMA RemoveAtShape ==
    ASSUME NEW T, NEW s \in Seq(T), NEW p \in DOMAIN s
    PROVE  /\ RemoveAt(s, p) \in Seq(T)
           /\ DOMAIN RemoveAt(s, p) = 1..(Len(s) - 1)
           /\ \A k \in 1..(Len(s) - 1) : RemoveAt(s, p)[k] = IF k < p THEN s[k] ELSE s[k + 1]
<1> DEFINE u == SubSeq(s, 1, p - 1)
           v == SubSeq(s, p + 1, Len(s))
<1>1. p \in 1..Len(s) /\ Len(s) \in Nat
  OBVIOUS
<1>2. u \in Seq(T) /\ Len(u) = p - 1 /\ \A k \in 1..(p - 1) : u[k] = s[k]
  BY <1>1
<1>3. v \in Seq(T) /\ Len(v) = Len(s) - p /\ \A k \in 1..(Len(s) - p) : v[k] = s[k + p]
  BY <1>1
<1>4. RemoveAt(s, p) = u \o v
  BY DEF RemoveAt
<1> HIDE DEF u, v
<1>5. /\ u \o v \in Seq(T) /\ Len(u \o v) = Len(s) - 1
      /\ \A i \in 1..(p - 1) : (u \o v)[i] = u[i]
      /\ \A i \in 1..(Len(s) - p) : (u \o v)[i + (p - 1)] = v[i]
  <2> DEFINE w == u \o v
  <2>1. /\ w \in Seq(T) /\ Len(w) = Len(u) + Len(v)
        /\ \A i \in 1..(Len(u) + Len(v)) : w[i] = IF i <= Len(u) THEN u[i] ELSE v[i - Len(u)]
    BY <1>2, <1>3, ConcatProperties, Zenon
  <2> HIDE DEF w
  <2>2. Len(w) = Len(s) - 1
    BY <1>1, <1>2, <1>3, <2>1
  <2>3. \A i \in 1..(p - 1) : w[i] = u[i]
    BY <1>1, <1>2, <1>3, <2>1
  <2>4. ASSUME NEW i \in 1..(Len(s) - p) PROVE w[i + (p - 1)] = v[i]
    <3>1. Len(u) = p - 1 /\ Len(u) + Len(v) = Len(s) - 1
      BY <1>1, <1>2, <1>3
    <3>2. /\ i + (p - 1) \in 1..(Len(s) - 1)
          /\ ~(i + (p - 1) <= p - 1) /\ (i + (p - 1)) - (p - 1) = i
      BY <1>1, PlaceInSecond
    <3> QED BY <2>1, <3>1, <3>2
  <2> QED BY <2>1, <2>2, <2>3, <2>4 DEF w
<1>6. ASSUME NEW k \in 1..(Len(s) - 1)
      PROVE  (u \o v)[k] = IF k < p THEN s[k] ELSE s[k + 1]
  <2>1. CASE k < p
    <3>1. k \in 1..(p - 1)
      BY <1>1, <2>1
    <3> QED BY <1>2, <1>5, <2>1, <3>1
  <2>2. CASE ~(k < p)
    <3>1. PICK j : j = k - (p - 1)
      OBVIOUS
    <3>2. j \in 1..(Len(s) - p) /\ k = j + (p - 1) /\ j + p = k + 1
      BY <1>1, <2>2, <3>1
    <3>3. (u \o v)[k] = v[j] /\ v[j] = s[k + 1]
      BY <1>3, <1>5, <3>2
    <3> QED BY <2>2, <3>3
  <2> QED BY <2>1, <2>2
<1> QED BY <1>4, <1>5, <1>6

LEMMA BeginFlushData == ASSUME NEW c, BeginFlush(c) PROVE DataStep
BY DEF BeginFlush, DataStep, StackNoted, Quiet, CountsNothing

LEMMA FlushSendShape ==
    ASSUME TypeOK, NEW c \in Clients, FlushSend(c)
    PROVE  /\ FindTxQ(c) # 0 /\ Queued(c) = tx_q[FindTxQ(c)].bufs
           /\ Changed(FindTxQ(c), Tail(Queued(c)), tx_q[FindTxQ(c)].dest_busy)
<1>1. FindTxQ(c) # 0 /\ Queued(c) = tx_q[FindTxQ(c)].bufs
  BY DEF FlushSend, Queued
<1>2. FindTxQ(c) \in DOMAIN tx_q /\ tx_q[FindTxQ(c)] \in Dest
  BY <1>1, FindDest
<1>3. tx_q \in Seq(Dest)
  BY DEF TypeOK
<1>4. tx_q' = [tx_q EXCEPT ![FindTxQ(c)].bufs = Tail(Queued(c))]
  BY <1>1, <1>2 DEF FlushSend
<1>5. IsFun(tx_q')
  BY <1>4 DEF IsFun
<1>6. Changed(FindTxQ(c), Tail(Queued(c)), tx_q[FindTxQ(c)].dest_busy)
  BY <1>2, <1>3, <1>4, <1>5 DEF Changed, Dest
<1> QED BY <1>1, <1>6

LEMMA FlushSendData == ASSUME TypeOK, NEW c \in Clients, FlushSend(c) PROVE DataStep
<1>1. hist \in HistType
  BY DEF TypeOK, HistType
<1>2. StackNoted /\ \/ /\ inbox' = [inbox EXCEPT ![c] = Append(@, Head(Queued(c)))]
                       /\ CountsNothing
                    \/ inbox' = inbox /\ Loses({Head(Queued(c))})
  BY <1>1 DEF FlushSend, StackNoted, CountsNothing, Loses, HistType
<1>3. FindTxQ(c) # 0 /\ Changed(FindTxQ(c), Tail(Queued(c)), tx_q[FindTxQ(c)].dest_busy)
  BY FlushSendShape
<1> QED BY <1>2, <1>3 DEF FlushSend, DataStep, Sends

FlushRest(c) == tx_q[FindTxQ(c)].dest_busy /\ ~Relieved(c)

LEMMA FlushEndShape ==
    ASSUME TypeOK, EventInv, NEW c \in Clients, FlushEnd(c)
    PROVE  /\ FindTxQ(c) # 0 /\ Queued(c) = tx_q[FindTxQ(c)].bufs
           /\ \/ Queued(c) = <<>> /\ Removed(FindTxQ(c)) /\ net' = net
              \/ /\ Queued(c) # <<>> /\ net' = PushBack(c)
                 /\ Changed(FindTxQ(c), tx_q[FindTxQ(c)].bufs, FlushRest(c))
<1>1. FindTxQ(c) # 0 /\ Queued(c) = tx_q[FindTxQ(c)].bufs
  BY DEF FlushEnd, EventInv, Queued
<1>2. FindTxQ(c) \in DOMAIN tx_q /\ tx_q[FindTxQ(c)] \in Dest
  BY <1>1, FindDest
<1>3. tx_q \in Seq(Dest)
  BY DEF TypeOK
<1>4. tx_q' = RemoveAt(tx_q, FindTxQ(c)) => Removed(FindTxQ(c))
  BY <1>2, <1>3, RemoveAtShape, SeqIsFun DEF Removed
<1>5. ASSUME tx_q' = [tx_q EXCEPT ![FindTxQ(c)].dest_busy = @ /\ ~Relieved(c)]
      PROVE  Changed(FindTxQ(c), tx_q[FindTxQ(c)].bufs, FlushRest(c))
  <2>1. tx_q' = [tx_q EXCEPT ![FindTxQ(c)].dest_busy = FlushRest(c)]
    BY <1>5 DEF FlushRest
  <2>2. FlushRest(c) \in BOOLEAN
    BY DEF FlushRest
  <2> QED BY <1>2, <1>3, <2>1, <2>2 DEF Changed, Dest, IsFun
<1> QED BY <1>1, <1>4, <1>5 DEF FlushEnd

LEMMA FlushEndData == ASSUME TypeOK, EventInv, NEW c \in Clients, FlushEnd(c) PROVE DataStep
<1>1. hist \in HistType
  BY DEF TypeOK, HistType
<1>2. StackNoted /\ CountsNothing /\ inbox' = inbox
  BY <1>1 DEF FlushEnd, StackNoted, CountsNothing, HistType
<1>3. /\ FindTxQ(c) # 0
      /\ \/ Queued(c) = <<>> /\ Removed(FindTxQ(c))
         \/ Changed(FindTxQ(c), tx_q[FindTxQ(c)].bufs, FlushRest(c))
  BY FlushEndShape
<1>4. CASE Queued(c) = <<>> /\ Removed(FindTxQ(c))
  <2>1. ToSet(Queued(c)) = {}
    BY <1>4 DEF ToSet
  <2>2. Loses(ToSet(Queued(c)))
    BY <1>2, <2>1 DEF CountsNothing, Loses
  <2> QED BY <1>2, <1>3, <1>4, <2>2 DEF DataStep, Removes
<1>5. CASE Changed(FindTxQ(c), tx_q[FindTxQ(c)].bufs, FlushRest(c))
  BY <1>2, <1>5 DEF DataStep, Marks, FlushRest
<1> QED BY <1>3, <1>4, <1>5

LEMMA PurgeShape ==
    ASSUME TypeOK, NEW c \in Clients, PurgeTxQ(c)
    PROVE  \/ FindTxQ(c) = 0 /\ tx_q' = tx_q
           \/ FindTxQ(c) # 0 /\ Removed(FindTxQ(c))
<1>1. FindTxQ(c) = 0 => tx_q' = tx_q
  BY DEF PurgeTxQ
<1>2. CASE FindTxQ(c) # 0
  <2>1. FindTxQ(c) \in DOMAIN tx_q /\ tx_q \in Seq(Dest)
    BY <1>2, FindDest DEF TypeOK
  <2>2. tx_q' = RemoveAt(tx_q, FindTxQ(c))
    BY <1>2 DEF PurgeTxQ
  <2>3. Removed(FindTxQ(c))
    BY <2>1, <2>2, RemoveAtShape, SeqIsFun DEF Removed
  <2> QED BY <1>2, <2>3
<1> QED BY <1>1, <1>2

LEMMA PurgeData == ASSUME TypeOK, NEW c \in Clients, PurgeTxQ(c) PROVE DataStep
<1>1. hist \in HistType
  BY DEF TypeOK, HistType
<1>2. StackNoted /\ inbox' = inbox /\ Loses(ToSet(Queued(c)))
  BY <1>1 DEF PurgeTxQ, StackNoted, Loses, HistType
<1>3. CASE FindTxQ(c) = 0 /\ tx_q' = tx_q
  <2>1. ToSet(Queued(c)) = {}
    BY <1>3 DEF Queued, ToSet
  <2>2. CountsNothing
    BY <1>2, <2>1 DEF Loses, CountsNothing
  <2> QED BY <1>2, <1>3, <2>2 DEF DataStep, Quiet
<1>4. CASE FindTxQ(c) # 0 /\ Removed(FindTxQ(c))
  BY <1>2, <1>4 DEF DataStep, Removes
<1> QED BY <1>3, <1>4, PurgeShape

LEMMA PurgeAllData == ASSUME TypeOK, PurgeAll PROVE DataStep
<1>1. hist \in HistType
  BY DEF TypeOK, HistType
<1>2. StackNoted /\ Loses(UNION {ToSet(tx_q[i].bufs) : i \in DOMAIN tx_q})
  BY <1>1 DEF PurgeAll, StackNoted, Loses, HistType
<1> QED BY <1>2 DEF PurgeAll, DataStep, Clears

LEMMA OtherData ==
    ASSUME tx_q' = tx_q, inbox' = inbox,
           hist' = hist
    PROVE  DataStep
BY DEF DataStep, StackNoted, Quiet, CountsNothing

\* Every step is a data step.
LEMMA DataSteps == ASSUME TypeOK, EventInv, [Next]_vars PROVE DataStep
<1>1. ASSUME NEW c \in Clients, NEW kind \in Kinds, Send(c, kind) PROVE DataStep
  BY <1>1, SendSteps, SendData DEF Send
<1>2. ASSUME NEW c \in Clients, ErrorReply(c) PROVE DataStep
  <2>1. "resp" \in Kinds
    BY DEF Kinds
  <2> QED BY <1>2, <2>1, SendSteps, SendData DEF ErrorReply
<1>3. ASSUME NEW c \in Clients,
             \/ RecvRequest(c) \/ RecvResume(c) \/ ResumeNothing(c) \/ RecvRemoveClient(c)
             \/ RouterResume(c) \/ RouterRemove(c)
      PROVE DataStep
  BY <1>3, OtherData DEF RecvRequest, RecvResume, ResumeNothing, RecvRemoveClient,
        RouterResume, RouterRemove
<1>4. ASSUME NEW c \in Clients, Notify(c) \/ Disconnect(c) PROVE DataStep
  <2>1. hist \in HistType
    BY DEF TypeOK, HistType
  <2> QED BY <1>4, <2>1 DEF Notify, Disconnect, HistType, DataStep, StackNoted, Quiet, CountsNothing
<1>5. ASSUME XportClosed PROVE DataStep
  <2>1. hist \in HistType
    BY DEF TypeOK, HistType
  <2> QED BY <1>5, <2>1 DEF XportClosed, HistType, DataStep, StackNoted, Quiet, CountsNothing
<1>6. ASSUME HandleEventReturns \/ CloseFds \/ UNCHANGED vars PROVE DataStep
  BY <1>6, OtherData DEF HandleEventReturns, CloseFds, vars
<1> QED BY <1>1, <1>2, <1>3, <1>4, <1>5, <1>6, BeginFlushData, FlushSendData, FlushEndData,
          PurgeData, PurgeAllData DEF Next, EventStep

-----------------------------------------------------------------------------
(* The types of what the data steps write.                                   *)

LEMMA QueuesAreSeq ==
    ASSUME NEW q, NEW n \in Nat, IsFun(q), DOMAIN q = 1..n, \A k \in 1..n : q[k] \in Dest
    PROVE  q \in Seq(Dest)
<1>1. [k \in 1..n |-> q[k]] \in Seq(Dest)
  BY IsASeq
<1> QED BY <1>1 DEF IsFun

LEMMA NextMsgType ==
    ASSUME TypeOK, NEW c \in Clients, hist.accepted[c] < MaxMsgs
    PROVE  NextMsg(c) \in Msg
<1>1. hist.accepted[c] \in Nat /\ MaxMsgs \in Nat
  BY BoundsAssumption DEF TypeOK
<1> QED BY <1>1 DEF NextMsg, Msg

LEMMA QueuedType ==
    ASSUME TypeOK, NEW c \in Clients
    PROVE  Queued(c) \in Seq(Msg)
<1>1. CASE FindTxQ(c) # 0
  <2>1. tx_q[FindTxQ(c)] \in Dest
    BY <1>1, FindDest
  <2> QED BY <1>1, <2>1 DEF Queued, Dest
<1>2. CASE FindTxQ(c) = 0
  BY <1>2 DEF Queued
<1> QED BY <1>1, <1>2

LEMMA ChangedType ==
    ASSUME TypeOK, NEW p, NEW b \in Seq(Msg), NEW v, Changed(p, b, v)
    PROVE  tx_q' \in Seq(Dest)
<1>1. tx_q \in Seq(Dest) /\ p \in DOMAIN tx_q /\ v \in BOOLEAN
  BY DEF TypeOK, Changed
<1>2. \A k \in DOMAIN tx_q : tx_q'[k] \in Dest
  <2>1. tx_q'[p] \in Dest
    <3>1. tx_q[p] \in Dest
      BY <1>1
    <3> QED BY <1>1, <3>1 DEF Changed, Dest
  <2>2. \A k \in DOMAIN tx_q : k # p => tx_q'[k] \in Dest
    BY <1>1 DEF Changed
  <2> QED BY <2>1, <2>2
<1>3. Len(tx_q) \in Nat /\ DOMAIN tx_q' = 1..Len(tx_q) /\ DOMAIN tx_q = 1..Len(tx_q)
  BY <1>1 DEF Changed
<1> QED BY <1>2, <1>3, QueuesAreSeq DEF Changed

LEMMA OpenedType ==
    ASSUME TypeOK, NEW ptr \in Clients \cup {Stack}, NEW b \in Seq(Msg), Opened(ptr, b)
    PROVE  tx_q' \in Seq(Dest)
<1>1. tx_q \in Seq(Dest)
  BY DEF TypeOK
<1>2. tx_q'[Len(tx_q) + 1] \in Dest
  BY DEF Opened, Dest
<1>3. \A k \in 1..(Len(tx_q) + 1) : tx_q'[k] \in Dest
  BY <1>1, <1>2 DEF Opened
<1> QED BY <1>1, <1>3, QueuesAreSeq DEF Opened

LEMMA RemovedType ==
    ASSUME TypeOK, NEW p, Removed(p)
    PROVE  tx_q' \in Seq(Dest)
<1>1. tx_q \in Seq(Dest) /\ p \in 1..Len(tx_q)
  BY DEF TypeOK, Removed
<1>2. Len(tx_q) - 1 \in Nat
  BY <1>1
<1>3. \A k \in 1..(Len(tx_q) - 1) : tx_q'[k] \in Dest
  BY <1>1 DEF Removed
<1> QED BY <1>2, <1>3, QueuesAreSeq DEF Removed

\* The types of what the data steps touch.
LEMMA DataTypes ==
    ASSUME TypeOK, DataStep
    PROVE  /\ tx_q' \in Seq(Dest)
           /\ inbox' \in [Clients -> Seq(Msg)]
           /\ hist'.accepted \in [Clients -> 0..MaxMsgs]
           /\ hist'.lost \in SUBSET Msg
<1>1. /\ tx_q \in Seq(Dest) /\ inbox \in [Clients -> Seq(Msg)]
      /\ hist.accepted \in [Clients -> 0..MaxMsgs] /\ hist.lost \in SUBSET Msg
  BY DEF TypeOK
<1>2. ASSUME NEW c \in Clients, Counts(c)
      PROVE  hist'.accepted \in [Clients -> 0..MaxMsgs] /\ hist'.lost \in SUBSET Msg
  BY <1>1, <1>2, BoundsAssumption DEF Counts
<1>3. ASSUME CountsNothing
      PROVE  hist'.accepted \in [Clients -> 0..MaxMsgs] /\ hist'.lost \in SUBSET Msg
  BY <1>1, <1>3 DEF CountsNothing
<1>4. ASSUME NEW S \in SUBSET Msg, Loses(S)
      PROVE  hist'.accepted \in [Clients -> 0..MaxMsgs] /\ hist'.lost \in SUBSET Msg
  BY <1>1, <1>4 DEF Loses
<1>5. CASE Quiet
  BY <1>1, <1>3, <1>5 DEF Quiet
<1>6. CASE Clears
  <2>1. \A k \in DOMAIN tx_q : tx_q[k] \in Dest
    BY <1>1
  <2>2. \A k \in DOMAIN tx_q : ToSet(tx_q[k].bufs) \subseteq Msg
    BY <2>1 DEF Dest, ToSet
  <2>3. UNION {ToSet(tx_q[k].bufs) : k \in DOMAIN tx_q} \in SUBSET Msg
    BY <2>2
  <2> QED BY <1>1, <1>4, <1>6, <2>3 DEF Clears
<1>7. ASSUME NEW c \in Clients, NEW v \in BOOLEAN, Marks(c, v)
      PROVE  /\ tx_q' \in Seq(Dest) /\ inbox' = inbox /\ CountsNothing
  <2>1. FindTxQ(c) \in DOMAIN tx_q
    BY <1>7 DEF Marks, Changed
  <2>2. tx_q[FindTxQ(c)] \in Dest
    BY <1>1, <2>1
  <2>3. tx_q[FindTxQ(c)].bufs \in Seq(Msg)
    BY <2>2 DEF Dest
  <2> QED BY <1>7, <2>3, ChangedType DEF Marks
<1>8. ASSUME NEW c \in Clients, Enqueues(c)
      PROVE  tx_q' \in Seq(Dest) /\ inbox' = inbox /\ Counts(c)
  <2>1. Append(Queued(c), NextMsg(c)) \in Seq(Msg)
    BY <1>8, QueuedType, NextMsgType DEF Enqueues, Counts
  <2> QED BY <1>8, <2>1, ChangedType DEF Enqueues
<1>9. ASSUME NEW c \in Clients, Passes(c)
      PROVE  /\ tx_q' \in Seq(Dest) /\ Counts(c)
             /\ inbox' \in [Clients -> Seq(Msg)]
  <2>1. NextMsg(c) \in Msg
    BY <1>9, NextMsgType DEF Passes, Counts
  <2> QED BY <1>1, <1>9, <2>1 DEF Passes
<1>10. ASSUME NEW c \in Clients, Sends(c)
       PROVE  /\ tx_q' \in Seq(Dest)
              /\ inbox' \in [Clients -> Seq(Msg)]
              /\ CountsNothing \/ Loses({Head(Queued(c))})
              /\ Head(Queued(c)) \in Msg
  <2>1. Tail(Queued(c)) \in Seq(Msg) /\ Head(Queued(c)) \in Msg
    BY <1>10, QueuedType DEF Sends
  <2>2. tx_q' \in Seq(Dest)
    BY <1>10, <2>1, ChangedType DEF Sends
  <2>3. inbox' = inbox \/ inbox' = [inbox EXCEPT ![c] = Append(@, Head(Queued(c)))]
    BY <1>10 DEF Sends
  <2>4. inbox' \in [Clients -> Seq(Msg)]
    <3> DEFINE m == Head(Queued(c))
    <3>1. m \in Msg /\ inbox[c] \in Seq(Msg)
      BY <1>1, <2>1
    <3>2. inbox' = inbox \/ inbox' = [inbox EXCEPT ![c] = Append(@, m)]
      BY <2>3
    <3> HIDE DEF m
    <3>3. Append(inbox[c], m) \in Seq(Msg)
      BY <3>1
    <3> QED BY <1>1, <3>2, <3>3
  <2>5. CountsNothing \/ Loses({Head(Queued(c))})
    BY <1>10 DEF Sends
  <2> QED BY <2>1, <2>2, <2>4, <2>5
<1>11. ASSUME NEW c \in Clients, Removes(c)
       PROVE  /\ tx_q' \in Seq(Dest) /\ inbox' = inbox
              /\ Loses(ToSet(Queued(c))) /\ ToSet(Queued(c)) \in SUBSET Msg
  <2>1. tx_q' \in Seq(Dest)
    BY <1>11, RemovedType DEF Removes
  <2>2. ToSet(Queued(c)) \in SUBSET Msg
    BY QueuedType DEF ToSet
  <2> QED BY <1>11, <2>1, <2>2 DEF Removes
<1>12. ASSUME NEW c \in Clients, NEW ptr \in Clients \cup {Stack}, Opens(c, ptr)
       PROVE  tx_q' \in Seq(Dest) /\ inbox' = inbox /\ (Counts(c) \/ CountsNothing)
  <2>1. CASE Opened(ptr, <<NextMsg(c)>>) /\ Counts(c)
    <3>1. <<NextMsg(c)>> \in Seq(Msg)
      BY <2>1, NextMsgType DEF Counts
    <3> QED BY <1>12, <2>1, <3>1, OpenedType DEF Opens
  <2>2. CASE Opened(ptr, <<>>) /\ CountsNothing
    <3>1. <<>> \in Seq(Msg)
      OBVIOUS
    <3> QED BY <1>12, <2>2, <3>1, OpenedType DEF Opens
  <2> QED BY <1>12, <2>1, <2>2 DEF Opens
<1> QED BY <1>1, <1>2, <1>3, <1>4, <1>5, <1>6, <1>7, <1>8, <1>9, <1>10, <1>11, <1>12 DEF DataStep

-----------------------------------------------------------------------------
(* The type invariant and the state of the event thread.                     *)

NetType == [blocked : SUBSET Clients, resume : SUBSET Clients,
            gone : SUBSET Clients, ctl : SUBSET Clients, blocks : 0..MaxBlocks]

LEMMA PushBackType ==
    ASSUME TypeOK, NEW c \in Clients, "again" \in Sendto(c)
    PROVE  PushBack(c) \in NetType
<1>1. net \in NetType
  BY DEF TypeOK, NetType
<1>2. c \in net.blocked \/ net.blocks < MaxBlocks
  BY DEF Sendto
<1>3. CASE c \in net.blocked
  BY <1>1, <1>3 DEF PushBack
<1>4. CASE c \notin net.blocked
  <2>1. net.blocks + 1 \in 0..MaxBlocks
    BY <1>1, <1>2, <1>4, BoundsAssumption DEF NetType
  <2>2. PushBack(c) = [net EXCEPT !.blocked = net.blocked \cup {c}, !.blocks = net.blocks + 1]
    BY <1>4 DEF PushBack
  <2> QED BY <1>1, <2>1, <2>2 DEF NetType
<1> QED BY <1>3, <1>4

LEMMA AcceptType ==
    ASSUME hist \in HistType, NEW c \in Clients, Accept(c)
    PROVE  hist' \in HistType
<1> DEFINE s == Stacked
           n == hist.accepted[c] + 1
<1>1. s \in BOOLEAN
  BY DEF Stacked, HistType
<1>2. n \in 0..MaxMsgs /\ hist.accepted \in [Clients -> 0..MaxMsgs]
  BY BoundsAssumption DEF Accept, HistType
<1>3. hist' = [hist EXCEPT !.accepted = [hist.accepted EXCEPT ![c] = n], !.stacked = s]
  BY DEF Accept, HistType
<1> HIDE DEF s, n
<1>4. [hist.accepted EXCEPT ![c] = n] \in [Clients -> 0..MaxMsgs]
  BY <1>2
<1> QED BY <1>1, <1>3, <1>4 DEF HistType

LEMMA DropType == ASSUME hist \in HistType, Drop PROVE hist' \in HistType
<1> DEFINE s == Stacked
<1>1. s \in BOOLEAN
  BY DEF Stacked, HistType
<1>2. hist' = [hist EXCEPT !.stacked = s]
  BY DEF Drop
<1> HIDE DEF s
<1> QED BY <1>1, <1>2 DEF HistType

LEMMA SendTypes ==
    ASSUME TypeOK, NEW c \in Clients, NEW ptr, NEW kind, XportSend(c, ptr, kind)
    PROVE  hist' \in HistType /\ net' \in NetType
<1>1. hist \in HistType /\ net \in NetType
  BY DEF TypeOK, HistType, NetType
<1>2. net' \in NetType
  BY <1>1, PushBackType DEF XportSend
<1>3. ASSUME Refuse(c, kind) PROVE hist' \in HistType
  BY <1>1, <1>3 DEF Refuse, HistType
<1>4. hist' = hist \/ Accept(c) \/ Refuse(c, kind) \/ Drop
  BY DEF XportSend, Put
<1> QED BY <1>1, <1>2, <1>3, <1>4, AcceptType, DropType

LEMMA TypeOKParts ==
    /\ tx_q' \in Seq(Dest) /\ inbox' \in [Clients -> Seq(Msg)]
    /\ hist' \in HistType /\ net' \in NetType
    /\ addr' \in Clients \cup {Junk} /\ ev' \in EvState /\ clients' \subseteq Clients
    /\ handle' \in {"open", "purged", "closed", "freed"}
    => TypeOK'
BY DEF TypeOK, HistType, NetType

\* Every step keeps the type invariant.
LEMMA TypeStep == ASSUME TypeOK, EventInv, [Next]_vars PROVE TypeOK'
<1>1. tx_q' \in Seq(Dest) /\ inbox' \in [Clients -> Seq(Msg)]
      /\ hist'.accepted \in [Clients -> 0..MaxMsgs] /\ hist'.lost \in SUBSET Msg
  BY DataSteps, DataTypes
<1>2. hist \in HistType /\ net \in NetType /\ addr \in Clients \cup {Junk} /\ ev \in EvState
      /\ clients \subseteq Clients /\ handle \in {"open", "purged", "closed", "freed"}
  BY DEF TypeOK, HistType, NetType
<1> DEFINE Rest == /\ hist' \in HistType /\ net' \in NetType
                   /\ addr' \in Clients \cup {Junk} /\ ev' \in EvState /\ clients' \subseteq Clients
                   /\ handle' \in {"open", "purged", "closed", "freed"}
<1>3. ASSUME NEW c \in Clients,
             NEW pc \in {"reply", "resume", "flush", "notify", "purge", "disconnect"}, Goto(pc, c)
      PROVE  ev' \in EvState
  BY <1>3 DEF Goto, EvState
<1>4. Idle \in EvState
  BY DEF EvState
<1>5. ASSUME NEW c \in Clients, NEW kind \in Kinds, Send(c, kind) PROVE Rest
  BY <1>2, <1>5, SendTypes DEF Send
<1>6. ASSUME NEW c \in Clients, ErrorReply(c) PROVE Rest
  BY <1>2, <1>4, <1>6, SendTypes DEF ErrorReply
<1>7. ASSUME NEW c \in Clients, RecvRequest(c) PROVE Rest
  BY <1>2, <1>3, <1>4, <1>7 DEF RecvRequest
<1>8. ASSUME NEW c \in Clients, RecvResume(c) PROVE Rest
  <2>1. net' \in NetType
    BY <1>2, <1>8 DEF RecvResume, NetType
  <2> QED BY <1>2, <1>3, <1>8, <2>1 DEF RecvResume
<1>9. ASSUME NEW c \in Clients, RecvRemoveClient(c) PROVE Rest
  <2>1. net' \in NetType
    BY <1>2, <1>9 DEF RecvRemoveClient, NetType
  <2> QED BY <1>2, <1>3, <1>9, <2>1 DEF RecvRemoveClient
<1>10. ASSUME NEW c \in Clients, RouterResume(c) \/ RouterRemove(c) PROVE Rest
  <2>1. net' \in NetType
    <3>1. CASE RouterResume(c)
      BY <1>2, <3>1 DEF RouterResume, NetType
    <3>2. CASE RouterRemove(c)
      BY <1>2, <3>2 DEF RouterRemove, NetType
    <3> QED BY <1>10, <3>1, <3>2
  <2> QED BY <1>2, <1>10, <2>1 DEF RouterResume, RouterRemove
<1>11. ASSUME NEW c \in Clients, BeginFlush(c) \/ ResumeNothing(c) PROVE Rest
  BY <1>2, <1>3, <1>4, <1>11 DEF BeginFlush, ResumeNothing
<1>12. ASSUME NEW c \in Clients, FlushSend(c) PROVE Rest
  <2>1. CASE hist' = hist
    BY <1>2, <1>12, <2>1 DEF FlushSend
  <2>2. CASE hist' = [hist EXCEPT !.lost = @ \cup {Head(Queued(c))}]
    <3>1. hist' \in HistType
      BY <1>1, <1>2, <2>2 DEF HistType
    <3> QED BY <1>2, <1>12, <3>1 DEF FlushSend
  <2> QED BY <1>12, <2>1, <2>2 DEF FlushSend
<1>13. ASSUME NEW c \in Clients, FlushEnd(c) PROVE Rest
  <2>1. net' \in NetType
    <3>1. net' = net \/ ("again" \in Sendto(c) /\ net' = PushBack(c))
      BY <1>13 DEF FlushEnd
    <3> QED BY <1>2, <3>1, PushBackType
  <2>2. hist' = hist \/ hist' = [hist EXCEPT !.told = @ \ {c}, !.due = @ \cup (hist.told \cap {c})]
    BY <1>13 DEF FlushEnd
  <2>3. hist' \in HistType
    BY <1>2, <2>2 DEF HistType
  <2>4. ev' \in EvState
    BY <1>3, <1>4, <1>13 DEF FlushEnd
  <2> QED BY <1>2, <1>13, <2>1, <2>3, <2>4 DEF FlushEnd
<1>14. ASSUME NEW c \in Clients, Notify(c) PROVE Rest
  <2>1. hist' \in HistType
    BY <1>2, <1>14 DEF Notify, HistType
  <2> QED BY <1>2, <1>4, <1>14, <2>1 DEF Notify
<1>15. ASSUME NEW c \in Clients, PurgeTxQ(c) PROVE Rest
  <2>1. hist' = [hist EXCEPT !.lost = @ \cup ToSet(Queued(c))]
    BY <1>15 DEF PurgeTxQ
  <2>2. hist' \in HistType
    BY <1>1, <1>2, <2>1 DEF HistType
  <2> QED BY <1>2, <1>3, <1>15, <2>2 DEF PurgeTxQ
<1>16. ASSUME NEW c \in Clients, Disconnect(c) PROVE Rest
  <2>1. hist' \in HistType
    BY <1>2, <1>16 DEF Disconnect, HistType
  <2> QED BY <1>2, <1>4, <1>16, <2>1 DEF Disconnect
<1>17. ASSUME PurgeAll PROVE Rest
  <2> DEFINE L == UNION {ToSet(tx_q[i].bufs) : i \in DOMAIN tx_q}
  <2>1. hist' = [hist EXCEPT !.lost = @ \cup L]
    BY <1>17 DEF PurgeAll
  <2> HIDE DEF L
  <2>2. hist' \in HistType
    BY <1>1, <1>2, <2>1 DEF HistType
  <2> QED BY <1>2, <1>17, <2>2 DEF PurgeAll
<1>18. ASSUME XportClosed PROVE Rest
  <2>1. hist' \in HistType
    BY <1>2, <1>18 DEF XportClosed, HistType
  <2> QED BY <1>2, <1>18, <2>1 DEF XportClosed
<1>19. ASSUME HandleEventReturns \/ CloseFds \/ UNCHANGED vars PROVE Rest
  BY <1>2, <1>19 DEF HandleEventReturns, CloseFds, vars
<1> HIDE DEF Rest
<1>20. Rest
  BY <1>5, <1>6, <1>7, <1>8, <1>9, <1>10, <1>11, <1>12, <1>13, <1>14, <1>15, <1>16, <1>17,
     <1>18, <1>19 DEF Next, EventStep
<1> QED BY <1>1, <1>20, TypeOKParts DEF Rest

LEMMA FindSame ==
    ASSUME NEW c, DOMAIN tx_q' = DOMAIN tx_q, addr' = addr,
           \A k \in DOMAIN tx_q : tx_q'[k].dest_addr = tx_q[k].dest_addr
    PROVE  FindTxQ(c)' = FindTxQ(c)
<1>1. Matches(c)' = Matches(c)
  BY DEF Matches, Value
<1> QED BY <1>1 DEF FindTxQ

LEMMA EventStepInv == ASSUME TypeOK, EventInv, [Next]_vars PROVE EventInv'
<1>1. ev' # Idle => handle' = "open"
  <2> USE DEF EventInv
  <2>1. ASSUME NEW c \in Clients, NEW kind \in Kinds, Send(c, kind) PROVE ev' # Idle => handle' = "open"
    BY <2>1 DEF Send
  <2>2. ASSUME NEW c \in Clients, ErrorReply(c) \/ ResumeNothing(c) \/ Notify(c) \/ Disconnect(c)
        PROVE  ev' # Idle => handle' = "open"
    BY <2>2 DEF ErrorReply, ResumeNothing, Notify, Disconnect
  <2>3. ASSUME NEW c \in Clients, RecvRequest(c) \/ RecvResume(c) \/ RecvRemoveClient(c)
        PROVE  ev' # Idle => handle' = "open"
    BY <2>3 DEF RecvRequest, RecvResume, RecvRemoveClient, Receives
  <2>4. ASSUME NEW c \in Clients, BeginFlush(c) \/ FlushSend(c) \/ FlushEnd(c) \/ PurgeTxQ(c)
        PROVE  ev' # Idle => handle' = "open"
    <3>1. ev # Idle
      BY <2>4 DEF BeginFlush, FlushSend, FlushEnd, PurgeTxQ, At, Idle
    <3> QED BY <2>4, <3>1 DEF BeginFlush, FlushSend, FlushEnd, PurgeTxQ
  <2>5. ASSUME NEW c \in Clients, RouterResume(c) \/ RouterRemove(c)
        PROVE  ev' # Idle => handle' = "open"
    BY <2>5 DEF RouterResume, RouterRemove
  <2>6. ASSUME HandleEventReturns \/ PurgeAll \/ CloseFds \/ XportClosed \/ UNCHANGED vars
        PROVE  ev' # Idle => handle' = "open"
    BY <2>6 DEF HandleEventReturns, PurgeAll, CloseFds, XportClosed, vars, Receives
  <2> QED BY <2>1, <2>2, <2>3, <2>4, <2>5, <2>6 DEF Next, EventStep
<1>2. ASSUME NEW d \in Clients, At("flush", d)' PROVE (FindTxQ(d) # 0)'
  <2>1. CASE BeginFlush(d) \/ FlushSend(d)
    <3>1. FindTxQ(d) # 0
      BY <2>1 DEF BeginFlush, FlushSend, Queued
    <3>2. addr' = addr
      BY <2>1 DEF BeginFlush, FlushSend
    <3>3. DOMAIN tx_q' = DOMAIN tx_q /\ \A k \in DOMAIN tx_q : tx_q'[k].dest_addr = tx_q[k].dest_addr
      <4>1. CASE BeginFlush(d)
        BY <4>1 DEF BeginFlush
      <4>2. CASE FlushSend(d)
        <5>1. FindTxQ(d) \in DOMAIN tx_q /\ tx_q[FindTxQ(d)] \in Dest
          BY <3>1, FindDest
        <5>2. tx_q' = [tx_q EXCEPT ![FindTxQ(d)].bufs = Tail(@)]
          BY <4>2 DEF FlushSend
        <5> QED BY <5>1, <5>2 DEF Dest
      <4> QED BY <2>1, <4>1, <4>2
    <3> QED BY <3>1, <3>2, <3>3, FindSame
  <2>2. CASE At("flush", d) /\ tx_q' = tx_q /\ addr' = addr
    BY <2>2, FindSame DEF EventInv
  <2>3. ev'.pc = "flush"
    BY <1>2 DEF At
  <2>4. ev' = Idle => ev'.pc # "flush"
    BY DEF Idle
  <2>5. ASSUME NEW c \in Clients, NEW kind \in Kinds, Send(c, kind) PROVE FALSE
    BY <2>3, <2>5 DEF Send, XportSend, LockFree
  <2>6. ASSUME NEW c \in Clients,
               ErrorReply(c) \/ ResumeNothing(c) \/ Notify(c) \/ Disconnect(c) \/ FlushEnd(c) \/ PurgeTxQ(c)
                 \/ RecvRequest(c) \/ RecvResume(c) \/ RecvRemoveClient(c)
        PROVE FALSE
    BY <2>3, <2>4, <2>6 DEF ErrorReply, ResumeNothing, Notify, Disconnect, FlushEnd, PurgeTxQ,
         RecvRequest, RecvResume, RecvRemoveClient, Goto
  <2>7. ASSUME NEW c \in Clients, BeginFlush(c) \/ FlushSend(c)
        PROVE  c = d
    BY <1>2, <2>7 DEF BeginFlush, FlushSend, Goto, At
  <2>8. ASSUME (\E c \in Clients : RouterResume(c) \/ RouterRemove(c)) \/ UNCHANGED vars
        PROVE  At("flush", d) /\ tx_q' = tx_q /\ addr' = addr
    BY <1>2, <2>8 DEF RouterResume, RouterRemove, vars, At
  <2>9. ASSUME HandleEventReturns \/ PurgeAll \/ CloseFds \/ XportClosed PROVE CloseFds \/ XportClosed
    BY <2>3, <2>4, <2>9 DEF HandleEventReturns, PurgeAll, Receives
  <2>10. ASSUME CloseFds \/ XportClosed PROVE FALSE
    <3>1. ev' # Idle /\ ev' = ev /\ handle # "open"
      BY <2>3, <2>4, <2>10 DEF CloseFds, XportClosed
    <3> QED BY <3>1 DEF EventInv
  <2> QED BY <2>1, <2>2, <2>5, <2>6, <2>7, <2>8, <2>9, <2>10 DEF Next, EventStep
<1> QED BY <1>1, <1>2 DEF EventInv

-----------------------------------------------------------------------------
(* Sequences of messages, and what each data step does to the places where a *)
(* message may be.                                                           *)

LEMMA AppendFacts ==
    ASSUME NEW s \in Seq(Msg), NEW x \in Msg
    PROVE  /\ ToSet(Append(s, x)) = ToSet(s) \cup {x}
           /\ IsInjective(s) /\ x \notin ToSet(s) => IsInjective(Append(s, x))
           /\ Ordered(s) /\ (\A y \in ToSet(s) : y.n < x.n) => Ordered(Append(s, x))
<1> DEFINE t == Append(s, x)
<1>1. /\ Len(s) \in Nat /\ DOMAIN s = 1..Len(s) /\ DOMAIN t = 1..(Len(s) + 1)
      /\ t[Len(s) + 1] = x /\ \A i \in 1..Len(s) : t[i] = s[i]
  OBVIOUS
<1>2. \A y : y \in ToSet(s) <=> \E i \in DOMAIN s : s[i] = y
  BY DEF ToSet
<1>3. \A y : y \in ToSet(t) <=> \E i \in DOMAIN t : t[i] = y
  BY DEF ToSet
<1> HIDE DEF t
<1>4. ToSet(t) = ToSet(s) \cup {x}
  BY <1>1, <1>2, <1>3
<1>5. ASSUME IsInjective(s), x \notin ToSet(s) PROVE IsInjective(t)
  BY <1>1, <1>2, <1>5 DEF IsInjective
<1>6. ASSUME Ordered(s), \A y \in ToSet(s) : y.n < x.n PROVE Ordered(t)
  BY <1>1, <1>2, <1>6 DEF Ordered
<1> QED BY <1>4, <1>5, <1>6 DEF t

LEMMA TailFacts ==
    ASSUME NEW s \in Seq(Msg), s # <<>>
    PROVE  /\ ToSet(s) = ToSet(Tail(s)) \cup {Head(s)}
           /\ Head(s) \in Msg /\ Tail(s) \in Seq(Msg)
           /\ IsInjective(s) => IsInjective(Tail(s)) /\ Head(s) \notin ToSet(Tail(s))
           /\ Ordered(s) => Ordered(Tail(s)) /\ \A y \in ToSet(Tail(s)) : Head(s).n < y.n
<1> DEFINE t == Tail(s)
           h == Head(s)
<1>1. /\ Len(s) \in Nat \ {0} /\ DOMAIN s = 1..Len(s) /\ DOMAIN t = 1..(Len(s) - 1)
      /\ h = s[1] /\ \A i \in 1..(Len(s) - 1) : t[i] = s[i + 1]
      /\ h \in Msg /\ t \in Seq(Msg)
  OBVIOUS
<1>2. \A y : y \in ToSet(s) <=> \E i \in DOMAIN s : s[i] = y
  BY DEF ToSet
<1>3. \A y : y \in ToSet(t) <=> \E i \in DOMAIN t : t[i] = y
  BY DEF ToSet
<1> HIDE DEF t, h
<1>4. ToSet(s) = ToSet(t) \cup {h}
  <2>1. ASSUME NEW y \in ToSet(s) PROVE y \in ToSet(t) \cup {h}
    <3>1. PICK i \in DOMAIN s : s[i] = y
      BY <1>2, <2>1
    <3>2. CASE i = 1
      BY <1>1, <3>1, <3>2
    <3>3. CASE i # 1
      <4>1. i - 1 \in DOMAIN t /\ t[i - 1] = y
        BY <1>1, <3>1, <3>3
      <4> QED BY <1>3, <4>1
    <3> QED BY <3>2, <3>3
  <2>2. ASSUME NEW y \in ToSet(t) \cup {h} PROVE y \in ToSet(s)
    <3>1. CASE y = h
      BY <1>1, <1>2, <3>1
    <3>2. CASE y \in ToSet(t)
      <4>1. PICK i \in DOMAIN t : t[i] = y
        BY <1>3, <3>2
      <4>2. i + 1 \in DOMAIN s /\ s[i + 1] = y
        BY <1>1, <4>1
      <4> QED BY <1>2, <4>2
    <3> QED BY <2>2, <3>1, <3>2
  <2> QED BY <2>1, <2>2
<1>5. ASSUME IsInjective(s) PROVE IsInjective(t) /\ h \notin ToSet(t)
  <2>1. \A i, j \in DOMAIN s : s[i] = s[j] => i = j
    BY <1>5 DEF IsInjective
  <2>2. \A i \in DOMAIN t : i + 1 \in DOMAIN s /\ t[i] = s[i + 1] /\ i \in Nat /\ i # 0
    BY <1>1
  <2>3. ASSUME NEW i \in DOMAIN t, NEW j \in DOMAIN t, t[i] = t[j] PROVE i = j
    <3>1. i + 1 = j + 1
      BY <2>1, <2>2, <2>3
    <3> QED BY <2>2, <3>1
  <2>4. ASSUME NEW i \in DOMAIN t, t[i] = h PROVE FALSE
    <3>1. 1 \in DOMAIN s /\ s[1] = h
      BY <1>1
    <3>2. i + 1 = 1
      BY <2>1, <2>2, <2>4, <3>1
    <3> QED BY <2>2, <3>2
  <2> QED BY <1>3, <2>3, <2>4 DEF IsInjective
<1>6. ASSUME Ordered(s) PROVE Ordered(t) /\ \A y \in ToSet(t) : h.n < y.n
  <2>1. ASSUME NEW i \in DOMAIN t, NEW j \in DOMAIN t, i < j PROVE t[i].n < t[j].n
    <3>1. i + 1 \in DOMAIN s /\ j + 1 \in DOMAIN s /\ i + 1 < j + 1
      BY <1>1, <2>1
    <3>2. t[i] = s[i + 1] /\ t[j] = s[j + 1]
      BY <1>1
    <3> QED BY <1>6, <3>1, <3>2 DEF Ordered
  <2>2. ASSUME NEW y \in ToSet(t) PROVE h.n < y.n
    <3>1. PICK i \in DOMAIN t : t[i] = y
      BY <1>3
    <3>2. 1 \in DOMAIN s /\ i + 1 \in DOMAIN s /\ 1 < i + 1 /\ s[i + 1] = y
      BY <1>1, <3>1
    <3> QED BY <1>1, <1>6, <3>2 DEF Ordered
  <2> QED BY <2>1, <2>2 DEF Ordered
<1> QED BY <1>1, <1>4, <1>5, <1>6 DEF t, h

LEMMA ShortFacts ==
    /\ ToSet(<<>>) = {} /\ IsInjective(<<>>) /\ Ordered(<<>>)
    /\ \A x : ToSet(<<x>>) = {x} /\ IsInjective(<<x>>) /\ Ordered(<<x>>)
BY DEF ToSet, IsInjective, Ordered

\* What a data step does to the places of messages
PlaceStep ==
    \/ /\ hist'.accepted = hist.accepted
       /\ \A m \in Msg : Somewhere(m)' <=> Somewhere(m)
    \/ \E c \in Clients :
          /\ hist.accepted[c] < MaxMsgs
          /\ hist'.accepted = [hist.accepted EXCEPT ![c] = @ + 1]
          /\ \A m \in Msg : Somewhere(m)' <=> Somewhere(m) \/ m = NextMsg(c)

LEMMA QueuedFacts ==
    ASSUME TypeOK, NEW c \in Clients, FindTxQ(c) # 0
    PROVE  /\ FindTxQ(c) \in DOMAIN tx_q
           /\ Queued(c) = tx_q[FindTxQ(c)].bufs
           /\ Queued(c) \in Seq(Msg)
           /\ ToSet(Queued(c)) = Bufs(FindTxQ(c))
BY FindDest, QueuedType DEF Queued, Bufs

\* What the shapes of the queues say of their messages
LEMMA ChangedBufs ==
    ASSUME NEW p, NEW b, NEW v, Changed(p, b, v)
    PROVE  /\ DOMAIN tx_q' = DOMAIN tx_q /\ p \in DOMAIN tx_q
           /\ \A k \in DOMAIN tx_q : tx_q'[k].dest_addr = tx_q[k].dest_addr
           /\ \A k \in DOMAIN tx_q : k # p => tx_q'[k].bufs = tx_q[k].bufs /\ Bufs(k)' = Bufs(k)
           /\ tx_q'[p].bufs = b /\ Bufs(p)' = ToSet(b)
BY DEF Changed, Bufs

LEMMA OpenedBufs ==
    ASSUME TypeOK, NEW ptr, NEW b, Opened(ptr, b)
    PROVE  /\ Len(tx_q) + 1 \notin DOMAIN tx_q
           /\ DOMAIN tx_q' = DOMAIN tx_q \cup {Len(tx_q) + 1}
           /\ \A k \in DOMAIN tx_q : tx_q'[k] = tx_q[k] /\ Bufs(k)' = Bufs(k)
           /\ tx_q'[Len(tx_q) + 1].dest_addr = ptr
           /\ tx_q'[Len(tx_q) + 1].bufs = b
<1>1. DOMAIN tx_q = 1..Len(tx_q) /\ Len(tx_q) \in Nat
  BY DEF TypeOK
<1> DEFINE n == Len(tx_q) + 1
<1>2. n \notin DOMAIN tx_q /\ DOMAIN tx_q' = DOMAIN tx_q \cup {n}
  BY <1>1 DEF Opened
<1>3. tx_q'[n] = [dest_addr |-> ptr, bufs |-> b, dest_busy |-> FALSE]
  BY DEF Opened
<1>4. \A k \in DOMAIN tx_q : tx_q'[k] = tx_q[k]
  BY DEF Opened
<1> HIDE DEF n
<1>5. /\ \A k \in DOMAIN tx_q : Bufs(k)' = Bufs(k)
      /\ tx_q'[n].dest_addr = ptr /\ tx_q'[n].bufs = b
  BY <1>3, <1>4 DEF Bufs
<1> QED BY <1>2, <1>4, <1>5 DEF n

Was(p, k) == IF k < p THEN k ELSE k + 1

LEMMA RemovedBufs ==
    ASSUME TypeOK, NEW p, Removed(p)
    PROVE  /\ \A k \in DOMAIN tx_q' : /\ Was(p, k) \in DOMAIN tx_q \ {p}
                                      /\ tx_q'[k] = tx_q[Was(p, k)]
                                      /\ Bufs(k)' = Bufs(Was(p, k))
           /\ \A l \in DOMAIN tx_q \ {p} : \E k \in DOMAIN tx_q' : l = Was(p, k)
           /\ \A k, l \in DOMAIN tx_q' : Was(p, k) = Was(p, l) => k = l
<1>1. DOMAIN tx_q = 1..Len(tx_q) /\ Len(tx_q) \in Nat /\ p \in 1..Len(tx_q)
      /\ DOMAIN tx_q' = 1..(Len(tx_q) - 1)
  BY DEF TypeOK, Removed
<1>2. \A k \in DOMAIN tx_q' : /\ Was(p, k) \in DOMAIN tx_q \ {p}
                              /\ tx_q'[k] = tx_q[Was(p, k)]
                              /\ Bufs(k)' = Bufs(Was(p, k))
  BY <1>1 DEF Removed, Was, Bufs
<1>3. ASSUME NEW l \in DOMAIN tx_q \ {p} PROVE \E k \in DOMAIN tx_q' : l = Was(p, k)
  <2>1. CASE l < p
    <3>1. l \in DOMAIN tx_q' /\ l = Was(p, l)
      BY <1>1, <2>1 DEF Was
    <3> QED BY <3>1
  <2>2. CASE ~(l < p)
    <3>1. l - 1 \in DOMAIN tx_q' /\ l = Was(p, l - 1)
      BY <1>1, <1>3, <2>2 DEF Was
    <3> QED BY <3>1
  <2> QED BY <2>1, <2>2
<1>4. \A k, l \in DOMAIN tx_q' : Was(p, k) = Was(p, l) => k = l
  BY <1>1 DEF Was
<1> QED BY <1>2, <1>3, <1>4

\* Each data step moves messages between places, or adds one that was accepted.
LEMMA PlaceSteps == ASSUME TypeOK, DataStep PROVE PlaceStep
<1> DEFINE InBox(m) == \E c \in Clients : m \in Box(c)
           InBufs(m) == \E k \in DOMAIN tx_q : m \in Bufs(k)
<1>0. \A m : Somewhere(m) <=> InBox(m) \/ InBufs(m) \/ m \in hist.lost
  BY DEF Somewhere
<1>1. \A m : Somewhere(m)' <=> InBox(m)' \/ InBufs(m)' \/ m \in hist'.lost
  BY DEF Somewhere
<1>2. (inbox' = inbox) => \A m : InBox(m)' <=> InBox(m)
  BY DEF Box
<1>3. (tx_q' = tx_q) => \A m : InBufs(m)' <=> InBufs(m)
  BY DEF Bufs
<1>4. CASE Quiet
  BY <1>0, <1>1, <1>2, <1>3, <1>4 DEF Quiet, CountsNothing, PlaceStep
<1>5. CASE Clears
  <2>1. \A m : m \in hist'.lost <=> InBufs(m) \/ m \in hist.lost
    BY <1>5 DEF Clears, Loses, Bufs
  <2>2. \A m : ~InBufs(m)'
    BY <1>5 DEF Clears
  <2>3. hist'.accepted = hist.accepted /\ inbox' = inbox
    BY <1>5 DEF Clears, Loses
  <2> QED BY <1>0, <1>1, <1>2, <2>1, <2>2, <2>3 DEF PlaceStep
<1>6. ASSUME NEW c \in Clients, NEW v \in BOOLEAN, Marks(c, v) PROVE PlaceStep
  <2>1. \A m : InBufs(m)' <=> InBufs(m)
    <3> DEFINE p == FindTxQ(c)
    <3>1. Changed(p, tx_q[p].bufs, v)
      BY <1>6 DEF Marks
    <3> HIDE DEF p
    <3>2. DOMAIN tx_q' = DOMAIN tx_q /\ \A k \in DOMAIN tx_q : Bufs(k)' = Bufs(k)
      BY <3>1, ChangedBufs DEF Bufs
    <3> QED BY <3>2
  <2> QED BY <1>0, <1>1, <1>2, <1>6, <2>1 DEF Marks, CountsNothing, PlaceStep
<1>7. ASSUME NEW c \in Clients, Enqueues(c) PROVE PlaceStep
  <2> DEFINE p == FindTxQ(c)
             b == Append(Queued(c), NextMsg(c))
  <2>1. p \in DOMAIN tx_q /\ ToSet(b) = Bufs(p) \cup {NextMsg(c)}
    BY <1>7, QueuedFacts, NextMsgType, AppendFacts DEF Enqueues, Counts
  <2>2. Changed(p, b, tx_q[p].dest_busy)
    BY <1>7 DEF Enqueues
  <2> HIDE DEF p, b
  <2>3. \A m : InBufs(m)' <=> InBufs(m) \/ m = NextMsg(c)
    BY <2>1, <2>2, ChangedBufs
  <2> QED BY <1>0, <1>1, <1>2, <1>7, <2>3 DEF Enqueues, Counts, PlaceStep
<1>8. ASSUME NEW c \in Clients, Passes(c) PROVE PlaceStep
  <2>1. inbox \in [Clients -> Seq(Msg)] /\ NextMsg(c) \in Msg
    BY <1>8, NextMsgType DEF TypeOK, Passes, Counts
  <2>2. Box(c)' = Box(c) \cup {NextMsg(c)} /\ \A d \in Clients : d # c => Box(d)' = Box(d)
    BY <1>8, <2>1, AppendFacts DEF Passes, Box
  <2>3. \A m : InBox(m)' <=> InBox(m) \/ m = NextMsg(c)
    BY <2>2
  <2> QED BY <1>0, <1>1, <1>3, <1>8, <2>3 DEF Passes, Counts, PlaceStep
<1>9. ASSUME NEW c \in Clients, Sends(c) PROVE PlaceStep
  <2> DEFINE p == FindTxQ(c)
             b == Tail(Queued(c))
             h == Head(Queued(c))
  <2>1. p \in DOMAIN tx_q /\ Bufs(p) = ToSet(b) \cup {h} /\ h \in Msg
    BY <1>9, QueuedFacts, TailFacts DEF Sends
  <2>2. Changed(p, b, tx_q[p].dest_busy)
    BY <1>9 DEF Sends
  <2>3. \/ inbox' = [inbox EXCEPT ![c] = Append(@, h)] /\ CountsNothing
        \/ inbox' = inbox /\ Loses({h})
    BY <1>9 DEF Sends
  <2> HIDE DEF p, b, h
  <2>4. \A m : InBufs(m)' \/ m = h <=> InBufs(m)
    BY <2>1, <2>2, ChangedBufs
  <2>5. CASE inbox' = [inbox EXCEPT ![c] = Append(@, h)] /\ CountsNothing
    <3>1. Box(c)' = Box(c) \cup {h} /\ \A d \in Clients : d # c => Box(d)' = Box(d)
      BY <2>1, <2>5, AppendFacts DEF TypeOK, Box
    <3>2. \A m : InBox(m)' <=> InBox(m) \/ m = h
      BY <3>1
    <3> QED BY <1>0, <1>1, <2>4, <2>5, <3>2 DEF CountsNothing, PlaceStep
  <2>6. CASE inbox' = inbox /\ Loses({h})
    BY <1>0, <1>1, <1>2, <2>4, <2>6 DEF Loses, PlaceStep
  <2> QED BY <2>3, <2>5, <2>6
<1>10. ASSUME NEW c \in Clients, Removes(c) PROVE PlaceStep
  <2> DEFINE p == FindTxQ(c)
  <2>1. p \in DOMAIN tx_q /\ Removed(p) /\ Loses(Bufs(p)) /\ inbox' = inbox
    BY <1>10, QueuedFacts DEF Removes
  <2> HIDE DEF p
  <2>2. \A m : InBufs(m)' \/ m \in Bufs(p) <=> InBufs(m)
    BY <2>1, RemovedBufs
  <2> QED BY <1>0, <1>1, <1>2, <2>1, <2>2 DEF Loses, PlaceStep
<1>11. ASSUME NEW c \in Clients, NEW ptr, Opens(c, ptr) PROVE PlaceStep
  <2> DEFINE n == Len(tx_q) + 1
  <2>0. ASSUME NEW b, Opened(ptr, b)
        PROVE  \A m : InBufs(m)' <=> InBufs(m) \/ m \in ToSet(b)
    <3>1. /\ DOMAIN tx_q' = DOMAIN tx_q \cup {n}
          /\ \A k \in DOMAIN tx_q : Bufs(k)' = Bufs(k)
          /\ tx_q'[n].bufs = b
      BY <2>0, OpenedBufs
    <3> HIDE DEF n
    <3>2. \A m : InBufs(m)' <=> \E k \in DOMAIN tx_q' : m \in ToSet(tx_q'[k].bufs)
      BY DEF Bufs
    <3>3. \A k \in DOMAIN tx_q : ToSet(tx_q'[k].bufs) = Bufs(k)
      BY <3>1 DEF Bufs
    <3> QED BY <3>1, <3>2, <3>3
  <2>1. CASE Opened(ptr, <<NextMsg(c)>>) /\ Counts(c)
    <3>0. ToSet(<<NextMsg(c)>>) = {NextMsg(c)}
      BY ShortFacts
    <3>1. \A m : InBufs(m)' <=> InBufs(m) \/ m = NextMsg(c)
      BY <2>0, <2>1, <3>0
    <3>2. inbox' = inbox /\ hist'.lost = hist.lost
      BY <1>11, <2>1 DEF Opens, Counts
    <3>3. \A m : Somewhere(m)' <=> Somewhere(m) \/ m = NextMsg(c)
      BY <1>0, <1>1, <1>2, <3>1, <3>2
    <3> QED BY <2>1, <3>3 DEF Counts, PlaceStep
  <2>2. CASE Opened(ptr, <<>>) /\ CountsNothing
    <3>0. ToSet(<<>>) = {}
      BY ShortFacts
    <3>1. \A m : InBufs(m)' <=> InBufs(m)
      BY <2>0, <2>2, <3>0
    <3>2. inbox' = inbox /\ hist'.lost = hist.lost
      BY <1>11, <2>2 DEF Opens, CountsNothing
    <3>3. \A m : Somewhere(m)' <=> Somewhere(m)
      BY <1>0, <1>1, <1>2, <3>1, <3>2
    <3> QED BY <2>2, <3>3 DEF CountsNothing, PlaceStep
  <2> QED BY <1>11, <2>1, <2>2 DEF Opens
<1> QED BY <1>4, <1>5, <1>6, <1>7, <1>8, <1>9, <1>10, <1>11 DEF DataStep

\* What is somewhere is what was accepted.
LEMMA AcceptedStep == ASSUME TypeOK, AcceptedInv, DataStep PROVE AcceptedInv'
<1>1. hist.accepted \in [Clients -> 0..MaxMsgs]
  BY DEF TypeOK
<1>2. CASE /\ hist'.accepted = hist.accepted
           /\ \A m \in Msg : Somewhere(m)' <=> Somewhere(m)
  BY <1>2 DEF AcceptedInv
<1>3. ASSUME NEW c \in Clients,
             hist'.accepted = [hist.accepted EXCEPT ![c] = @ + 1],
             \A m \in Msg : Somewhere(m)' <=> Somewhere(m) \/ m = NextMsg(c)
      PROVE  AcceptedInv'
  <2>1. ASSUME NEW m \in Msg PROVE m.n <= hist'.accepted[m.to] <=> m.n <= hist.accepted[m.to] \/ m = NextMsg(c)
    <3>1. m.n \in Nat /\ m.to \in Clients /\ hist.accepted[m.to] \in Nat
      BY <1>1, BoundsAssumption DEF Msg
    <3>2. m = NextMsg(c) <=> m.to = c /\ m.n = hist.accepted[c] + 1
      BY DEF Msg, NextMsg
    <3>3. CASE m.to = c
      <4>1. hist'.accepted[m.to] = hist.accepted[c] + 1
        BY <1>1, <1>3, <3>3
      <4> QED BY <3>1, <3>2, <3>3, <4>1
    <3>4. CASE m.to # c
      <4>1. hist'.accepted[m.to] = hist.accepted[m.to]
        BY <1>1, <1>3, <3>1, <3>4
      <4> QED BY <3>2, <3>4, <4>1
    <3> QED BY <3>3, <3>4
  <2> QED BY <1>3, <2>1 DEF AcceptedInv
<1> QED BY <1>2, <1>3, PlaceSteps DEF PlaceStep

-----------------------------------------------------------------------------
(* No message is in two places.                                              *)

\* The message that would be accepted next is nowhere yet.
LEMMA NextIsNew ==
    ASSUME TypeOK, AcceptedInv, NEW c \in Clients, hist.accepted[c] < MaxMsgs
    PROVE  NextMsg(c) \in Msg /\ ~Somewhere(NextMsg(c))
<1>1. NextMsg(c) \in Msg
  BY NextMsgType
<1>2. NextMsg(c).n = hist.accepted[c] + 1 /\ NextMsg(c).to = c /\ hist.accepted[c] \in Nat
  BY BoundsAssumption DEF NextMsg, TypeOK
<1> QED BY <1>1, <1>2 DEF AcceptedInv

\* What OnceInv says when the contents of boxes, queues and the lost are given
Apart(m) ==
    /\ \A c, d \in Clients : m \in Box(c) /\ m \in Box(d) => c = d
    /\ \A k, l \in DOMAIN tx_q : m \in Bufs(k) /\ m \in Bufs(l) => k = l
    /\ \A c \in Clients : m \in Box(c) =>
          m \notin hist.lost /\ \A k \in DOMAIN tx_q : m \notin Bufs(k)
    /\ \A k \in DOMAIN tx_q : m \in Bufs(k) => m \notin hist.lost

LEMMA OnceParts ==
    OnceInv <=> /\ \A c \in Clients : IsInjective(inbox[c])
                /\ \A k \in DOMAIN tx_q : IsInjective(tx_q[k].bufs)
                /\ \A m \in Msg : Apart(m)
BY DEF OnceInv, Apart

\* No data step puts a message in a second place.
LEMMA OnceStep == ASSUME TypeOK, AcceptedInv, OnceInv, DataStep PROVE OnceInv'
<1>0. /\ inbox \in [Clients -> Seq(Msg)]
      /\ \A c \in Clients : IsInjective(inbox[c])
      /\ \A k \in DOMAIN tx_q : IsInjective(tx_q[k].bufs)
      /\ \A m \in Msg : Apart(m)
  BY OnceParts DEF TypeOK
<1>00. /\ \A c \in Clients : IsInjective(inbox'[c])
       /\ \A k \in DOMAIN tx_q' : IsInjective(tx_q'[k].bufs)
       /\ \A m \in Msg : Apart(m)'
       => OnceInv'
  BY DEF OnceInv, Apart
<1>1. (inbox' = inbox) => \A d \in Clients : Box(d)' = Box(d)
  BY DEF Box
<1>2. (tx_q' = tx_q) => \A k \in DOMAIN tx_q : Bufs(k)' = Bufs(k)
  BY DEF Bufs
<1>3. CASE Quiet
  BY <1>0, <1>00, <1>1, <1>2, <1>3 DEF Quiet, CountsNothing, Apart
<1>4. CASE Clears
  <2>1. \A m : m \in hist'.lost <=> (\E k \in DOMAIN tx_q : m \in Bufs(k)) \/ m \in hist.lost
    BY <1>4 DEF Clears, Loses, Bufs
  <2>2. DOMAIN tx_q' = {} /\ inbox' = inbox
    BY <1>4 DEF Clears
  <2> QED BY <1>0, <1>00, <1>1, <2>1, <2>2 DEF Apart
<1>5. ASSUME NEW c \in Clients, NEW v \in BOOLEAN, Marks(c, v) PROVE OnceInv'
  <2> DEFINE p == FindTxQ(c)
  <2>1. Changed(p, tx_q[p].bufs, v)
    BY <1>5 DEF Marks
  <2> HIDE DEF p
  <2>2. DOMAIN tx_q' = DOMAIN tx_q
        /\ \A k \in DOMAIN tx_q : Bufs(k)' = Bufs(k) /\ tx_q'[k].bufs = tx_q[k].bufs
    BY <2>1, ChangedBufs DEF Bufs
  <2>3. inbox' = inbox /\ hist'.lost = hist.lost
    BY <1>5 DEF Marks, CountsNothing
  <2> QED BY <1>0, <1>00, <1>1, <2>2, <2>3 DEF Apart
<1>6. ASSUME NEW c \in Clients, Enqueues(c) PROVE OnceInv'
  <2>0. PICK p \in DOMAIN tx_q : p = FindTxQ(c)
    BY <1>6, QueuedFacts DEF Enqueues
  <2> DEFINE x == NextMsg(c)
             b == Append(tx_q[p].bufs, x)
  <2>1. x \in Msg /\ ~Somewhere(x)
    BY <1>6, NextIsNew DEF Enqueues, Counts
  <2>2. tx_q[p].bufs \in Seq(Msg) /\ Bufs(p) = ToSet(tx_q[p].bufs)
    BY <1>6, <2>0, QueuedFacts DEF Enqueues
  <2>3. Changed(p, b, tx_q[p].dest_busy) /\ inbox' = inbox /\ hist'.lost = hist.lost
    BY <1>6, <2>0, QueuedFacts DEF Enqueues, Counts
  <2> HIDE DEF x
  <2>4. x \notin Bufs(p)
    BY <2>1, <2>2 DEF Somewhere
  <2>5. ToSet(b) = Bufs(p) \cup {x} /\ IsInjective(b)
    BY <1>0, <2>1, <2>2, <2>4, AppendFacts
  <2> HIDE DEF b
  <2>6. /\ DOMAIN tx_q' = DOMAIN tx_q
        /\ \A k \in DOMAIN tx_q : k # p => Bufs(k)' = Bufs(k) /\ tx_q'[k].bufs = tx_q[k].bufs
        /\ Bufs(p)' = Bufs(p) \cup {x} /\ tx_q'[p].bufs = b
    BY <2>3, <2>5, ChangedBufs
  <2>7. \A k \in DOMAIN tx_q' : IsInjective(tx_q'[k].bufs)
    BY <1>0, <2>5, <2>6
  <2>8. ASSUME NEW m \in Msg PROVE Apart(m)'
    <3>1. CASE m = x
      BY <1>1, <2>1, <2>3, <2>6, <3>1 DEF Apart, Somewhere
    <3>2. CASE m # x
      <4>1. \A k \in DOMAIN tx_q : m \in Bufs(k)' <=> m \in Bufs(k)
        BY <2>6, <3>2
      <4> QED BY <1>0, <1>1, <2>3, <2>6, <4>1 DEF Apart
    <3> QED BY <3>1, <3>2
  <2> QED BY <1>0, <1>00, <2>3, <2>7, <2>8
<1>7. ASSUME NEW c \in Clients, Passes(c) PROVE OnceInv'
  <2> DEFINE x == NextMsg(c)
  <2>1. x \in Msg /\ ~Somewhere(x)
    BY <1>7, NextIsNew DEF Passes, Counts
  <2>2. tx_q' = tx_q /\ inbox' = [inbox EXCEPT ![c] = Append(@, x)] /\ hist'.lost = hist.lost
    BY <1>7 DEF Passes, Counts
  <2> HIDE DEF x
  <2>3. x \notin Box(c)
    BY <2>1 DEF Somewhere
  <2>4. ToSet(Append(inbox[c], x)) = Box(c) \cup {x} /\ IsInjective(Append(inbox[c], x))
    BY <1>0, <2>1, <2>3, AppendFacts DEF Box
  <2>5. /\ inbox'[c] = Append(inbox[c], x)
        /\ \A d \in Clients : d # c => inbox'[d] = inbox[d]
    BY <1>0, <2>2
  <2>6. Box(c)' = Box(c) \cup {x} /\ \A d \in Clients : d # c => Box(d)' = Box(d)
    BY <2>4, <2>5 DEF Box
  <2>7. \A d \in Clients : IsInjective(inbox'[d])
    BY <1>0, <2>4, <2>5
  <2>8. ASSUME NEW m \in Msg PROVE Apart(m)'
    <3>1. CASE m = x
      BY <1>2, <2>1, <2>2, <2>6, <3>1 DEF Apart, Somewhere
    <3>2. CASE m # x
      <4>1. \A d \in Clients : m \in Box(d)' <=> m \in Box(d)
        BY <2>6, <3>2
      <4> QED BY <1>0, <1>2, <2>2, <4>1 DEF Apart
    <3> QED BY <3>1, <3>2
  <2> QED BY <1>0, <1>00, <2>2, <2>7, <2>8
<1>8. ASSUME NEW c \in Clients, Sends(c) PROVE OnceInv'
  <2>0. PICK p \in DOMAIN tx_q : p = FindTxQ(c)
    BY <1>8, QueuedFacts DEF Sends
  <2> DEFINE b == Tail(tx_q[p].bufs)
             h == Head(tx_q[p].bufs)
  <2>1. p \in DOMAIN tx_q /\ tx_q[p].bufs \in Seq(Msg) /\ tx_q[p].bufs # <<>>
        /\ Bufs(p) = ToSet(tx_q[p].bufs)
    BY <1>8, <2>0, QueuedFacts DEF Sends
  <2>2. Changed(p, b, tx_q[p].dest_busy)
    BY <1>8, <2>0, QueuedFacts DEF Sends
  <2>3. \/ inbox' = [inbox EXCEPT ![c] = Append(@, h)] /\ hist'.lost = hist.lost
        \/ inbox' = inbox /\ hist'.lost = hist.lost \cup {h}
    BY <1>8, <2>0, QueuedFacts DEF Sends, CountsNothing, Loses
  <2>4. Bufs(p) = ToSet(b) \cup {h} /\ h \in Msg /\ IsInjective(b) /\ h \notin ToSet(b)
    BY <1>0, <2>1, TailFacts
  <2> HIDE DEF b, h
  <2>5. /\ DOMAIN tx_q' = DOMAIN tx_q
        /\ \A k \in DOMAIN tx_q : k # p => Bufs(k)' = Bufs(k) /\ tx_q'[k].bufs = tx_q[k].bufs
        /\ Bufs(p)' = ToSet(b) /\ tx_q'[p].bufs = b
    BY <2>2, ChangedBufs
  <2>6. \A k \in DOMAIN tx_q' : IsInjective(tx_q'[k].bufs)
    BY <1>0, <2>4, <2>5
  <2>7. \A m : \A k \in DOMAIN tx_q : m \in Bufs(k)' => m \in Bufs(k)
    BY <2>4, <2>5
  <2>8. \A k \in DOMAIN tx_q : h \notin Bufs(k)'
    <3>1. h \in Bufs(p) /\ Apart(h)
      BY <1>0, <2>4
    <3>2. \A k \in DOMAIN tx_q : k # p => h \notin Bufs(k)
      BY <2>1, <3>1 DEF Apart
    <3> QED BY <2>4, <2>5, <3>2
  <2>9. h \notin hist.lost /\ \A d \in Clients : h \notin Box(d)
    BY <1>0, <2>1, <2>4 DEF Apart
  <2>10. CASE inbox' = [inbox EXCEPT ![c] = Append(@, h)] /\ hist'.lost = hist.lost
    <3>1. /\ inbox'[c] = Append(inbox[c], h)
          /\ \A d \in Clients : d # c => inbox'[d] = inbox[d]
      BY <1>0, <2>10
    <3>2. ToSet(Append(inbox[c], h)) = Box(c) \cup {h} /\ IsInjective(Append(inbox[c], h))
      BY <1>0, <2>4, <2>9, AppendFacts DEF Box
    <3>3. Box(c)' = Box(c) \cup {h} /\ \A d \in Clients : d # c => Box(d)' = Box(d)
      BY <3>1, <3>2 DEF Box
    <3>4. \A d \in Clients : IsInjective(inbox'[d])
      BY <1>0, <3>1, <3>2
    <3>5. ASSUME NEW m \in Msg PROVE Apart(m)'
      <4>1. CASE m = h
        BY <2>5, <2>8, <2>9, <2>10, <3>3, <4>1 DEF Apart
      <4>2. CASE m # h
        <5>1. \A d \in Clients : m \in Box(d)' <=> m \in Box(d)
          BY <3>3, <4>2
        <5> QED BY <1>0, <2>5, <2>7, <2>10, <5>1 DEF Apart
      <4> QED BY <4>1, <4>2
    <3> QED BY <1>00, <2>6, <3>4, <3>5
  <2>11. CASE inbox' = inbox /\ hist'.lost = hist.lost \cup {h}
    <3>1. ASSUME NEW m \in Msg PROVE Apart(m)'
      <4>1. CASE m = h
        BY <1>1, <2>5, <2>8, <2>9, <2>11, <4>1 DEF Apart
      <4>2. CASE m # h
        <5>1. m \in hist'.lost <=> m \in hist.lost
          BY <2>11, <4>2
        <5> QED BY <1>0, <1>1, <2>5, <2>7, <2>11, <5>1 DEF Apart
      <4> QED BY <4>1, <4>2
    <3> QED BY <1>0, <1>00, <2>6, <2>11, <3>1
  <2> QED BY <2>3, <2>10, <2>11
<1>9. ASSUME NEW c \in Clients, Removes(c) PROVE OnceInv'
  <2> DEFINE p == FindTxQ(c)
  <2>1. p \in DOMAIN tx_q /\ Removed(p) /\ hist'.lost = hist.lost \cup Bufs(p) /\ inbox' = inbox
    BY <1>9, QueuedFacts DEF Removes, Loses
  <2> HIDE DEF p
  <2>2. /\ \A k \in DOMAIN tx_q' : /\ Was(p, k) \in DOMAIN tx_q \ {p}
                                   /\ tx_q'[k].bufs = tx_q[Was(p, k)].bufs
                                   /\ Bufs(k)' = Bufs(Was(p, k))
        /\ \A k, l \in DOMAIN tx_q' : Was(p, k) = Was(p, l) => k = l
    BY <2>1, RemovedBufs
  <2>3. \A k \in DOMAIN tx_q' : IsInjective(tx_q'[k].bufs)
    BY <1>0, <2>2
  <2>4. ASSUME NEW m \in Msg PROVE Apart(m)'
    <3>1. Apart(m)
      BY <1>0
    <3>2. \A d \in Clients : m \in Box(d)' => m \notin hist'.lost /\ \A k \in DOMAIN tx_q' : m \notin Bufs(k)'
      BY <1>1, <2>1, <2>2, <3>1 DEF Apart
    <3>3. \A d, e \in Clients : m \in Box(d)' /\ m \in Box(e)' => d = e
      BY <1>1, <2>1, <3>1 DEF Apart
    <3>4. \A k, l \in DOMAIN tx_q' : m \in Bufs(k)' /\ m \in Bufs(l)' => k = l
      BY <2>2, <3>1 DEF Apart
    <3>5. \A k \in DOMAIN tx_q' : m \in Bufs(k)' => m \notin hist'.lost
      BY <2>1, <2>2, <3>1 DEF Apart
    <3> QED BY <3>2, <3>3, <3>4, <3>5 DEF Apart
  <2> QED BY <1>0, <1>00, <2>1, <2>3, <2>4
<1>10. ASSUME NEW c \in Clients, NEW ptr, Opens(c, ptr) PROVE OnceInv'
  <2> DEFINE n == Len(tx_q) + 1
             x == NextMsg(c)
  <2>1. ASSUME NEW b \in {<<>>, <<x>>}, Opened(ptr, b), b = <<x>> => x \in Msg /\ ~Somewhere(x),
               hist'.lost = hist.lost, inbox' = inbox
        PROVE  OnceInv'
    <3>1. /\ n \notin DOMAIN tx_q /\ DOMAIN tx_q' = DOMAIN tx_q \cup {n}
          /\ \A k \in DOMAIN tx_q : tx_q'[k] = tx_q[k] /\ Bufs(k)' = Bufs(k)
          /\ tx_q'[n].bufs = b
      BY <2>1, OpenedBufs
    <3>2. ToSet(b) \subseteq {x} /\ IsInjective(b) /\ (b = <<>> => ToSet(b) = {})
      BY <2>1, ShortFacts
    <3> HIDE DEF n, x
    <3>3. \A k \in DOMAIN tx_q' : IsInjective(tx_q'[k].bufs)
      BY <1>0, <3>1, <3>2
    <3>4. \A m : m \in ToSet(b) => m = x /\ ~Somewhere(x)
      BY <2>1, <3>2
    <3>5. ASSUME NEW m \in Msg PROVE Apart(m)'
      <4>1. Apart(m)
        BY <1>0
      <4>2. \A k \in DOMAIN tx_q' : m \in Bufs(k)' <=> IF k = n THEN m \in ToSet(b) ELSE m \in Bufs(k)
        BY <3>1 DEF Bufs
      <4>3. m \in ToSet(b) => ~Somewhere(m)
        BY <3>4
      <4>4. m \in ToSet(b) => /\ \A k \in DOMAIN tx_q : m \notin Bufs(k)
                              /\ \A d \in Clients : m \notin Box(d)
                              /\ m \notin hist.lost
        BY <4>3 DEF Somewhere
      <4> QED BY <1>1, <2>1, <3>1, <4>1, <4>2, <4>4 DEF Apart
    <3> QED BY <1>0, <1>00, <2>1, <3>3, <3>5
  <2>2. CASE Opened(ptr, <<NextMsg(c)>>) /\ Counts(c)
    <3>1. x \in Msg /\ ~Somewhere(x)
      BY <2>2, NextIsNew DEF Counts
    <3> QED BY <1>10, <2>1, <2>2, <3>1 DEF Opens, Counts
  <2>3. CASE Opened(ptr, <<>>) /\ CountsNothing
    <3>1. <<>> # <<x>>
      OBVIOUS
    <3> QED BY <1>10, <2>1, <2>3, <3>1 DEF Opens, CountsNothing
  <2> QED BY <1>10, <2>2, <2>3 DEF Opens
<1> QED BY <1>3, <1>4, <1>5, <1>6, <1>7, <1>8, <1>9, <1>10 DEF DataStep

-----------------------------------------------------------------------------
(* Destinations, and the order of what waits and what was received.          *)

OwnFacts ==
    TypeOK /\ StackInv /\ ~hist.stacked =>
        \A c \in Clients :
            /\ FindTxQ(c) # 0 => tx_q[FindTxQ(c)].dest_addr = c
            /\ FindTxQ(c) = 0 => \A k \in DOMAIN tx_q : tx_q[k].dest_addr # c

LEMMA OwnQueue == OwnFacts
<1> SUFFICES ASSUME TypeOK, StackInv, ~hist.stacked, NEW c \in Clients
             PROVE  /\ FindTxQ(c) # 0 => tx_q[FindTxQ(c)].dest_addr = c
                    /\ FindTxQ(c) = 0 => \A k \in DOMAIN tx_q : tx_q[k].dest_addr # c
  BY DEF OwnFacts
<1>1. \A k \in DOMAIN tx_q : Value(tx_q[k].dest_addr) = tx_q[k].dest_addr
  BY AddressAssumption DEF StackInv, Value
<1>2. /\ FindTxQ(c) # 0 => /\ FindTxQ(c) \in DOMAIN tx_q
                           /\ Value(tx_q[FindTxQ(c)].dest_addr) = c
      /\ FindTxQ(c) = 0 => \A k \in DOMAIN tx_q : Value(tx_q[k].dest_addr) # c
  BY FindFound DEF FindFacts
<1> QED BY <1>1, <1>2

LEMMA OwnQueueNext == OwnFacts'
BY OwnQueue, PTL

\* Destinations: theirs are the addresses of clients, each once.
LEMMA DestsStep ==
    ASSUME TypeOK, StackInv, DestInv, DataStep
    PROVE  StackInv' /\ DestInv'
<1> SUFFICES ASSUME ~hist'.stacked
             PROVE  /\ \A k \in DOMAIN tx_q' : tx_q'[k].dest_addr \in Clients
                    /\ \A k, l \in DOMAIN tx_q' : tx_q'[k].dest_addr = tx_q'[l].dest_addr => k = l
  BY DEF StackInv, DestInv
<1>1. ~hist.stacked
  BY DEF DataStep, StackNoted
<1>2. /\ \A k \in DOMAIN tx_q : tx_q[k].dest_addr \in Clients
      /\ \A k, l \in DOMAIN tx_q : tx_q[k].dest_addr = tx_q[l].dest_addr => k = l
  BY <1>1 DEF StackInv, DestInv
<1> DEFINE Goal == /\ \A k \in DOMAIN tx_q' : tx_q'[k].dest_addr \in Clients
                   /\ \A k, l \in DOMAIN tx_q' : tx_q'[k].dest_addr = tx_q'[l].dest_addr => k = l
<1>3. ASSUME DOMAIN tx_q' = DOMAIN tx_q,
             \A k \in DOMAIN tx_q : tx_q'[k].dest_addr = tx_q[k].dest_addr
      PROVE  Goal
  BY <1>2, <1>3
<1>4. CASE Quiet
  BY <1>3, <1>4 DEF Quiet
<1>5. CASE Clears
  BY <1>5 DEF Clears
<1>6. ASSUME NEW p, NEW b, NEW v, Changed(p, b, v) PROVE Goal
  BY <1>3, <1>6, ChangedBufs
<1>7. ASSUME NEW c \in Clients, Passes(c) PROVE Goal
  BY <1>3, <1>7 DEF Passes
<1>8. ASSUME NEW p, Removed(p) PROVE Goal
  <2>1. /\ \A k \in DOMAIN tx_q' : /\ Was(p, k) \in DOMAIN tx_q \ {p}
                                   /\ tx_q'[k] = tx_q[Was(p, k)]
        /\ \A k, l \in DOMAIN tx_q' : Was(p, k) = Was(p, l) => k = l
    BY <1>8, RemovedBufs
  <2> QED BY <1>2, <2>1
<1>9. ASSUME NEW c \in Clients, NEW ptr \in {c, Stack}, Opens(c, ptr) PROVE Goal
  <2>1. ptr = c /\ \A k \in DOMAIN tx_q : tx_q[k].dest_addr # c
    BY <1>1, <1>9, OwnQueue DEF Opens, OwnFacts
  <2> DEFINE n == Len(tx_q) + 1
  <2>2. /\ n \notin DOMAIN tx_q /\ DOMAIN tx_q' = DOMAIN tx_q \cup {n}
        /\ \A k \in DOMAIN tx_q : tx_q'[k] = tx_q[k]
        /\ tx_q'[n].dest_addr = ptr
    BY <1>9, OpenedBufs DEF Opens
  <2> HIDE DEF n
  <2> QED BY <1>2, <2>1, <2>2
<1> HIDE DEF Goal
<1>10. ASSUME NEW c \in Clients,
              (\E v \in BOOLEAN : Marks(c, v)) \/ Enqueues(c) \/ Sends(c) \/ Removes(c)
       PROVE  Goal
  BY <1>6, <1>8, <1>10 DEF Marks, Enqueues, Sends, Removes
<1> QED BY <1>4, <1>5, <1>7, <1>9, <1>10 DEF DataStep, Goal

AtHome ==
    /\ \A c \in Clients : \A m \in Box(c) : m.to = c
    /\ \A k \in DOMAIN tx_q : \A m \in Bufs(k) : m.to = tx_q[k].dest_addr

InOrder ==
    /\ \A c \in Clients : Ordered(inbox[c])
    /\ \A k \in DOMAIN tx_q :
          /\ Ordered(tx_q[k].bufs)
          /\ \A x \in Box(tx_q[k].dest_addr), y \in Bufs(k) : x.n < y.n

\* What is somewhere was accepted before the next message.
LEMMA NextIsLater ==
    ASSUME TypeOK, AcceptedInv, NEW c \in Clients, NEW m, Somewhere(m), m.to = c, m \in Msg
    PROVE  m.n < NextMsg(c).n
<1>1. hist.accepted[c] \in Nat /\ m.n \in Nat /\ m.n <= hist.accepted[c]
  BY BoundsAssumption DEF AcceptedInv, TypeOK, Msg
<1> QED BY <1>1 DEF NextMsg

\* Data steps keep messages with their addressee and in order.
LEMMA OrderStep ==
    ASSUME TypeOK, StackInv, DestInv, AcceptedInv, AddressInv, OrderInv, DataStep
    PROVE  AddressInv' /\ OrderInv'
<1> SUFFICES ASSUME ~hist'.stacked PROVE AtHome' /\ InOrder'
  BY DEF AddressInv, OrderInv, AtHome, InOrder
<1>1. ~hist.stacked
  BY DEF DataStep, StackNoted
<1>2. AtHome /\ InOrder
  BY <1>1 DEF AddressInv, OrderInv, AtHome, InOrder
<1>3. /\ \A k \in DOMAIN tx_q : tx_q[k].dest_addr \in Clients
      /\ \A k, l \in DOMAIN tx_q : tx_q[k].dest_addr = tx_q[l].dest_addr => k = l
  BY <1>1 DEF StackInv, DestInv
<1>4. inbox \in [Clients -> Seq(Msg)]
  BY DEF TypeOK
<1>5. inbox' = inbox => \A d : Box(d)' = Box(d)
  BY DEF Box
<1>6. \A k \in DOMAIN tx_q : Bufs(k) \subseteq Msg
  <2>1. \A k \in DOMAIN tx_q : tx_q[k] \in Dest
    BY DEF TypeOK
  <2> QED BY <2>1 DEF Bufs, Dest, ToSet
<1>7. \A d \in Clients : Box(d) \subseteq Msg
  BY <1>4 DEF Box, ToSet
<1>8. CASE Quiet
  BY <1>2, <1>8 DEF Quiet, AtHome, InOrder, Box, Bufs
<1>9. CASE Clears
  BY <1>2, <1>9 DEF Clears, AtHome, InOrder, Box
<1>10. ASSUME NEW c \in Clients, NEW v \in BOOLEAN, Marks(c, v) PROVE AtHome' /\ InOrder'
  <2> DEFINE p == FindTxQ(c)
  <2>1. Changed(p, tx_q[p].bufs, v) /\ inbox' = inbox
    BY <1>10 DEF Marks
  <2> HIDE DEF p
  <2>2. DOMAIN tx_q' = DOMAIN tx_q
        /\ \A k \in DOMAIN tx_q : /\ Bufs(k)' = Bufs(k) /\ tx_q'[k].bufs = tx_q[k].bufs
                                  /\ tx_q'[k].dest_addr = tx_q[k].dest_addr
    BY <2>1, ChangedBufs DEF Bufs
  <2> QED BY <1>2, <2>1, <2>2 DEF AtHome, InOrder, Box
<1>11. ASSUME NEW c \in Clients, Enqueues(c) PROVE AtHome' /\ InOrder'
  <2>0. PICK p \in DOMAIN tx_q : p = FindTxQ(c)
    BY <1>11, QueuedFacts DEF Enqueues
  <2> DEFINE x == NextMsg(c)
             b == Append(tx_q[p].bufs, x)
  <2>1. x \in Msg /\ x.to = c
    BY <1>11, NextMsgType DEF Enqueues, Counts, NextMsg
  <2>2. tx_q[p].bufs \in Seq(Msg) /\ Bufs(p) = ToSet(tx_q[p].bufs) /\ tx_q[p].dest_addr = c
    BY <1>1, <1>11, <2>0, QueuedFacts, OwnQueue DEF Enqueues, OwnFacts
  <2>3. Changed(p, b, tx_q[p].dest_busy) /\ inbox' = inbox
    BY <1>11, <2>0, QueuedFacts DEF Enqueues
  <2>4. \A y \in Bufs(p) \cup Box(c) : y.n < x.n
    <3>1. ASSUME NEW y \in Bufs(p) \cup Box(c) PROVE y \in Msg /\ y.to = c /\ Somewhere(y)
      BY <1>2, <1>6, <1>7, <2>2, <3>1 DEF AtHome, Somewhere
    <3> QED BY <3>1, NextIsLater
  <2> HIDE DEF x
  <2>5. ToSet(b) = Bufs(p) \cup {x} /\ Ordered(b)
    BY <1>2, <2>1, <2>2, <2>4, AppendFacts DEF InOrder
  <2> HIDE DEF b
  <2>6. /\ DOMAIN tx_q' = DOMAIN tx_q
        /\ \A k \in DOMAIN tx_q : tx_q'[k].dest_addr = tx_q[k].dest_addr
        /\ \A k \in DOMAIN tx_q : k # p => Bufs(k)' = Bufs(k) /\ tx_q'[k].bufs = tx_q[k].bufs
        /\ Bufs(p)' = Bufs(p) \cup {x} /\ tx_q'[p].bufs = b
    BY <2>3, <2>5, ChangedBufs
  <2>7. AtHome'
    BY <1>2, <1>5, <2>1, <2>2, <2>3, <2>6 DEF AtHome
  <2>8. \A k \in DOMAIN tx_q : \A z \in Box(tx_q[k].dest_addr), y \in Bufs(k)' : z.n < y.n
    <3>1. ASSUME NEW k \in DOMAIN tx_q, k # p
          PROVE  \A z \in Box(tx_q[k].dest_addr), y \in Bufs(k)' : z.n < y.n
      BY <1>2, <2>6, <3>1 DEF InOrder
    <3>2. \A z \in Box(tx_q[p].dest_addr), y \in Bufs(p)' : z.n < y.n
      BY <1>2, <2>2, <2>4, <2>6 DEF InOrder
    <3> QED BY <3>1, <3>2
  <2>9. \A k \in DOMAIN tx_q : Ordered(tx_q'[k].bufs)
    BY <1>2, <2>5, <2>6 DEF InOrder
  <2>10. \A d \in Clients : Ordered(inbox'[d])
    BY <1>2, <2>3 DEF InOrder
  <2>11. \A k \in DOMAIN tx_q : Box(tx_q[k].dest_addr) = ToSet(inbox'[tx_q'[k].dest_addr])
    BY <2>3, <2>6 DEF Box
  <2> QED BY <2>6, <2>7, <2>8, <2>9, <2>10, <2>11 DEF InOrder, Box
<1>12. ASSUME NEW c \in Clients, Passes(c) PROVE AtHome' /\ InOrder'
  <2> DEFINE x == NextMsg(c)
  <2>1. x \in Msg /\ x.to = c
    BY <1>12, NextMsgType DEF Passes, Counts, NextMsg
  <2>2. tx_q' = tx_q /\ inbox' = [inbox EXCEPT ![c] = Append(@, x)]
    BY <1>12 DEF Passes
  <2>3. \A y \in Box(c) : y.n < x.n
    <3>1. ASSUME NEW y \in Box(c) PROVE y \in Msg /\ y.to = c /\ Somewhere(y)
      BY <1>2, <1>7, <3>1 DEF AtHome, Somewhere
    <3> QED BY <3>1, NextIsLater
  <2> HIDE DEF x
  <2>4. ToSet(Append(inbox[c], x)) = Box(c) \cup {x} /\ Ordered(Append(inbox[c], x))
    BY <1>2, <1>4, <2>1, <2>3, AppendFacts DEF Box, InOrder
  <2>5. /\ inbox'[c] = Append(inbox[c], x)
        /\ \A d \in Clients : d # c => inbox'[d] = inbox[d]
    BY <1>4, <2>2
  <2>6. \A d \in Clients : /\ ToSet(inbox'[d]) = IF d = c THEN Box(c) \cup {x} ELSE Box(d)
                           /\ Ordered(inbox'[d])
    BY <1>2, <2>4, <2>5 DEF Box, InOrder
  <2>7. \A k \in DOMAIN tx_q : tx_q[k].dest_addr = c => Bufs(k) = {} /\ tx_q[k].bufs = <<>>
    <3>1. ASSUME NEW k \in DOMAIN tx_q, tx_q[k].dest_addr = c PROVE k = FindTxQ(c)
      <4>1. FindTxQ(c) # 0
        BY <1>1, <3>1, OwnQueue DEF OwnFacts
      <4> QED BY <1>1, <1>3, <3>1, <4>1, OwnQueue, FindDest DEF OwnFacts
    <3>2. ASSUME NEW k \in DOMAIN tx_q, tx_q[k].dest_addr = c PROVE Bufs(k) = {} /\ tx_q[k].bufs = <<>>
      <4>1. k = FindTxQ(c) /\ FindTxQ(c) # 0
        BY <1>1, <3>1, <3>2, OwnQueue DEF OwnFacts
      <4>2. tx_q[k].bufs = <<>>
        BY <1>12, <4>1, QueuedFacts DEF Passes
      <4> QED BY <4>2, ShortFacts DEF Bufs
    <3> QED BY <3>2
  <2>8. \A k \in DOMAIN tx_q : Bufs(k)' = Bufs(k)
    BY <2>2 DEF Bufs
  <2>9. AtHome'
    BY <1>2, <2>1, <2>2, <2>6, <2>8 DEF AtHome, Box
  <2>10. ASSUME NEW k \in DOMAIN tx_q
         PROVE  \A z \in ToSet(inbox'[tx_q[k].dest_addr]), y \in Bufs(k) : z.n < y.n
    <3>1. CASE tx_q[k].dest_addr = c
      BY <2>7, <3>1
    <3>2. CASE tx_q[k].dest_addr # c
      BY <1>2, <1>3, <2>6, <3>2 DEF InOrder
    <3> QED BY <3>1, <3>2
  <2> QED BY <1>2, <2>2, <2>6, <2>8, <2>9, <2>10 DEF InOrder, Box
<1>13. ASSUME NEW c \in Clients, Sends(c) PROVE AtHome' /\ InOrder'
  <2>0. PICK p \in DOMAIN tx_q : p = FindTxQ(c)
    BY <1>13, QueuedFacts DEF Sends
  <2> DEFINE b == Tail(tx_q[p].bufs)
             h == Head(tx_q[p].bufs)
  <2>1. tx_q[p].bufs \in Seq(Msg) /\ tx_q[p].bufs # <<>>
        /\ Bufs(p) = ToSet(tx_q[p].bufs) /\ tx_q[p].dest_addr = c
    BY <1>1, <1>13, <2>0, QueuedFacts, OwnQueue DEF Sends, OwnFacts
  <2>2. Changed(p, b, tx_q[p].dest_busy)
    BY <1>13, <2>0, QueuedFacts DEF Sends
  <2>3. inbox' = [inbox EXCEPT ![c] = Append(@, h)] \/ inbox' = inbox
    BY <1>13, <2>0, QueuedFacts DEF Sends
  <2>4. Bufs(p) = ToSet(b) \cup {h} /\ h \in Msg /\ Ordered(b) /\ \A y \in ToSet(b) : h.n < y.n
    BY <1>2, <2>1, TailFacts DEF InOrder
  <2> HIDE DEF b, h
  <2>5. /\ DOMAIN tx_q' = DOMAIN tx_q
        /\ \A k \in DOMAIN tx_q : tx_q'[k].dest_addr = tx_q[k].dest_addr
        /\ \A k \in DOMAIN tx_q : k # p => Bufs(k)' = Bufs(k) /\ tx_q'[k].bufs = tx_q[k].bufs
        /\ Bufs(p)' = ToSet(b) /\ tx_q'[p].bufs = b
    BY <2>2, ChangedBufs
  <2>6. \A k \in DOMAIN tx_q : Ordered(tx_q'[k].bufs)
    BY <1>2, <2>4, <2>5 DEF InOrder
  <2>7. h.to = c /\ \A z \in Box(c) : z.n < h.n
    BY <1>2, <2>1, <2>4 DEF AtHome, InOrder
  <2>8. /\ Ordered(inbox'[c]) /\ ToSet(inbox'[c]) \subseteq Box(c) \cup {h}
        /\ \A d \in Clients : d # c => inbox'[d] = inbox[d]
    <3>1. CASE inbox' = inbox
      BY <1>2, <3>1 DEF Box, InOrder
    <3>2. CASE inbox' = [inbox EXCEPT ![c] = Append(@, h)]
      <4>1. Ordered(inbox[c]) /\ \A z \in ToSet(inbox[c]) : z.n < h.n
        BY <1>2, <2>7 DEF Box, InOrder
      <4>2. ToSet(Append(inbox[c], h)) = Box(c) \cup {h} /\ Ordered(Append(inbox[c], h))
        BY <1>4, <2>4, <4>1, AppendFacts DEF Box
      <4> QED BY <1>4, <3>2, <4>2
    <3> QED BY <2>3, <3>1, <3>2
  <2>9. AtHome'
    <3>1. ASSUME NEW d \in Clients, NEW m \in Box(d)' PROVE m.to = d
      <4>1. CASE d = c
        BY <1>2, <2>7, <2>8, <3>1, <4>1 DEF AtHome, Box
      <4>2. CASE d # c
        BY <1>2, <2>8, <3>1, <4>2 DEF AtHome, Box
      <4> QED BY <4>1, <4>2
    <3>2. ASSUME NEW k \in DOMAIN tx_q PROVE \A m \in Bufs(k)' : m.to = tx_q[k].dest_addr
      BY <1>2, <2>4, <2>5 DEF AtHome
    <3> QED BY <2>5, <3>1, <3>2 DEF AtHome
  <2>10. ASSUME NEW k \in DOMAIN tx_q
         PROVE  \A z \in ToSet(inbox'[tx_q[k].dest_addr]), y \in Bufs(k)' : z.n < y.n
    <3>1. CASE k = p
      <4>1. ASSUME NEW z \in ToSet(inbox'[c]), NEW y \in ToSet(b) PROVE z.n < y.n
        <5>1. CASE z = h
          BY <2>4, <5>1
        <5>2. CASE z \in Box(c)
          BY <1>2, <2>1, <2>4, <5>2 DEF InOrder
        <5> QED BY <2>8, <5>1, <5>2
      <4> QED BY <2>1, <2>5, <3>1, <4>1
    <3>2. CASE k # p
      <4>1. tx_q[k].dest_addr # c /\ tx_q[k].dest_addr \in Clients
        BY <1>3, <2>1, <3>2
      <4>2. Bufs(k)' = Bufs(k) /\ ToSet(inbox'[tx_q[k].dest_addr]) = Box(tx_q[k].dest_addr)
        BY <2>5, <2>8, <3>2, <4>1 DEF Box
      <4> QED BY <1>2, <4>2 DEF InOrder
    <3> QED BY <3>1, <3>2
  <2>11. \A d \in Clients : Ordered(inbox'[d])
    BY <1>2, <2>8 DEF InOrder
  <2> QED BY <2>5, <2>6, <2>9, <2>10, <2>11 DEF InOrder, Box
<1>14. ASSUME NEW c \in Clients, Removes(c) PROVE AtHome' /\ InOrder'
  <2> DEFINE p == FindTxQ(c)
  <2>1. Removed(p) /\ inbox' = inbox
    BY <1>14 DEF Removes
  <2> HIDE DEF p
  <2>2. \A k \in DOMAIN tx_q' : /\ Was(p, k) \in DOMAIN tx_q
                                /\ tx_q'[k] = tx_q[Was(p, k)]
                                /\ Bufs(k)' = Bufs(Was(p, k))
    BY <2>1, RemovedBufs
  <2>3. AtHome'
    BY <1>2, <2>1, <2>2 DEF AtHome, Box
  <2>4. InOrder'
    BY <1>2, <2>1, <2>2 DEF InOrder, Box
  <2> QED BY <2>3, <2>4
<1>15. ASSUME NEW c \in Clients, NEW ptr \in {c, Stack}, Opens(c, ptr) PROVE AtHome' /\ InOrder'
  <2> DEFINE n == Len(tx_q) + 1
             x == NextMsg(c)
  <2>1. ptr = c /\ inbox' = inbox
    BY <1>15 DEF Opens
  <2>2. ASSUME NEW b \in {<<>>, <<x>>}, Opened(c, b), b = <<x>> => x \in Msg
        PROVE  AtHome' /\ InOrder'
    <3>1. /\ n \notin DOMAIN tx_q /\ DOMAIN tx_q' = DOMAIN tx_q \cup {n}
          /\ \A k \in DOMAIN tx_q : tx_q'[k] = tx_q[k] /\ Bufs(k)' = Bufs(k)
          /\ tx_q'[n].bufs = b /\ tx_q'[n].dest_addr = c
      BY <2>2, OpenedBufs
    <3>2. ToSet(b) \subseteq {x} /\ Ordered(b)
      BY <2>2, ShortFacts
    <3>3. x.to = c
      BY DEF NextMsg
    <3>4. \A y \in Box(c) : y.n < x.n
      <4>1. ASSUME NEW y \in Box(c) PROVE y \in Msg /\ y.to = c /\ Somewhere(y)
        BY <1>2, <1>7, <4>1 DEF AtHome, Somewhere
      <4> QED BY <4>1, NextIsLater
    <3> HIDE DEF n, x
    <3>5. \A k \in DOMAIN tx_q' : Bufs(k)' = IF k = n THEN ToSet(b) ELSE Bufs(k)
      BY <3>1 DEF Bufs
    <3>6. AtHome'
      BY <1>2, <2>1, <3>1, <3>2, <3>3, <3>5 DEF AtHome, Box
    <3>7. \A k \in DOMAIN tx_q' : Ordered(tx_q'[k].bufs)
      BY <1>2, <3>1, <3>2 DEF InOrder
    <3>8. ASSUME NEW k \in DOMAIN tx_q', NEW z \in Box(tx_q'[k].dest_addr), NEW y \in Bufs(k)'
          PROVE  z.n < y.n
      <4>1. CASE k = n
        BY <3>1, <3>2, <3>4, <3>5, <3>8, <4>1
      <4>2. CASE k # n
        BY <1>2, <3>1, <3>8, <4>2 DEF InOrder
      <4> QED BY <4>1, <4>2
    <3> QED BY <1>2, <2>1, <3>6, <3>7, <3>8 DEF InOrder, Box
  <2>3. CASE Opened(c, <<x>>) /\ Counts(c)
    <3>1. x \in Msg
      BY <2>3, NextMsgType DEF Counts
    <3> QED BY <2>2, <2>3, <3>1
  <2>4. CASE Opened(c, <<>>)
    <3>1. <<>> # <<x>>
      OBVIOUS
    <3> QED BY <2>2, <2>4, <3>1
  <2> QED BY <1>15, <2>1, <2>3, <2>4 DEF Opens
<1> QED BY <1>8, <1>9, <1>10, <1>11, <1>12, <1>13, <1>14, <1>15 DEF DataStep

-----------------------------------------------------------------------------
(* The destination of a client, by its address instead of its place.         *)

\* The destination of a client, if there is one
Own(c) == {tx_q[k] : k \in {l \in DOMAIN tx_q : tx_q[l].dest_addr = c}}

OwnIsQueue ==
    TypeOK /\ StackInv /\ DestInv /\ ~hist.stacked =>
        \A c \in Clients :
            /\ FindTxQ(c) = 0 => Own(c) = {} /\ Queued(c) = <<>>
            /\ FindTxQ(c) # 0 => Own(c) = {tx_q[FindTxQ(c)]} /\ Queued(c) = tx_q[FindTxQ(c)].bufs

LEMMA OwnIsQueueHolds == OwnIsQueue
<1> SUFFICES ASSUME TypeOK, StackInv, DestInv, ~hist.stacked, NEW c \in Clients
             PROVE  /\ FindTxQ(c) = 0 => Own(c) = {} /\ Queued(c) = <<>>
                    /\ FindTxQ(c) # 0 => /\ Own(c) = {tx_q[FindTxQ(c)]}
                                         /\ Queued(c) = tx_q[FindTxQ(c)].bufs
  BY DEF OwnIsQueue
<1>1. CASE FindTxQ(c) = 0
  <2>1. \A k \in DOMAIN tx_q : tx_q[k].dest_addr # c
    BY <1>1, OwnQueue DEF OwnFacts
  <2> QED BY <1>1, <2>1 DEF Own, Queued
<1>2. CASE FindTxQ(c) # 0
  <2> DEFINE p == FindTxQ(c)
  <2>1. p \in DOMAIN tx_q /\ tx_q[p].dest_addr = c
    BY <1>2, OwnQueue, FindDest DEF OwnFacts
  <2>2. \A k \in DOMAIN tx_q : tx_q[k].dest_addr = c => k = p
    BY <2>1 DEF DestInv
  <2>3. Queued(c) = tx_q[p].bufs
    BY <1>2 DEF Queued
  <2> HIDE DEF p
  <2>4. Own(c) = {tx_q[p]}
    BY <2>1, <2>2 DEF Own
  <2> QED BY <1>2, <2>3, <2>4 DEF p
<1> QED BY <1>1, <1>2

LEMMA OwnIsQueueNext == OwnIsQueue'
BY OwnIsQueueHolds, PTL

\* How the destinations of clients change
LEMMA OwnChanged ==
    ASSUME TypeOK, StackInv, DestInv, ~hist.stacked,
           NEW c \in Clients, NEW b, NEW v, FindTxQ(c) # 0, Changed(FindTxQ(c), b, v)
    PROVE  /\ Own(c)' = {[dest_addr |-> c, bufs |-> b, dest_busy |-> v]}
           /\ \A d : d # c => Own(d)' = Own(d)
<1>1. PICK p \in DOMAIN tx_q : p = FindTxQ(c)
  BY FindDest
<1>2. tx_q[p].dest_addr = c
  BY <1>1, OwnQueue DEF OwnFacts
<1>3. \A k \in DOMAIN tx_q : tx_q[k].dest_addr = c => k = p
  BY <1>2 DEF DestInv
<1>4. /\ DOMAIN tx_q' = DOMAIN tx_q
      /\ \A k \in DOMAIN tx_q : k # p => tx_q'[k] = tx_q[k]
      /\ tx_q'[p] = [dest_addr |-> c, bufs |-> b, dest_busy |-> v]
      /\ tx_q'[p].dest_addr = c
  BY <1>1, <1>2 DEF Changed
<1>5. Own(c)' = {tx_q'[p]}
  BY <1>3, <1>4 DEF Own
<1>6. ASSUME NEW d, d # c PROVE Own(d)' = Own(d)
  BY <1>2, <1>4, <1>6 DEF Own
<1> QED BY <1>4, <1>5, <1>6

LEMMA OwnOpened ==
    ASSUME TypeOK, StackInv, ~hist.stacked, NEW c \in Clients, NEW b, FindTxQ(c) = 0, Opened(c, b)
    PROVE  /\ Own(c)' = {[dest_addr |-> c, bufs |-> b, dest_busy |-> FALSE]}
           /\ \A d : d # c => Own(d)' = Own(d)
<1> DEFINE n == Len(tx_q) + 1
<1>1. \A k \in DOMAIN tx_q : tx_q[k].dest_addr # c
  BY OwnQueue DEF OwnFacts
<1>2. /\ DOMAIN tx_q' = DOMAIN tx_q \cup {n}
      /\ \A k \in DOMAIN tx_q : tx_q'[k] = tx_q[k]
      /\ tx_q'[n] = [dest_addr |-> c, bufs |-> b, dest_busy |-> FALSE]
      /\ tx_q'[n].dest_addr = c
      /\ n \notin DOMAIN tx_q
  BY OpenedBufs DEF Opened
<1> HIDE DEF n
<1>3. Own(c)' = {tx_q'[n]}
  BY <1>1, <1>2 DEF Own
<1>4. ASSUME NEW d, d # c PROVE Own(d)' = Own(d)
  BY <1>2, <1>4 DEF Own
<1> QED BY <1>2, <1>3, <1>4

LEMMA OwnRemoved ==
    ASSUME TypeOK, StackInv, DestInv, ~hist.stacked, NEW c \in Clients, FindTxQ(c) # 0,
           Removed(FindTxQ(c))
    PROVE  /\ Own(c)' = {}
           /\ \A d : d # c => Own(d)' = Own(d)
<1>1. PICK p \in DOMAIN tx_q : p = FindTxQ(c)
  BY FindDest
<1>2. tx_q[p].dest_addr = c
  BY <1>1, OwnQueue DEF OwnFacts
<1>3. \A k \in DOMAIN tx_q : tx_q[k].dest_addr = c => k = p
  BY <1>2 DEF DestInv
<1>4. /\ \A k \in DOMAIN tx_q' : Was(p, k) \in DOMAIN tx_q \ {p} /\ tx_q'[k] = tx_q[Was(p, k)]
      /\ \A l \in DOMAIN tx_q \ {p} : \E k \in DOMAIN tx_q' : l = Was(p, k)
  BY <1>1, RemovedBufs
<1>5. Own(c)' = {}
  BY <1>3, <1>4 DEF Own
<1>6. ASSUME NEW d, d # c PROVE Own(d)' = Own(d)
  <2>1. ASSUME NEW r \in Own(d) PROVE r \in Own(d)'
    <3>1. PICK l \in DOMAIN tx_q : tx_q[l].dest_addr = d /\ r = tx_q[l]
      BY <2>1 DEF Own
    <3>2. l # p
      BY <1>2, <1>6, <3>1
    <3>3. PICK k \in DOMAIN tx_q' : l = Was(p, k)
      BY <1>4, <3>2
    <3> QED BY <1>4, <3>1, <3>3 DEF Own
  <2>2. ASSUME NEW r \in Own(d)' PROVE r \in Own(d)
    BY <1>4, <2>2 DEF Own
  <2> QED BY <2>1, <2>2
<1> QED BY <1>5, <1>6

\* The control invariants, in terms of the clients' destinations
Waits(c) == \E r \in Own(c) : r.bufs # <<>>
Remembers(c) == \E r \in Own(c) : r.dest_busy /\ (r.bufs # <<>> \/ At("flush", c))
Expects(c) ==
    \/ c \in net.blocked \cup net.resume \cup net.ctl
    \/ At("resume", c) \/ At("flush", c) \/ At("purge", c)

DanglingSeen == handle # "freed" => \A c \in Clients : Own(c) # {} => c \in clients
StuckSeen == handle = "open" => \A c \in Clients : Waits(c) => Expects(c)
BusySeen == handle = "open" => \A c \in hist.told : Remembers(c) \/ At("disconnect", c)
GoneSeen == \A c \in Clients : At("disconnect", c) => Own(c) = {}
ControlSeen == DanglingSeen /\ StuckSeen /\ BusySeen /\ GoneSeen

PeerInv ==
    /\ net.ctl \subseteq net.gone
    /\ \A c \in Clients : At("purge", c) \/ At("disconnect", c) => c \in net.gone

ControlInv == NoDangling /\ NothingStuck /\ BusyRemembered /\ GoneInv

SeenFacts ==
    TypeOK /\ StackInv /\ DestInv => (ControlInv <=> PeerInv /\ (~hist.stacked => ControlSeen))

\* The control invariants say of places in the list what ControlSeen says of clients.
LEMMA SeenIsControl == SeenFacts
<1> SUFFICES ASSUME TypeOK, StackInv, DestInv
             PROVE  ControlInv <=> PeerInv /\ (~hist.stacked => ControlSeen)
  BY DEF SeenFacts
<1>1. CASE hist.stacked
  BY <1>1 DEF ControlInv, PeerInv, GoneInv, NoDangling, NothingStuck, BusyRemembered
<1>2. CASE ~hist.stacked
  <2>1. \A c \in Clients : /\ FindTxQ(c) = 0 => Own(c) = {} /\ Queued(c) = <<>>
                           /\ FindTxQ(c) # 0 => /\ Own(c) = {tx_q[FindTxQ(c)]}
                                                /\ Queued(c) = tx_q[FindTxQ(c)].bufs
    BY <1>2, OwnIsQueueHolds DEF OwnIsQueue
  <2>2. NoDangling <=> DanglingSeen
    BY <1>2 DEF NoDangling, DanglingSeen, Own, StackInv
  <2>3. \A c \in Clients : Waits(c) <=> Queued(c) # <<>>
    BY <2>1 DEF Waits
  <2>4. NothingStuck <=> StuckSeen
    BY <1>2, <2>3 DEF NothingStuck, StuckSeen, Expects
  <2>5. hist.told \subseteq Clients
    BY DEF TypeOK
  <2>6. \A c \in Clients : Remembers(c) <=> /\ FindTxQ(c) # 0 /\ tx_q[FindTxQ(c)].dest_busy
                                            /\ Queued(c) # <<>> \/ At("flush", c)
    BY <2>1 DEF Remembers
  <2>7. BusyRemembered <=> BusySeen
    BY <1>2, <2>5, <2>6 DEF BusyRemembered, BusySeen
  <2>8. GoneInv <=> PeerInv /\ GoneSeen
    BY <1>2 DEF GoneInv, PeerInv, GoneSeen, Own
  <2> QED BY <1>2, <2>2, <2>4, <2>7, <2>8 DEF ControlInv, ControlSeen
<1> QED BY <1>1, <1>2

LEMMA SeenIsControlNext == SeenFacts'
BY SeenIsControl, PTL

-----------------------------------------------------------------------------
(* The control invariants client by client; what a message does to them.     *)

\* The control invariants, client by client
SeenFor(d) ==
    /\ handle # "freed" /\ Own(d) # {} => d \in clients
    /\ handle = "open" /\ Waits(d) => Expects(d)
    /\ handle = "open" /\ d \in hist.told => Remembers(d) \/ At("disconnect", d)
    /\ At("disconnect", d) => Own(d) = {}

Clientwise == hist.told \subseteq Clients => (ControlSeen <=> \A d \in Clients : SeenFor(d))

LEMMA SeenClientwise == Clientwise
BY DEF Clientwise, ControlSeen, SeenFor, DanglingSeen, StuckSeen, BusySeen, GoneSeen

LEMMA SeenClientwiseNext == Clientwise'
BY SeenClientwise, PTL

Work == {"resume", "flush", "purge", "disconnect"}
HandleGoes == (handle' = "open" => handle = "open") /\ (handle' # "freed" => handle # "freed")
KnownStays(d) == d \in clients => d \in clients'
AwaitedStays(d) ==
    d \in net.blocked \cup net.resume \cup net.ctl => d \in net'.blocked \cup net'.resume \cup net'.ctl

\* A step that does not concern a client
Untouched(d) ==
    /\ Own(d)' = Own(d)
    /\ \A pc \in Work : At(pc, d)' <=> At(pc, d)
    /\ KnownStays(d) /\ AwaitedStays(d)
    /\ d \in hist'.told => d \in hist.told

LEMMA UntouchedSeen ==
    ASSUME NEW d, SeenFor(d), HandleGoes, Untouched(d)
    PROVE  SeenFor(d)'
<1>1. Own(d)' = Own(d) /\ (Waits(d)' <=> Waits(d))
  BY DEF Untouched, Waits
<1>2. /\ At("resume", d)' <=> At("resume", d)
      /\ At("flush", d)' <=> At("flush", d)
      /\ At("purge", d)' <=> At("purge", d)
      /\ At("disconnect", d)' <=> At("disconnect", d)
  BY DEF Untouched, Work
<1>3. Remembers(d)' <=> Remembers(d)
  BY <1>1, <1>2 DEF Remembers
<1>4. Expects(d) => Expects(d)'
  BY <1>2 DEF Untouched, AwaitedStays, Expects
<1> QED BY <1>1, <1>2, <1>3, <1>4 DEF SeenFor, HandleGoes, Untouched, KnownStays

LEMMA OwnSame == ASSUME tx_q' = tx_q, NEW d PROVE Own(d)' = Own(d)
BY DEF Own

LEMMA AtOne ==
    ASSUME NEW x \in STRING, NEW c, ev = [pc |-> x, clnt |-> c]
    PROVE  \A pc, d : At(pc, d) <=> pc = x /\ d = c
BY DEF At

IdleWorks == ev = Idle => \A d : \A pc \in Work : ~At(pc, d)
LEMMA AtIdle == IdleWorks
BY DEF IdleWorks, Idle, Work, At

LEMMA AtIdleNext == IdleWorks'
BY AtIdle, PTL

SameWork(d) == \A pc \in Work : At(pc, d)' <=> At(pc, d)

\* What a message does to the destination of its client
LEMMA SendOwn ==
    ASSUME TypeOK, StackInv, DestInv, ~hist.stacked, ~hist'.stacked,
           NEW c \in Clients, NEW ptr \in {c, Stack}, SendStep(c, ptr)
    PROVE  /\ \A d : d # c => Own(d)' = Own(d)
           /\ \/ Own(c)' = Own(c) /\ ToldNothing
              \/ /\ Refuses(c)
                 /\ \E r : Own(c) = {r} /\ r.bufs # <<>>
                      /\ Own(c)' = {[dest_addr |-> c, bufs |-> r.bufs, dest_busy |-> TRUE]}
              \/ /\ ToldNothing
                 /\ \E r, x : Own(c) = {r} /\ r.bufs \in Seq(Msg) /\ Queued(c) = r.bufs
                      /\ Own(c)' = {[dest_addr |-> c, bufs |-> Append(r.bufs, x),
                                     dest_busy |-> r.dest_busy]}
              \/ /\ ToldNothing
                 /\ Own(c) = {} /\ ptr = c
                 /\ \E b : Own(c)' = {[dest_addr |-> c, bufs |-> b, dest_busy |-> FALSE]}
<1>1. CASE tx_q' = tx_q /\ ToldNothing
  BY <1>1, OwnSame
<1>2. CASE Refuses(c)
  <2>1. /\ FindTxQ(c) # 0 /\ Queued(c) # <<>>
        /\ Changed(FindTxQ(c), tx_q[FindTxQ(c)].bufs, TRUE)
    BY <1>2 DEF Refuses, Marks
  <2>2. Own(c) = {tx_q[FindTxQ(c)]} /\ Queued(c) = tx_q[FindTxQ(c)].bufs
    BY <2>1, OwnIsQueueHolds DEF OwnIsQueue
  <2>3. /\ Own(c)' = {[dest_addr |-> c, bufs |-> tx_q[FindTxQ(c)].bufs, dest_busy |-> TRUE]}
        /\ \A d : d # c => Own(d)' = Own(d)
    BY <2>1, OwnChanged
  <2> QED BY <1>2, <2>1, <2>2, <2>3
<1>3. CASE Enqueues(c) /\ ToldNothing
  <2>1. /\ FindTxQ(c) # 0
        /\ Changed(FindTxQ(c), Append(Queued(c), NextMsg(c)), tx_q[FindTxQ(c)].dest_busy)
    BY <1>3 DEF Enqueues
  <2>2. Own(c) = {tx_q[FindTxQ(c)]} /\ Queued(c) = tx_q[FindTxQ(c)].bufs
    BY <2>1, OwnIsQueueHolds DEF OwnIsQueue
  <2>3. /\ Own(c)' = {[dest_addr |-> c, bufs |-> Append(Queued(c), NextMsg(c)),
                       dest_busy |-> tx_q[FindTxQ(c)].dest_busy]}
        /\ \A d : d # c => Own(d)' = Own(d)
    BY <2>1, OwnChanged
  <2>4. Queued(c) \in Seq(Msg)
    BY QueuedType
  <2> QED BY <1>3, <2>2, <2>3, <2>4
<1>4. CASE Opens(c, ptr) /\ ToldNothing
  <2>1. FindTxQ(c) = 0 /\ ptr = c
    BY <1>4 DEF Opens
  <2>2. PICK b : Opened(c, b)
    BY <1>4, <2>1 DEF Opens
  <2>3. Own(c) = {}
    BY <2>1, OwnIsQueueHolds DEF OwnIsQueue
  <2>4. /\ Own(c)' = {[dest_addr |-> c, bufs |-> b, dest_busy |-> FALSE]}
        /\ \A d : d # c => Own(d)' = Own(d)
    BY <2>1, <2>2, OwnOpened
  <2> QED BY <1>4, <2>1, <2>3, <2>4
<1>5. SendStep(c, ptr) => \/ tx_q' = tx_q /\ ToldNothing
                          \/ Refuses(c)
                          \/ (Enqueues(c) \/ Opens(c, ptr)) /\ ToldNothing
  BY DEF SendStep, PutStep, Quiet, Passes, ToldNothing
<1> QED BY <1>1, <1>2, <1>3, <1>4, <1>5

LEMMA PushBackKeeps ==
    ASSUME TypeOK, NEW c \in Clients, net' = PushBack(c)
    PROVE  c \in net'.blocked /\ \A d : AwaitedStays(d)
<1>1. CASE c \in net.blocked
  BY <1>1 DEF PushBack, AwaitedStays
<1>2. CASE c \notin net.blocked
  <2>1. net' = [net EXCEPT !.blocked = @ \cup {c}, !.blocks = @ + 1]
    BY <1>2 DEF PushBack
  <2>2. /\ net'.blocked = net.blocked \cup {c}
        /\ net'.resume = net.resume /\ net'.ctl = net.ctl /\ net'.gone = net.gone
    BY <2>1 DEF TypeOK
  <2> QED BY <2>2 DEF AwaitedStays
<1> QED BY <1>1, <1>2

LEMMA AppendNotEmpty ==
    ASSUME NEW T, NEW s \in Seq(T), NEW x PROVE Append(s, x) # <<>>
<1>1. Len(s) + 1 \in DOMAIN Append(s, x)
  OBVIOUS
<1> QED BY <1>1

\* A message that is queued leaves its client awaited: others waited already, or the router
\* has just pushed back.
LEMMA SendSeen ==
    ASSUME TypeOK, StackInv, DestInv, ~hist.stacked, ~hist'.stacked, PeerInv, NEW c \in Clients,
           NEW ptr \in {c, Stack}, SendStep(c, ptr), ptr = c => c \in clients,
           clients' = clients, handle' = handle, \A d \in Clients : SameWork(d),
           \A d \in Clients : SeenFor(d)
    PROVE  \A d \in Clients : SeenFor(d)'
<1>1. HandleGoes /\ \A d : KnownStays(d)
  BY DEF HandleGoes, KnownStays
<1>2. \A d : AwaitedStays(d)
  <2>1. net' = net \/ net' = PushBack(c)
    BY DEF SendStep
  <2>2. CASE net' = net
    BY <2>2 DEF AwaitedStays
  <2> QED BY <2>1, <2>2, PushBackKeeps
<1>3. ASSUME NEW d \in Clients, Own(d)' = Own(d), d \in hist'.told => d \in hist.told PROVE SeenFor(d)'
  BY <1>1, <1>2, <1>3, UntouchedSeen DEF Untouched, SameWork
<1>4. hist'.told \subseteq hist.told \cup {c}
  BY DEF SendStep, PutStep, Refuses, ToldNothing
<1>5. \A d : d # c => Own(d)' = Own(d)
  BY SendOwn
<1>6. SeenFor(c) /\ (At("disconnect", c) => c \in net.gone)
  BY DEF PeerInv
<1>7. /\ At("resume", c)' <=> At("resume", c)
      /\ At("flush", c)' <=> At("flush", c)
      /\ At("purge", c)' <=> At("purge", c)
      /\ At("disconnect", c)' <=> At("disconnect", c)
  BY DEF SameWork, Work
<1>8. Expects(c) => Expects(c)'
  BY <1>2, <1>7 DEF AwaitedStays, Expects
<1>9. ASSUME Own(c)' = Own(c), ToldNothing PROVE SeenFor(c)'
  BY <1>3, <1>9 DEF ToldNothing
<1>10. ASSUME NEW r, Own(c) = {r}, r.bufs # <<>>,
              Own(c)' = {[dest_addr |-> c, bufs |-> r.bufs, dest_busy |-> TRUE]}
       PROVE  SeenFor(c)'
  <2>1. Waits(c)
    BY <1>10 DEF Waits
  <2>2. Remembers(c)'
    BY <1>10 DEF Remembers
  <2> QED BY <1>6, <1>7, <1>8, <1>10, <2>1, <2>2 DEF SeenFor
<1>11. ASSUME NEW r, NEW x, ToldNothing, Own(c) = {r}, r.bufs \in Seq(Msg), Queued(c) = r.bufs,
              Own(c)' = {[dest_addr |-> c, bufs |-> Append(r.bufs, x), dest_busy |-> r.dest_busy]}
       PROVE  SeenFor(c)'
  <2>1. handle = "open" => Expects(c)'
    <3>1. CASE Queued(c) # <<>>
      <4>1. Waits(c)
        BY <1>11, <3>1 DEF Waits
      <4> QED BY <1>6, <1>8, <4>1 DEF SeenFor
    <3>2. CASE Queued(c) = <<>> /\ net' = PushBack(c)
      <4>1. c \in net'.blocked
        BY <3>2, PushBackKeeps
      <4> QED BY <4>1 DEF Expects
    <3>3. CASE Queued(c) = <<>> /\ net' # PushBack(c)
      <4>1. tx_q' = tx_q
        BY <3>3 DEF SendStep, Quiet, Passes
      <4>2. Own(c)' = Own(c)
        BY <4>1, OwnSame
      <4>3. r.bufs = Append(r.bufs, x)
        BY <1>11, <4>2
      <4>4. r.bufs # <<>>
        BY <1>11, <4>3, AppendNotEmpty
      <4> QED BY <1>11, <3>3, <4>4
    <3> QED BY <3>1, <3>2, <3>3
  <2>2. Append(r.bufs, x) # <<>>
    BY <1>11, AppendNotEmpty
  <2>3. Remembers(c) => Remembers(c)'
    BY <1>11, <2>2 DEF Remembers
  <2> QED BY <1>6, <1>7, <1>11, <2>1, <2>3 DEF SeenFor, ToldNothing
<1>12. ASSUME NEW b, ToldNothing, Own(c) = {}, ptr = c,
              Own(c)' = {[dest_addr |-> c, bufs |-> b, dest_busy |-> FALSE]}
       PROVE  SeenFor(c)'
  <2>1. Queued(c) = <<>>
    BY <1>12, OwnIsQueueHolds DEF OwnIsQueue
  <2>2. "again" \in Sendto(c) /\ net' = PushBack(c)
    <3>1. tx_q' # tx_q
      BY <1>12, OwnSame
    <3> QED BY <2>1, <3>1 DEF SendStep, Quiet, Passes
  <2>3. c \notin net.gone /\ c \in net'.blocked
    BY <2>2, PushBackKeeps DEF Sendto
  <2>4. ~Remembers(c)
    BY <1>12 DEF Remembers
  <2>5. Expects(c)'
    BY <2>3 DEF Expects
  <2> QED BY <1>6, <1>7, <1>12, <2>3, <2>4, <2>5 DEF SeenFor, ToldNothing
<1>13. SeenFor(c)'
  <2>1. \/ Own(c)' = Own(c) /\ ToldNothing
        \/ /\ Refuses(c)
           /\ \E r : Own(c) = {r} /\ r.bufs # <<>>
                /\ Own(c)' = {[dest_addr |-> c, bufs |-> r.bufs, dest_busy |-> TRUE]}
        \/ /\ ToldNothing
           /\ \E r, x : Own(c) = {r} /\ r.bufs \in Seq(Msg) /\ Queued(c) = r.bufs
                /\ Own(c)' = {[dest_addr |-> c, bufs |-> Append(r.bufs, x),
                               dest_busy |-> r.dest_busy]}
        \/ /\ ToldNothing
           /\ Own(c) = {} /\ ptr = c
           /\ \E b : Own(c)' = {[dest_addr |-> c, bufs |-> b, dest_busy |-> FALSE]}
    BY SendOwn
  <2> QED BY <1>9, <1>10, <1>11, <1>12, <2>1
<1> QED BY <1>3, <1>4, <1>5, <1>13

-----------------------------------------------------------------------------
(* What the event thread's reads and flushes do to them.                     *)

AllSeen == \A d \in Clients : SeenFor(d)
Settled == TypeOK /\ StackInv /\ DestInv /\ EventInv /\ PeerInv /\ AllSeen /\ ~hist.stacked

LEMMA NothingTouched ==
    ASSUME AllSeen, HandleGoes, \A d \in Clients : Untouched(d)
    PROVE  AllSeen'
BY UntouchedSeen DEF AllSeen

LEMMA OthersUntouched ==
    ASSUME NEW c \in Clients, AllSeen, HandleGoes, \A d \in Clients : d # c => Untouched(d), SeenFor(c)'
    PROVE  AllSeen'
BY UntouchedSeen DEF AllSeen

LEMMA RecvRequestSeen == ASSUME Settled, NEW c \in Clients, RecvRequest(c) PROVE AllSeen'
<1>1. ev = Idle /\ handle' = handle /\ tx_q' = tx_q /\ net' = net /\ hist' = hist
  BY DEF RecvRequest, Receives
<1>2. \A d : Own(d)' = Own(d) /\ AwaitedStays(d) /\ KnownStays(d)
  BY <1>1, OwnSame DEF AwaitedStays, KnownStays, RecvRequest
<1>3. ASSUME NEW pc \in Work, NEW d PROVE ~At(pc, d) /\ ~At(pc, d)'
  <2>1. CASE ev' = Idle
    BY <1>1, <2>1, AtIdle, AtIdleNext DEF IdleWorks
  <2>2. CASE Goto("reply", c)
    <3>1. ~At(pc, d)'
      BY <2>2, <1>3 DEF At, Goto, Work
    <3> QED BY <1>1, <3>1, AtIdle DEF IdleWorks
  <2> QED BY <2>1, <2>2 DEF RecvRequest
<1>4. HandleGoes /\ \A d \in Clients : Untouched(d)
  BY <1>1, <1>2, <1>3 DEF HandleGoes, Untouched
<1> QED BY <1>4, NothingTouched DEF Settled

LEMMA RecvSeen ==
    ASSUME Settled, NEW c \in Clients, RecvResume(c) \/ RecvRemoveClient(c)
    PROVE  AllSeen'
<1>1. ev = Idle /\ handle' = handle /\ tx_q' = tx_q /\ clients' = clients /\ hist' = hist
  BY DEF RecvResume, RecvRemoveClient, Receives
<1>2. PICK x \in {"resume", "purge"} : Goto(x, c)
  BY DEF RecvResume, RecvRemoveClient
<1>3. \A pc, d : At(pc, d)' <=> pc = x /\ d = c
  BY <1>2 DEF At, Goto
<1>4. \A d : \A pc \in Work : ~At(pc, d)
  BY <1>1, AtIdle DEF IdleWorks
<1>5. \A d : Own(d)' = Own(d) /\ KnownStays(d)
  BY <1>1, OwnSame DEF KnownStays
<1>6. ASSUME NEW d \in Clients, d # c PROVE AwaitedStays(d)
  <2>1. net \in NetType
    BY DEF Settled, TypeOK, NetType
  <2>2. net' = [net EXCEPT !.resume = @ \ {c}] \/ net' = [net EXCEPT !.ctl = @ \ {c}]
    BY DEF RecvResume, RecvRemoveClient
  <2> QED BY <1>6, <2>1, <2>2 DEF AwaitedStays, NetType
<1>7. HandleGoes /\ \A d \in Clients : d # c => Untouched(d)
  BY <1>1, <1>3, <1>4, <1>5, <1>6 DEF HandleGoes, Untouched
<1>8. SeenFor(c)'
  <2>1. SeenFor(c) /\ ~At("flush", c) /\ ~At("disconnect", c) /\ ~At("disconnect", c)'
    BY <1>3, <1>4 DEF Settled, AllSeen, Work
  <2>2. Expects(c)'
    BY <1>3 DEF Expects
  <2>3. Remembers(c) => Remembers(c)'
    BY <1>5, <2>1 DEF Remembers
  <2> QED BY <1>1, <1>5, <2>1, <2>2, <2>3 DEF SeenFor
<1> QED BY <1>7, <1>8, OthersUntouched DEF Settled

LEMMA BeginFlushSeen == ASSUME Settled, NEW c \in Clients, BeginFlush(c) PROVE AllSeen'
<1>1. handle' = handle /\ tx_q' = tx_q /\ clients' = clients /\ hist' = hist /\ net' = net
  BY DEF BeginFlush
<1>2. \A pc, d : At(pc, d) <=> pc = "resume" /\ d = c
  BY AtOne DEF BeginFlush, At
<1>3. \A pc, d : At(pc, d)' <=> pc = "flush" /\ d = c
  BY DEF BeginFlush, At, Goto
<1>4. \A d : Own(d)' = Own(d) /\ KnownStays(d) /\ AwaitedStays(d)
  BY <1>1, OwnSame DEF KnownStays, AwaitedStays
<1>5. HandleGoes /\ \A d \in Clients : d # c => Untouched(d)
  BY <1>1, <1>2, <1>3, <1>4 DEF HandleGoes, Untouched
<1>6. SeenFor(c)'
  <2>1. SeenFor(c) /\ ~At("disconnect", c) /\ ~At("disconnect", c)' /\ At("flush", c)'
    BY <1>2, <1>3 DEF Settled, AllSeen
  <2>2. Expects(c)' /\ (Remembers(c) => Remembers(c)')
    BY <1>4, <2>1 DEF Expects, Remembers
  <2> QED BY <1>1, <1>4, <2>1, <2>2 DEF SeenFor
<1> QED BY <1>5, <1>6, OthersUntouched DEF Settled

\* The flushed queue
LEMMA FlushedQueue ==
    ASSUME Settled, NEW c \in Clients, At("flush", c)
    PROVE  /\ FindTxQ(c) # 0 /\ tx_q[FindTxQ(c)] \in Dest
           /\ Queued(c) = tx_q[FindTxQ(c)].bufs
           /\ Own(c) = {tx_q[FindTxQ(c)]}
           /\ FindTxQ(c) \in DOMAIN tx_q
           /\ \A pc, d : At(pc, d) <=> pc = "flush" /\ d = c
<1>1. FindTxQ(c) # 0
  BY DEF Settled, EventInv
<1>2. tx_q[FindTxQ(c)] \in Dest /\ FindTxQ(c) \in DOMAIN tx_q
  BY <1>1, FindDest DEF Settled
<1>3. Own(c) = {tx_q[FindTxQ(c)]} /\ Queued(c) = tx_q[FindTxQ(c)].bufs
  BY <1>1, OwnIsQueueHolds DEF OwnIsQueue, Settled
<1>4. \A pc, d : At(pc, d) <=> pc = "flush" /\ d = c
  BY AtOne DEF At
<1> QED BY <1>1, <1>2, <1>3, <1>4

LEMMA FlushSendSeen == ASSUME Settled, NEW c \in Clients, FlushSend(c) PROVE AllSeen'
<1>1. handle' = handle /\ ev' = ev /\ clients' = clients /\ net' = net /\ At("flush", c)
  BY DEF FlushSend
<1>2. hist'.told = hist.told
  <2>1. hist \in HistType
    BY DEF Settled, TypeOK, HistType
  <2> QED BY <2>1 DEF FlushSend, HistType
<1>3. /\ FindTxQ(c) # 0 /\ tx_q[FindTxQ(c)] \in Dest
      /\ Queued(c) = tx_q[FindTxQ(c)].bufs
      /\ Own(c) = {tx_q[FindTxQ(c)]}
      /\ FindTxQ(c) \in DOMAIN tx_q
      /\ \A pc, d : At(pc, d) <=> pc = "flush" /\ d = c
  BY <1>1, FlushedQueue
<1>4. Changed(FindTxQ(c), Tail(Queued(c)), tx_q[FindTxQ(c)].dest_busy)
  BY FlushSendShape DEF Settled
<1>5. /\ Own(c)' = {[dest_addr |-> c, bufs |-> Tail(Queued(c)), dest_busy |-> tx_q[FindTxQ(c)].dest_busy]}
      /\ \A d : d # c => Own(d)' = Own(d)
  BY <1>3, <1>4, OwnChanged DEF Settled
<1>6. \A pc, d : At(pc, d)' <=> At(pc, d)
  BY <1>1 DEF At
<1>7. HandleGoes /\ \A d \in Clients : d # c => Untouched(d)
  BY <1>1, <1>2, <1>5, <1>6 DEF HandleGoes, Untouched, KnownStays, AwaitedStays
<1>8. SeenFor(c)'
  <2>1. SeenFor(c) /\ At("flush", c)' /\ ~At("disconnect", c) /\ ~At("disconnect", c)'
    BY <1>1, <1>3, <1>6 DEF Settled, AllSeen
  <2>2. Expects(c)' /\ (Remembers(c) => Remembers(c)')
    BY <1>3, <1>5, <2>1 DEF Expects, Remembers
  <2> QED BY <1>1, <1>2, <1>3, <2>1, <2>2 DEF SeenFor
<1> QED BY <1>7, <1>8, OthersUntouched DEF Settled

\* When a flush ends the queue is gone, or the router has pushed back and blocks the client.
LEMMA FlushEndSeen == ASSUME Settled, NEW c \in Clients, FlushEnd(c) PROVE AllSeen'
<1>1. handle' = handle /\ clients' = clients /\ At("flush", c)
  BY DEF FlushEnd
<1>2. /\ FindTxQ(c) # 0 /\ tx_q[FindTxQ(c)] \in Dest
      /\ Queued(c) = tx_q[FindTxQ(c)].bufs
      /\ Own(c) = {tx_q[FindTxQ(c)]}
      /\ FindTxQ(c) \in DOMAIN tx_q
      /\ \A pc, d : At(pc, d) <=> pc = "flush" /\ d = c
  BY <1>1, FlushedQueue
<1>3. \A d : \A pc \in Work : ~At(pc, d)'
  <2>1. CASE ev' = Idle
    BY <2>1, AtIdleNext DEF IdleWorks
  <2>2. CASE Goto("notify", c)
    BY <2>2 DEF At, Goto, Work
  <2> QED BY <2>1, <2>2 DEF FlushEnd
<1>4. /\ hist'.told \subseteq hist.told
      /\ Relieved(c) => c \notin hist'.told
  <2>1. hist \in HistType
    BY DEF Settled, TypeOK, HistType
  <2> QED BY <2>1 DEF FlushEnd, HistType
<1>5. \A d : AwaitedStays(d)
  <2>1. net' = net \/ net' = PushBack(c)
    BY DEF FlushEnd
  <2>2. CASE net' = net
    BY <2>2 DEF AwaitedStays
  <2> QED BY <2>1, <2>2, PushBackKeeps DEF Settled
<1>6. ASSUME \A d : d # c => Own(d)' = Own(d)
      PROVE  HandleGoes /\ \A d \in Clients : d # c => Untouched(d)
  BY <1>1, <1>2, <1>3, <1>4, <1>5, <1>6 DEF HandleGoes, Untouched, KnownStays
<1>7. SeenFor(c) /\ ~At("disconnect", c) /\ ~At("disconnect", c)'
  BY <1>2, <1>3 DEF Settled, AllSeen, Work
<1>8. c \in hist.told /\ handle = "open" /\ ~Relieved(c)
        => tx_q[FindTxQ(c)].dest_busy /\ Queued(c) # <<>>
  <2> SUFFICES ASSUME c \in hist.told, handle = "open", ~Relieved(c)
               PROVE  tx_q[FindTxQ(c)].dest_busy /\ Queued(c) # <<>>
    OBVIOUS
  <2>1. tx_q[FindTxQ(c)].dest_busy
    BY <1>2, <1>7 DEF SeenFor, Remembers
  <2>2. RateLimit >= 1 /\ RateLimit \in Nat
    BY LimitsAssumption
  <2>3. ~(Len(Queued(c)) < RateLimit)
    BY <2>1 DEF Relieved
  <2>4. Queued(c) # <<>>
    BY <2>2, <2>3
  <2> QED BY <2>1, <2>4
<1>9. CASE Queued(c) = <<>> /\ Removed(FindTxQ(c))
  <2>1. Own(c)' = {} /\ \A d : d # c => Own(d)' = Own(d)
    BY <1>2, <1>9, OwnRemoved DEF Settled
  <2>2. handle' = "open" => c \notin hist'.told
    BY <1>1, <1>4, <1>8, <1>9
  <2>3. SeenFor(c)'
    BY <1>7, <2>1, <2>2 DEF SeenFor, Waits
  <2> QED BY <1>6, <2>1, <2>3, OthersUntouched DEF Settled
<1>10. CASE /\ Queued(c) # <<>> /\ net' = PushBack(c)
            /\ Changed(FindTxQ(c), tx_q[FindTxQ(c)].bufs, FlushRest(c))
  <2>1. /\ Own(c)' = {[dest_addr |-> c, bufs |-> tx_q[FindTxQ(c)].bufs, dest_busy |-> FlushRest(c)]}
        /\ \A d : d # c => Own(d)' = Own(d)
    BY <1>2, <1>10, OwnChanged DEF Settled
  <2>2. Expects(c)'
    BY <1>10, PushBackKeeps DEF Expects, Settled
  <2>3. ASSUME handle' = "open", c \in hist'.told PROVE Remembers(c)'
    <3>1. c \in hist.told /\ ~Relieved(c)
      BY <1>4, <2>3
    <3>2. FlushRest(c)
      BY <1>1, <1>8, <2>3, <3>1 DEF FlushRest
    <3> QED BY <1>2, <1>10, <2>1, <3>2 DEF Remembers
  <2>4. SeenFor(c)'
    BY <1>1, <1>2, <1>7, <2>2, <2>3 DEF SeenFor
  <2> QED BY <1>6, <2>1, <2>4, OthersUntouched DEF Settled
<1> QED BY <1>9, <1>10, FlushEndShape DEF Settled

-----------------------------------------------------------------------------
(* The other steps; the control invariants together.                         *)

LEMMA ResumeNothingSeen == ASSUME Settled, NEW c \in Clients, ResumeNothing(c) PROVE AllSeen'
<1>1. handle' = handle /\ tx_q' = tx_q /\ clients' = clients /\ hist' = hist /\ net' = net
  BY DEF ResumeNothing
<1>2. \A pc, d : At(pc, d) <=> pc = "resume" /\ d = c
  BY DEF ResumeNothing, At
<1>3. \A d : \A pc \in Work : ~At(pc, d)'
  BY AtIdleNext DEF IdleWorks, ResumeNothing
<1>4. \A d : Own(d)' = Own(d) /\ KnownStays(d) /\ AwaitedStays(d)
  BY <1>1, OwnSame DEF KnownStays, AwaitedStays
<1>5. HandleGoes /\ \A d \in Clients : d # c => Untouched(d)
  BY <1>1, <1>2, <1>3, <1>4 DEF HandleGoes, Untouched
<1>6. Own(c) = {}
  BY OwnIsQueueHolds DEF OwnIsQueue, Settled, ResumeNothing
<1>7. SeenFor(c)'
  <2>1. SeenFor(c) /\ ~At("disconnect", c) /\ ~At("disconnect", c)'
    BY <1>2, <1>3 DEF Settled, AllSeen, Work
  <2>2. ~Remembers(c) /\ ~Waits(c)'
    BY <1>4, <1>6 DEF Remembers, Waits
  <2> QED BY <1>1, <1>4, <1>6, <2>1, <2>2 DEF SeenFor
<1> QED BY <1>5, <1>7, OthersUntouched DEF Settled

LEMMA NotifySeen == ASSUME Settled, NEW c \in Clients, Notify(c) PROVE AllSeen'
<1>1. handle' = handle /\ tx_q' = tx_q /\ clients' = clients /\ net' = net
  BY DEF Notify
<1>2. hist'.told = hist.told
  <2>1. hist \in HistType
    BY DEF Settled, TypeOK, HistType
  <2> QED BY <2>1 DEF Notify, HistType
<1>3. \A pc, d : At(pc, d) <=> pc = "notify" /\ d = c
  BY DEF Notify, At
<1>4. \A d : \A pc \in Work : ~At(pc, d)'
  BY AtIdleNext DEF IdleWorks, Notify
<1>5. \A d : \A pc \in Work : ~At(pc, d)
  BY <1>3 DEF Work
<1>6. \A d : Own(d)' = Own(d) /\ KnownStays(d) /\ AwaitedStays(d)
  BY <1>1, OwnSame DEF KnownStays, AwaitedStays
<1>7. HandleGoes /\ \A d \in Clients : Untouched(d)
  BY <1>1, <1>2, <1>4, <1>5, <1>6 DEF HandleGoes, Untouched
<1> QED BY <1>7, NothingTouched DEF Settled

LEMMA PurgeSeen == ASSUME Settled, NEW c \in Clients, PurgeTxQ(c) PROVE AllSeen'
<1>1. handle' = handle /\ clients' = clients /\ net' = net
  BY DEF PurgeTxQ
<1>2. hist'.told = hist.told
  <2>1. hist \in HistType
    BY DEF Settled, TypeOK, HistType
  <2> QED BY <2>1 DEF PurgeTxQ, HistType
<1>3. \A pc, d : At(pc, d) <=> pc = "purge" /\ d = c
  BY DEF PurgeTxQ, At
<1>4. \A pc, d : At(pc, d)' <=> pc = "disconnect" /\ d = c
  BY DEF PurgeTxQ, At, Goto
<1>5. Own(c)' = {} /\ \A d : d # c => Own(d)' = Own(d)
  <2>1. CASE FindTxQ(c) = 0 /\ tx_q' = tx_q
    <3>1. Own(c) = {}
      BY <2>1, OwnIsQueueHolds DEF OwnIsQueue, Settled
    <3> QED BY <2>1, <3>1, OwnSame
  <2>2. CASE FindTxQ(c) # 0 /\ Removed(FindTxQ(c))
    BY <2>2, OwnRemoved DEF Settled
  <2> QED BY <2>1, <2>2, PurgeShape DEF Settled
<1>6. HandleGoes /\ \A d \in Clients : d # c => Untouched(d)
  BY <1>1, <1>2, <1>3, <1>4, <1>5 DEF HandleGoes, Untouched, KnownStays, AwaitedStays
<1>7. SeenFor(c)'
  <2>1. At("disconnect", c)'
    BY <1>4
  <2>2. ~Waits(c)'
    BY <1>5 DEF Waits
  <2> QED BY <1>5, <2>1, <2>2 DEF SeenFor
<1> QED BY <1>6, <1>7, OthersUntouched DEF Settled

LEMMA DisconnectSeen == ASSUME Settled, NEW c \in Clients, Disconnect(c) PROVE AllSeen'
<1>1. handle' = handle /\ tx_q' = tx_q /\ clients' = clients \ {c} /\ net' = net
  BY DEF Disconnect
<1>2. hist'.told = hist.told \ {c}
  <2>1. hist \in HistType
    BY DEF Settled, TypeOK, HistType
  <2> QED BY <2>1 DEF Disconnect, HistType
<1>3. \A pc, d : At(pc, d) <=> pc = "disconnect" /\ d = c
  BY DEF Disconnect, At
<1>4. \A d : \A pc \in Work : ~At(pc, d)'
  BY AtIdleNext DEF IdleWorks, Disconnect
<1>5. \A d : Own(d)' = Own(d)
  BY <1>1, OwnSame
<1>6. HandleGoes /\ \A d \in Clients : d # c => Untouched(d)
  BY <1>1, <1>2, <1>3, <1>4, <1>5 DEF HandleGoes, Untouched, KnownStays, AwaitedStays
<1>7. SeenFor(c)'
  <2>1. Own(c)' = {} /\ c \notin hist'.told
    BY <1>2, <1>3, <1>5 DEF Settled, AllSeen, SeenFor
  <2>2. ~Waits(c)'
    BY <2>1 DEF Waits
  <2> QED BY <2>1, <2>2 DEF SeenFor
<1> QED BY <1>6, <1>7, OthersUntouched DEF Settled

LEMMA RouterSeen ==
    ASSUME Settled, NEW c \in Clients, RouterResume(c) \/ RouterRemove(c)
    PROVE  AllSeen'
<1>1. /\ handle' = handle /\ tx_q' = tx_q /\ clients' = clients /\ hist' = hist /\ ev' = ev
      /\ \/ net' = [net EXCEPT !.blocked = @ \ {c}, !.resume = @ \cup {c}]
         \/ net' = [net EXCEPT !.blocked = @ \ {c}, !.gone = @ \cup {c}, !.ctl = @ \cup {c}]
  BY DEF RouterResume, RouterRemove
<1>2. net \in NetType
  BY DEF Settled, TypeOK, NetType
<1>3. \A d : AwaitedStays(d)
  BY <1>1, <1>2 DEF AwaitedStays, NetType
<1>4. \A pc, d : At(pc, d)' <=> At(pc, d)
  BY <1>1 DEF At
<1>5. \A d : Own(d)' = Own(d) /\ KnownStays(d)
  BY <1>1, OwnSame DEF KnownStays
<1>6. HandleGoes /\ \A d \in Clients : Untouched(d)
  BY <1>1, <1>3, <1>4, <1>5 DEF HandleGoes, Untouched
<1> QED BY <1>6, NothingTouched DEF Settled

LEMMA QuietSeen ==
    ASSUME Settled, HandleEventReturns \/ CloseFds \/ UNCHANGED vars
    PROVE  AllSeen'
<1>1. tx_q' = tx_q /\ clients' = clients /\ hist' = hist /\ ev' = ev /\ net' = net
  BY DEF HandleEventReturns, CloseFds, vars
<1>2. HandleGoes
  BY DEF HandleGoes, HandleEventReturns, CloseFds, vars
<1>3. \A pc, d : At(pc, d)' <=> At(pc, d)
  BY <1>1 DEF At
<1>4. \A d : Own(d)' = Own(d) /\ KnownStays(d) /\ AwaitedStays(d)
  BY <1>1, OwnSame DEF KnownStays, AwaitedStays
<1>5. \A d \in Clients : Untouched(d)
  BY <1>1, <1>3, <1>4 DEF Untouched
<1> QED BY <1>2, <1>5, NothingTouched DEF Settled

LEMMA PurgeAllSeen == ASSUME Settled, PurgeAll PROVE AllSeen'
<1>1. tx_q' = <<>> /\ handle' = "purged" /\ ev' = Idle
  BY DEF PurgeAll, Receives
<1>2. \A d \in Clients : ~At("disconnect", d)'
  BY <1>1, AtIdleNext DEF IdleWorks, Work
<1>3. \A d : Own(d)' = {}
  BY <1>1 DEF Own
<1> QED BY <1>1, <1>2, <1>3 DEF AllSeen, SeenFor

LEMMA XportClosedSeen == ASSUME Settled, XportClosed PROVE AllSeen'
<1>1. handle' = "freed" /\ ev' = Idle
  BY DEF XportClosed, Settled, EventInv
<1>2. \A d \in Clients : ~At("disconnect", d)'
  BY <1>1, AtIdleNext DEF IdleWorks, Work
<1> QED BY <1>1, <1>2 DEF AllSeen, SeenFor

LEMMA SendControl ==
    ASSUME Settled, ~hist'.stacked, NEW c \in Clients,
           (\E kind \in Kinds : Send(c, kind)) \/ ErrorReply(c)
    PROVE  AllSeen'
<1>1. ASSUME NEW ptr \in {c, Stack}, NEW kind \in Kinds, XportSend(c, ptr, kind),
             ptr = c => c \in clients, clients' = clients, handle' = handle,
             \A d \in Clients : SameWork(d)
      PROVE  AllSeen'
  <2>1. SendStep(c, ptr)
    BY <1>1, SendSteps DEF Settled
  <2> QED BY <1>1, <2>1, SendSeen DEF Settled, AllSeen
<1>2. ASSUME NEW kind \in Kinds, Send(c, kind) PROVE AllSeen'
  <2>1. \A d \in Clients : SameWork(d)
    BY <1>2 DEF Send, SameWork, At
  <2> QED BY <1>1, <1>2, <2>1 DEF Send
<1>3. CASE ErrorReply(c)
  <2>1. \A pc, d : At(pc, d) <=> pc = "reply" /\ d = c
    BY <1>3 DEF ErrorReply, At
  <2>2. \A d : \A pc \in Work : ~At(pc, d)'
    BY <1>3, AtIdleNext DEF IdleWorks, ErrorReply
  <2>3. \A d \in Clients : SameWork(d)
    BY <2>1, <2>2 DEF SameWork, Work
  <2>4. Stack # c /\ "resp" \in Kinds
    BY AddressAssumption DEF Kinds
  <2> QED BY <1>1, <1>3, <2>3, <2>4 DEF ErrorReply
<1> QED BY <1>2, <1>3

\* Every step keeps the control invariants of every client.
LEMMA SeenStep == ASSUME Settled, ~hist'.stacked, [Next]_vars PROVE AllSeen'
BY SendControl, RecvRequestSeen, RecvSeen, BeginFlushSeen, FlushSendSeen, FlushEndSeen,
   ResumeNothingSeen, NotifySeen, PurgeSeen, DisconnectSeen, RouterSeen, QuietSeen, PurgeAllSeen,
   XportClosedSeen DEF Next, EventStep

\* What the event thread hears of and handles of a removal
LEMMA PeerStep == ASSUME TypeOK, PeerInv, [Next]_vars PROVE PeerInv'
<1>0. net \in NetType
  BY DEF TypeOK, NetType
<1>1. /\ net.ctl \subseteq net.gone
      /\ \A d \in Clients : At("purge", d) \/ At("disconnect", d) => d \in net.gone
  BY DEF PeerInv
<1>2. ASSUME net'.ctl \subseteq net.ctl, net'.gone = net.gone,
             \A d \in Clients : At("purge", d)' \/ At("disconnect", d)'
                => d \in net.gone
      PROVE  PeerInv'
  BY <1>1, <1>2 DEF PeerInv
<1>3. ev' = ev => \A d \in Clients : At("purge", d)' \/ At("disconnect", d)' => d \in net.gone
  BY <1>1 DEF At
<1>4. \A x, d : ev' = Idle \/ (Goto(x, d) /\ x \in {"reply", "resume", "flush", "notify"})
        => \A e \in Clients : ~(At("purge", e)' \/ At("disconnect", e)')
  BY DEF Goto, At, Idle
<1>5. \A x, d : Goto(x, d) => \A e \in Clients : At("purge", e)' \/ At("disconnect", e)' => e = d
  BY DEF Goto, At
<1>6. ASSUME NEW c \in Clients, net' = net \/ net' = PushBack(c)
      PROVE  net'.ctl = net.ctl /\ net'.gone = net.gone
  BY <1>0, <1>6 DEF PushBack, NetType
<1>7. ASSUME NEW c \in Clients, NEW kind \in Kinds, Send(c, kind) PROVE PeerInv'
  <2>1. net' = net \/ net' = PushBack(c)
    BY <1>7 DEF Send, XportSend
  <2> QED BY <1>2, <1>3, <1>6, <1>7, <2>1 DEF Send
<1>8. ASSUME NEW c \in Clients, ErrorReply(c) \/ FlushEnd(c) PROVE PeerInv'
  <2>1. net' = net \/ net' = PushBack(c)
    BY <1>8 DEF ErrorReply, XportSend, FlushEnd
  <2>2. ev' = Idle \/ Goto("notify", c)
    BY <1>8 DEF ErrorReply, FlushEnd
  <2> QED BY <1>2, <1>4, <1>6, <2>1, <2>2
<1>9. ASSUME NEW c \in Clients, \/ RecvRequest(c) \/ BeginFlush(c) \/ ResumeNothing(c)
                                \/ Notify(c) \/ Disconnect(c)
      PROVE  PeerInv'
  <2>1. net' = net /\ \/ ev' = Idle \/ Goto("reply", c) \/ Goto("flush", c)
    BY <1>9 DEF RecvRequest, BeginFlush, ResumeNothing, Notify, Disconnect
  <2> QED BY <1>2, <1>4, <2>1
<1>10. ASSUME NEW c \in Clients, RecvResume(c) PROVE PeerInv'
  <2>1. net'.ctl = net.ctl /\ net'.gone = net.gone /\ Goto("resume", c)
    BY <1>0, <1>10 DEF RecvResume, NetType
  <2> QED BY <1>2, <1>4, <2>1
<1>11. ASSUME NEW c \in Clients, RecvRemoveClient(c) PROVE PeerInv'
  <2>1. net'.ctl = net.ctl \ {c} /\ net'.gone = net.gone /\ Goto("purge", c) /\ c \in net.ctl
    BY <1>0, <1>11 DEF RecvRemoveClient, NetType
  <2> QED BY <1>1, <1>2, <1>5, <2>1
<1>12. ASSUME NEW c \in Clients, PurgeTxQ(c) PROVE PeerInv'
  <2>1. net' = net /\ Goto("disconnect", c) /\ At("purge", c)
    BY <1>12 DEF PurgeTxQ
  <2> QED BY <1>1, <1>2, <1>5, <2>1
<1>13. ASSUME NEW c \in Clients, RouterResume(c) \/ RouterRemove(c) PROVE PeerInv'
  <2>1. /\ ev' = ev
        /\ \/ net' = [net EXCEPT !.blocked = @ \ {c}, !.resume = @ \cup {c}]
           \/ net' = [net EXCEPT !.blocked = @ \ {c}, !.gone = @ \cup {c}, !.ctl = @ \cup {c}]
    BY <1>13 DEF RouterResume, RouterRemove
  <2>2. \/ net'.ctl = net.ctl /\ net'.gone = net.gone
        \/ net'.ctl = net.ctl \cup {c} /\ net'.gone = net.gone \cup {c}
    BY <1>0, <2>1 DEF NetType
  <2> QED BY <1>1, <1>3, <2>1, <2>2 DEF PeerInv
<1>14. ASSUME NEW c \in Clients, FlushSend(c) PROVE PeerInv'
  BY <1>2, <1>3, <1>14 DEF FlushSend
<1>15. ASSUME HandleEventReturns \/ PurgeAll \/ CloseFds \/ XportClosed \/ UNCHANGED vars
       PROVE  PeerInv'
  BY <1>2, <1>3, <1>15 DEF HandleEventReturns, PurgeAll, CloseFds, XportClosed, vars
<1> QED BY <1>7, <1>8, <1>9, <1>10, <1>11, <1>12, <1>13, <1>14, <1>15 DEF Next, EventStep

\* The control invariants, with the queues as the data steps leave them.
LEMMA ControlStep ==
    ASSUME TypeOK, StackInv, DestInv, EventInv, ControlInv, [Next]_vars,
           TypeOK', StackInv', DestInv', hist.stacked => hist'.stacked
    PROVE  ControlInv'
<1>1. PeerInv /\ (~hist.stacked => ControlSeen)
  BY SeenIsControl DEF SeenFacts
<1>2. PeerInv'
  BY <1>1, PeerStep
<1>3. hist.told \subseteq Clients /\ hist'.told \subseteq Clients
  BY DEF TypeOK
<1>4. ~hist.stacked => AllSeen
  BY <1>1, <1>3, SeenClientwise DEF Clientwise, AllSeen
<1>5. ~hist'.stacked => AllSeen'
  BY <1>1, <1>4, SeenStep DEF Settled
<1>6. ~hist'.stacked => ControlSeen'
  BY <1>3, <1>5, SeenClientwiseNext DEF Clientwise, AllSeen
<1> QED BY <1>2, <1>6, SeenIsControlNext DEF SeenFacts

-----------------------------------------------------------------------------
(* The inductive invariant, and what follows from it.                        *)

LEMMA InvParts ==
    Inv <=> /\ TypeOK /\ StackInv /\ DestInv /\ EventInv /\ ControlInv
            /\ AcceptedInv /\ OnceInv /\ AddressInv /\ OrderInv
BY DEF Inv, TableInv, PlaceInv, ControlInv

LEMMA InvPartsNext ==
    Inv' <=> /\ TypeOK' /\ StackInv' /\ DestInv' /\ EventInv' /\ ControlInv'
             /\ AcceptedInv' /\ OnceInv' /\ AddressInv' /\ OrderInv'
BY DEF Inv, TableInv, PlaceInv, ControlInv

LEMMA InitType == Init => TypeOK
<1> SUFFICES ASSUME Init PROVE TypeOK
  OBVIOUS
<1>0. MaxMsgs \in Nat /\ MaxBlocks \in Nat
  BY BoundsAssumption
<1>1. tx_q \in Seq(Dest) /\ addr \in Clients \cup {Junk} /\ ev \in EvState /\ clients \subseteq Clients
  BY DEF Init, EvState
<1>2. handle \in {"open", "purged", "closed", "freed"}
  BY DEF Init
<1>3. net \in [blocked : SUBSET Clients, resume : SUBSET Clients,
               gone : SUBSET Clients, ctl : SUBSET Clients, blocks : 0..MaxBlocks]
  BY <1>0 DEF Init
<1>4. inbox \in [Clients -> Seq(Msg)]
  <2>1. <<>> \in Seq(Msg)
    OBVIOUS
  <2> QED BY <2>1 DEF Init
<1>5. hist \in [accepted : [Clients -> 0..MaxMsgs], lost : SUBSET Msg,
                told : SUBSET Clients, due : SUBSET Clients, stacked : BOOLEAN]
  <2>1. [c \in Clients |-> 0] \in [Clients -> 0..MaxMsgs]
    BY <1>0
  <2> QED BY <2>1 DEF Init
<1> QED BY <1>1, <1>2, <1>3, <1>4, <1>5 DEF TypeOK

LEMMA InitInv == Init => Inv
<1> SUFFICES ASSUME Init PROVE Inv
  OBVIOUS
<1>1. TypeOK
  BY InitType
<1>2. /\ tx_q = <<>> /\ ev = Idle /\ hist.lost = {} /\ hist.told = {}
      /\ net.ctl = {} /\ inbox = [c \in Clients |-> <<>>]
      /\ hist.accepted = [c \in Clients |-> 0]
  BY DEF Init
<1>3. StackInv /\ DestInv
  BY <1>2 DEF StackInv, DestInv
<1>4. \A x, c : x # "idle" => ~At(x, c)
  BY <1>2 DEF At, Idle
<1>5. EventInv
  BY <1>2, <1>4 DEF EventInv

<1>6. ControlInv
  <2>1. \A c : Own(c) = {}
    BY <1>2 DEF Own
  <2>2. AllSeen
    BY <1>2, <1>4, <2>1 DEF AllSeen, SeenFor, Waits
  <2>3. ControlSeen
    BY <1>2, <2>2, SeenClientwise DEF Clientwise, AllSeen
  <2>4. PeerInv
    BY <1>2, <1>4 DEF PeerInv
  <2> QED BY <1>1, <1>3, <2>3, <2>4, SeenIsControl DEF SeenFacts
<1>7. \A c \in Clients : Box(c) = {} /\ IsInjective(inbox[c]) /\ Ordered(inbox[c])
  BY <1>2, ShortFacts DEF Box
<1>8. AcceptedInv
  <2>1. ASSUME NEW m \in Msg PROVE ~Somewhere(m) /\ ~(m.n <= hist.accepted[m.to])
    <3>1. m.n \in Nat /\ m.n >= 1 /\ hist.accepted[m.to] = 0
      BY <1>2, BoundsAssumption DEF Msg
    <3> QED BY <1>2, <1>7, <3>1 DEF Somewhere
  <2> QED BY <2>1 DEF AcceptedInv
<1>9. OnceInv /\ AddressInv /\ OrderInv
  BY <1>2, <1>7 DEF OnceInv, AddressInv, OrderInv
<1> QED BY <1>1, <1>3, <1>5, <1>6, <1>8, <1>9, InvParts

LEMMA InvStep == Inv /\ [Next]_vars => Inv'
<1> SUFFICES ASSUME Inv, [Next]_vars PROVE Inv'
  OBVIOUS
<1>1. /\ TypeOK /\ StackInv /\ DestInv /\ EventInv /\ ControlInv
      /\ AcceptedInv /\ OnceInv /\ AddressInv /\ OrderInv
  BY InvParts
<1>2. DataStep
  BY <1>1, DataSteps
<1>3. TypeOK' /\ EventInv'
  BY <1>1, TypeStep, EventStepInv
<1>4. StackInv' /\ DestInv'
  BY <1>1, <1>2, DestsStep
<1>5. AcceptedInv' /\ OnceInv'
  BY <1>1, <1>2, AcceptedStep, OnceStep
<1>6. AddressInv' /\ OrderInv'
  BY <1>1, <1>2, OrderStep
<1>7. hist.stacked => hist'.stacked
  BY <1>2 DEF DataStep, StackNoted
<1>8. ControlInv'
  BY <1>1, <1>3, <1>4, <1>7, ControlStep
<1> QED BY <1>3, <1>4, <1>5, <1>6, <1>8, InvPartsNext

\* The inductive invariant holds in every state: for any number of clients, any limits, and
\* whether or not clients go away, the service is unregistered or errors are answered.
THEOREM Invariant == Spec => []Inv
BY InitInv, InvStep, PTL DEF Spec

LEMMA ConcatFacts ==
    ASSUME NEW s \in Seq(Msg), NEW t \in Seq(Msg)
    PROVE  /\ ToSet(s \o t) = ToSet(s) \cup ToSet(t)
           /\ Ordered(s) /\ Ordered(t) /\ (\A x \in ToSet(s), y \in ToSet(t) : x.n < y.n)
                => Ordered(s \o t)
<1>1. /\ Len(s) \in Nat /\ Len(t) \in Nat /\ DOMAIN s = 1..Len(s) /\ DOMAIN t = 1..Len(t)
      /\ DOMAIN (s \o t) = 1..(Len(s) + Len(t))
      /\ \A i \in 1..(Len(s) + Len(t)) : (s \o t)[i] = IF i <= Len(s) THEN s[i] ELSE t[i - Len(s)]
  OBVIOUS
<1> DEFINE u == s \o t
<1>2. \A i \in DOMAIN s : i \in DOMAIN u /\ u[i] = s[i]
  BY <1>1
<1>3. \A i \in DOMAIN t : i + Len(s) \in DOMAIN u /\ u[i + Len(s)] = t[i]
  BY <1>1
<1>4. \A i \in DOMAIN u : \/ i \in DOMAIN s /\ u[i] = s[i]
                          \/ i - Len(s) \in DOMAIN t /\ u[i] = t[i - Len(s)] /\ i > Len(s)
  BY <1>1
<1> HIDE DEF u
<1>5. ToSet(u) = ToSet(s) \cup ToSet(t)
  BY <1>2, <1>3, <1>4 DEF ToSet
<1>6. ASSUME Ordered(s), Ordered(t), \A x \in ToSet(s), y \in ToSet(t) : x.n < y.n,
             NEW i \in DOMAIN u, NEW j \in DOMAIN u, i < j
      PROVE  u[i].n < u[j].n
  <2>0. i \in Nat /\ j \in Nat
    BY <1>1 DEF u
  <2>1. CASE i \in DOMAIN s /\ u[i] = s[i] /\ j \in DOMAIN s /\ u[j] = s[j]
    BY <1>6, <2>1 DEF Ordered
  <2>2. CASE /\ i - Len(s) \in DOMAIN t /\ u[i] = t[i - Len(s)]
             /\ j - Len(s) \in DOMAIN t /\ u[j] = t[j - Len(s)]
    <3>1. i - Len(s) < j - Len(s)
      BY <1>1, <1>6, <2>0
    <3> QED BY <1>6, <2>2, <3>1 DEF Ordered
  <2>3. CASE i \in DOMAIN s /\ u[i] = s[i] /\ j - Len(s) \in DOMAIN t /\ u[j] = t[j - Len(s)]
    BY <1>6, <2>3 DEF ToSet
  <2>4. ~(i > Len(s) /\ j \in DOMAIN s)
    BY <1>1, <1>6, <2>0
  <2> QED BY <1>4, <2>1, <2>2, <2>3, <2>4
<1>7. Ordered(s) /\ Ordered(t) /\ (\A x \in ToSet(s), y \in ToSet(t) : x.n < y.n) => Ordered(u)
  BY <1>6 DEF Ordered
<1> QED BY <1>5, <1>7 DEF u

\* Conserved follows: a client's messages are in its inbox and in its one destination.
LEMMA ConservedHolds == Inv => Conserved
<1> SUFFICES ASSUME Inv, ~hist.stacked, NEW c \in Clients
             PROVE  LET s == inbox[c] \o Queued(c)
                    IN  /\ ToSet(s) = Accepted(c) \ hist.lost
                        /\ \A i, j \in DOMAIN s : i < j => s[i].n < s[j].n
  BY DEF Conserved
<1>1. TypeOK /\ StackInv /\ DestInv /\ AcceptedInv /\ OnceInv /\ AddressInv /\ OrderInv
  BY InvParts
<1>2. inbox[c] \in Seq(Msg) /\ Queued(c) \in Seq(Msg) /\ hist.accepted \in [Clients -> 0..MaxMsgs]
  BY <1>1, QueuedType DEF TypeOK
<1>3. \A m \in Box(c) : m \in Msg /\ m.to = c
  BY <1>1, <1>2 DEF AddressInv, Box, ToSet
<1>4. \A m \in Box(c) : m \notin hist.lost
  BY <1>1, <1>3 DEF OnceInv
<1>5. \A m \in ToSet(Queued(c)) :
         m \in Msg /\ m.to = c /\ m \notin hist.lost /\ \E k \in DOMAIN tx_q : m \in Bufs(k)
  <2>1. CASE FindTxQ(c) = 0
    BY <2>1, ShortFacts DEF Queued
  <2>2. CASE FindTxQ(c) # 0
    <3>1. PICK p \in DOMAIN tx_q : p = FindTxQ(c)
      BY <1>1, <2>2, FindDest
    <3>2. ToSet(Queued(c)) = Bufs(p) /\ tx_q[p].dest_addr = c
      BY <1>1, <2>2, <3>1, OwnQueue DEF Queued, Bufs, OwnFacts
    <3>3. Bufs(p) \subseteq Msg
      BY <1>2, <3>2 DEF ToSet
    <3> QED BY <1>1, <3>1, <3>2, <3>3 DEF AddressInv, OnceInv
  <2> QED BY <2>1, <2>2
<1>6. \A m \in Msg : m \in Accepted(c) <=> m.to = c /\ m.n <= hist.accepted[c]
  <2>1. \A m \in Msg : m = [to |-> m.to, n |-> m.n] /\ m.n \in Nat /\ m.n >= 1 /\ m.n \in 1..MaxMsgs
    BY BoundsAssumption DEF Msg
  <2>2. hist.accepted[c] \in Nat
    BY <1>2, BoundsAssumption
  <2> QED BY <2>1, <2>2 DEF Accepted
<1>7. Accepted(c) \subseteq Msg
  BY <1>2, BoundsAssumption DEF Accepted, Msg
<1>8. ASSUME NEW m \in Msg PROVE Somewhere(m) <=> m.n <= hist.accepted[m.to]
  BY <1>1 DEF AcceptedInv
<1>9. Box(c) \cup ToSet(Queued(c)) \subseteq Accepted(c) \ hist.lost
  <2>1. \A m \in Box(c) : Somewhere(m)
    BY DEF Somewhere
  <2>2. \A m \in ToSet(Queued(c)) : Somewhere(m)
    BY <1>5 DEF Somewhere
  <2>3. \A m \in Box(c) : m \in Accepted(c)
    BY <1>3, <1>6, <1>8, <2>1
  <2>4. \A m \in ToSet(Queued(c)) : m \in Accepted(c)
    BY <1>5, <1>6, <1>8, <2>2
  <2> QED BY <1>4, <1>5, <2>3, <2>4
<1>10. ASSUME NEW m \in Accepted(c), m \notin hist.lost
       PROVE  m \in Box(c) \cup ToSet(Queued(c))
  <2>1. m \in Msg /\ m.to = c /\ Somewhere(m)
    BY <1>6, <1>7, <1>8
  <2>2. ASSUME NEW d \in Clients, m \in Box(d) PROVE m \in Box(c)
    BY <1>1, <2>1, <2>2 DEF AddressInv
  <2>3. ASSUME NEW k \in DOMAIN tx_q, m \in Bufs(k) PROVE m \in ToSet(Queued(c))
    <3>1. tx_q[k].dest_addr = c
      BY <1>1, <2>1, <2>3 DEF AddressInv
    <3>2. FindTxQ(c) # 0 /\ tx_q[FindTxQ(c)].dest_addr = c
      BY <1>1, <3>1, OwnQueue DEF OwnFacts
    <3>3. FindTxQ(c) = k
      BY <1>1, <3>1, <3>2, FindDest DEF DestInv
    <3> QED BY <2>3, <3>2, <3>3 DEF Queued, Bufs
  <2> QED BY <1>10, <2>1, <2>2, <2>3 DEF Somewhere
<1>11. Ordered(inbox[c]) /\ Ordered(Queued(c)) /\ \A x \in Box(c), y \in ToSet(Queued(c)) : x.n < y.n
  <2>1. CASE FindTxQ(c) = 0
    BY <1>1, <2>1, ShortFacts DEF Queued, OrderInv
  <2>2. CASE FindTxQ(c) # 0
    <3>1. PICK p \in DOMAIN tx_q : p = FindTxQ(c)
      BY <1>1, <2>2, FindDest
    <3>2. Queued(c) = tx_q[p].bufs /\ tx_q[p].dest_addr = c /\ ToSet(Queued(c)) = Bufs(p)
      BY <1>1, <2>2, <3>1, OwnQueue DEF Queued, OwnFacts, Bufs
    <3> QED BY <1>1, <3>1, <3>2 DEF OrderInv
  <2> QED BY <2>1, <2>2
<1> DEFINE s == inbox[c] \o Queued(c)
<1>12. ToSet(s) = Box(c) \cup ToSet(Queued(c)) /\ Ordered(s)
  BY <1>2, <1>11, ConcatFacts DEF Box
<1> HIDE DEF s
<1>13. ToSet(s) = Accepted(c) \ hist.lost
  BY <1>9, <1>10, <1>12
<1> QED BY <1>12, <1>13 DEF Ordered, s

-----------------------------------------------------------------------------
(* Each message in one place, and the safety theorems.                       *)

\* Where a message is, place by place
LEMMA PlacesOf ==
    ASSUME NEW m, NEW e
    PROVE  e \in Places(m) <=>
              \/ \E c \in Clients : \E i \in DOMAIN inbox[c] :
                    inbox[c][i] = m /\ e = <<"inbox", <<c, i>>>>
              \/ \E k \in DOMAIN tx_q : \E i \in DOMAIN tx_q[k].bufs :
                    tx_q[k].bufs[i] = m /\ e = <<"queue", <<k, i>>>>
              \/ m \in hist.lost /\ e = <<"lost", <<>>>>
<1>1. \A p : p \in Received(m) <=> \E c \in Clients : \E i \in DOMAIN inbox[c] :
                                      inbox[c][i] = m /\ p = <<c, i>>
  BY DEF Received
<1>2. \A p : p \in Waiting(m) <=> \E k \in DOMAIN tx_q : \E i \in DOMAIN tx_q[k].bufs :
                                     tx_q[k].bufs[i] = m /\ p = <<k, i>>
  BY DEF Waiting
<1>3. e \in {"inbox"} \X Received(m) <=> \E p \in Received(m) : e = <<"inbox", p>>
  OBVIOUS
<1>4. e \in {"queue"} \X Waiting(m) <=> \E p \in Waiting(m) : e = <<"queue", p>>
  OBVIOUS
<1>5. e \in Places(m) <=> \/ \E p \in Received(m) : e = <<"inbox", p>>
                          \/ \E p \in Waiting(m) : e = <<"queue", p>>
                          \/ m \in hist.lost /\ e = <<"lost", <<>>>>
  BY <1>3, <1>4 DEF Places
<1> QED BY <1>1, <1>2, <1>5

\* A set with one member.
LEMMA OnePlace ==
    ASSUME NEW S, NEW p, \A e : e \in S <=> e = p
    PROVE  \E q \in S : S = {q}
<1>1. p \in S /\ S = {p}
  OBVIOUS
<1> QED BY <1>1

\* AccountedFor follows: IsInjective leaves one index for a message.
LEMMA AccountedForHolds == Inv => AccountedFor
<1> SUFFICES ASSUME Inv, NEW m \in Msg
             PROVE  IF m.n <= hist.accepted[m.to] THEN \E p \in Places(m) : Places(m) = {p}
                    ELSE Places(m) = {}
  BY DEF AccountedFor
<1>1. TypeOK /\ AcceptedInv /\ OnceInv
  BY InvParts
<1>2. Somewhere(m) <=> m.n <= hist.accepted[m.to]
  BY <1>1 DEF AcceptedInv
<1>3. /\ \A c \in Clients : IsInjective(inbox[c])
      /\ \A k \in DOMAIN tx_q : IsInjective(tx_q[k].bufs)
      /\ Apart(m)
  BY <1>1, OnceParts
<1>4. \A c, i : i \in DOMAIN inbox[c] /\ inbox[c][i] = m => m \in Box(c)
  BY DEF Box, ToSet
<1>5. \A k, i : i \in DOMAIN tx_q[k].bufs /\ tx_q[k].bufs[i] = m => m \in Bufs(k)
  BY DEF Bufs, ToSet
<1>6. CASE ~Somewhere(m)
  <2>1. \A e : e \notin Places(m)
    BY <1>4, <1>5, <1>6, PlacesOf DEF Somewhere
  <2> QED BY <1>2, <1>6, <2>1
<1>7. ASSUME NEW c \in Clients, m \in Box(c) PROVE \E q \in Places(m) : Places(m) = {q}
  <2>1. PICK i \in DOMAIN inbox[c] : inbox[c][i] = m
    BY <1>7 DEF Box, ToSet
  <2>2. \A d \in Clients : \A j \in DOMAIN inbox[d] : inbox[d][j] = m => d = c /\ j = i
    BY <1>3, <1>4, <1>7, <2>1 DEF Apart, IsInjective
  <2>3. m \notin hist.lost /\ \A k \in DOMAIN tx_q : m \notin Bufs(k)
    BY <1>3, <1>7 DEF Apart
  <2>4. \A e : e \in Places(m) <=> e = <<"inbox", <<c, i>>>>
    BY <1>5, <2>1, <2>2, <2>3, PlacesOf
  <2> DEFINE p == <<"inbox", <<c, i>>>>
  <2>5. \A e : e \in Places(m) <=> e = p
    BY <2>4
  <2> HIDE DEF p
  <2> QED BY <2>5, OnePlace
<1>8. ASSUME NEW k \in DOMAIN tx_q, m \in Bufs(k) PROVE \E q \in Places(m) : Places(m) = {q}
  <2>1. PICK i \in DOMAIN tx_q[k].bufs : tx_q[k].bufs[i] = m
    BY <1>8 DEF Bufs, ToSet
  <2>2. \A l \in DOMAIN tx_q : \A j \in DOMAIN tx_q[l].bufs : tx_q[l].bufs[j] = m => l = k /\ j = i
    BY <1>3, <1>5, <1>8, <2>1 DEF Apart, IsInjective
  <2>3. m \notin hist.lost /\ \A c \in Clients : m \notin Box(c)
    BY <1>3, <1>8 DEF Apart
  <2>4. \A e : e \in Places(m) <=> e = <<"queue", <<k, i>>>>
    BY <1>4, <2>1, <2>2, <2>3, PlacesOf
  <2> DEFINE p == <<"queue", <<k, i>>>>
  <2>5. \A e : e \in Places(m) <=> e = p
    BY <2>4
  <2> HIDE DEF p
  <2> QED BY <2>5, OnePlace
<1>9. ASSUME m \in hist.lost PROVE \E q \in Places(m) : Places(m) = {q}
  <2>1. /\ \A c \in Clients : m \notin Box(c)
        /\ \A k \in DOMAIN tx_q : m \notin Bufs(k)
    BY <1>3, <1>9 DEF Apart
  <2>2. \A e : e \in Places(m) <=> e = <<"lost", <<>>>>
    BY <1>4, <1>5, <1>9, <2>1, PlacesOf
  <2> DEFINE p == <<"lost", <<>>>>
  <2>3. \A e : e \in Places(m) <=> e = p
    BY <2>2
  <2> HIDE DEF p
  <2> QED BY <2>3, OnePlace
<1>10. CASE Somewhere(m)
  BY <1>2, <1>7, <1>8, <1>9, <1>10 DEF Somewhere
<1> QED BY <1>6, <1>10

\* The type invariant: every variable of the transmit queues has its type.
THEOREM TypeCorrect == Spec => []TypeOK
<1>1. Inv => TypeOK
  BY InvParts
<1> QED BY <1>1, Invariant, PTL

\* However the sends of the service interleave with the flush of a queue, its purge and the
\* closing of the transport, what a client received and what still waits for it is what
\* xport_send accepted, each message once and in the order of acceptance, but for what the
\* router failed to send or a purge dropped; until a queue's address points to the stack.
THEOREM NothingDuplicatedOrReordered == Spec => []Conserved
BY ConservedHolds, Invariant, PTL

\* Every message xport_send accepted is with a client, in a queue, or lost, and in no second
\* place; this holds even when a queue's address points to the stack.
THEOREM EachMessageInOnePlace == Spec => []AccountedFor
BY AccountedForHolds, Invariant, PTL

\* While a destination is on the list its address pointer points into a client struct that has
\* not been freed: the removal of a client purges its queue before it frees the struct, and no
\* send makes a new queue in between, since the router has no port to push back for.
THEOREM NoPointerDangles == Spec => []NoDangling
<1>1. Inv => NoDangling
  BY DEF Inv
<1> QED BY <1>1, Invariant, PTL

\* A queue that holds messages is never forgotten: its client is blocked, or its resume event
\* or its removal is on the way to the event thread or being handled.
THEOREM QueuesAreWaitedFor == Spec => []NothingStuck
<1>1. Inv => NothingStuck
  BY DEF Inv
<1> QED BY <1>1, Invariant, PTL

\* A client for which qmi_csi_send_ind returned QMI_CSI_CONN_BUSY keeps a destination marked
\* dest_busy whose messages a resume event will flush, so that the service will be notified.
THEOREM BusyIsRemembered == Spec => []BusyRemembered
<1>1. Inv => BusyRemembered
  BY DEF Inv
<1> QED BY <1>1, Invariant, PTL

-----------------------------------------------------------------------------
(* The refinement of QcsiChannel: what is seen of a step.                    *)

\* When the framework sends no error replies no destination points to the variable.
NoReplies == ~hist.stacked /\ \A c \in Clients : ~At("reply", c)

\* A service that sends to its clients makes no destination that points to the stack.
LEMMA SendNotStacked ==
    ASSUME TypeOK, StackInv, ~hist.stacked, NEW c \in Clients, NEW kind \in Kinds, Send(c, kind)
    PROVE  ~hist'.stacked
<1>1. SendStep(c, c)
  BY SendSteps DEF Send
<1>2. \A k \in DOMAIN tx_q : tx_q[k].dest_addr \in Clients
  BY DEF StackInv
<1>3. \A k \in DOMAIN tx_q' : tx_q'[k].dest_addr \in Clients
  <2>1. CASE tx_q' = tx_q
    BY <1>2, <2>1
  <2>2. ASSUME NEW p, NEW b, NEW v, Changed(p, b, v)
        PROVE  \A k \in DOMAIN tx_q' : tx_q'[k].dest_addr \in Clients
    BY <1>2, <2>2, ChangedBufs
  <2>3. ASSUME NEW b, Opened(c, b) PROVE \A k \in DOMAIN tx_q' : tx_q'[k].dest_addr \in Clients
    <3>1. /\ DOMAIN tx_q' = DOMAIN tx_q \cup {Len(tx_q) + 1}
          /\ \A k \in DOMAIN tx_q : tx_q'[k] = tx_q[k]
          /\ tx_q'[Len(tx_q) + 1].dest_addr = c
      BY <2>3, OpenedBufs
    <3> QED BY <1>2, <3>1
  <2>4. \/ tx_q' = tx_q
        \/ \E p, b, v : Changed(p, b, v)
        \/ \E b : Opened(c, b)
    BY <1>1 DEF SendStep, PutStep, Quiet, Passes, Refuses, Marks, Enqueues, Opens
  <2> QED BY <2>1, <2>2, <2>3, <2>4
<1>4. ~Stacked
  BY <1>3, AddressAssumption DEF Stacked
<1>5. hist \in HistType
  BY DEF TypeOK, HistType
<1>6. hist' = hist \/ Refuse(c, kind) \/ Accept(c) \/ Drop
  BY DEF Send, XportSend, Put
<1> QED BY <1>4, <1>5, <1>6 DEF Refuse, Accept, Drop, HistType

LEMMA NoRepliesStep ==
    ASSUME ~ErrorReplies, TypeOK, StackInv, NoReplies, [Next]_vars
    PROVE  NoReplies'
<1>0. hist \in HistType
  BY DEF TypeOK, HistType
<1>1. ASSUME NEW c \in Clients, NEW kind \in Kinds, Send(c, kind) PROVE NoReplies'
  <2>1. ~hist'.stacked
    BY <1>1, SendNotStacked DEF NoReplies
  <2> QED BY <1>1, <2>1 DEF NoReplies, Send, At
<1>2. ASSUME NEW c \in Clients, ErrorReply(c) PROVE FALSE
  BY <1>2 DEF ErrorReply, NoReplies
<1>3. ASSUME ~hist'.stacked, ev' = ev \/ ev' = Idle
                              \/ \E c : \E x \in {"resume", "flush", "notify", "purge", "disconnect"} : Goto(x, c)
      PROVE  NoReplies'
  BY <1>3 DEF NoReplies, At, Idle, Goto
<1>4. ASSUME NEW c \in Clients, \/ RecvRequest(c) \/ RecvResume(c) \/ BeginFlush(c) \/ ResumeNothing(c)
                                \/ RecvRemoveClient(c) \/ RouterResume(c) \/ RouterRemove(c)
      PROVE  NoReplies'
  <2>1. hist' = hist
    BY <1>4 DEF RecvRequest, RecvResume, BeginFlush, ResumeNothing, RecvRemoveClient,
                RouterResume, RouterRemove
  <2>2. ev' = ev \/ ev' = Idle \/ Goto("resume", c) \/ Goto("flush", c) \/ Goto("purge", c)
    BY <1>4 DEF RecvRequest, RecvResume, BeginFlush, ResumeNothing, RecvRemoveClient,
                RouterResume, RouterRemove
  <2> QED BY <1>3, <2>1, <2>2 DEF NoReplies
<1>5. ASSUME NEW c \in Clients, FlushSend(c) \/ FlushEnd(c) \/ Notify(c) \/ PurgeTxQ(c) \/ Disconnect(c)
      PROVE  NoReplies'
  <2>1. hist'.stacked = hist.stacked
    BY <1>0, <1>5 DEF FlushSend, FlushEnd, Notify, PurgeTxQ, Disconnect, HistType
  <2>2. ev' = ev \/ ev' = Idle \/ Goto("notify", c) \/ Goto("disconnect", c)
    BY <1>5 DEF FlushSend, FlushEnd, Notify, PurgeTxQ, Disconnect
  <2> QED BY <1>3, <2>1, <2>2 DEF NoReplies
<1>6. ASSUME HandleEventReturns \/ PurgeAll \/ CloseFds \/ XportClosed \/ UNCHANGED vars
      PROVE  NoReplies'
  <2>1. ev' = ev
    BY <1>6 DEF HandleEventReturns, PurgeAll, CloseFds, XportClosed, vars
  <2>2. hist'.stacked = hist.stacked
    BY <1>0, <1>6 DEF HandleEventReturns, PurgeAll, CloseFds, XportClosed, vars, HistType
  <2> QED BY <1>3, <2>1, <2>2 DEF NoReplies
<1> QED BY <1>1, <1>2, <1>4, <1>5, <1>6 DEF Next, EventStep

\* The messages a client waits for, and the clients the service waits for
Pending == [c \in Clients |-> IF handle = "freed" THEN <<>> ELSE Queued(c)]
Busy == hist.told \cup hist.due
Sound == TypeOK /\ StackInv /\ DestInv /\ ~hist.stacked

OwnTells ==
    Sound => \A c \in Clients : /\ Own(c) = {} => Queued(c) = <<>>
                                /\ \A r : Own(c) = {r} => Queued(c) = r.bufs
                                /\ Own(c) = {} \/ \E r : Own(c) = {r}

LEMMA OwnIsTold == OwnTells
<1> SUFFICES ASSUME Sound, NEW c \in Clients
             PROVE  /\ Own(c) = {} => Queued(c) = <<>>
                    /\ \A r : Own(c) = {r} => Queued(c) = r.bufs
                    /\ Own(c) = {} \/ \E r : Own(c) = {r}
  BY DEF OwnTells
<1>1. /\ FindTxQ(c) = 0 => Own(c) = {} /\ Queued(c) = <<>>
      /\ FindTxQ(c) # 0 => Own(c) = {tx_q[FindTxQ(c)]} /\ Queued(c) = tx_q[FindTxQ(c)].bufs
  BY OwnIsQueueHolds DEF OwnIsQueue, Sound
<1> QED BY <1>1

LEMMA OwnIsToldNext == OwnTells'
BY OwnIsTold, PTL

LEMMA SameQueued ==
    ASSUME Sound, Sound', NEW c \in Clients, Own(c)' = Own(c) PROVE Queued(c)' = Queued(c)
<1>1. CASE Own(c) = {}
  BY <1>1, OwnIsTold, OwnIsToldNext DEF OwnTells
<1>2. ASSUME NEW r, Own(c) = {r} PROVE Queued(c)' = Queued(c)
  BY <1>2, OwnIsTold, OwnIsToldNext DEF OwnTells
<1> QED BY <1>1, <1>2, OwnIsTold DEF OwnTells

LEMMA PendingSame ==
    ASSUME Sound, Sound', \A c \in Clients : Own(c)' = Own(c), handle' = "freed" <=> handle = "freed"
    PROVE  Pending' = Pending
<1>1. \A c \in Clients : Queued(c)' = Queued(c)
  BY SameQueued
<1> QED BY <1>1 DEF Pending

LEMMA PendingChanged ==
    ASSUME Sound, Sound', NEW c \in Clients, NEW b, handle # "freed", handle' # "freed",
           \A d : d # c => Own(d)' = Own(d), Queued(c)' = b
    PROVE  Pending' = [Pending EXCEPT ![c] = b] /\ Pending[c] = Queued(c)
<1>1. \A d \in Clients : d # c => Queued(d)' = Queued(d)
  BY SameQueued
<1> QED BY <1>1 DEF Pending

\* What a step of the channel is
LEMMA Unseen ==
    ASSUME hist'.accepted = hist.accepted, Pending' = Pending, inbox' = inbox, Busy' = Busy
    PROVE  UNCHANGED Channel!vars
BY DEF Channel!vars, Pending, Busy

LEMMA SeenAccept ==
    ASSUME NEW c \in Clients, Counts(c), inbox' = inbox, Busy' = Busy, Pending[c] = Queued(c),
           Pending' = [Pending EXCEPT ![c] = Append(Queued(c), NextMsg(c))]
    PROVE  Channel!Accept(c)
<1>1. Pending' = [Pending EXCEPT ![c] = Append(@, NextMsg(c))]
  OBVIOUS
<1> QED BY <1>1 DEF Channel!Accept, Channel!NextMsg, NextMsg, Counts, Pending, Busy

LEMMA SeenPass ==
    ASSUME NEW c \in Clients, Passes(c), Busy' = Busy, Pending' = Pending, Pending[c] = <<>>
    PROVE  Channel!Pass(c)
BY DEF Channel!Pass, Channel!NextMsg, NextMsg, Passes, Counts, Pending, Busy

LEMMA SeenRefuse ==
    ASSUME NEW c \in Clients, Pending[c] # <<>>, Pending' = Pending, Busy' = Busy \cup {c},
           hist'.accepted = hist.accepted, inbox' = inbox
    PROVE  Channel!Refuse(c)
BY DEF Channel!Refuse, Pending, Busy

LEMMA SeenFlush ==
    ASSUME NEW c \in Clients, Pending[c] # <<>>, Pending' = [Pending EXCEPT ![c] = Tail(@)],
           inbox' \in {inbox, [inbox EXCEPT ![c] = Append(@, Head(Pending[c]))]},
           hist'.accepted = hist.accepted, Busy' = Busy
    PROVE  Channel!Flush(c)
BY DEF Channel!Flush, Pending, Busy

LEMMA SeenDrop ==
    ASSUME NEW c \in Clients, Pending' = [Pending EXCEPT ![c] = <<>>],
           inbox' = inbox, hist'.accepted = hist.accepted, Busy' = Busy
    PROVE  Channel!Drop(c)
BY DEF Channel!Drop, Pending, Busy

LEMMA SeenResume ==
    ASSUME NEW c \in Clients, c \in Busy, Busy' = Busy \ {c},
           Pending' = Pending, inbox' = inbox, hist'.accepted = hist.accepted
    PROVE  Channel!Resume(c)
BY DEF Channel!Resume, Pending, Busy

LEMMA SeenUnregister ==
    ASSUME Pending' = [c \in Clients |-> <<>>], Busy' \in {Busy, {}},
           inbox' = inbox, hist'.accepted = hist.accepted
    PROVE  Channel!Unregister
BY DEF Channel!Unregister, Pending, Busy

-----------------------------------------------------------------------------
(* Each step is one of the channel, or is not seen.                          *)

Simulated == [Channel!Next]_(Channel!vars)
Ready == Sound /\ EventInv /\ Sound'

LEMMA ClientSimulated ==
    ASSUME NEW c \in Clients,
           \/ Channel!Accept(c) \/ Channel!Pass(c) \/ Channel!Flush(c)
           \/ Channel!Drop(c) \/ Channel!Refuse(c) \/ Channel!Resume(c)
    PROVE  Simulated
BY DEF Simulated, Channel!Next

LEMMA UnseenSimulated ==
    ASSUME hist'.accepted = hist.accepted, Pending' = Pending, inbox' = inbox, Busy' = Busy
    PROVE  Simulated
BY Unseen DEF Simulated

LEMMA QueuedNext ==
    ASSUME Sound', NEW c \in Clients, NEW a, NEW b, NEW v,
           Own(c)' = {[dest_addr |-> a, bufs |-> b, dest_busy |-> v]}
    PROVE  Queued(c)' = b
<1>1. PICK r : r = [dest_addr |-> a, bufs |-> b, dest_busy |-> v]
  OBVIOUS
<1>2. r.bufs = b /\ Own(c)' = {r}
  BY <1>1
<1> QED BY <1>2, OwnIsToldNext DEF OwnTells

LEMMA SendSimulated ==
    ASSUME Ready, NEW c \in Clients, NEW kind \in Kinds, Send(c, kind)
    PROVE  Simulated
<1>1. SendStep(c, c) /\ handle # "freed" /\ handle' = handle
  BY SendSteps DEF Ready, Sound, Send, XportSend
<1>2. Pending[c] = Queued(c)
  BY <1>1 DEF Pending
<1>3. ASSUME tx_q' = tx_q PROVE Pending' = Pending
  <2>1. \A d \in Clients : Own(d)' = Own(d)
    BY <1>3, OwnSame
  <2> QED BY <1>1, <2>1, PendingSame DEF Ready
<1>4. CASE Quiet /\ Busy' = Busy
  BY <1>3, <1>4, UnseenSimulated DEF Quiet, CountsNothing
<1>5. CASE Passes(c) /\ Busy' = Busy
  <2>1. Pending[c] = <<>> /\ Pending' = Pending
    BY <1>2, <1>3, <1>5 DEF Passes
  <2> QED BY <1>5, <2>1, SeenPass, ClientSimulated
<1>6. ASSUME FindTxQ(c) # 0, NEW b, NEW v, Changed(FindTxQ(c), b, v)
      PROVE  Pending' = [Pending EXCEPT ![c] = b]
  <2>1. Own(c)' = {[dest_addr |-> c, bufs |-> b, dest_busy |-> v]} /\ \A d : d # c => Own(d)' = Own(d)
    BY <1>6, OwnChanged DEF Ready, Sound
  <2>2. Queued(c)' = b
    BY <2>1, QueuedNext DEF Ready
  <2> QED BY <1>1, <2>1, <2>2, PendingChanged DEF Ready
<1>7. CASE Refuses(c)
  <2>1. FindTxQ(c) # 0 /\ Queued(c) # <<>> /\ Changed(FindTxQ(c), tx_q[FindTxQ(c)].bufs, TRUE)
    BY <1>7 DEF Refuses, Marks
  <2>2. Queued(c) = tx_q[FindTxQ(c)].bufs
    BY <2>1 DEF Queued
  <2>3. Pending' = [Pending EXCEPT ![c] = Pending[c]]
    BY <1>2, <1>6, <2>1, <2>2
  <2>4. Pending' = Pending
    BY <2>3 DEF Pending
  <2>5. hist'.accepted = hist.accepted /\ inbox' = inbox
    BY <1>7 DEF Refuses, Marks, CountsNothing
  <2>6. Busy' = Busy \/ Busy' = Busy \cup {c}
    BY <1>7 DEF Refuses, Busy
  <2>7. CASE Busy' = Busy
    BY <2>4, <2>5, <2>7, UnseenSimulated
  <2>8. CASE Busy' = Busy \cup {c}
    BY <1>2, <2>1, <2>4, <2>5, <2>8, SeenRefuse, ClientSimulated
  <2> QED BY <2>6, <2>7, <2>8
<1>8. CASE Enqueues(c) /\ Busy' = Busy
  <2>1. Pending' = [Pending EXCEPT ![c] = Append(Queued(c), NextMsg(c))]
    BY <1>6, <1>8 DEF Enqueues
  <2>2. Counts(c) /\ inbox' = inbox
    BY <1>8 DEF Enqueues
  <2> QED BY <1>2, <1>8, <2>1, <2>2, SeenAccept, ClientSimulated
<1>9. CASE Opens(c, c) /\ Busy' = Busy
  <2>1. ASSUME NEW b, Opened(c, b) PROVE Pending' = [Pending EXCEPT ![c] = b]
    <3>1. Own(c)' = {[dest_addr |-> c, bufs |-> b, dest_busy |-> FALSE]} /\ \A d : d # c => Own(d)' = Own(d)
      BY <1>9, <2>1, OwnOpened DEF Ready, Sound, Opens
    <3>2. Queued(c)' = b
      BY <3>1, QueuedNext DEF Ready
    <3> QED BY <1>1, <3>1, <3>2, PendingChanged DEF Ready
  <2>2. Queued(c) = <<>> /\ inbox' = inbox
    BY <1>9 DEF Opens, Queued
  <2>3. CASE Opened(c, <<NextMsg(c)>>) /\ Counts(c)
    <3>1. Append(Queued(c), NextMsg(c)) = <<NextMsg(c)>>
      BY <2>2
    <3>2. Pending' = [Pending EXCEPT ![c] = Append(Queued(c), NextMsg(c))]
      BY <2>1, <2>3, <3>1
    <3> QED BY <1>2, <1>9, <2>2, <2>3, <3>2, SeenAccept, ClientSimulated
  <2>4. CASE Opened(c, <<>>) /\ CountsNothing
    <3>1. Pending' = [Pending EXCEPT ![c] = Pending[c]]
      BY <1>2, <2>1, <2>2, <2>4
    <3>2. Pending' = Pending
      BY <3>1 DEF Pending
    <3> QED BY <1>9, <2>2, <2>4, <3>2, UnseenSimulated DEF CountsNothing
  <2> QED BY <1>9, <2>3, <2>4 DEF Opens
<1>10. \/ Refuses(c)
       \/ (Quiet \/ Passes(c) \/ Enqueues(c) \/ Opens(c, c)) /\ Busy' = Busy
  BY <1>1 DEF SendStep, PutStep, ToldNothing, Busy
<1> QED BY <1>4, <1>5, <1>7, <1>8, <1>9, <1>10

LEMMA ChangedSimulated ==
    ASSUME Ready, NEW c \in Clients, NEW b, NEW v, FindTxQ(c) # 0, Changed(FindTxQ(c), b, v),
           handle # "freed", handle' # "freed"
    PROVE  Pending' = [Pending EXCEPT ![c] = b]
<1>1. Own(c)' = {[dest_addr |-> c, bufs |-> b, dest_busy |-> v]} /\ \A d : d # c => Own(d)' = Own(d)
  BY OwnChanged DEF Ready, Sound
<1>2. Queued(c)' = b
  BY <1>1, QueuedNext DEF Ready
<1> QED BY <1>1, <1>2, PendingChanged DEF Ready

LEMMA RemovedSimulated ==
    ASSUME Ready, NEW c \in Clients, FindTxQ(c) # 0, Removed(FindTxQ(c)),
           handle # "freed", handle' # "freed"
    PROVE  Pending' = [Pending EXCEPT ![c] = <<>>]
<1>1. Own(c)' = {} /\ \A d : d # c => Own(d)' = Own(d)
  BY OwnRemoved DEF Ready, Sound
<1>2. Queued(c)' = <<>>
  BY <1>1, OwnIsToldNext DEF OwnTells, Ready
<1> QED BY <1>1, <1>2, PendingChanged DEF Ready

LEMMA EventSimulated ==
    ASSUME Ready, NEW c \in Clients, ev # Idle
    PROVE  handle = "open" /\ Pending[c] = Queued(c)
BY DEF Ready, EventInv, Pending

LEMMA QueuesSame ==
    ASSUME Ready, tx_q' = tx_q, handle' = "freed" <=> handle = "freed"
    PROVE  Pending' = Pending
<1>1. \A c \in Clients : Own(c)' = Own(c)
  BY OwnSame
<1> QED BY <1>1, PendingSame DEF Ready

LEMMA FlushSendSimulated == ASSUME Ready, NEW c \in Clients, FlushSend(c) PROVE Simulated
<1>1. handle = "open" /\ handle' = handle /\ Pending[c] = Queued(c) /\ Queued(c) # <<>>
  BY EventSimulated DEF FlushSend, At, Idle
<1>2. FindTxQ(c) # 0 /\ Changed(FindTxQ(c), Tail(Queued(c)), tx_q[FindTxQ(c)].dest_busy)
  BY FlushSendShape DEF Ready, Sound
<1>3. Pending' = [Pending EXCEPT ![c] = Tail(@)]
  BY <1>1, <1>2, ChangedSimulated
<1>4. hist \in HistType
  BY DEF Ready, Sound, TypeOK, HistType
<1>5. /\ hist'.accepted = hist.accepted /\ Busy' = Busy
      /\ inbox' \in {inbox, [inbox EXCEPT ![c] = Append(@, Head(Pending[c]))]}
  BY <1>1, <1>4 DEF FlushSend, HistType, Busy
<1> QED BY <1>1, <1>3, <1>5, SeenFlush, ClientSimulated

LEMMA FlushEndSimulated == ASSUME Ready, NEW c \in Clients, FlushEnd(c) PROVE Simulated
<1>1. handle = "open" /\ handle' = handle /\ Pending[c] = Queued(c)
  BY EventSimulated DEF FlushEnd, At, Idle
<1>2. Pending' = [Pending EXCEPT ![c] = Pending[c]]
  <2>1. /\ FindTxQ(c) # 0 /\ Queued(c) = tx_q[FindTxQ(c)].bufs
        /\ \/ Queued(c) = <<>> /\ Removed(FindTxQ(c))
           \/ Changed(FindTxQ(c), tx_q[FindTxQ(c)].bufs, FlushRest(c))
    BY FlushEndShape DEF Ready, Sound
  <2>2. CASE Queued(c) = <<>> /\ Removed(FindTxQ(c))
    BY <1>1, <2>1, <2>2, RemovedSimulated
  <2>3. CASE Changed(FindTxQ(c), tx_q[FindTxQ(c)].bufs, FlushRest(c))
    BY <1>1, <2>1, <2>3, ChangedSimulated
  <2> QED BY <2>1, <2>2, <2>3
<1>3. Pending' = Pending
  BY <1>2 DEF Pending
<1>4. hist \in HistType
  BY DEF Ready, Sound, TypeOK, HistType
<1>5. inbox' = inbox /\ (hist' = hist
                           \/ hist' = [hist EXCEPT !.told = @ \ {c}, !.due = @ \cup (hist.told \cap {c})])
  BY DEF FlushEnd
<1>6. hist'.accepted = hist.accepted /\ Busy' = Busy
  BY <1>4, <1>5 DEF HistType, Busy
<1> QED BY <1>3, <1>5, <1>6, UnseenSimulated

LEMMA PurgeSimulated == ASSUME Ready, NEW c \in Clients, PurgeTxQ(c) PROVE Simulated
<1>1. handle = "open" /\ handle' = handle /\ Pending[c] = Queued(c)
  <2>1. ev # Idle /\ handle' = handle
    BY DEF PurgeTxQ, At, Idle
  <2> QED BY <2>1, EventSimulated
<1>2. hist \in HistType
  BY DEF Ready, Sound, TypeOK, HistType
<1>3. hist'.accepted = hist.accepted /\ Busy' = Busy /\ inbox' = inbox
  BY <1>2 DEF PurgeTxQ, HistType, Busy
<1>4. CASE FindTxQ(c) = 0 /\ tx_q' = tx_q
  <2>1. Pending' = Pending
    BY <1>1, <1>4, QueuesSame
  <2> QED BY <1>3, <2>1, UnseenSimulated
<1>5. CASE FindTxQ(c) # 0 /\ Removed(FindTxQ(c))
  BY <1>1, <1>3, <1>5, RemovedSimulated, SeenDrop, ClientSimulated
<1> QED BY <1>4, <1>5, PurgeShape DEF Ready, Sound

LEMMA ToldSimulated == ASSUME Ready, NEW c \in Clients, Notify(c) \/ Disconnect(c) PROVE Simulated
<1>1. handle' = handle /\ tx_q' = tx_q /\ inbox' = inbox
  BY DEF Notify, Disconnect
<1>2. Pending' = Pending
  BY <1>1, QueuesSame
<1>3. hist \in HistType
  BY DEF Ready, Sound, TypeOK, HistType
<1>4. hist'.accepted = hist.accepted /\ (Busy' = Busy \/ Busy' = Busy \ {c})
  BY <1>3 DEF Notify, Disconnect, HistType, Busy
<1>5. CASE Busy' = Busy
  BY <1>1, <1>2, <1>4, <1>5, UnseenSimulated
<1>6. CASE Busy' = Busy \ {c} /\ c \in Busy
  BY <1>1, <1>2, <1>4, <1>6, SeenResume, ClientSimulated
<1> QED BY <1>4, <1>5, <1>6

LEMMA ClosingSimulated == ASSUME Ready, PurgeAll \/ XportClosed PROVE Simulated
<1>1. hist \in HistType
  BY DEF Ready, Sound, TypeOK, HistType
<1>2. hist'.accepted = hist.accepted /\ Busy' \in {Busy, {}} /\ inbox' = inbox
  BY <1>1 DEF PurgeAll, XportClosed, HistType, Busy
<1>3. Pending' = [c \in Clients |-> <<>>]
  <2>1. CASE PurgeAll
    <3>1. \A c : Own(c)' = {}
      BY <2>1 DEF PurgeAll, Own
    <3>2. \A c \in Clients : Queued(c)' = <<>>
      BY <3>1, OwnIsToldNext DEF OwnTells, Ready
    <3> QED BY <3>2 DEF Pending
  <2>2. CASE XportClosed
    BY <2>2 DEF XportClosed, Pending
  <2> QED BY <2>1, <2>2
<1> QED BY <1>2, <1>3, SeenUnregister DEF Simulated, Channel!Next

LEMMA OtherSimulated ==
    ASSUME Ready, tx_q' = tx_q, inbox' = inbox, hist' = hist, handle' = "freed" <=> handle = "freed"
    PROVE  Simulated
<1>1. Pending' = Pending
  BY QueuesSame
<1> QED BY <1>1, UnseenSimulated DEF Busy

\* A step of the queues is one of the channel, or is not seen.
LEMMA StepSimulated ==
    ASSUME Inv, Inv', NoReplies, NoReplies', [Next]_vars
    PROVE  Simulated
<1>1. Ready
  BY InvParts, InvPartsNext DEF Ready, Sound, NoReplies
<1>2. ASSUME NEW c \in Clients, ErrorReply(c) PROVE FALSE
  BY <1>2 DEF ErrorReply, NoReplies
<1>3. ASSUME NEW c \in Clients, \/ RecvRequest(c) \/ RecvResume(c) \/ BeginFlush(c) \/ ResumeNothing(c)
                                \/ RecvRemoveClient(c) \/ RouterResume(c) \/ RouterRemove(c)
      PROVE  Simulated
  BY <1>1, <1>3, OtherSimulated DEF RecvRequest, RecvResume, BeginFlush, ResumeNothing,
       RecvRemoveClient, RouterResume, RouterRemove
<1>4. ASSUME HandleEventReturns \/ CloseFds \/ UNCHANGED vars PROVE Simulated
  BY <1>1, <1>4, OtherSimulated DEF HandleEventReturns, CloseFds, vars
<1> QED BY <1>1, <1>2, <1>3, <1>4, SendSimulated, FlushSendSimulated, FlushEndSimulated,
          PurgeSimulated, ToldSimulated, ClosingSimulated DEF Next, EventStep

\* The queues begin as the channel does.
LEMMA InitSimulated == Init => Channel!Init
<1> SUFFICES ASSUME Init PROVE Channel!Init
  OBVIOUS
<1>1. \A c : Queued(c) = <<>>
  BY DEF Init, Queued, FindTxQ, Matches
<1> QED BY <1>1 DEF Init, Channel!Init

\* The queues implement the channel that qmi_csi_common.h promises a service, provided that the
\* framework sends no error replies: with them a queue may be keyed by an address on the event
\* thread's stack, and messages for one client go to another.
THEOREM Refinement ==
    ASSUME ~ErrorReplies
    PROVE  Spec => ImplementsChannel
<1>1. Init => NoReplies
  BY DEF Init, NoReplies, At, Idle
<1>2. Inv /\ NoReplies /\ [Next]_vars => NoReplies'
  BY NoRepliesStep, InvParts
<1>3. Spec => []NoReplies
  BY <1>1, <1>2, Invariant, PTL DEF Spec
<1>4. Inv /\ Inv' /\ NoReplies /\ NoReplies' /\ [Next]_vars => [Channel!Next]_(Channel!vars)
  BY StepSimulated DEF Simulated
<1> QED BY <1>3, <1>4, Invariant, InitSimulated, PTL DEF Spec, ImplementsChannel, Channel!Spec

=============================================================================
