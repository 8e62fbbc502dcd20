-------------------------- MODULE QcsiServiceProofs --------------------------
(***************************************************************************)
(* Theorems about QcsiService for any number of threads, addresses, requests *)
(* and clients.  The inductive invariant is in QcsiServiceInv; each of its    *)
(* parts has a lemma here with one step per action of Next.                   *)
(***************************************************************************)
EXTENDS QcsiServiceInv, SequenceTheorems, FiniteSetTheorems, TLAPS

-----------------------------------------------------------------------------
(* Sequences, types and the helpers of the model. *)

\* A function that has the domain of a sequence and values of its type is a sequence of
\* the same length: no action shortens the tables of clients and transactions.
LEMMA Replaced ==
  \A S : \A s \in Seq(S) : \A f \in [DOMAIN s -> S] :
     f \in Seq(S) /\ Len(f) = Len(s) /\ DOMAIN f = DOMAIN s
<1> SUFFICES ASSUME NEW S, NEW s \in Seq(S), NEW f \in [DOMAIN s -> S]
             PROVE  f \in Seq(S) /\ Len(f) = Len(s) /\ DOMAIN f = DOMAIN s
  OBVIOUS
<1>1. DOMAIN s = 1..Len(s) /\ Len(s) \in Nat
  BY LenProperties
<1>2. f \in Seq(S)
  BY <1>1, IsASeq
<1> QED
  BY <1>1, <1>2, LenProperties

\* What Append does to a table of structs: one new place, the others unchanged.
LEMMA Appended ==
  ASSUME NEW S, NEW s \in Seq(S), NEW e \in S
  PROVE  /\ Append(s, e) \in Seq(S)
         /\ Len(Append(s, e)) = Len(s) + 1
         /\ DOMAIN Append(s, e) = DOMAIN s \cup {Len(s) + 1}
         /\ Len(s) + 1 \notin DOMAIN s
         /\ \A i \in DOMAIN s : Append(s, e)[i] = s[i]
         /\ Append(s, e)[Len(s) + 1] = e
<1>1. DOMAIN s = 1..Len(s) /\ Len(s) \in Nat
  BY LenProperties
<1>2. /\ Append(s, e) \in Seq(S) /\ Len(Append(s, e)) = Len(s) + 1
      /\ \A i \in 1..Len(s) : Append(s, e)[i] = s[i]
      /\ Append(s, e)[Len(s) + 1] = e
  BY AppendProperties
<1>3. DOMAIN Append(s, e) = 1..(Len(s) + 1)
  BY <1>2, LenProperties
<1> QED
  BY <1>1, <1>2, <1>3

\* A thread that is not in the framework is a thread.
LEMMA IdleThread == Idle \in Thread
  BY BoundAssumption DEF Thread, Idle

\* A step that replaces the record of one thread keeps the type of th.
LEMMA SetThread ==
  ASSUME TypeOK, NEW p \in Threads, NEW x \in Thread, th' = [th EXCEPT ![p] = x]
  PROVE  th' \in [Threads -> Thread]
  BY DEF TypeOK

\* Going to another place in a handler keeps the type of th.
LEMMA GotoType ==
  ASSUME TypeOK, NEW p \in Threads, NEW c \in EvPcs \cup AppPcs, Goto(p, c)
  PROVE  th' \in [Threads -> Thread]
<1> DEFINE x == [th[p] EXCEPT !.pc = c]
<1>1. th[p] \in Thread
  BY DEF TypeOK
<1>2. x \in Thread
  BY <1>1 DEF Thread, EvPcs, AppPcs
<1>3. th' = [th EXCEPT ![p] = x]
  BY DEF Goto
<1> QED
  BY <1>2, <1>3, SetThread

\* Returning from the framework keeps the type of th.
LEMMA ReturnType ==
  ASSUME TypeOK, NEW p \in Threads, Return(p)
  PROVE  th' \in [Threads -> Thread]
  BY IdleThread, SetThread DEF Return

\* Taking a lock keeps the type of the locks.
LEMMA LockType ==
  ASSUME TypeOK, NEW p \in Threads, NEW l \in Locks, Lock(p, l)
  PROVE  lock' \in [Locks -> [by : Threads \cup {None}, n : Nat]]
  BY DEF TypeOK, Lock

\* Releasing locks keeps their type when each was held.
LEMMA UnlockType ==
  ASSUME TypeOK, NEW ls \in SUBSET Locks, Unlock(ls), \A l \in ls : lock[l].n # 0
  PROVE  lock' \in [Locks -> [by : Threads \cup {None}, n : Nat]]
<1>1. ASSUME NEW l \in Locks PROVE lock[l] \in [by : Threads \cup {None}, n : Nat]
  BY DEF TypeOK
<1>2. ASSUME NEW l \in Locks PROVE lock'[l] \in [by : Threads \cup {None}, n : Nat]
  <2>1. CASE l \notin ls
    BY <2>1, <1>1 DEF Unlock
  <2>2. CASE l \in ls /\ lock[l].n = 1
    BY <2>2, <1>1 DEF Unlock, Free
  <2>3. CASE l \in ls /\ lock[l].n # 1
    BY <2>3, <1>1 DEF Unlock
  <2> QED
    BY <2>1, <2>2, <2>3
<1> QED
  BY <1>2 DEF Unlock

\* encode_and_send_resp and the sending of a response: one answer is counted, and it goes
\* astray only when its address is not the sender's.
LEMMA AnswerType ==
  ASSUME TypeOK, NEW r \in TxnIds, NEW a, Answer(r, a)
  PROVE  /\ hist' \in [from : [TxnIds -> Addrs \cup {None}], answers : [TxnIds -> Nat],
                       accepted : SUBSET TxnIds, misdirected : BOOLEAN, leaked : BOOLEAN]
         /\ hist'.from = hist.from /\ hist'.accepted = hist.accepted
         /\ hist'.leaked = hist.leaked
         /\ hist'.answers = [hist.answers EXCEPT ![r] = @ + 1]
         /\ hist.from[r] = a => hist'.misdirected = hist.misdirected
<1> DEFINE m == hist.misdirected \/ hist.from[r] # a
<1>1. m \in BOOLEAN /\ (hist.from[r] = a => m = hist.misdirected)
  BY DEF TypeOK
<1>2. hist' = [hist EXCEPT !.answers[r] = @ + 1, !.misdirected = m]
  BY DEF Answer
<1> HIDE DEF m
<1>3. /\ hist'.from = hist.from /\ hist'.accepted = hist.accepted
      /\ hist'.leaked = hist.leaked /\ hist'.misdirected = m
      /\ hist'.answers = [hist.answers EXCEPT ![r] = @ + 1]
  BY <1>2 DEF TypeOK
<1>4. hist' \in [from : [TxnIds -> Addrs \cup {None}], answers : [TxnIds -> Nat],
                accepted : SUBSET TxnIds, misdirected : BOOLEAN, leaked : BOOLEAN]
  <2>1. [hist.answers EXCEPT ![r] = @ + 1] \in [TxnIds -> Nat]
    BY DEF TypeOK
  <2>2. hist' = [hist EXCEPT !.answers = [hist.answers EXCEPT ![r] = @ + 1],
                             !.misdirected = m]
    BY <1>2 DEF TypeOK
  <2> QED
    BY <1>1, <2>1, <2>2 DEF TypeOK
<1> QED
  BY <1>1, <1>3, <1>4

\* clean_txns and free: the transactions in ts are off their lists and freed, the others are
\* unchanged.
LEMMA FreeTxnsType ==
  ASSUME TypeOK, NEW ts, txn' = FreeTxns(ts)
  PROVE  /\ txn' \in Seq(Txn) /\ Len(txn') = Len(txn) /\ DOMAIN txn' = DOMAIN txn
         /\ \A t \in DOMAIN txn : 
              /\ txn'[t].clnt = txn[t].clnt /\ txn'[t].req = txn[t].req
              /\ t \in ts => ~txn'[t].linked /\ ~txn'[t].live
              /\ t \notin ts => txn'[t] = txn[t]
<1>1. \A t \in DOMAIN txn : txn[t] \in Txn
  BY ElementOfSeq, LenProperties DEF TypeOK
<1>2. /\ DOMAIN txn' = DOMAIN txn
      /\ \A t \in DOMAIN txn : 
           /\ txn'[t].clnt = txn[t].clnt /\ txn'[t].req = txn[t].req
           /\ t \in ts => ~txn'[t].linked /\ ~txn'[t].live
           /\ t \notin ts => txn'[t] = txn[t]
  BY <1>1 DEF FreeTxns, Txn
<1>3. \A t \in DOMAIN txn : txn'[t] \in Txn
  <2> SUFFICES ASSUME NEW t \in DOMAIN txn PROVE txn'[t] \in Txn
    OBVIOUS
  <2>1. CASE t \in ts
    BY <2>1, <1>1 DEF FreeTxns, Txn
  <2>2. CASE t \notin ts
    BY <2>2, <1>1, <1>2
  <2> QED
    BY <2>1, <2>2
<1>4. txn' \in [DOMAIN txn -> Txn]
  BY <1>3 DEF FreeTxns
<1>5. txn \in Seq(Txn)
  BY DEF TypeOK
<1>6. txn' \in Seq(Txn) /\ Len(txn') = Len(txn) /\ DOMAIN txn' = DOMAIN txn
  BY <1>4, <1>5, Replaced, Zenon
<1> QED
  BY <1>2, <1>6

\* The number of requests received is a number.
LEMMA ReceivedNat == TypeOK => Received \in Nat
<1>1. IsFiniteSet(TxnIds)
  BY FS_Interval, BoundAssumption DEF TxnIds
<1>2. IsFiniteSet({r \in TxnIds : hist.from[r] # None})
  BY <1>1, FS_Subset
<1> QED
  BY <1>2, FS_CardinalityType DEF Received

\* Each place of the table of clients holds a client struct.
LEMMA ClientElements == TypeOK => \A h \in DOMAIN clnt : clnt[h] \in Client
  BY ElementOfSeq, LenProperties DEF TypeOK

\* Each place of the table of transactions holds a transaction.
LEMMA TxnElements == TypeOK => \A t \in DOMAIN txn : txn[t] \in Txn
  BY ElementOfSeq, LenProperties DEF TypeOK

\* The handles in use are the first ones.
LEMMA ClientPlaces == TypeOK => DOMAIN clnt = 1..Len(clnt) /\ DOMAIN clnt \subseteq Handles
  BY LenProperties, BoundAssumption DEF TypeOK, Handles

\* The transaction handles in use are the first ones.
LEMMA TxnPlaces == TypeOK => DOMAIN txn = 1..Len(txn) /\ DOMAIN txn \subseteq TxnIds
  BY LenProperties, BoundAssumption DEF TypeOK, TxnIds

\* An update of client structs in place keeps the type of the table.
LEMMA ClientsReplaced ==
  ASSUME TypeOK, clnt' \in [DOMAIN clnt -> Client]
  PROVE  clnt' \in Seq(Client) /\ Len(clnt') <= MaxClients /\ DOMAIN clnt' = DOMAIN clnt
<1>1. clnt \in Seq(Client) /\ Len(clnt) <= MaxClients
  BY DEF TypeOK
<1>2. clnt' \in Seq(Client) /\ Len(clnt') = Len(clnt) /\ DOMAIN clnt' = DOMAIN clnt
  BY <1>1, Replaced, Zenon
<1> QED
  BY <1>1, <1>2

\* An update of transactions in place keeps the type of the table.
LEMMA TxnsReplaced ==
  ASSUME TypeOK, txn' \in [DOMAIN txn -> Txn]
  PROVE  txn' \in Seq(Txn) /\ Len(txn') <= MaxReqs /\ DOMAIN txn' = DOMAIN txn
<1>1. txn \in Seq(Txn) /\ Len(txn) <= MaxReqs
  BY DEF TypeOK
<1>2. txn' \in Seq(Txn) /\ Len(txn') = Len(txn) /\ DOMAIN txn' = DOMAIN txn
  BY <1>1, Replaced, Zenon
<1> QED
  BY <1>1, <1>2

\* A handle fits into the field of a thread that holds it.
LEMMA Ranges == Handles \subseteq 0..MaxClients /\ TxnIds \subseteq 0..MaxReqs
  BY BoundAssumption DEF Handles, TxnIds

\* No more requests are received than the bound allows.
LEMMA ReceivedBound == TypeOK => Received \in 0..MaxReqs
<1>1. IsFiniteSet(TxnIds) /\ Cardinality(TxnIds) = MaxReqs
  BY FS_Interval, BoundAssumption DEF TxnIds
<1>2. Cardinality({r \in TxnIds : hist.from[r] # None}) <= Cardinality(TxnIds)
  BY <1>1, FS_Subset
<1> QED
  BY <1>1, <1>2, ReceivedNat, BoundAssumption DEF Received

\* While the event thread looks up the sender of a request there are fewer transactions than
\* requests, so the new transaction fits into the table.
LEMMA RoomForTxn ==
  ASSUME TypeOK, AnswerInv, th[Ev].pc = "find"
  PROVE  Len(txn) \in Nat /\ Len(txn) + 1 \in 0..MaxReqs /\ Len(txn) + 1 <= Received
<1>1. DOMAIN txn = 1..Len(txn) /\ Len(txn) \in Nat
  BY LenProperties DEF TypeOK
<1>2. Received \in 1..MaxReqs
  <2>1. th[Ev].req \in TxnIds /\ hist.from[th[Ev].req] # None
    BY DEF AnswerInv, EventAnswer, Owing
  <2>2. th[Ev].req <= Received
    BY <2>1 DEF AnswerInv, Counted
  <2> QED
    BY <2>1, <2>2, ReceivedBound, BoundAssumption DEF TxnIds
<1>3. \A t \in DOMAIN txn : t < Received
  BY DEF AnswerInv, Counted
<1>4. CASE Len(txn) = 0
  BY <1>2, <1>4, BoundAssumption
<1>5. CASE Len(txn) # 0
  <2>1. Len(txn) \in DOMAIN txn
    BY <1>1, <1>5
  <2> QED
    BY <1>1, <1>2, <1>3, <2>1, BoundAssumption
<1> QED
  BY <1>1, <1>4, <1>5

-----------------------------------------------------------------------------
(* The type invariant. *)

\* Every step of every thread keeps the type invariant.
LEMMA TypeNext ==
  ASSUME Inv, Next
  PROVE  TypeOK'
<1> USE DEF Inv
<1>1. ASSUME NEW a \in Addrs, Recv(a) PROVE TypeOK'
  <2>1. Received + 1 \in TxnIds
    BY <1>1, ReceivedNat, BoundAssumption DEF Recv, TxnIds
  <2>2. th' \in [Threads -> Thread]
    <3> DEFINE x == [Idle EXCEPT !.pc = "find", !.addr = a, !.req = Received + 1]
               y == [Idle EXCEPT !.pc = "reply", !.addr = a, !.req = Received + 1, !.rc = "malformed"]
    <3>1. Ev \in Threads /\ Received + 1 \in 0..MaxReqs
      BY <2>1 DEF Threads, TxnIds
    <3>2. x \in Thread /\ y \in Thread
      <4>1. \A z \in Thread :
              [z EXCEPT !.pc = "find", !.addr = a, !.req = Received + 1] \in Thread
        BY <3>1 DEF Thread
      <4>2. \A z \in Thread :
              [z EXCEPT !.pc = "reply", !.addr = a, !.req = Received + 1, !.rc = "malformed"] \in Thread
        BY <3>1 DEF Thread, Errors
      <4> QED
        BY <4>1, <4>2, IdleThread
    <3>3. th' = [th EXCEPT ![Ev] = x] \/ th' = [th EXCEPT ![Ev] = y]
      BY <1>1 DEF Recv
    <3> QED
      BY <3>1, <3>2, <3>3, SetThread
  <2>3. hist' \in [from : [TxnIds -> Addrs \cup {None}], answers : [TxnIds -> Nat],
            accepted : SUBSET TxnIds, misdirected : BOOLEAN, leaked : BOOLEAN]
    <3>1. [hist.from EXCEPT ![Received + 1] = a] \in [TxnIds -> Addrs \cup {None}]
      BY <2>1 DEF TypeOK
    <3>2. hist' = [hist EXCEPT !.from = [hist.from EXCEPT ![Received + 1] = a]]
      BY <1>1 DEF Recv
    <3> QED
      BY <3>1, <3>2 DEF TypeOK
  <2> QED
    BY <1>1, <2>1, <2>2, <2>3 DEF Recv, TypeOK
<1>2. ASSUME NEW a \in Addrs, Disconnect(a) PROVE TypeOK'
  <2>1. PICK h \in ClientAt(a) : /\ clnt' = [clnt EXCEPT ![h].linked = FALSE, ![h].conn = "disconnected"]
                              /\ th' = [th EXCEPT ![Ev].pc = "clean", ![Ev].clnt = h]
    BY <1>2 DEF Disconnect
  <2>2. h \in DOMAIN clnt /\ h \in 0..MaxClients
    BY ClientPlaces, Ranges DEF ClientAt
  <2>3. clnt' \in Seq(Client) /\ Len(clnt') <= MaxClients
    <3>1. clnt' \in [DOMAIN clnt -> Client]
      BY <2>1, <2>2, ClientElements DEF Client
    <3> QED
      BY <3>1, ClientsReplaced
  <2>4. th' \in [Threads -> Thread]
    <3> DEFINE x == [th[Ev] EXCEPT !.pc = "clean", !.clnt = h]
    <3>1. Ev \in Threads /\ th[Ev] \in Thread
      BY DEF TypeOK, Threads
    <3>2. x \in Thread
      BY <2>2, <3>1 DEF Thread
    <3>3. th' = [th EXCEPT ![Ev] = x]
      BY <2>1
    <3> QED
      BY <3>1, <3>2, <3>3, SetThread
  <2>5. lock' \in [Locks -> [by : Threads \cup {None}, n : Nat]]
    BY <1>2, LockType DEF Disconnect, Threads, Locks
  <2> QED
    BY <1>2, <2>1, <2>2, <2>3, <2>4, <2>5 DEF Disconnect, TypeOK
<1>3. ASSUME NEW h \in Handles, AddTxn(h) PROVE TypeOK'
  <2>1. Len(txn) + 1 \in 0..MaxReqs
    BY <1>3, RoomForTxn DEF AddTxn, At
  <2>2. txn' \in Seq(Txn) /\ Len(txn') <= MaxReqs
    <3> DEFINE e == [clnt |-> h, req |-> th[Ev].req, linked |-> TRUE, live |-> TRUE]
    <3>1. e \in Txn
      BY <1>3 DEF AddTxn, Txn, AnswerInv, EventAnswer, Owing, At
    <3> HIDE DEF e
    <3>2. txn \in Seq(Txn)
      BY DEF TypeOK
    <3>3. Append(txn, e) \in Seq(Txn) /\ Len(Append(txn, e)) = Len(txn) + 1
      BY <3>1, <3>2, Appended
    <3>4. txn' = Append(txn, e)
      BY <1>3 DEF AddTxn, e
    <3> QED
      BY <1>3, <2>1, <3>3, <3>4, RoomForTxn DEF AddTxn, At
  <2>3. th' \in [Threads -> Thread]
    <3> DEFINE x == [th[Ev] EXCEPT !.pc = "process", !.txn = Len(txn) + 1, !.clnt = h]
    <3>1. Ev \in Threads /\ th[Ev] \in Thread
      BY IdleThread DEF TypeOK, Threads
    <3>2. x \in Thread
      BY <1>3, <3>1, <2>1, Ranges DEF Thread
    <3>3. th' = [th EXCEPT ![Ev] = x]
      BY <1>3 DEF AddTxn
    <3> QED
      BY <3>1, <3>2, <3>3, SetThread
  <2> QED
    BY <1>3, <2>1, <2>2, <2>3 DEF AddTxn, TypeOK
<1>4. ASSUME NEW h \in Handles, AddTxnNoMem(h) PROVE TypeOK'
  <2>1. th' \in [Threads -> Thread]
    <3> DEFINE x == [th[Ev] EXCEPT !.pc = "reply", !.rc = "no_memory"]
    <3>1. Ev \in Threads /\ th[Ev] \in Thread
      BY IdleThread DEF TypeOK, Threads
    <3>2. x \in Thread
      BY <1>4, <3>1 DEF Thread, Errors
    <3>3. th' = [th EXCEPT ![Ev] = x]
      BY <1>4 DEF AddTxnNoMem
    <3> QED
      BY <3>1, <3>2, <3>3, SetThread
  <2>2. lock' \in [Locks -> [by : Threads \cup {None}, n : Nat]]
    BY <1>4, LockType DEF AddTxnNoMem, Threads, Locks
  <2>3. hist' \in [from : [TxnIds -> Addrs \cup {None}], answers : [TxnIds -> Nat],
            accepted : SUBSET TxnIds, misdirected : BOOLEAN, leaked : BOOLEAN]
    BY <1>4 DEF AddTxnNoMem, TypeOK
  <2> QED
    BY <1>4, <2>1, <2>2, <2>3 DEF AddTxnNoMem, TypeOK
<1>5. ASSUME CreateClient PROVE TypeOK'
  <2>1. Len(clnt) + 1 \in 0..MaxClients
    BY <1>5, LenProperties, BoundAssumption DEF CreateClient, TypeOK
  <2>2. clnt' \in Seq(Client) /\ Len(clnt') <= MaxClients
    <3> DEFINE e == [addr |-> th[Ev].addr, linked |-> TRUE, live |-> TRUE, conn |-> "connecting"]
    <3>1. e \in Client
      BY <1>5 DEF CreateClient, Client, AnswerInv, EventAnswer, Owing, At, TypeOK, Thread,
         Threads
    <3> HIDE DEF e
    <3>2. clnt \in Seq(Client)
      BY DEF TypeOK
    <3>3. Append(clnt, e) \in Seq(Client) /\ Len(Append(clnt, e)) = Len(clnt) + 1
      BY <3>1, <3>2, Appended
    <3>4. clnt' = Append(clnt, e)
      BY <1>5 DEF CreateClient, e
    <3> QED
      BY <2>1, <3>3, <3>4
  <2>3. th' \in [Threads -> Thread]
    <3> DEFINE x == [th[Ev] EXCEPT !.pc = "connect", !.clnt = Len(clnt) + 1]
    <3>1. Ev \in Threads /\ th[Ev] \in Thread
      BY IdleThread DEF TypeOK, Threads
    <3>2. x \in Thread
      BY <1>5, <3>1, <2>1 DEF Thread
    <3>3. th' = [th EXCEPT ![Ev] = x]
      BY <1>5 DEF CreateClient
    <3> QED
      BY <3>1, <3>2, <3>3, SetThread
  <2> QED
    BY <1>5, <2>1, <2>2, <2>3 DEF CreateClient, TypeOK
<1>6. ASSUME CreateClientNoMem PROVE TypeOK'
  <2>1. th' \in [Threads -> Thread]
    <3> DEFINE x == [th[Ev] EXCEPT !.pc = "reply", !.rc = "no_memory"]
    <3>1. Ev \in Threads /\ th[Ev] \in Thread
      BY IdleThread DEF TypeOK, Threads
    <3>2. x \in Thread
      BY <1>6, <3>1 DEF Thread, Errors
    <3>3. th' = [th EXCEPT ![Ev] = x]
      BY <1>6 DEF CreateClientNoMem
    <3> QED
      BY <3>1, <3>2, <3>3, SetThread
  <2> QED
    BY <1>6, <2>1 DEF CreateClientNoMem, TypeOK
<1>7. ASSUME Connected PROVE TypeOK'
  <2>1. th' \in [Threads -> Thread]
    <3> DEFINE x == [th[Ev] EXCEPT !.pc = "reply", !.rc = "internal"]
    <3>1. Ev \in Threads /\ th[Ev] \in Thread
      BY DEF TypeOK, Threads
    <3>2. x \in Thread
      BY <3>1 DEF Thread, Errors
    <3>3. Goto(Ev, "find") \/ th' = [th EXCEPT ![Ev] = x]
      BY <1>7 DEF Connected
    <3> QED
      BY <3>1, <3>2, <3>3, SetThread, GotoType DEF EvPcs
  <2>2. clnt' \in Seq(Client) /\ Len(clnt') <= MaxClients
    <3>1. CASE FindClient(th[Ev].clnt)
      <4>1. clnt' \in [DOMAIN clnt -> Client]
        BY <1>7, <3>1, ClientElements DEF Connected, Client, FindClient
      <4> QED
        BY <4>1, ClientsReplaced
    <3> QED
      BY <1>7, <3>1 DEF Connected, TypeOK
  <2> QED
    BY <1>7, <2>1, <2>2 DEF Connected, TypeOK
<1>8. ASSUME ConnectRefused PROVE TypeOK'
  <2>1. th' \in [Threads -> Thread]
    <3>1. PICK e \in Errors : th' = [th EXCEPT ![Ev].pc = "reply", ![Ev].rc = e]
      BY <1>8 DEF ConnectRefused, Errors
    <3> DEFINE x == [th[Ev] EXCEPT !.pc = "reply", !.rc = e]
    <3>2. Ev \in Threads /\ th[Ev] \in Thread
      BY DEF TypeOK, Threads
    <3>3. x \in Thread
      BY <3>2 DEF Thread
    <3>4. th' = [th EXCEPT ![Ev] = x]
      BY <3>1
    <3> QED
      BY <3>2, <3>3, <3>4, SetThread
  <2>2. clnt' \in Seq(Client) /\ Len(clnt') <= MaxClients
    <3>1. CASE FindClient(th[Ev].clnt)
      <4>1. clnt' \in [DOMAIN clnt -> Client]
        <5> DEFINE c == [clnt[th[Ev].clnt] EXCEPT !.linked = FALSE, !.live = FALSE, !.conn = "refused"]
        <5>1. clnt[th[Ev].clnt] \in Client
          BY <3>1, ClientElements DEF FindClient
        <5>2. c \in Client
          BY <5>1 DEF Client
        <5>3. clnt' = [clnt EXCEPT ![th[Ev].clnt] = c]
          BY <1>8, <3>1 DEF ConnectRefused
        <5> QED
          BY <3>1, <5>2, <5>3, ClientElements DEF FindClient
      <4> QED
        BY <4>1, ClientsReplaced
    <3> QED
      BY <1>8, <3>1 DEF ConnectRefused, TypeOK
  <2> QED
    BY <1>8, <2>1, <2>2 DEF ConnectRefused, TypeOK
<1>9. ASSUME ProcessReq PROVE TypeOK'
  <2>1. th' \in [Threads -> Thread]
    BY <1>9, GotoType DEF ProcessReq, Threads, EvPcs
  <2>2. hist' \in [from : [TxnIds -> Addrs \cup {None}], answers : [TxnIds -> Nat],
            accepted : SUBSET TxnIds, misdirected : BOOLEAN, leaked : BOOLEAN]
    <3>1. th[Ev].txn \in TxnIds
      BY <1>9, TxnPlaces DEF ProcessReq, At, AnswerInv, EventTxn
    <3> QED
      BY <1>9, <3>1 DEF ProcessReq, TypeOK
  <2> QED
    BY <1>9, <2>1, <2>2 DEF ProcessReq, TypeOK
<1>10. ASSUME ProcessFails PROVE TypeOK'
  <2>1. th' \in [Threads -> Thread]
    <3>1. PICK e \in Errors \cup {"none"} : th' = [th EXCEPT ![Ev].pc = "free_txn", ![Ev].rc = e]
      BY <1>10 DEF ProcessFails, Errors
    <3> DEFINE x == [th[Ev] EXCEPT !.pc = "free_txn", !.rc = e]
    <3>2. Ev \in Threads /\ th[Ev] \in Thread
      BY DEF TypeOK, Threads
    <3>3. x \in Thread
      BY <3>2 DEF Thread
    <3>4. th' = [th EXCEPT ![Ev] = x]
      BY <3>1
    <3> QED
      BY <3>2, <3>3, <3>4, SetThread
  <2> QED
    BY <1>10, <2>1 DEF ProcessFails, TypeOK
<1>11. ASSUME CallbackReturns PROVE TypeOK'
  <2>1. th' \in [Threads -> Thread]
    BY <1>11, ReturnType DEF CallbackReturns, Threads
  <2> QED
    BY <1>11, <2>1 DEF CallbackReturns, TypeOK
<1>12. ASSUME FreeTxn PROVE TypeOK'
  <2>1. th' \in [Threads -> Thread]
    BY <1>12, GotoType DEF FreeTxn, Threads, EvPcs
  <2>2. txn' \in Seq(Txn) /\ Len(txn') <= MaxReqs
    BY <1>12, FreeTxnsType DEF FreeTxn, TypeOK
  <2> QED
    BY <1>12, <2>1, <2>2 DEF FreeTxn, TypeOK
<1>13. ASSUME Reply PROVE TypeOK'
  <2>1. th' \in [Threads -> Thread]
    BY <1>13, ReturnType DEF Reply, Threads
  <2>2. hist' \in [from : [TxnIds -> Addrs \cup {None}], answers : [TxnIds -> Nat],
            accepted : SUBSET TxnIds, misdirected : BOOLEAN, leaked : BOOLEAN]
    BY <1>13, AnswerType DEF Reply, AnswerInv, EventAnswer, Owing, At
  <2> QED
    BY <1>13, <2>1, <2>2 DEF Reply, TypeOK
<1>14. ASSUME CleanTxns PROVE TypeOK'
  <2>1. th' \in [Threads -> Thread]
    BY <1>14, ReturnType DEF CleanTxns, Threads
  <2>2. txn' \in Seq(Txn) /\ Len(txn') <= MaxReqs
    BY <1>14, FreeTxnsType DEF CleanTxns, TypeOK
  <2>3. clnt' \in Seq(Client) /\ Len(clnt') <= MaxClients
    <3>1. th[Ev].clnt \in DOMAIN clnt
      BY <1>14 DEF CleanTxns, ClientInv, EventClient, At
    <3>2. clnt' \in [DOMAIN clnt -> Client]
      BY <1>14, <3>1, ClientElements DEF CleanTxns, Client
    <3> QED
      BY <3>2, ClientsReplaced
  <2>4. \A l \in {"client"} : lock[l].n # 0
    BY <1>14 DEF CleanTxns, LockInv, ThreadInv, At, Locks, Threads, TypeOK, EvPcs, AppPcs
  <2>5. lock' \in [Locks -> [by : Threads \cup {None}, n : Nat]]
    BY <1>14, <2>4, UnlockType DEF CleanTxns, Locks
  <2> QED
    BY <1>14, <2>1, <2>2, <2>3, <2>4, <2>5 DEF CleanTxns, TypeOK
<1>15. ASSUME NEW p \in Apps, NEW t \in TxnIds, CallSendResp(p, t) PROVE TypeOK'
  <2>1. th' \in [Threads -> Thread]
    <3> DEFINE x == [th[p] EXCEPT !.pc = "resp", !.txn = t]
    <3>1. p \in Threads /\ th[p] \in Thread
      BY IdleThread DEF TypeOK, Threads
    <3>2. x \in Thread
      BY <1>15, <3>1, Ranges DEF Thread
    <3>3. th' = [th EXCEPT ![p] = x]
      BY <1>15 DEF CallSendResp
    <3> QED
      BY <3>1, <3>2, <3>3, SetThread
  <2> QED
    BY <1>15, <2>1 DEF CallSendResp, TypeOK
<1>16. ASSUME NEW p \in Apps, NEW h \in Handles, CallSendInd(p, h) PROVE TypeOK'
  <2>1. th' \in [Threads -> Thread]
    <3> DEFINE x == [th[p] EXCEPT !.pc = "ind", !.clnt = h]
    <3>1. p \in Threads /\ th[p] \in Thread
      BY IdleThread DEF TypeOK, Threads
    <3>2. x \in Thread
      BY <1>16, <3>1, Ranges DEF Thread
    <3>3. th' = [th EXCEPT ![p] = x]
      BY <1>16 DEF CallSendInd
    <3> QED
      BY <3>1, <3>2, <3>3, SetThread
  <2> QED
    BY <1>16, <2>1 DEF CallSendInd, TypeOK
<1>17. ASSUME NEW p \in Apps, CallBroadcast(p) PROVE TypeOK'
  <2>1. th' \in [Threads -> Thread]
    BY <1>17, GotoType DEF CallBroadcast, Threads, AppPcs
  <2> QED
    BY <1>17, <2>1 DEF CallBroadcast, TypeOK
<1>18. ASSUME NEW p \in Apps, Unregister(p) PROVE TypeOK'
  <2>1. th' \in [Threads -> Thread]
    BY <1>18, GotoType DEF Unregister, Threads, AppPcs
  <2> QED
    BY <1>18, <2>1 DEF Unregister, TypeOK
<1>19. ASSUME NEW p \in Apps, TakeTxn(p) PROVE TypeOK'
  <2>1. th[p].txn \in DOMAIN txn /\ txn[th[p].txn] \in Txn
    BY <1>19, TxnElements DEF TakeTxn, FindTxn
  <2>2. th' \in [Threads -> Thread]
    <3> DEFINE x == [th[p] EXCEPT !.pc = "send_resp", !.clnt = txn[th[p].txn].clnt]
    <3>1. p \in Threads /\ th[p] \in Thread
      BY IdleThread DEF TypeOK, Threads
    <3>2. x \in Thread
      BY <1>19, <3>1, <2>1, Ranges DEF Thread, Txn
    <3>3. th' = [th EXCEPT ![p] = x]
      BY <1>19 DEF TakeTxn
    <3> QED
      BY <3>1, <3>2, <3>3, SetThread
  <2>3. txn' \in Seq(Txn) /\ Len(txn') <= MaxReqs
    <3>1. txn' \in [DOMAIN txn -> Txn]
      BY <1>19, <2>1, TxnElements DEF TakeTxn, Txn
    <3> QED
      BY <3>1, TxnsReplaced
  <2>4. lock' \in [Locks -> [by : Threads \cup {None}, n : Nat]]
    BY <1>19, LockType DEF TakeTxn, Threads, Locks
  <2> QED
    BY <1>19, <2>1, <2>2, <2>3, <2>4 DEF TakeTxn, TypeOK
<1>20. ASSUME NEW p \in Apps, SendResp(p) PROVE TypeOK'
  <2>1. th[p].txn \in DOMAIN txn /\ txn[th[p].txn] \in Txn
    BY <1>20, TxnElements DEF SendResp, At, TxnInv, CallTxns
  <2>2. hist' \in [from : [TxnIds -> Addrs \cup {None}], answers : [TxnIds -> Nat],
            accepted : SUBSET TxnIds, misdirected : BOOLEAN, leaked : BOOLEAN]
    BY <1>20, <2>1, AnswerType DEF SendResp, Txn
  <2>3. txn' \in Seq(Txn) /\ Len(txn') <= MaxReqs
    <3>1. txn' \in [DOMAIN txn -> Txn]
      BY <1>20, <2>1, TxnElements DEF SendResp, Txn
    <3> QED
      BY <3>1, TxnsReplaced
  <2>4. th' \in [Threads -> Thread]
    BY <1>20, ReturnType DEF SendResp, Threads
  <2>5. \A l \in {"txn"} : lock[l].n # 0
    BY <1>20 DEF SendResp, LockInv, ThreadInv, At, Locks, Threads, TypeOK, EvPcs, AppPcs
  <2>6. lock' \in [Locks -> [by : Threads \cup {None}, n : Nat]]
    BY <1>20, <2>5, UnlockType DEF SendResp, Locks
  <2> QED
    BY <1>20, <2>1, <2>2, <2>3, <2>4, <2>5, <2>6 DEF SendResp, TypeOK
<1>21. ASSUME NEW p \in Apps, TakeClient(p) PROVE TypeOK'
  <2>1. th' \in [Threads -> Thread]
    BY <1>21, GotoType DEF TakeClient, Threads, AppPcs
  <2>2. lock' \in [Locks -> [by : Threads \cup {None}, n : Nat]]
    BY <1>21, LockType DEF TakeClient, Threads, Locks
  <2> QED
    BY <1>21, <2>1, <2>2 DEF TakeClient, TypeOK
<1>22. ASSUME NEW p \in Apps, SendInd(p) PROVE TypeOK'
  <2>1. th' \in [Threads -> Thread]
    BY <1>22, ReturnType DEF SendInd, Threads
  <2>2. \A l \in {"client"} : lock[l].n # 0
    BY <1>22 DEF SendInd, LockInv, ThreadInv, At, Locks, Threads, TypeOK, EvPcs, AppPcs
  <2>3. lock' \in [Locks -> [by : Threads \cup {None}, n : Nat]]
    BY <1>22, <2>2, UnlockType DEF SendInd, Locks
  <2> QED
    BY <1>22, <2>1, <2>2, <2>3 DEF SendInd, TypeOK
<1>23. ASSUME NEW p \in Apps, InvalidHandle(p) PROVE TypeOK'
  <2>1. th' \in [Threads -> Thread]
    BY <1>23, ReturnType DEF InvalidHandle, Threads
  <2> QED
    BY <1>23, <2>1 DEF InvalidHandle, TypeOK
<1>24. ASSUME NEW p \in Apps, BroadcastLock(p) PROVE TypeOK'
  <2>1. th' \in [Threads -> Thread]
    BY <1>24, GotoType DEF BroadcastLock, Threads, AppPcs
  <2>2. lock' \in [Locks -> [by : Threads \cup {None}, n : Nat]]
    BY <1>24, LockType DEF BroadcastLock, Threads, Locks
  <2> QED
    BY <1>24, <2>1, <2>2 DEF BroadcastLock, TypeOK
<1>25. ASSUME NEW p \in Apps, BroadcastFind(p) PROVE TypeOK'
  <2>1. CASE svc # "freed"
    <3> DEFINE x == [th[p] EXCEPT !.pc = "broadcast", !.todo = ClientList]
    <3>1. p \in Threads /\ th[p] \in Thread /\ ClientList \in SUBSET Handles
      BY ClientPlaces DEF TypeOK, Threads, ClientList
    <3>2. x \in Thread
      BY <3>1 DEF Thread
    <3>3. th' = [th EXCEPT ![p] = x]
      BY <1>25, <2>1 DEF BroadcastFind
    <3>4. th' \in [Threads -> Thread]
      BY <3>1, <3>2, <3>3, SetThread
    <3>5. lock' \in [Locks -> [by : Threads \cup {None}, n : Nat]]
      BY <1>25, <2>1, <3>1, LockType DEF BroadcastFind, Locks
    <3> QED
      BY <1>25, <3>4, <3>5 DEF BroadcastFind, TypeOK
  <2>2. CASE svc = "freed"
    <3>1. p \in Threads
      BY DEF Threads
    <3>2. th' \in [Threads -> Thread]
      BY <1>25, <2>2, <3>1, ReturnType DEF BroadcastFind
    <3>3. lock["client"].n # 0
      BY <1>25 DEF BroadcastFind, LockInv, At, Locks
    <3>4. lock' \in [Locks -> [by : Threads \cup {None}, n : Nat]]
      BY <1>25, <2>2, <3>3, UnlockType DEF BroadcastFind, Locks
    <3> QED
      BY <1>25, <3>2, <3>4 DEF BroadcastFind, TypeOK
  <2> QED
    BY <1>25, <2>1, <2>2 DEF BroadcastFind, TypeOK
<1>26. ASSUME NEW p \in Apps, BroadcastSend(p) PROVE TypeOK'
  <2>1. PICK h \in th[p].todo : th' = [th EXCEPT ![p].todo = @ \ {h}]
    BY <1>26 DEF BroadcastSend
  <2>2. th' \in [Threads -> Thread]
    <3> DEFINE x == [th[p] EXCEPT !.todo = @ \ {h}]
    <3>1. p \in Threads /\ th[p] \in Thread
      BY DEF TypeOK, Threads
    <3>2. x \in Thread
      BY <3>1 DEF Thread
    <3>3. th' = [th EXCEPT ![p] = x]
      BY <2>1
    <3> QED
      BY <3>1, <3>2, <3>3, SetThread
  <2>3. fault' \in BOOLEAN
    BY <1>26 DEF BroadcastSend
  <2> QED
    BY <1>26, <2>1, <2>2, <2>3 DEF BroadcastSend, TypeOK
<1>27. ASSUME NEW p \in Apps, BroadcastDone(p) PROVE TypeOK'
  <2>1. th' \in [Threads -> Thread]
    BY <1>27, ReturnType DEF BroadcastDone, Threads
  <2>2. \A l \in {"client", "service"} : lock[l].n # 0
    BY <1>27 DEF BroadcastDone, LockInv, ThreadInv, At, Locks, Threads, TypeOK, EvPcs, AppPcs
  <2>3. lock' \in [Locks -> [by : Threads \cup {None}, n : Nat]]
    BY <1>27, <2>2, UnlockType DEF BroadcastDone, Locks
  <2> QED
    BY <1>27, <2>1, <2>2, <2>3 DEF BroadcastDone, TypeOK
<1>28. ASSUME NEW p \in Apps, FreeClients(p) PROVE TypeOK'
  <2>1. th' \in [Threads -> Thread]
    BY <1>28, GotoType DEF FreeClients, Threads, AppPcs
  <2>2. txn' \in Seq(Txn) /\ Len(txn') <= MaxReqs
    BY <1>28, FreeTxnsType DEF FreeClients, TypeOK
  <2>3. clnt' \in Seq(Client) /\ Len(clnt') <= MaxClients
    <3>1. \A h \in DOMAIN clnt : clnt'[h] \in Client
      BY <1>28, ClientElements DEF FreeClients, Client
    <3>2. clnt' \in [DOMAIN clnt -> Client]
      BY <1>28, <3>1 DEF FreeClients
    <3> QED
      BY <3>2, ClientsReplaced
  <2> QED
    BY <1>28, <2>1, <2>2, <2>3 DEF FreeClients, TypeOK
<1>29. ASSUME NEW p \in Apps, FreeService(p) PROVE TypeOK'
  <2>1. th' \in [Threads -> Thread]
    BY <1>29, ReturnType DEF FreeService, Threads
  <2> QED
    BY <1>29, <2>1 DEF FreeService, TypeOK
<1> QED
  BY <1>1, <1>2, <1>3, <1>4, <1>5, <1>6, <1>7, <1>8, <1>9, <1>10, <1>11, <1>12, <1>13, <1>14,
     <1>15, <1>16, <1>17, <1>18, <1>19, <1>20, <1>21, <1>22, <1>23, <1>24, <1>25, <1>26, <1>27,
     <1>28, <1>29 DEF Next, EventStep, CallStep

-----------------------------------------------------------------------------
(* Threads and locks. *)

\* Thread p goes on from one of the places "from" to one of the places "to".
Step(p, from, to) ==
    th[p].pc \in from /\ th'[p].pc \in to /\ \A q \in Threads \ {p} : th'[q] = th[q]

\* What Goto does to the threads.
LEMMA GotoStep ==
  ASSUME TypeOK, NEW p \in Threads, NEW c, Goto(p, c)
  PROVE  th'[p].pc = c /\ \A q \in Threads \ {p} : th'[q] = th[q]
  BY DEF Goto, TypeOK, Thread

\* What Return does to the threads.
LEMMA ReturnStep ==
  ASSUME TypeOK, NEW p \in Threads, Return(p)
  PROVE  th'[p].pc = "idle" /\ \A q \in Threads \ {p} : th'[q] = th[q]
  BY DEF Return, TypeOK, Idle

\* The fields of a lock have their types.
LEMMA LockElements == TypeOK => \A l \in Locks : lock[l].by \in Threads \cup {None} /\ lock[l].n \in Nat
  BY DEF TypeOK

\* What Lock does to the locks.
LEMMA LockEffect ==
  ASSUME TypeOK, NEW p \in Threads, NEW l \in Locks, Lock(p, l)
  PROVE  /\ lock'[l].by = p /\ lock'[l].n = lock[l].n + 1
         /\ \A m \in Locks \ {l} : lock'[m] = lock[m]
  BY DEF Lock, TypeOK

\* What Unlock does to the locks: a recursive mutex is free when it was held once.
LEMMA UnlockEffect ==
  ASSUME TypeOK, NEW ls, Unlock(ls)
  PROVE  \A l \in Locks :
           /\ l \notin ls => lock'[l] = lock[l]
           /\ l \in ls /\ lock[l].n = 1 => lock'[l].by = None /\ lock'[l].n = 0
           /\ l \in ls /\ lock[l].n # 1 => lock'[l].by = lock[l].by /\ lock'[l].n = lock[l].n - 1
  BY DEF Unlock, Free, TypeOK

\* Where each handler takes the thread that runs it; no other thread moves.
LEMMA Moves ==
  ASSUME TypeOK
  PROVE  /\ \A a \in Addrs : Recv(a) => Step(Ev, {"idle"}, {"find", "reply"})
         /\ \A a \in Addrs : Disconnect(a) => Step(Ev, {"idle"}, {"clean"})
         /\ \A h \in Handles : AddTxn(h) => Step(Ev, {"find"}, {"process"})
         /\ \A h \in Handles : AddTxnNoMem(h) => Step(Ev, {"find"}, {"reply"})
         /\ CreateClient => Step(Ev, {"find"}, {"connect"})
         /\ CreateClientNoMem => Step(Ev, {"find"}, {"reply"})
         /\ Connected => Step(Ev, {"connect"}, {"find", "reply"})
         /\ ConnectRefused => Step(Ev, {"connect"}, {"reply"})
         /\ ProcessReq => Step(Ev, {"process"}, {"return"})
         /\ ProcessFails => Step(Ev, {"process"}, {"free_txn"})
         /\ CallbackReturns => Step(Ev, {"return"}, {"idle"})
         /\ FreeTxn => Step(Ev, {"free_txn"}, {"reply"})
         /\ Reply => Step(Ev, {"reply"}, {"idle"})
         /\ CleanTxns => Step(Ev, {"clean"}, {"idle"})
         /\ \A p \in Apps, t \in TxnIds : CallSendResp(p, t) => Step(p, {"idle"}, {"resp"})
         /\ \A p \in Apps, h \in Handles : CallSendInd(p, h) => Step(p, {"idle"}, {"ind"})
         /\ \A p \in Apps : CallBroadcast(p) => Step(p, {"idle"}, {"bcast"})
         /\ \A p \in Apps : Unregister(p) => Step(p, {"idle"}, {"closed"})
         /\ \A p \in Apps : TakeTxn(p) => Step(p, {"resp"}, {"send_resp"})
         /\ \A p \in Apps : SendResp(p) => Step(p, {"send_resp"}, {"idle"})
         /\ \A p \in Apps : TakeClient(p) => Step(p, {"ind"}, {"send_ind"})
         /\ \A p \in Apps : SendInd(p) => Step(p, {"send_ind"}, {"idle"})
         /\ \A p \in Apps : InvalidHandle(p) => Step(p, {"resp", "ind"}, {"idle"})
         /\ \A p \in Apps : BroadcastLock(p) => Step(p, {"bcast"}, {"find_svc"})
         /\ \A p \in Apps : BroadcastFind(p) => Step(p, {"find_svc"}, {"idle", "broadcast"})
         /\ \A p \in Apps : BroadcastSend(p) => Step(p, {"broadcast"}, {"broadcast"})
         /\ \A p \in Apps : BroadcastDone(p) => Step(p, {"broadcast"}, {"idle"})
         /\ \A p \in Apps : FreeClients(p) => Step(p, {"closed"}, {"unlist"})
         /\ \A p \in Apps : FreeService(p) => Step(p, {"unlist"}, {"idle"})
<1> USE DEF Threads
<1>1. ASSUME NEW a \in Addrs, Recv(a) PROVE Step(Ev, {"idle"}, {"find", "reply"})
  <2> DEFINE x == [Idle EXCEPT !.pc = "find", !.addr = a, !.req = Received + 1]
             y == [Idle EXCEPT !.pc = "reply", !.addr = a, !.req = Received + 1, !.rc = "malformed"]
  <2>1. x.pc = "find" /\ y.pc = "reply"
    BY DEF Idle
  <2>2. th[Ev].pc = "idle" /\ (th' = [th EXCEPT ![Ev] = x] \/ th' = [th EXCEPT ![Ev] = y])
    BY <1>1 DEF Recv, At
  <2> HIDE DEF x, y
  <2> QED
    BY <2>1, <2>2 DEF Step, TypeOK, Threads
<1>2. ASSUME NEW a \in Addrs, Disconnect(a) PROVE Step(Ev, {"idle"}, {"clean"})
  <2>1. th[Ev].pc = "idle" /\ (\E h : th' = [th EXCEPT ![Ev].pc = "clean", ![Ev].clnt = h])
    BY <1>2 DEF Disconnect, At
  <2> QED
    BY <2>1 DEF Step, TypeOK, Thread
<1>3. ASSUME NEW h \in Handles, AddTxn(h) PROVE Step(Ev, {"find"}, {"process"})
  <2>1. th[Ev].pc = "find" /\ (th' = [th EXCEPT ![Ev].pc = "process", ![Ev].txn = Len(txn) + 1, ![Ev].clnt = h])
    BY <1>3 DEF AddTxn, At
  <2> QED
    BY <2>1 DEF Step, TypeOK, Thread
<1>4. ASSUME NEW h \in Handles, AddTxnNoMem(h) PROVE Step(Ev, {"find"}, {"reply"})
  <2>1. th[Ev].pc = "find" /\ (th' = [th EXCEPT ![Ev].pc = "reply", ![Ev].rc = "no_memory"])
    BY <1>4 DEF AddTxnNoMem, At
  <2> QED
    BY <2>1 DEF Step, TypeOK, Thread
<1>5. ASSUME CreateClient PROVE Step(Ev, {"find"}, {"connect"})
  <2>1. th[Ev].pc = "find" /\ (th' = [th EXCEPT ![Ev].pc = "connect", ![Ev].clnt = Len(clnt) + 1])
    BY <1>5 DEF CreateClient, At
  <2> QED
    BY <2>1 DEF Step, TypeOK, Thread
<1>6. ASSUME CreateClientNoMem PROVE Step(Ev, {"find"}, {"reply"})
  <2>1. th[Ev].pc = "find" /\ (th' = [th EXCEPT ![Ev].pc = "reply", ![Ev].rc = "no_memory"])
    BY <1>6 DEF CreateClientNoMem, At
  <2> QED
    BY <2>1 DEF Step, TypeOK, Thread
<1>7. ASSUME Connected PROVE Step(Ev, {"connect"}, {"find", "reply"})
  <2>1. th[Ev].pc = "connect" /\ (Goto(Ev, "find") \/ th' = [th EXCEPT ![Ev].pc = "reply", ![Ev].rc = "internal"])
    BY <1>7 DEF Connected, At
  <2> QED
    BY <2>1 DEF Step, TypeOK, Thread, Goto
<1>8. ASSUME ConnectRefused PROVE Step(Ev, {"connect"}, {"reply"})
  <2>1. th[Ev].pc = "connect" /\ (\E e : th' = [th EXCEPT ![Ev].pc = "reply", ![Ev].rc = e])
    BY <1>8 DEF ConnectRefused, At
  <2> QED
    BY <2>1 DEF Step, TypeOK, Thread
<1>9. ASSUME ProcessReq PROVE Step(Ev, {"process"}, {"return"})
  BY <1>9, GotoStep, ReturnStep DEF ProcessReq, Step, At
<1>10. ASSUME ProcessFails PROVE Step(Ev, {"process"}, {"free_txn"})
  <2>1. th[Ev].pc = "process" /\ (\E e : th' = [th EXCEPT ![Ev].pc = "free_txn", ![Ev].rc = e])
    BY <1>10 DEF ProcessFails, At
  <2> QED
    BY <2>1 DEF Step, TypeOK, Thread
<1>11. ASSUME CallbackReturns PROVE Step(Ev, {"return"}, {"idle"})
  BY <1>11, GotoStep, ReturnStep DEF CallbackReturns, Step, At
<1>12. ASSUME FreeTxn PROVE Step(Ev, {"free_txn"}, {"reply"})
  BY <1>12, GotoStep, ReturnStep DEF FreeTxn, Step, At
<1>13. ASSUME Reply PROVE Step(Ev, {"reply"}, {"idle"})
  BY <1>13, GotoStep, ReturnStep DEF Reply, Step, At
<1>14. ASSUME CleanTxns PROVE Step(Ev, {"clean"}, {"idle"})
  BY <1>14, GotoStep, ReturnStep DEF CleanTxns, Step, At
<1>15. ASSUME NEW p \in Apps, NEW t \in TxnIds, CallSendResp(p, t)
      PROVE  Step(p, {"idle"}, {"resp"})
  <2>1. th[p].pc = "idle" /\ (th' = [th EXCEPT ![p].pc = "resp", ![p].txn = t])
    BY <1>15 DEF CallSendResp, At
  <2> QED
    BY <2>1 DEF Step, TypeOK, Thread
<1>16. ASSUME NEW p \in Apps, NEW h \in Handles, CallSendInd(p, h)
      PROVE  Step(p, {"idle"}, {"ind"})
  <2>1. th[p].pc = "idle" /\ (th' = [th EXCEPT ![p].pc = "ind", ![p].clnt = h])
    BY <1>16 DEF CallSendInd, At
  <2> QED
    BY <2>1 DEF Step, TypeOK, Thread
<1>17. ASSUME NEW p \in Apps, CallBroadcast(p) PROVE Step(p, {"idle"}, {"bcast"})
  BY <1>17, GotoStep, ReturnStep DEF CallBroadcast, Step, At
<1>18. ASSUME NEW p \in Apps, Unregister(p) PROVE Step(p, {"idle"}, {"closed"})
  BY <1>18, GotoStep, ReturnStep DEF Unregister, Step, At
<1>19. ASSUME NEW p \in Apps, TakeTxn(p) PROVE Step(p, {"resp"}, {"send_resp"})
  <2>1. th[p].pc = "resp" /\ (th' = [th EXCEPT ![p].pc = "send_resp", ![p].clnt = txn[th[p].txn].clnt])
    BY <1>19 DEF TakeTxn, At
  <2> QED
    BY <2>1 DEF Step, TypeOK, Thread
<1>20. ASSUME NEW p \in Apps, SendResp(p) PROVE Step(p, {"send_resp"}, {"idle"})
  BY <1>20, GotoStep, ReturnStep DEF SendResp, Step, At
<1>21. ASSUME NEW p \in Apps, TakeClient(p) PROVE Step(p, {"ind"}, {"send_ind"})
  BY <1>21, GotoStep, ReturnStep DEF TakeClient, Step, At
<1>22. ASSUME NEW p \in Apps, SendInd(p) PROVE Step(p, {"send_ind"}, {"idle"})
  BY <1>22, GotoStep, ReturnStep DEF SendInd, Step, At
<1>23. ASSUME NEW p \in Apps, InvalidHandle(p) PROVE Step(p, {"resp", "ind"}, {"idle"})
  BY <1>23, GotoStep, ReturnStep DEF InvalidHandle, Step, At
<1>24. ASSUME NEW p \in Apps, BroadcastLock(p) PROVE Step(p, {"bcast"}, {"find_svc"})
  BY <1>24, GotoStep, ReturnStep DEF BroadcastLock, Step, At
<1>25. ASSUME NEW p \in Apps, BroadcastFind(p)
      PROVE  Step(p, {"find_svc"}, {"idle", "broadcast"})
  <2>1. th[p].pc = "find_svc" /\ (Return(p) \/ th' = [th EXCEPT ![p].pc = "broadcast", ![p].todo = ClientList])
    BY <1>25 DEF BroadcastFind, At
  <2> QED
    BY <2>1 DEF Step, TypeOK, Thread, Idle, Return
<1>26. ASSUME NEW p \in Apps, BroadcastSend(p) PROVE Step(p, {"broadcast"}, {"broadcast"})
  <2>1. th[p].pc = "broadcast" /\ (\E h : th' = [th EXCEPT ![p].todo = @ \ {h}])
    BY <1>26 DEF BroadcastSend, At
  <2> QED
    BY <2>1 DEF Step, TypeOK, Thread
<1>27. ASSUME NEW p \in Apps, BroadcastDone(p) PROVE Step(p, {"broadcast"}, {"idle"})
  BY <1>27, GotoStep, ReturnStep DEF BroadcastDone, Step, At
<1>28. ASSUME NEW p \in Apps, FreeClients(p) PROVE Step(p, {"closed"}, {"unlist"})
  BY <1>28, GotoStep, ReturnStep DEF FreeClients, Step, At
<1>29. ASSUME NEW p \in Apps, FreeService(p) PROVE Step(p, {"unlist"}, {"idle"})
  BY <1>29, GotoStep, ReturnStep DEF FreeService, Step, At
<1> QED
  BY <1>1, <1>2, <1>3, <1>4, <1>5, <1>6, <1>7, <1>8, <1>9, <1>10, <1>11, <1>12, <1>13, <1>14,
     <1>15, <1>16, <1>17, <1>18, <1>19, <1>20, <1>21, <1>22, <1>23, <1>24, <1>25, <1>26, <1>27,
     <1>28, <1>29

\* The places inside a critical section that lasts longer than one action.
Holding == {"clean", "send_resp", "send_ind", "find_svc", "broadcast"}

\* A step that enters and leaves no long critical section and leaves the locks alone keeps
\* LockInv.
LEMMA LockKept ==
  ASSUME LockInv, NEW p \in Threads, NEW from, NEW to, Step(p, from, to),
         from \cap Holding = {}, to \cap Holding = {},
         UNCHANGED lock, hist'.leaked = hist.leaked
  PROVE  LockInv'
  BY ThreadAssumption DEF LockInv, Step, Holding, Threads

\* A step of one thread within its own code keeps ThreadInv while the service's state stays.
LEMMA ThreadKept ==
  ASSUME ThreadInv, NEW p \in Threads, NEW from, NEW to, Step(p, from, to), UNCHANGED svc,
         p = Ev => to \subseteq EvPcs /\ (svc = "registered" \/ "idle" \notin from),
         p \in Apps => to \subseteq AppPcs \ {"closed", "unlist"}
  PROVE  ThreadInv'
  BY ThreadAssumption DEF ThreadInv, Step, Threads, EvPcs, AppPcs

\* Every step keeps each lock with the thread that is in its critical section.
LEMMA LockNext ==
  ASSUME TypeOK, LockInv, ThreadInv, TxnInv, AnswerInv, Next
  PROVE  LockInv'
<1> USE ThreadAssumption
<1>1. ASSUME NEW a \in Addrs, Recv(a) PROVE LockInv'
  <2>1. Step(Ev, {"idle"}, {"find", "reply"})
    BY <1>1, Moves
  <2>2. UNCHANGED lock /\ hist'.leaked = hist.leaked
    BY <1>1 DEF Recv, TypeOK
  <2> QED
    BY <2>1, <2>2, LockKept DEF Holding, Threads
<1>2. ASSUME NEW a \in Addrs, Disconnect(a) PROVE LockInv'
  <2>1. Step(Ev, {"idle"}, {"clean"})
    BY <1>2, Moves
  <2>2. CanLock(Ev, "client") /\ Lock(Ev, "client") /\ hist'.leaked = hist.leaked
    BY <1>2 DEF Disconnect
  <2> QED
    BY <2>1, <2>2, LockElements, LockEffect DEF CanLock, Step, LockInv, ThreadInv, EvPcs,
       AppPcs, Threads, Locks
<1>3. ASSUME NEW h \in Handles, AddTxn(h) PROVE LockInv'
  <2>1. Step(Ev, {"find"}, {"process"})
    BY <1>3, Moves
  <2>2. UNCHANGED lock /\ hist'.leaked = hist.leaked
    BY <1>3 DEF AddTxn
  <2> QED
    BY <2>1, <2>2, LockKept DEF Holding, Threads
<1>4. ASSUME NEW h \in Handles, AddTxnNoMem(h) PROVE LockInv'
  <2>1. Step(Ev, {"find"}, {"reply"})
    BY <1>4, Moves
  <2>2. CanLock(Ev, "client") /\ Lock(Ev, "client") /\ hist'.leaked = TRUE
    BY <1>4 DEF AddTxnNoMem, TypeOK
  <2> QED
    BY <2>1, <2>2, LockElements, LockEffect DEF CanLock, Step, LockInv, ThreadInv, EvPcs,
       AppPcs, Threads, Locks
<1>5. ASSUME CreateClient PROVE LockInv'
  <2>1. Step(Ev, {"find"}, {"connect"})
    BY <1>5, Moves
  <2>2. UNCHANGED lock /\ hist'.leaked = hist.leaked
    BY <1>5 DEF CreateClient
  <2> QED
    BY <2>1, <2>2, LockKept DEF Holding, Threads
<1>6. ASSUME CreateClientNoMem PROVE LockInv'
  <2>1. Step(Ev, {"find"}, {"reply"})
    BY <1>6, Moves
  <2>2. UNCHANGED lock /\ hist'.leaked = hist.leaked
    BY <1>6 DEF CreateClientNoMem
  <2> QED
    BY <2>1, <2>2, LockKept DEF Holding, Threads
<1>7. ASSUME Connected PROVE LockInv'
  <2>1. Step(Ev, {"connect"}, {"find", "reply"})
    BY <1>7, Moves
  <2>2. UNCHANGED lock /\ hist'.leaked = hist.leaked
    BY <1>7 DEF Connected
  <2> QED
    BY <2>1, <2>2, LockKept DEF Holding, Threads
<1>8. ASSUME ConnectRefused PROVE LockInv'
  <2>1. Step(Ev, {"connect"}, {"reply"})
    BY <1>8, Moves
  <2>2. UNCHANGED lock /\ hist'.leaked = hist.leaked
    BY <1>8 DEF ConnectRefused
  <2> QED
    BY <2>1, <2>2, LockKept DEF Holding, Threads
<1>9. ASSUME ProcessReq PROVE LockInv'
  <2>1. Step(Ev, {"process"}, {"return"})
    BY <1>9, Moves
  <2>2. UNCHANGED lock /\ hist'.leaked = hist.leaked
    BY <1>9 DEF ProcessReq, TypeOK
  <2> QED
    BY <2>1, <2>2, LockKept DEF Holding, Threads
<1>10. ASSUME ProcessFails PROVE LockInv'
  <2>1. Step(Ev, {"process"}, {"free_txn"})
    BY <1>10, Moves
  <2>2. UNCHANGED lock /\ hist'.leaked = hist.leaked
    BY <1>10 DEF ProcessFails
  <2> QED
    BY <2>1, <2>2, LockKept DEF Holding, Threads
<1>11. ASSUME CallbackReturns PROVE LockInv'
  <2>1. Step(Ev, {"return"}, {"idle"})
    BY <1>11, Moves
  <2>2. UNCHANGED lock /\ hist'.leaked = hist.leaked
    BY <1>11 DEF CallbackReturns
  <2> QED
    BY <2>1, <2>2, LockKept DEF Holding, Threads
<1>12. ASSUME FreeTxn PROVE LockInv'
  <2>1. Step(Ev, {"free_txn"}, {"reply"})
    BY <1>12, Moves
  <2>2. UNCHANGED lock /\ hist'.leaked = hist.leaked
    BY <1>12 DEF FreeTxn
  <2> QED
    BY <2>1, <2>2, LockKept DEF Holding, Threads
<1>13. ASSUME Reply PROVE LockInv'
  <2>1. Step(Ev, {"reply"}, {"idle"})
    BY <1>13, Moves
  <2>2. UNCHANGED lock /\ hist'.leaked = hist.leaked
    BY <1>13, AnswerType DEF Reply, AnswerInv, EventAnswer, Owing, At
  <2> QED
    BY <2>1, <2>2, LockKept DEF Holding, Threads
<1>14. ASSUME CleanTxns PROVE LockInv'
  <2>1. Step(Ev, {"clean"}, {"idle"})
    BY <1>14, Moves
  <2>2. Unlock({"client"}) /\ hist'.leaked = hist.leaked
    BY <1>14 DEF CleanTxns
  <2> QED
    BY <2>1, <2>2, LockElements, UnlockEffect DEF Step, LockInv, ThreadInv, EvPcs, AppPcs,
       Threads, Locks
<1>15. ASSUME NEW p \in Apps, NEW t \in TxnIds, CallSendResp(p, t) PROVE LockInv'
  <2>1. Step(p, {"idle"}, {"resp"})
    BY <1>15, Moves
  <2>2. UNCHANGED lock /\ hist'.leaked = hist.leaked
    BY <1>15 DEF CallSendResp
  <2> QED
    BY <2>1, <2>2, LockKept DEF Holding, Threads
<1>16. ASSUME NEW p \in Apps, NEW h \in Handles, CallSendInd(p, h) PROVE LockInv'
  <2>1. Step(p, {"idle"}, {"ind"})
    BY <1>16, Moves
  <2>2. UNCHANGED lock /\ hist'.leaked = hist.leaked
    BY <1>16 DEF CallSendInd
  <2> QED
    BY <2>1, <2>2, LockKept DEF Holding, Threads
<1>17. ASSUME NEW p \in Apps, CallBroadcast(p) PROVE LockInv'
  <2>1. Step(p, {"idle"}, {"bcast"})
    BY <1>17, Moves
  <2>2. UNCHANGED lock /\ hist'.leaked = hist.leaked
    BY <1>17 DEF CallBroadcast
  <2> QED
    BY <2>1, <2>2, LockKept DEF Holding, Threads
<1>18. ASSUME NEW p \in Apps, Unregister(p) PROVE LockInv'
  <2>1. Step(p, {"idle"}, {"closed"})
    BY <1>18, Moves
  <2>2. UNCHANGED lock /\ hist'.leaked = hist.leaked
    BY <1>18 DEF Unregister
  <2> QED
    BY <2>1, <2>2, LockKept DEF Holding, Threads
<1>19. ASSUME NEW p \in Apps, TakeTxn(p) PROVE LockInv'
  <2>1. Step(p, {"resp"}, {"send_resp"})
    BY <1>19, Moves
  <2>2. CanLock(p, "txn") /\ Lock(p, "txn") /\ hist'.leaked = hist.leaked
    BY <1>19 DEF TakeTxn
  <2> QED
    BY <2>1, <2>2, LockElements, LockEffect DEF CanLock, Step, LockInv, ThreadInv, EvPcs,
       AppPcs, Threads, Locks
<1>20. ASSUME NEW p \in Apps, SendResp(p) PROVE LockInv'
  <2>1. Step(p, {"send_resp"}, {"idle"})
    BY <1>20, Moves
  <2>2. txn[th[p].txn].req \in TxnIds
    BY <1>20, TxnElements DEF SendResp, Txn, TxnInv, CallTxns, At
  <2>3. Unlock({"txn"}) /\ hist'.leaked = hist.leaked
    BY <1>20, <2>2, AnswerType DEF SendResp
  <2> QED
    BY <2>1, <2>3, UnlockEffect DEF Step, LockInv, ThreadInv, EvPcs, AppPcs, Threads, Locks
<1>21. ASSUME NEW p \in Apps, TakeClient(p) PROVE LockInv'
  <2>1. Step(p, {"ind"}, {"send_ind"})
    BY <1>21, Moves
  <2>2. CanLock(p, "client") /\ Lock(p, "client") /\ hist'.leaked = hist.leaked
    BY <1>21 DEF TakeClient
  <2> QED
    BY <2>1, <2>2, LockElements, LockEffect DEF CanLock, Step, LockInv, ThreadInv, EvPcs,
       AppPcs, Threads, Locks
<1>22. ASSUME NEW p \in Apps, SendInd(p) PROVE LockInv'
  <2>1. Step(p, {"send_ind"}, {"idle"})
    BY <1>22, Moves
  <2>2. Unlock({"client"}) /\ hist'.leaked = hist.leaked
    BY <1>22 DEF SendInd
  <2> QED
    BY <2>1, <2>2, LockElements, UnlockEffect DEF Step, LockInv, ThreadInv, EvPcs, AppPcs,
       Threads, Locks
<1>23. ASSUME NEW p \in Apps, InvalidHandle(p) PROVE LockInv'
  <2>1. Step(p, {"resp", "ind"}, {"idle"})
    BY <1>23, Moves
  <2>2. UNCHANGED lock /\ hist'.leaked = hist.leaked
    BY <1>23 DEF InvalidHandle
  <2> QED
    BY <2>1, <2>2, LockKept DEF Holding, Threads
<1>24. ASSUME NEW p \in Apps, BroadcastLock(p) PROVE LockInv'
  <2>1. Step(p, {"bcast"}, {"find_svc"})
    BY <1>24, Moves
  <2>2. CanLock(p, "client") /\ Lock(p, "client") /\ hist'.leaked = hist.leaked
    BY <1>24 DEF BroadcastLock
  <2> QED
    BY <2>1, <2>2, LockElements, LockEffect DEF CanLock, Step, LockInv, ThreadInv, EvPcs,
       AppPcs, Threads, Locks
<1>25. ASSUME NEW p \in Apps, BroadcastFind(p) PROVE LockInv'
  <2>1. Step(p, {"find_svc"}, {"idle", "broadcast"})
    BY <1>25, Moves
  <2>2. CASE svc # "freed"
    <3>1. Lock(p, "service") /\ CanLock(p, "service") /\ UNCHANGED hist /\ th'[p].pc = "broadcast"
      BY <1>25, <2>2 DEF BroadcastFind, TypeOK, Thread, Threads
    <3> QED
      BY <2>1, <3>1, LockEffect DEF CanLock, Step, LockInv, ThreadInv, EvPcs, AppPcs, Threads,
         Locks
  <2>3. CASE svc = "freed"
    <3>1. Unlock({"client"}) /\ UNCHANGED hist /\ th'[p].pc = "idle"
      BY <1>25, <2>3, ReturnStep DEF BroadcastFind, Threads
    <3> QED
      BY <2>1, <3>1, UnlockEffect DEF Step, LockInv, ThreadInv, EvPcs, AppPcs, Threads, Locks
  <2> QED
    BY <2>2, <2>3
<1>26. ASSUME NEW p \in Apps, BroadcastSend(p) PROVE LockInv'
  <2>1. Step(p, {"broadcast"}, {"broadcast"})
    BY <1>26, Moves
  <2>2. UNCHANGED lock /\ hist'.leaked = hist.leaked
    BY <1>26 DEF BroadcastSend
  <2> QED
    BY <2>1, <2>2 DEF Step, LockInv, Threads
<1>27. ASSUME NEW p \in Apps, BroadcastDone(p) PROVE LockInv'
  <2>1. Step(p, {"broadcast"}, {"idle"})
    BY <1>27, Moves
  <2>2. Unlock({"client", "service"}) /\ hist'.leaked = hist.leaked
    BY <1>27 DEF BroadcastDone
  <2> QED
    BY <2>1, <2>2, LockElements, UnlockEffect DEF Step, LockInv, ThreadInv, EvPcs, AppPcs,
       Threads, Locks
<1>28. ASSUME NEW p \in Apps, FreeClients(p) PROVE LockInv'
  <2>1. Step(p, {"closed"}, {"unlist"})
    BY <1>28, Moves
  <2>2. UNCHANGED lock /\ hist'.leaked = hist.leaked
    BY <1>28 DEF FreeClients
  <2> QED
    BY <2>1, <2>2, LockKept DEF Holding, Threads
<1>29. ASSUME NEW p \in Apps, FreeService(p) PROVE LockInv'
  <2>1. Step(p, {"unlist"}, {"idle"})
    BY <1>29, Moves
  <2>2. UNCHANGED lock /\ hist'.leaked = hist.leaked
    BY <1>29 DEF FreeService
  <2> QED
    BY <2>1, <2>2, LockKept DEF Holding, Threads
<1> QED
  BY <1>1, <1>2, <1>3, <1>4, <1>5, <1>6, <1>7, <1>8, <1>9, <1>10, <1>11, <1>12, <1>13, <1>14,
     <1>15, <1>16, <1>17, <1>18, <1>19, <1>20, <1>21, <1>22, <1>23, <1>24, <1>25, <1>26, <1>27,
     <1>28, <1>29 DEF Next, EventStep, CallStep

\* Every step keeps the threads in the code that is theirs, and one thread closing the service.
LEMMA ThreadNext ==
  ASSUME TypeOK, ThreadInv, Next
  PROVE  ThreadInv'
<1> USE ThreadAssumption
<1>1. ASSUME NEW a \in Addrs, Recv(a) PROVE ThreadInv'
  <2>1. Step(Ev, {"idle"}, {"find", "reply"})
    BY <1>1, Moves
  <2>2. UNCHANGED svc /\ svc = "registered"
    BY <1>1 DEF Recv
  <2> QED
    BY <2>1, <2>2, ThreadKept DEF Threads, EvPcs
<1>2. ASSUME NEW a \in Addrs, Disconnect(a) PROVE ThreadInv'
  <2>1. Step(Ev, {"idle"}, {"clean"})
    BY <1>2, Moves
  <2>2. UNCHANGED svc /\ svc = "registered"
    BY <1>2 DEF Disconnect
  <2> QED
    BY <2>1, <2>2, ThreadKept DEF Threads, EvPcs
<1>3. ASSUME NEW h \in Handles, AddTxn(h) PROVE ThreadInv'
  <2>1. Step(Ev, {"find"}, {"process"})
    BY <1>3, Moves
  <2>2. UNCHANGED svc
    BY <1>3 DEF AddTxn
  <2> QED
    BY <2>1, <2>2, ThreadKept DEF Threads, EvPcs
<1>4. ASSUME NEW h \in Handles, AddTxnNoMem(h) PROVE ThreadInv'
  <2>1. Step(Ev, {"find"}, {"reply"})
    BY <1>4, Moves
  <2>2. UNCHANGED svc
    BY <1>4 DEF AddTxnNoMem
  <2> QED
    BY <2>1, <2>2, ThreadKept DEF Threads, EvPcs
<1>5. ASSUME CreateClient PROVE ThreadInv'
  <2>1. Step(Ev, {"find"}, {"connect"})
    BY <1>5, Moves
  <2>2. UNCHANGED svc
    BY <1>5 DEF CreateClient
  <2> QED
    BY <2>1, <2>2, ThreadKept DEF Threads, EvPcs
<1>6. ASSUME CreateClientNoMem PROVE ThreadInv'
  <2>1. Step(Ev, {"find"}, {"reply"})
    BY <1>6, Moves
  <2>2. UNCHANGED svc
    BY <1>6 DEF CreateClientNoMem
  <2> QED
    BY <2>1, <2>2, ThreadKept DEF Threads, EvPcs
<1>7. ASSUME Connected PROVE ThreadInv'
  <2>1. Step(Ev, {"connect"}, {"find", "reply"})
    BY <1>7, Moves
  <2>2. UNCHANGED svc
    BY <1>7 DEF Connected
  <2> QED
    BY <2>1, <2>2, ThreadKept DEF Threads, EvPcs
<1>8. ASSUME ConnectRefused PROVE ThreadInv'
  <2>1. Step(Ev, {"connect"}, {"reply"})
    BY <1>8, Moves
  <2>2. UNCHANGED svc
    BY <1>8 DEF ConnectRefused
  <2> QED
    BY <2>1, <2>2, ThreadKept DEF Threads, EvPcs
<1>9. ASSUME ProcessReq PROVE ThreadInv'
  <2>1. Step(Ev, {"process"}, {"return"})
    BY <1>9, Moves
  <2>2. UNCHANGED svc
    BY <1>9 DEF ProcessReq
  <2> QED
    BY <2>1, <2>2, ThreadKept DEF Threads, EvPcs
<1>10. ASSUME ProcessFails PROVE ThreadInv'
  <2>1. Step(Ev, {"process"}, {"free_txn"})
    BY <1>10, Moves
  <2>2. UNCHANGED svc
    BY <1>10 DEF ProcessFails
  <2> QED
    BY <2>1, <2>2, ThreadKept DEF Threads, EvPcs
<1>11. ASSUME CallbackReturns PROVE ThreadInv'
  <2>1. Step(Ev, {"return"}, {"idle"})
    BY <1>11, Moves
  <2>2. UNCHANGED svc
    BY <1>11 DEF CallbackReturns
  <2> QED
    BY <2>1, <2>2, ThreadKept DEF Threads, EvPcs
<1>12. ASSUME FreeTxn PROVE ThreadInv'
  <2>1. Step(Ev, {"free_txn"}, {"reply"})
    BY <1>12, Moves
  <2>2. UNCHANGED svc
    BY <1>12 DEF FreeTxn
  <2> QED
    BY <2>1, <2>2, ThreadKept DEF Threads, EvPcs
<1>13. ASSUME Reply PROVE ThreadInv'
  <2>1. Step(Ev, {"reply"}, {"idle"})
    BY <1>13, Moves
  <2>2. UNCHANGED svc
    BY <1>13 DEF Reply
  <2> QED
    BY <2>1, <2>2, ThreadKept DEF Threads, EvPcs
<1>14. ASSUME CleanTxns PROVE ThreadInv'
  <2>1. Step(Ev, {"clean"}, {"idle"})
    BY <1>14, Moves
  <2>2. UNCHANGED svc
    BY <1>14 DEF CleanTxns
  <2> QED
    BY <2>1, <2>2, ThreadKept DEF Threads, EvPcs
<1>15. ASSUME NEW p \in Apps, NEW t \in TxnIds, CallSendResp(p, t) PROVE ThreadInv'
  <2>1. Step(p, {"idle"}, {"resp"})
    BY <1>15, Moves
  <2>2. UNCHANGED svc
    BY <1>15 DEF CallSendResp
  <2> QED
    BY <2>1, <2>2, ThreadKept DEF Threads, AppPcs
<1>16. ASSUME NEW p \in Apps, NEW h \in Handles, CallSendInd(p, h) PROVE ThreadInv'
  <2>1. Step(p, {"idle"}, {"ind"})
    BY <1>16, Moves
  <2>2. UNCHANGED svc
    BY <1>16 DEF CallSendInd
  <2> QED
    BY <2>1, <2>2, ThreadKept DEF Threads, AppPcs
<1>17. ASSUME NEW p \in Apps, CallBroadcast(p) PROVE ThreadInv'
  <2>1. Step(p, {"idle"}, {"bcast"})
    BY <1>17, Moves
  <2>2. UNCHANGED svc
    BY <1>17 DEF CallBroadcast
  <2> QED
    BY <2>1, <2>2, ThreadKept DEF Threads, AppPcs
<1>18. ASSUME NEW p \in Apps, Unregister(p) PROVE ThreadInv'
  <2>1. Step(p, {"idle"}, {"closed"})
    BY <1>18, Moves
  <2>2. th[Ev].pc = "idle" /\ svc = "registered" /\ svc' = "closing"
    BY <1>18 DEF Unregister, At
  <2> QED
    BY <2>1, <2>2 DEF Step, ThreadInv, EvPcs, AppPcs, Threads
<1>19. ASSUME NEW p \in Apps, TakeTxn(p) PROVE ThreadInv'
  <2>1. Step(p, {"resp"}, {"send_resp"})
    BY <1>19, Moves
  <2>2. UNCHANGED svc
    BY <1>19 DEF TakeTxn
  <2> QED
    BY <2>1, <2>2, ThreadKept DEF Threads, AppPcs
<1>20. ASSUME NEW p \in Apps, SendResp(p) PROVE ThreadInv'
  <2>1. Step(p, {"send_resp"}, {"idle"})
    BY <1>20, Moves
  <2>2. UNCHANGED svc
    BY <1>20 DEF SendResp
  <2> QED
    BY <2>1, <2>2, ThreadKept DEF Threads, AppPcs
<1>21. ASSUME NEW p \in Apps, TakeClient(p) PROVE ThreadInv'
  <2>1. Step(p, {"ind"}, {"send_ind"})
    BY <1>21, Moves
  <2>2. UNCHANGED svc
    BY <1>21 DEF TakeClient
  <2> QED
    BY <2>1, <2>2, ThreadKept DEF Threads, AppPcs
<1>22. ASSUME NEW p \in Apps, SendInd(p) PROVE ThreadInv'
  <2>1. Step(p, {"send_ind"}, {"idle"})
    BY <1>22, Moves
  <2>2. UNCHANGED svc
    BY <1>22 DEF SendInd
  <2> QED
    BY <2>1, <2>2, ThreadKept DEF Threads, AppPcs
<1>23. ASSUME NEW p \in Apps, InvalidHandle(p) PROVE ThreadInv'
  <2>1. Step(p, {"resp", "ind"}, {"idle"})
    BY <1>23, Moves
  <2>2. UNCHANGED svc
    BY <1>23 DEF InvalidHandle
  <2> QED
    BY <2>1, <2>2, ThreadKept DEF Threads, AppPcs
<1>24. ASSUME NEW p \in Apps, BroadcastLock(p) PROVE ThreadInv'
  <2>1. Step(p, {"bcast"}, {"find_svc"})
    BY <1>24, Moves
  <2>2. UNCHANGED svc
    BY <1>24 DEF BroadcastLock
  <2> QED
    BY <2>1, <2>2, ThreadKept DEF Threads, AppPcs
<1>25. ASSUME NEW p \in Apps, BroadcastFind(p) PROVE ThreadInv'
  <2>1. Step(p, {"find_svc"}, {"idle", "broadcast"})
    BY <1>25, Moves
  <2>2. UNCHANGED svc
    BY <1>25 DEF BroadcastFind
  <2> QED
    BY <2>1, <2>2, ThreadKept DEF Threads, AppPcs
<1>26. ASSUME NEW p \in Apps, BroadcastSend(p) PROVE ThreadInv'
  <2>1. Step(p, {"broadcast"}, {"broadcast"})
    BY <1>26, Moves
  <2>2. UNCHANGED svc
    BY <1>26 DEF BroadcastSend
  <2> QED
    BY <2>1, <2>2, ThreadKept DEF Threads, AppPcs
<1>27. ASSUME NEW p \in Apps, BroadcastDone(p) PROVE ThreadInv'
  <2>1. Step(p, {"broadcast"}, {"idle"})
    BY <1>27, Moves
  <2>2. UNCHANGED svc
    BY <1>27 DEF BroadcastDone
  <2> QED
    BY <2>1, <2>2, ThreadKept DEF Threads, AppPcs
<1>28. ASSUME NEW p \in Apps, FreeClients(p) PROVE ThreadInv'
  <2>1. Step(p, {"closed"}, {"unlist"})
    BY <1>28, Moves
  <2>2. UNCHANGED svc
    BY <1>28 DEF FreeClients
  <2> QED
    BY <2>1, <2>2 DEF Step, ThreadInv, EvPcs, AppPcs, Threads
<1>29. ASSUME NEW p \in Apps, FreeService(p) PROVE ThreadInv'
  <2>1. Step(p, {"unlist"}, {"idle"})
    BY <1>29, Moves
  <2>2. svc' = "freed"
    BY <1>29 DEF FreeService
  <2> QED
    BY <2>1, <2>2 DEF Step, ThreadInv, EvPcs, AppPcs, Threads
<1> QED
  BY <1>1, <1>2, <1>3, <1>4, <1>5, <1>6, <1>7, <1>8, <1>9, <1>10, <1>11, <1>12, <1>13, <1>14,
     <1>15, <1>16, <1>17, <1>18, <1>19, <1>20, <1>21, <1>22, <1>23, <1>24, <1>25, <1>26, <1>27,
     <1>28, <1>29 DEF Next, EventStep, CallStep

\* Nothing is emptied while the event thread is at work or the service is registered.
-----------------------------------------------------------------------------
(* Clients. *)

\* The clients are there while the event thread is at work or the service is registered.
LEMMA NotEmptied ==
  ASSUME ThreadInv, svc = "registered" \/ th[Ev].pc # "idle"
  PROVE  ~Emptied
  BY DEF ThreadInv, Emptied

\* Only freeing the clients and the service changes whether the clients are gone.
LEMMA EmptiedKept ==
  ASSUME NEW p \in Threads, NEW from, NEW to, Step(p, from, to), UNCHANGED svc,
         "unlist" \notin to, "unlist" \notin from
  PROVE  Emptied' <=> Emptied
  BY DEF Step, Emptied, Threads

\* A step that touches no client struct and enters no code that relies on one keeps ClientInv.
LEMMA ClientKept ==
  ASSUME ClientInv, NEW p \in Threads, NEW from, NEW to, Step(p, from, to), UNCHANGED <<clnt, svc>>,
         from \cap {"clean", "unlist"} = {},
         to \cap {"connect", "clean", "send_ind", "broadcast", "unlist"} = {},
         p # Ev => \A t \in DOMAIN txn' : t \in DOMAIN txn /\ txn'[t].clnt = txn[t].clnt
  PROVE  ClientInv'
<1>1. Emptied' <=> Emptied
  BY EmptiedKept
<1>2. ClientList' = ClientList
  BY DEF ClientList
<1>3. ClientsLive'
  BY <1>1 DEF ClientInv, ClientsLive, Step, Threads
<1>4. CallClients'
  BY <1>2 DEF ClientInv, CallClients, Step, Threads
<1>5. EventClient'
  BY DEF ClientInv, EventClient, Step, Threads
<1> QED
  BY <1>3, <1>4, <1>5 DEF ClientInv

\* Every step keeps a client struct alive while it is on its list, and a thread that sends an
\* indication finds its client there.
LEMMA ClientNext ==
  ASSUME TypeOK, LockInv, ThreadInv, ClientInv, TxnInv, AnswerInv, Next
  PROVE  ClientInv'
<1> USE ThreadAssumption
<1>1. ASSUME NEW a \in Addrs, Recv(a) PROVE ClientInv'
  <2>1. Step(Ev, {"idle"}, {"find", "reply"})
    BY <1>1, Moves
  <2>2. UNCHANGED <<clnt, svc>>
    BY <1>1 DEF Recv
  <2> QED
    BY <2>1, <2>2, ClientKept DEF Threads
<1>2. ASSUME NEW a \in Addrs, Disconnect(a) PROVE ClientInv'
  <2>1. Step(Ev, {"idle"}, {"clean"})
    BY <1>2, Moves
  <2>2. PICK h \in DOMAIN clnt :
             /\ clnt' = [clnt EXCEPT ![h].linked = FALSE, ![h].conn = "disconnected"]
             /\ th' = [th EXCEPT ![Ev].pc = "clean", ![Ev].clnt = h]
             /\ clnt[h].linked
    BY <1>2 DEF Disconnect, ClientAt
  <2>3. /\ DOMAIN clnt' = DOMAIN clnt /\ clnt'[h].live /\ ~clnt'[h].linked
        /\ \A k \in DOMAIN clnt \ {h} : clnt'[k] = clnt[k]
    BY <2>2, ClientElements DEF Client, ClientInv, ClientsLive
  <2>4. th'[Ev].pc = "clean" /\ th'[Ev].clnt = h
    BY <2>2 DEF TypeOK, Thread, Threads
  <2>5. \A q \in Apps : th'[q] = th[q] /\ th[q].pc \notin {"send_ind", "broadcast"}
    <3>1. CanLock(Ev, "client")
      BY <1>2 DEF Disconnect
    <3> QED
      BY <2>1, <3>1 DEF CanLock, LockInv, Step, Threads
  <2>6. ~Emptied'
    BY <1>2, <2>1, NotEmptied, EmptiedKept DEF Disconnect, Threads
  <2>7. ClientsLive'
    BY <2>1, <2>3, <2>4, <2>5, <2>6 DEF ClientInv, ClientsLive, Step
  <2>8. EventClient'
    BY <2>1, <2>3, <2>4, <2>5, <2>6 DEF ClientInv, EventClient, Step
  <2>9. CallClients'
    BY <2>1, <2>3, <2>4, <2>5, <2>6 DEF ClientInv, CallClients, Step
  <2> QED
    BY <2>7, <2>8, <2>9 DEF ClientInv
<1>3. ASSUME NEW h \in Handles, AddTxn(h) PROVE ClientInv'
  <2>1. Step(Ev, {"find"}, {"process"})
    BY <1>3, Moves
  <2>2. UNCHANGED <<clnt, svc>>
    BY <1>3 DEF AddTxn
  <2> QED
    BY <2>1, <2>2, ClientKept DEF Threads
<1>4. ASSUME NEW h \in Handles, AddTxnNoMem(h) PROVE ClientInv'
  <2>1. Step(Ev, {"find"}, {"reply"})
    BY <1>4, Moves
  <2>2. UNCHANGED <<clnt, svc>>
    BY <1>4 DEF AddTxnNoMem
  <2> QED
    BY <2>1, <2>2, ClientKept DEF Threads
<1>5. ASSUME CreateClient PROVE ClientInv'
  <2>1. Step(Ev, {"find"}, {"connect"})
    BY <1>5, Moves
  <2> DEFINE e == [addr |-> th[Ev].addr, linked |-> TRUE, live |-> TRUE, conn |-> "connecting"]
             n == Len(clnt) + 1
  <2>2. e \in Client /\ e.linked /\ e.live
    BY <1>5 DEF CreateClient, Client, AnswerInv, EventAnswer, Owing, At, TypeOK, Thread, Threads
  <2>3. clnt' = Append(clnt, e) /\ clnt \in Seq(Client)
    BY <1>5 DEF CreateClient, TypeOK
  <2> HIDE DEF e
  <2>4. /\ DOMAIN clnt' = DOMAIN clnt \cup {n} /\ n \notin DOMAIN clnt
        /\ clnt'[n] = e /\ \A h \in DOMAIN clnt : clnt'[h] = clnt[h]
    BY <2>2, <2>3, Appended
  <2> HIDE DEF n
  <2>5. th'[Ev].pc = "connect" /\ th'[Ev].clnt = n /\ UNCHANGED <<txn, svc>>
    BY <1>5 DEF CreateClient, TypeOK, Thread, Threads, n
  <2>6. ~Emptied'
    BY <1>5, <2>1, NotEmptied, EmptiedKept DEF CreateClient, Threads, Step
  <2>7. \A t \in DOMAIN txn : txn[t].clnt \in DOMAIN clnt
    BY DEF TxnInv, TxnClients
  <2>8. \A q \in Apps : th'[q] = th[q]
    BY <2>1 DEF Step, Threads
  <2>9. ClientList \subseteq ClientList'
    BY <2>4 DEF ClientList
  <2>10. CallClients'
    BY <2>5, <2>8, <2>9 DEF ClientInv, CallClients
  <2>11. th[Ev].pc = "find"
    BY <2>1 DEF Step
  <2>12. ClientsLive'
    BY <2>2, <2>4, <2>5, <2>6, <2>7, <2>10, <2>11 DEF ClientInv, ClientsLive
  <2>13. EventClient'
    BY <2>2, <2>4, <2>5, <2>6, <2>7, <2>10, <2>11 DEF ClientInv, EventClient
  <2> QED
    BY <2>10, <2>12, <2>13 DEF ClientInv
<1>6. ASSUME CreateClientNoMem PROVE ClientInv'
  <2>1. Step(Ev, {"find"}, {"reply"})
    BY <1>6, Moves
  <2>2. UNCHANGED <<clnt, svc>>
    BY <1>6 DEF CreateClientNoMem
  <2> QED
    BY <2>1, <2>2, ClientKept DEF Threads
<1>7. ASSUME Connected PROVE ClientInv'
  <2>1. Step(Ev, {"connect"}, {"find", "reply"})
    BY <1>7, Moves
  <2>2. DOMAIN clnt' = DOMAIN clnt /\ \A h \in DOMAIN clnt : clnt'[h].live = clnt[h].live /\ clnt'[h].linked = clnt[h].linked
    BY <1>7, ClientElements DEF Connected, Client, FindClient
  <2>3. UNCHANGED <<svc, txn>>
    BY <1>7 DEF Connected
  <2>4. Emptied' <=> Emptied
    BY <2>1, <2>3, EmptiedKept DEF Threads
  <2>5. ClientList' = ClientList
    BY <2>2 DEF ClientList
  <2>6. \A q \in Apps : th'[q] = th[q]
    BY <2>1 DEF Step, Threads
  <2>7. CallClients'
    BY <2>3, <2>5, <2>6 DEF ClientInv, CallClients
  <2>8. ClientsLive'
    BY <2>1, <2>2, <2>4, <2>7 DEF ClientInv, ClientsLive, Step
  <2>9. EventClient'
    BY <2>1, <2>2, <2>4, <2>7 DEF ClientInv, EventClient, Step
  <2> QED
    BY <2>7, <2>8, <2>9 DEF ClientInv
<1>8. ASSUME ConnectRefused PROVE ClientInv'
  <2>1. Step(Ev, {"connect"}, {"reply"})
    BY <1>8, Moves
  <2>2. DOMAIN clnt' = DOMAIN clnt /\ \A h \in DOMAIN clnt : clnt'[h] = clnt[h] \/ (~clnt'[h].live /\ ~clnt'[h].linked)
    BY <1>8, ClientElements DEF ConnectRefused, Client, FindClient
  <2>3. UNCHANGED <<svc, txn>>
    BY <1>8 DEF ConnectRefused
  <2>4. Emptied' <=> Emptied
    BY <2>1, <2>3, EmptiedKept DEF Threads
  <2>5. \A q \in Apps : th'[q] = th[q] /\ th[q].pc \notin {"send_ind", "broadcast"}
    <3>1. CanLock(Ev, "client")
      BY <1>8 DEF ConnectRefused
    <3> QED
      BY <2>1, <3>1 DEF CanLock, LockInv, Step, Threads
  <2>6. ClientsLive'
    BY <2>1, <2>2, <2>4, <2>5 DEF ClientInv, ClientsLive, Step
  <2>7. EventClient'
    BY <2>1, <2>2, <2>4, <2>5 DEF ClientInv, EventClient, Step
  <2>8. CallClients'
    BY <2>1, <2>2, <2>4, <2>5 DEF ClientInv, CallClients, Step
  <2> QED
    BY <2>6, <2>7, <2>8 DEF ClientInv
<1>9. ASSUME ProcessReq PROVE ClientInv'
  <2>1. Step(Ev, {"process"}, {"return"})
    BY <1>9, Moves
  <2>2. UNCHANGED <<clnt, svc>>
    BY <1>9 DEF ProcessReq
  <2> QED
    BY <2>1, <2>2, ClientKept DEF Threads
<1>10. ASSUME ProcessFails PROVE ClientInv'
  <2>1. Step(Ev, {"process"}, {"free_txn"})
    BY <1>10, Moves
  <2>2. UNCHANGED <<clnt, svc>>
    BY <1>10 DEF ProcessFails
  <2> QED
    BY <2>1, <2>2, ClientKept DEF Threads
<1>11. ASSUME CallbackReturns PROVE ClientInv'
  <2>1. Step(Ev, {"return"}, {"idle"})
    BY <1>11, Moves
  <2>2. UNCHANGED <<clnt, svc>>
    BY <1>11 DEF CallbackReturns
  <2> QED
    BY <2>1, <2>2, ClientKept DEF Threads
<1>12. ASSUME FreeTxn PROVE ClientInv'
  <2>1. Step(Ev, {"free_txn"}, {"reply"})
    BY <1>12, Moves
  <2>2. UNCHANGED <<clnt, svc>>
    BY <1>12 DEF FreeTxn
  <2> QED
    BY <2>1, <2>2, ClientKept DEF Threads
<1>13. ASSUME Reply PROVE ClientInv'
  <2>1. Step(Ev, {"reply"}, {"idle"})
    BY <1>13, Moves
  <2>2. UNCHANGED <<clnt, svc>>
    BY <1>13 DEF Reply
  <2> QED
    BY <2>1, <2>2, ClientKept DEF Threads
<1>14. ASSUME CleanTxns PROVE ClientInv'
  <2>1. Step(Ev, {"clean"}, {"idle"})
    BY <1>14, Moves
  <2>2. /\ DOMAIN clnt' = DOMAIN clnt /\ ~clnt'[th[Ev].clnt].live /\ clnt'[th[Ev].clnt].linked = clnt[th[Ev].clnt].linked
        /\ \A h \in DOMAIN clnt \ {th[Ev].clnt} : clnt'[h] = clnt[h]
    <3>1. th[Ev].clnt \in DOMAIN clnt
      BY <2>1 DEF ClientInv, EventClient, Step
    <3>2. clnt' = [clnt EXCEPT ![th[Ev].clnt].live = FALSE]
      BY <1>14 DEF CleanTxns
    <3> QED
      BY <3>1, <3>2, ClientElements DEF Client
  <2>3. UNCHANGED svc
    BY <1>14 DEF CleanTxns
  <2>4. Emptied' <=> Emptied
    BY <2>1, <2>3, EmptiedKept DEF Threads
  <2>5. ClientList' = ClientList
    BY <2>2 DEF ClientList
  <2>6. \A q \in Apps : th'[q] = th[q]
    BY <2>1 DEF Step, Threads
  <2>7. CallClients'
    BY <2>3, <2>5, <2>6 DEF ClientInv, CallClients
  <2>8. ClientsLive'
    BY <2>1, <2>2, <2>4, <2>7 DEF ClientInv, ClientsLive, EventClient, Step
  <2>9. EventClient'
    BY <2>1, <2>2, <2>4, <2>7 DEF ClientInv, EventClient, Step
  <2> QED
    BY <2>7, <2>8, <2>9 DEF ClientInv
<1>15. ASSUME NEW p \in Apps, NEW t \in TxnIds, CallSendResp(p, t) PROVE ClientInv'
  <2>1. Step(p, {"idle"}, {"resp"})
    BY <1>15, Moves
  <2>2. UNCHANGED txn
    BY <1>15 DEF CallSendResp
  <2>3. UNCHANGED <<clnt, svc>>
    BY <1>15 DEF CallSendResp
  <2> QED
    BY <2>1, <2>2, <2>3, ClientKept DEF Threads
<1>16. ASSUME NEW p \in Apps, NEW h \in Handles, CallSendInd(p, h) PROVE ClientInv'
  <2>1. Step(p, {"idle"}, {"ind"})
    BY <1>16, Moves
  <2>2. UNCHANGED txn
    BY <1>16 DEF CallSendInd
  <2>3. UNCHANGED <<clnt, svc>>
    BY <1>16 DEF CallSendInd
  <2> QED
    BY <2>1, <2>2, <2>3, ClientKept DEF Threads
<1>17. ASSUME NEW p \in Apps, CallBroadcast(p) PROVE ClientInv'
  <2>1. Step(p, {"idle"}, {"bcast"})
    BY <1>17, Moves
  <2>2. UNCHANGED txn
    BY <1>17 DEF CallBroadcast
  <2>3. UNCHANGED <<clnt, svc>>
    BY <1>17 DEF CallBroadcast
  <2> QED
    BY <2>1, <2>2, <2>3, ClientKept DEF Threads
<1>18. ASSUME NEW p \in Apps, Unregister(p) PROVE ClientInv'
  <2>1. Step(p, {"idle"}, {"closed"})
    BY <1>18, Moves
  <2>2. UNCHANGED txn
    BY <1>18 DEF Unregister
  <2>3. UNCHANGED clnt /\ svc' = "closing" /\ svc = "registered"
    BY <1>18 DEF Unregister
  <2>4. ~Emptied'
    BY <2>1, <2>3 DEF Step, Threads, Emptied, ThreadInv
  <2>5. ClientList' = ClientList
    BY <2>3 DEF ClientList
  <2>6. ClientsLive'
    BY <2>1, <2>2, <2>3, <2>4, <2>5 DEF ClientInv, ClientsLive, Step, Threads
  <2>7. EventClient'
    BY <2>1, <2>2, <2>3, <2>4, <2>5 DEF ClientInv, EventClient, Step, Threads
  <2>8. CallClients'
    BY <2>1, <2>2, <2>3, <2>4, <2>5 DEF ClientInv, CallClients, Step, Threads
  <2> QED
    BY <2>6, <2>7, <2>8 DEF ClientInv
<1>19. ASSUME NEW p \in Apps, TakeTxn(p) PROVE ClientInv'
  <2>1. Step(p, {"resp"}, {"send_resp"})
    BY <1>19, Moves
  <2>2. \A t \in DOMAIN txn' : t \in DOMAIN txn /\ txn'[t].clnt = txn[t].clnt
    BY <1>19, TxnElements DEF TakeTxn, Txn, FindTxn
  <2>3. UNCHANGED <<clnt, svc>>
    BY <1>19 DEF TakeTxn
  <2> QED
    BY <2>1, <2>2, <2>3, ClientKept DEF Threads
<1>20. ASSUME NEW p \in Apps, SendResp(p) PROVE ClientInv'
  <2>1. Step(p, {"send_resp"}, {"idle"})
    BY <1>20, Moves
  <2>2. \A t \in DOMAIN txn' : t \in DOMAIN txn /\ txn'[t].clnt = txn[t].clnt
    BY <1>20, TxnElements DEF SendResp, Txn
  <2>3. UNCHANGED <<clnt, svc>>
    BY <1>20 DEF SendResp
  <2> QED
    BY <2>1, <2>2, <2>3, ClientKept DEF Threads
<1>21. ASSUME NEW p \in Apps, TakeClient(p) PROVE ClientInv'
  <2>1. Step(p, {"ind"}, {"send_ind"})
    BY <1>21, Moves
  <2>2. UNCHANGED <<clnt, txn, svc>> /\ FindClient(th[p].clnt) /\ th'[p].clnt = th[p].clnt
    BY <1>21 DEF TakeClient, Goto, TypeOK, Thread, Threads
  <2>3. th'[p].clnt \in ClientList'
    BY <2>2 DEF FindClient, ClientList
  <2>4. Emptied' <=> Emptied
    BY <2>1, <2>2, EmptiedKept DEF Threads
  <2>5. \A q \in Apps \ {p} : th'[q] = th[q]
    BY <2>1 DEF Step, Threads
  <2>6. th'[Ev] = th[Ev] /\ ClientList' = ClientList
    BY <2>1, <2>2 DEF Step, Threads, ClientList
  <2>7. CallClients'
    BY <2>1, <2>2, <2>3, <2>5, <2>6 DEF ClientInv, CallClients, Step
  <2>8. ClientsLive'
    BY <2>2, <2>4, <2>6, <2>7 DEF ClientInv, ClientsLive
  <2>9. EventClient'
    BY <2>2, <2>4, <2>6, <2>7 DEF ClientInv, EventClient
  <2> QED
    BY <2>7, <2>8, <2>9 DEF ClientInv
<1>22. ASSUME NEW p \in Apps, SendInd(p) PROVE ClientInv'
  <2>1. Step(p, {"send_ind"}, {"idle"})
    BY <1>22, Moves
  <2>2. UNCHANGED txn
    BY <1>22 DEF SendInd
  <2>3. UNCHANGED <<clnt, svc>>
    BY <1>22 DEF SendInd
  <2> QED
    BY <2>1, <2>2, <2>3, ClientKept DEF Threads
<1>23. ASSUME NEW p \in Apps, InvalidHandle(p) PROVE ClientInv'
  <2>1. Step(p, {"resp", "ind"}, {"idle"})
    BY <1>23, Moves
  <2>2. UNCHANGED txn
    BY <1>23 DEF InvalidHandle
  <2>3. UNCHANGED <<clnt, svc>>
    BY <1>23 DEF InvalidHandle
  <2> QED
    BY <2>1, <2>2, <2>3, ClientKept DEF Threads
<1>24. ASSUME NEW p \in Apps, BroadcastLock(p) PROVE ClientInv'
  <2>1. Step(p, {"bcast"}, {"find_svc"})
    BY <1>24, Moves
  <2>2. UNCHANGED txn
    BY <1>24 DEF BroadcastLock
  <2>3. UNCHANGED <<clnt, svc>>
    BY <1>24 DEF BroadcastLock
  <2> QED
    BY <2>1, <2>2, <2>3, ClientKept DEF Threads
<1>25. ASSUME NEW p \in Apps, BroadcastFind(p) PROVE ClientInv'
  <2>1. Step(p, {"find_svc"}, {"idle", "broadcast"})
    BY <1>25, Moves
  <2>2. UNCHANGED <<clnt, txn, svc>>
    BY <1>25 DEF BroadcastFind
  <2>3. th'[p].pc = "broadcast" => svc # "freed" /\ th'[p].todo = ClientList
    BY <1>25 DEF BroadcastFind, TypeOK, Thread, Threads, Return, Idle
  <2>4. Emptied' <=> Emptied
    BY <2>1, <2>2, EmptiedKept DEF Threads
  <2>5. \A q \in Apps \ {p} : th'[q] = th[q]
    BY <2>1 DEF Step, Threads
  <2>6. th'[Ev] = th[Ev] /\ ClientList' = ClientList
    BY <2>1, <2>2 DEF Step, Threads, ClientList
  <2>7. CallClients'
    BY <2>1, <2>2, <2>3, <2>5, <2>6 DEF ClientInv, CallClients, Step
  <2>8. ClientsLive'
    BY <2>2, <2>4, <2>6, <2>7 DEF ClientInv, ClientsLive
  <2>9. EventClient'
    BY <2>2, <2>4, <2>6, <2>7 DEF ClientInv, EventClient
  <2> QED
    BY <2>7, <2>8, <2>9 DEF ClientInv
<1>26. ASSUME NEW p \in Apps, BroadcastSend(p) PROVE ClientInv'
  <2>1. Step(p, {"broadcast"}, {"broadcast"})
    BY <1>26, Moves
  <2>2. UNCHANGED <<clnt, txn, svc>>
    BY <1>26 DEF BroadcastSend
  <2>3. th'[p].pc = "broadcast" => svc # "freed" /\ th'[p].todo \subseteq ClientList
    <3>1. PICK h : th' = [th EXCEPT ![p].todo = @ \ {h}]
      BY <1>26 DEF BroadcastSend
    <3>2. th'[p].todo \subseteq th[p].todo
      BY <3>1 DEF TypeOK, Thread, Threads
    <3> QED
      BY <2>1, <3>2 DEF ClientInv, CallClients, Step
  <2>4. Emptied' <=> Emptied
    BY <2>1, <2>2, EmptiedKept DEF Threads
  <2>5. \A q \in Apps \ {p} : th'[q] = th[q]
    BY <2>1 DEF Step, Threads
  <2>6. th'[Ev] = th[Ev] /\ ClientList' = ClientList
    BY <2>1, <2>2 DEF Step, Threads, ClientList
  <2>7. CallClients'
    BY <2>1, <2>2, <2>3, <2>5, <2>6 DEF ClientInv, CallClients, Step
  <2>8. ClientsLive'
    BY <2>2, <2>4, <2>6, <2>7 DEF ClientInv, ClientsLive
  <2>9. EventClient'
    BY <2>2, <2>4, <2>6, <2>7 DEF ClientInv, EventClient
  <2> QED
    BY <2>7, <2>8, <2>9 DEF ClientInv
<1>27. ASSUME NEW p \in Apps, BroadcastDone(p) PROVE ClientInv'
  <2>1. Step(p, {"broadcast"}, {"idle"})
    BY <1>27, Moves
  <2>2. UNCHANGED txn
    BY <1>27 DEF BroadcastDone
  <2>3. UNCHANGED <<clnt, svc>>
    BY <1>27 DEF BroadcastDone
  <2> QED
    BY <2>1, <2>2, <2>3, ClientKept DEF Threads
<1>28. ASSUME NEW p \in Apps, FreeClients(p) PROVE ClientInv'
  <2>1. Step(p, {"closed"}, {"unlist"})
    BY <1>28, Moves
  <2>2. /\ DOMAIN clnt' = DOMAIN clnt
        /\ \A h \in DOMAIN clnt :
              /\ clnt[h].linked => ~clnt'[h].live /\ ~clnt'[h].linked
              /\ ~clnt[h].linked => clnt'[h] = clnt[h]
    <3>1. clnt' = [h \in DOMAIN clnt |->
                     IF h \in ClientList
                     THEN [clnt[h] EXCEPT !.linked = FALSE, !.live = FALSE, !.conn = "closed"]
                     ELSE clnt[h]]
      BY <1>28 DEF FreeClients
    <3> QED
      BY <3>1, ClientElements DEF Client, ClientList
  <2>3. \A q \in Apps : th'[q].pc \notin {"send_ind", "broadcast"}
    <3>1. CanLock(p, "client")
      BY <1>28 DEF FreeClients
    <3> QED
      BY <2>1, <3>1 DEF CanLock, LockInv, Step, Threads
  <2>4. th[Ev].pc = "idle" /\ th'[Ev] = th[Ev]
    BY <2>1 DEF Step, ThreadInv, Threads
  <2>5. ASSUME NEW h \in DOMAIN clnt
        PROVE  ~clnt'[h].linked /\ ~clnt'[h].live
    <3>1. CASE clnt[h].linked
      BY <2>2, <3>1
    <3>2. CASE ~clnt[h].linked
      BY <2>2, <2>4, <3>2 DEF ClientInv, ClientsLive
    <3> QED
      BY <3>1, <3>2
  <2>6. DOMAIN clnt' = DOMAIN clnt /\ th'[Ev].pc # "clean"
    BY <2>2, <2>4
  <2>7. ClientsLive'
    BY <2>5, <2>6 DEF ClientsLive
  <2>8. EventClient'
    BY <2>2, <2>3, <2>4 DEF ClientInv, EventClient
  <2>9. CallClients'
    BY <2>2, <2>3, <2>4 DEF ClientInv, CallClients
  <2> QED
    BY <2>7, <2>8, <2>9 DEF ClientInv
<1>29. ASSUME NEW p \in Apps, FreeService(p) PROVE ClientInv'
  <2>1. Step(p, {"unlist"}, {"idle"})
    BY <1>29, Moves
  <2>2. UNCHANGED <<clnt, txn>> /\ CanLock(p, "service")
    BY <1>29 DEF FreeService
  <2>3. \A q \in Apps : th'[q].pc # "broadcast" /\ (th'[q].pc = "send_ind" => th'[q] = th[q])
    BY <2>1, <2>2 DEF CanLock, LockInv, Step, Threads
  <2>4. Emptied
    BY <2>1 DEF Step, Emptied
  <2>5. th'[Ev] = th[Ev] /\ ClientList' = ClientList
    BY <2>1, <2>2 DEF Step, Threads, ClientList
  <2>6. ClientsLive'
    BY <2>2, <2>3, <2>4, <2>5 DEF ClientInv, ClientsLive
  <2>7. EventClient'
    BY <2>2, <2>3, <2>4, <2>5 DEF ClientInv, EventClient
  <2>8. CallClients'
    BY <2>2, <2>3, <2>4, <2>5 DEF ClientInv, CallClients
  <2> QED
    BY <2>6, <2>7, <2>8 DEF ClientInv
<1> QED
  BY <1>1, <1>2, <1>3, <1>4, <1>5, <1>6, <1>7, <1>8, <1>9, <1>10, <1>11, <1>12, <1>13, <1>14,
     <1>15, <1>16, <1>17, <1>18, <1>19, <1>20, <1>21, <1>22, <1>23, <1>24, <1>25, <1>26, <1>27,
     <1>28, <1>29 DEF Next, EventStep, CallStep

-----------------------------------------------------------------------------
(* Transactions. *)

\* A thread that gets txn_list_lock finds no thread that is sending a response.
LEMMA NoSender ==
  ASSUME LockInv, NEW p \in Threads, CanLock(p, "txn"), th[p].pc # "send_resp"
  PROVE  /\ \A q \in Apps : th[q].pc # "send_resp"
         /\ \A t : ~Sending(t)
  BY ThreadAssumption DEF LockInv, CanLock, Sending, Threads

\* The transactions whose response is being sent change only when a thread takes or sends one.
LEMMA SendersKept ==
  ASSUME NEW p \in Threads, NEW from, NEW to, Step(p, from, to),
         "send_resp" \notin from, "send_resp" \notin to
  PROVE  \A t : Sending(t)' <=> Sending(t)
  BY DEF Step, Sending, Threads

\* A step that leaves the transactions alone and frees no client keeps TxnInv.
LEMMA TxnKept ==
  ASSUME TxnInv, NEW p \in Threads, NEW from, NEW to, Step(p, from, to), UNCHANGED txn,
         hist'.accepted = hist.accepted, Emptied' <=> Emptied,
         {"resp", "send_resp"} \cap to = {}, "send_resp" \notin from,
         \A h \in DOMAIN clnt : h \in DOMAIN clnt' /\ (clnt[h].live => clnt'[h].live)
  PROVE  TxnInv'
<1>1. TxnsLive'
  BY SendersKept DEF TxnInv, TxnsLive
<1>2. TxnClients'
  BY DEF TxnInv, TxnClients
<1>3. CallTxns'
  BY DEF TxnInv, CallTxns, Step, Threads
<1> QED
  BY <1>1, <1>2, <1>3 DEF TxnInv

\* Every step keeps a transaction that is on its list or being answered alive, with its client.
LEMMA TxnNext ==
  ASSUME TypeOK, LockInv, ThreadInv, ClientInv, TxnInv, AnswerInv, Next
  PROVE  TxnInv'
<1> USE ThreadAssumption
<1>1. ASSUME NEW a \in Addrs, Recv(a) PROVE TxnInv'
  <2>1. Step(Ev, {"idle"}, {"find", "reply"})
    BY <1>1, Moves
  <2>2. UNCHANGED <<txn, clnt, svc>> /\ hist'.accepted = hist.accepted
    BY <1>1 DEF Recv, TypeOK
  <2>3. Emptied' <=> Emptied
    BY <2>1, <2>2, EmptiedKept DEF Threads
  <2> QED
    BY <2>1, <2>2, <2>3, TxnKept DEF Threads
<1>2. ASSUME NEW a \in Addrs, Disconnect(a) PROVE TxnInv'
  <2>1. Step(Ev, {"idle"}, {"clean"})
    BY <1>2, Moves
  <2>2. UNCHANGED <<txn, svc>> /\ hist'.accepted = hist.accepted
    BY <1>2 DEF Disconnect
  <2>3. \A h \in DOMAIN clnt : h \in DOMAIN clnt' /\ (clnt[h].live => clnt'[h].live)
    BY <1>2, ClientElements DEF Disconnect, Client
  <2>4. Emptied' <=> Emptied
    BY <2>1, <2>2, EmptiedKept DEF Threads
  <2> QED
    BY <2>1, <2>2, <2>3, <2>4, TxnKept DEF Threads
<1>3. ASSUME NEW h \in Handles, AddTxn(h) PROVE TxnInv'
  <2>1. Step(Ev, {"find"}, {"process"})
    BY <1>3, Moves
  <2> DEFINE e == [clnt |-> h, req |-> th[Ev].req, linked |-> TRUE, live |-> TRUE]
             n == Len(txn) + 1
  <2>2. e \in Txn /\ e.live /\ e.linked /\ e.clnt = h
    BY <1>3 DEF AddTxn, Txn, AnswerInv, EventAnswer, Owing, At
  <2>3. txn' = Append(txn, e) /\ txn \in Seq(Txn) /\ UNCHANGED <<clnt, svc, hist>>
    BY <1>3 DEF AddTxn, TypeOK
  <2> HIDE DEF e
  <2>4. /\ DOMAIN txn' = DOMAIN txn \cup {n} /\ n \notin DOMAIN txn
        /\ txn'[n] = e /\ \A t \in DOMAIN txn : txn'[t] = txn[t]
    BY <2>2, <2>3, Appended
  <2> HIDE DEF n
  <2>5. h \in DOMAIN clnt /\ clnt[h].linked
    BY <1>3 DEF AddTxn, ClientAt
  <2>6. clnt[h].live /\ ~Emptied
    BY <2>5 DEF ClientInv, ClientsLive
  <2>7. Emptied' <=> Emptied
    BY <2>1, <2>3, EmptiedKept DEF Threads
  <2>8. \A t : Sending(t)' <=> Sending(t)
    BY <2>1, SendersKept DEF Threads
  <2>9. TxnsLive'
    BY <2>2, <2>4, <2>8 DEF TxnInv, TxnsLive
  <2>10. TxnClients'
    BY <2>2, <2>3, <2>4, <2>5, <2>6, <2>7 DEF TxnInv, TxnClients
  <2>11. CallTxns'
    BY <2>1, <2>3, <2>4 DEF TxnInv, CallTxns, Step, Threads
  <2> QED
    BY <2>9, <2>10, <2>11 DEF TxnInv
<1>4. ASSUME NEW h \in Handles, AddTxnNoMem(h) PROVE TxnInv'
  <2>1. Step(Ev, {"find"}, {"reply"})
    BY <1>4, Moves
  <2>2. UNCHANGED <<txn, clnt, svc>> /\ hist'.accepted = hist.accepted
    BY <1>4 DEF AddTxnNoMem, TypeOK
  <2>3. Emptied' <=> Emptied
    BY <2>1, <2>2, EmptiedKept DEF Threads
  <2> QED
    BY <2>1, <2>2, <2>3, TxnKept DEF Threads
<1>5. ASSUME CreateClient PROVE TxnInv'
  <2>1. Step(Ev, {"find"}, {"connect"})
    BY <1>5, Moves
  <2>2. UNCHANGED <<txn, svc>> /\ hist'.accepted = hist.accepted
    BY <1>5 DEF CreateClient
  <2>3. \A h \in DOMAIN clnt : h \in DOMAIN clnt' /\ (clnt[h].live => clnt'[h].live)
    <3> DEFINE e == [addr |-> th[Ev].addr, linked |-> TRUE, live |-> TRUE, conn |-> "connecting"]
    <3>1. e \in Client
      BY <1>5 DEF CreateClient, Client, AnswerInv, EventAnswer, Owing, At, TypeOK, Thread,
         Threads
    <3>2. clnt' = Append(clnt, e) /\ clnt \in Seq(Client)
      BY <1>5 DEF CreateClient, TypeOK
    <3> HIDE DEF e
    <3> QED
      BY <3>1, <3>2, Appended
  <2>4. Emptied' <=> Emptied
    BY <2>1, <2>2, EmptiedKept DEF Threads
  <2> QED
    BY <2>1, <2>2, <2>3, <2>4, TxnKept DEF Threads
<1>6. ASSUME CreateClientNoMem PROVE TxnInv'
  <2>1. Step(Ev, {"find"}, {"reply"})
    BY <1>6, Moves
  <2>2. UNCHANGED <<txn, clnt, svc>> /\ hist'.accepted = hist.accepted
    BY <1>6 DEF CreateClientNoMem
  <2>3. Emptied' <=> Emptied
    BY <2>1, <2>2, EmptiedKept DEF Threads
  <2> QED
    BY <2>1, <2>2, <2>3, TxnKept DEF Threads
<1>7. ASSUME Connected PROVE TxnInv'
  <2>1. Step(Ev, {"connect"}, {"find", "reply"})
    BY <1>7, Moves
  <2>2. UNCHANGED <<txn, svc>> /\ hist'.accepted = hist.accepted
    BY <1>7 DEF Connected
  <2>3. \A h \in DOMAIN clnt : h \in DOMAIN clnt' /\ (clnt[h].live => clnt'[h].live)
    BY <1>7, ClientElements DEF Connected, Client
  <2>4. Emptied' <=> Emptied
    BY <2>1, <2>2, EmptiedKept DEF Threads
  <2> QED
    BY <2>1, <2>2, <2>3, <2>4, TxnKept DEF Threads
<1>8. ASSUME ConnectRefused PROVE TxnInv'
  <2>1. Step(Ev, {"connect"}, {"reply"})
    BY <1>8, Moves
  <2>2. /\ UNCHANGED <<txn, svc>> /\ hist'.accepted = hist.accepted
        /\ DOMAIN clnt' = DOMAIN clnt
        /\ \A h \in DOMAIN clnt \ {th[Ev].clnt} : clnt'[h] = clnt[h]
    BY <1>8 DEF ConnectRefused
  <2>3. Emptied' <=> Emptied
    BY <2>1, <2>2, EmptiedKept DEF Threads
  <2>4. \A t \in DOMAIN txn : txn[t].clnt # th[Ev].clnt
    BY <2>1 DEF Step, ClientInv, EventClient
  <2>5. \A t : Sending(t)' <=> Sending(t)
    BY <2>1, SendersKept DEF Threads
  <2>6. TxnsLive'
    BY <2>2, <2>5 DEF TxnInv, TxnsLive
  <2>7. TxnClients'
    BY <2>2, <2>3, <2>4 DEF TxnInv, TxnClients
  <2>8. CallTxns'
    BY <2>1, <2>2 DEF TxnInv, CallTxns, Step, Threads
  <2> QED
    BY <2>6, <2>7, <2>8 DEF TxnInv
<1>9. ASSUME ProcessReq PROVE TxnInv'
  <2>1. Step(Ev, {"process"}, {"return"})
    BY <1>9, Moves
  <2>2. UNCHANGED <<txn, clnt, svc>> /\ th[Ev].txn \in DOMAIN txn
    BY <1>9 DEF ProcessReq, AnswerInv, EventTxn, At
  <2>3. hist'.accepted = hist.accepted \cup {th[Ev].txn}
    BY <1>9 DEF ProcessReq, TypeOK
  <2>4. Emptied' <=> Emptied
    BY <2>1, <2>2, EmptiedKept DEF Threads
  <2>5. \A t : Sending(t)' <=> Sending(t)
    BY <2>1, SendersKept DEF Threads
  <2>6. TxnsLive'
    BY <2>2, <2>5 DEF TxnInv, TxnsLive
  <2>7. TxnClients'
    BY <2>2, <2>4 DEF TxnInv, TxnClients
  <2>8. CallTxns'
    BY <2>1, <2>2, <2>3 DEF TxnInv, CallTxns, Step, Threads
  <2> QED
    BY <2>6, <2>7, <2>8 DEF TxnInv
<1>10. ASSUME ProcessFails PROVE TxnInv'
  <2>1. Step(Ev, {"process"}, {"free_txn"})
    BY <1>10, Moves
  <2>2. UNCHANGED <<txn, clnt, svc>> /\ hist'.accepted = hist.accepted
    BY <1>10 DEF ProcessFails
  <2>3. Emptied' <=> Emptied
    BY <2>1, <2>2, EmptiedKept DEF Threads
  <2> QED
    BY <2>1, <2>2, <2>3, TxnKept DEF Threads
<1>11. ASSUME CallbackReturns PROVE TxnInv'
  <2>1. Step(Ev, {"return"}, {"idle"})
    BY <1>11, Moves
  <2>2. UNCHANGED <<txn, clnt, svc>> /\ hist'.accepted = hist.accepted
    BY <1>11 DEF CallbackReturns
  <2>3. Emptied' <=> Emptied
    BY <2>1, <2>2, EmptiedKept DEF Threads
  <2> QED
    BY <2>1, <2>2, <2>3, TxnKept DEF Threads
<1>12. ASSUME FreeTxn PROVE TxnInv'
  <2>1. Step(Ev, {"free_txn"}, {"reply"})
    BY <1>12, Moves
  <2> DEFINE ts == {th[Ev].txn} \cap {t \in DOMAIN txn : txn[t].linked}
  <2>2. txn' = FreeTxns(ts) /\ UNCHANGED <<clnt, svc, hist>>
    BY <1>12 DEF FreeTxn
  <2> HIDE DEF ts
  <2>3. /\ DOMAIN txn' = DOMAIN txn
        /\ \A t \in DOMAIN txn :
             /\ txn'[t].clnt = txn[t].clnt
             /\ (~txn'[t].live /\ ~txn'[t].linked) \/ txn'[t] = txn[t]
    BY <2>2, FreeTxnsType
  <2>4. \A q \in Apps : th[q].pc # "send_resp" /\ th'[q] = th[q]
    <3>1. CanLock(Ev, "txn")
      BY <1>12 DEF FreeTxn
    <3> QED
      BY <2>1, <3>1, NoSender DEF Threads, Step
  <2>5. Emptied' <=> Emptied
    BY <2>1, <2>2, EmptiedKept DEF Threads
  <2>6. TxnsLive'
    BY <2>3, <2>4 DEF TxnInv, TxnsLive, Sending
  <2>7. TxnClients'
    BY <2>2, <2>3, <2>5 DEF TxnInv, TxnClients
  <2>8. CallTxns'
    BY <2>2, <2>3, <2>4 DEF TxnInv, CallTxns
  <2> QED
    BY <2>6, <2>7, <2>8 DEF TxnInv
<1>13. ASSUME Reply PROVE TxnInv'
  <2>1. Step(Ev, {"reply"}, {"idle"})
    BY <1>13, Moves
  <2>2. UNCHANGED <<txn, clnt, svc>> /\ hist'.accepted = hist.accepted
    BY <1>13, AnswerType DEF Reply, AnswerInv, EventAnswer, Owing, At
  <2>3. Emptied' <=> Emptied
    BY <2>1, <2>2, EmptiedKept DEF Threads
  <2> QED
    BY <2>1, <2>2, <2>3, TxnKept DEF Threads
<1>14. ASSUME CleanTxns PROVE TxnInv'
  <2>1. Step(Ev, {"clean"}, {"idle"})
    BY <1>14, Moves
  <2>2. /\ txn' = FreeTxns(TxnsOf(th[Ev].clnt)) /\ UNCHANGED <<svc, hist>>
        /\ clnt' = [clnt EXCEPT ![th[Ev].clnt].live = FALSE]
    BY <1>14 DEF CleanTxns
  <2>3. /\ DOMAIN txn' = DOMAIN txn
        /\ \A t \in DOMAIN txn :
             /\ txn'[t].clnt = txn[t].clnt
             /\ \/ ~txn'[t].live /\ ~txn'[t].linked
                \/ txn'[t] = txn[t] /\ t \notin TxnsOf(th[Ev].clnt)
    BY <2>2, FreeTxnsType
  <2>4. \A q \in Apps : th[q].pc # "send_resp" /\ th'[q] = th[q]
    <3>1. CanLock(Ev, "txn")
      BY <1>14 DEF CleanTxns
    <3> QED
      BY <2>1, <3>1, NoSender DEF Threads, Step
  <2>5. Emptied' <=> Emptied
    BY <2>1, <2>2, EmptiedKept DEF Threads
  <2>6. DOMAIN clnt' = DOMAIN clnt /\ \A h \in DOMAIN clnt \ {th[Ev].clnt} : clnt'[h] = clnt[h]
    BY <2>2
  <2>7. ASSUME NEW t \in DOMAIN txn, txn'[t].live
        PROVE  txn'[t] = txn[t] /\ txn[t].clnt # th[Ev].clnt
    BY <2>3, <2>4, <2>7 DEF TxnsOf, TxnInv, TxnsLive, Sending
  <2>8. TxnsLive'
    BY <2>3, <2>4 DEF TxnInv, TxnsLive, Sending
  <2>9. TxnClients'
    BY <2>3, <2>5, <2>6, <2>7 DEF TxnInv, TxnClients
  <2>10. CallTxns'
    BY <2>2, <2>3, <2>4 DEF TxnInv, CallTxns
  <2> QED
    BY <2>8, <2>9, <2>10 DEF TxnInv
<1>15. ASSUME NEW p \in Apps, NEW t \in TxnIds, CallSendResp(p, t) PROVE TxnInv'
  <2>1. Step(p, {"idle"}, {"resp"})
    BY <1>15, Moves
  <2>2. UNCHANGED <<txn, clnt, svc, hist>> /\ t \in hist.accepted /\ th'[p].txn = t
    BY <1>15 DEF CallSendResp, TypeOK, Thread, Threads
  <2>3. Emptied' <=> Emptied
    BY <2>1, <2>2, EmptiedKept DEF Threads
  <2>4. \A u : Sending(u)' <=> Sending(u)
    BY <2>1, SendersKept DEF Threads
  <2>5. TxnsLive'
    BY <2>2, <2>4 DEF TxnInv, TxnsLive
  <2>6. TxnClients'
    BY <2>2, <2>3 DEF TxnInv, TxnClients
  <2>7. CallTxns'
    BY <2>1, <2>2 DEF TxnInv, CallTxns, Step, Threads
  <2> QED
    BY <2>5, <2>6, <2>7 DEF TxnInv
<1>16. ASSUME NEW p \in Apps, NEW h \in Handles, CallSendInd(p, h) PROVE TxnInv'
  <2>1. Step(p, {"idle"}, {"ind"})
    BY <1>16, Moves
  <2>2. UNCHANGED <<txn, clnt, svc>> /\ hist'.accepted = hist.accepted
    BY <1>16 DEF CallSendInd
  <2>3. Emptied' <=> Emptied
    BY <2>1, <2>2, EmptiedKept DEF Threads
  <2> QED
    BY <2>1, <2>2, <2>3, TxnKept DEF Threads
<1>17. ASSUME NEW p \in Apps, CallBroadcast(p) PROVE TxnInv'
  <2>1. Step(p, {"idle"}, {"bcast"})
    BY <1>17, Moves
  <2>2. UNCHANGED <<txn, clnt, svc>> /\ hist'.accepted = hist.accepted
    BY <1>17 DEF CallBroadcast
  <2>3. Emptied' <=> Emptied
    BY <2>1, <2>2, EmptiedKept DEF Threads
  <2> QED
    BY <2>1, <2>2, <2>3, TxnKept DEF Threads
<1>18. ASSUME NEW p \in Apps, Unregister(p) PROVE TxnInv'
  <2>1. Step(p, {"idle"}, {"closed"})
    BY <1>18, Moves
  <2>2. UNCHANGED <<txn, clnt>> /\ hist'.accepted = hist.accepted
    BY <1>18 DEF Unregister
  <2>3. Emptied' <=> Emptied
    <3>1. svc = "registered" /\ svc' = "closing"
      BY <1>18 DEF Unregister
    <3> QED
      BY <2>1, <3>1 DEF Emptied, Step, Threads, ThreadInv
  <2> QED
    BY <2>1, <2>2, <2>3, TxnKept DEF Threads
<1>19. ASSUME NEW p \in Apps, TakeTxn(p) PROVE TxnInv'
  <2>1. Step(p, {"resp"}, {"send_resp"})
    BY <1>19, Moves
  <2> DEFINE t == th[p].txn
  <2>2. /\ t \in DOMAIN txn /\ txn[t].linked
        /\ txn' = [txn EXCEPT ![t].linked = FALSE] /\ UNCHANGED <<clnt, svc, hist>>
    BY <1>19 DEF TakeTxn, FindTxn
  <2>3. th'[p].txn = t
    <3>1. th' = [th EXCEPT ![p].pc = "send_resp", ![p].clnt = txn[t].clnt]
      BY <1>19 DEF TakeTxn
    <3> QED
      BY <3>1 DEF TypeOK, Thread, Threads
  <2> HIDE DEF t
  <2>4. /\ DOMAIN txn' = DOMAIN txn /\ ~txn'[t].linked
        /\ txn'[t].live = txn[t].live /\ txn'[t].clnt = txn[t].clnt
        /\ \A u \in DOMAIN txn \ {t} : txn'[u] = txn[u]
    BY <2>2, TxnElements DEF Txn
  <2>5. \A q \in Apps : th[q].pc # "send_resp" /\ (q # p => th'[q] = th[q])
    <3>1. CanLock(p, "txn")
      BY <1>19 DEF TakeTxn
    <3> QED
      BY <2>1, <3>1, NoSender DEF Threads, Step
  <2>6. th'[p].pc = "send_resp" /\ th[p].pc = "resp" /\ t = th[p].txn
    BY <2>1 DEF Step, t
  <2>7. Emptied' <=> Emptied
    BY <2>1, <2>2, EmptiedKept DEF Threads
  <2>8. TxnsLive'
    <3> SUFFICES ASSUME NEW u \in DOMAIN txn PROVE txn'[u].live <=> txn'[u].linked \/ Sending(u)'
      BY <2>4 DEF TxnsLive
    <3>1. txn[u].live <=> txn[u].linked
      BY <2>5 DEF TxnInv, TxnsLive, Sending
    <3>2. Sending(u)' <=> u = t
      BY <2>3, <2>5, <2>6 DEF Sending
    <3> QED
      BY <2>2, <2>4, <3>1, <3>2
  <2>9. TxnClients'
    BY <2>2, <2>4, <2>7 DEF TxnInv, TxnClients
  <2>10. CallTxns'
    BY <2>2, <2>3, <2>4, <2>5, <2>6 DEF TxnInv, CallTxns
  <2> QED
    BY <2>8, <2>9, <2>10 DEF TxnInv
<1>20. ASSUME NEW p \in Apps, SendResp(p) PROVE TxnInv'
  <2>1. Step(p, {"send_resp"}, {"idle"})
    BY <1>20, Moves
  <2> DEFINE t == th[p].txn
  <2>2. t \in DOMAIN txn /\ ~txn[t].linked /\ t = th[p].txn
    BY <2>1 DEF Step, TxnInv, CallTxns
  <2>3. /\ txn' = [txn EXCEPT ![t].live = FALSE] /\ UNCHANGED <<clnt, svc>>
        /\ Answer(txn[t].req, clnt[txn[t].clnt].addr)
    BY <1>20 DEF SendResp
  <2> HIDE DEF t
  <2>4. /\ DOMAIN txn' = DOMAIN txn /\ ~txn'[t].live /\ txn'[t].linked = txn[t].linked
        /\ txn'[t].clnt = txn[t].clnt
        /\ \A u \in DOMAIN txn \ {t} : txn'[u] = txn[u]
    BY <2>2, <2>3, TxnElements DEF Txn
  <2>5. \A q \in Apps \ {p} : th[q].pc # "send_resp" /\ th'[q] = th[q]
    BY <2>1 DEF Threads, Step, LockInv
  <2>6. th'[p].pc = "idle"
    BY <2>1 DEF Step
  <2>7. Emptied' <=> Emptied
    BY <2>1, <2>3, EmptiedKept DEF Threads
  <2>8. hist'.accepted = hist.accepted
    <3>1. txn[t].req \in TxnIds
      BY <2>2, TxnElements DEF Txn
    <3> QED
      BY <2>3, <3>1, AnswerType
  <2>9. TxnsLive'
    <3> SUFFICES ASSUME NEW u \in DOMAIN txn PROVE txn'[u].live <=> txn'[u].linked \/ Sending(u)'
      BY <2>4 DEF TxnsLive
    <3>1. u # t => (txn[u].live <=> txn[u].linked)
      BY <2>2, <2>5 DEF TxnInv, TxnsLive, Sending
    <3>2. ~Sending(u)'
      BY <2>5, <2>6 DEF Sending
    <3> QED
      BY <2>2, <2>4, <3>1, <3>2
  <2>10. TxnClients'
    BY <2>3, <2>4, <2>7 DEF TxnInv, TxnClients
  <2>11. CallTxns'
    BY <2>4, <2>5, <2>6, <2>8 DEF TxnInv, CallTxns
  <2> QED
    BY <2>9, <2>10, <2>11 DEF TxnInv
<1>21. ASSUME NEW p \in Apps, TakeClient(p) PROVE TxnInv'
  <2>1. Step(p, {"ind"}, {"send_ind"})
    BY <1>21, Moves
  <2>2. UNCHANGED <<txn, clnt, svc>> /\ hist'.accepted = hist.accepted
    BY <1>21 DEF TakeClient
  <2>3. Emptied' <=> Emptied
    BY <2>1, <2>2, EmptiedKept DEF Threads
  <2> QED
    BY <2>1, <2>2, <2>3, TxnKept DEF Threads
<1>22. ASSUME NEW p \in Apps, SendInd(p) PROVE TxnInv'
  <2>1. Step(p, {"send_ind"}, {"idle"})
    BY <1>22, Moves
  <2>2. UNCHANGED <<txn, clnt, svc>> /\ hist'.accepted = hist.accepted
    BY <1>22 DEF SendInd
  <2>3. Emptied' <=> Emptied
    BY <2>1, <2>2, EmptiedKept DEF Threads
  <2> QED
    BY <2>1, <2>2, <2>3, TxnKept DEF Threads
<1>23. ASSUME NEW p \in Apps, InvalidHandle(p) PROVE TxnInv'
  <2>1. Step(p, {"resp", "ind"}, {"idle"})
    BY <1>23, Moves
  <2>2. UNCHANGED <<txn, clnt, svc>> /\ hist'.accepted = hist.accepted
    BY <1>23 DEF InvalidHandle
  <2>3. Emptied' <=> Emptied
    BY <2>1, <2>2, EmptiedKept DEF Threads
  <2> QED
    BY <2>1, <2>2, <2>3, TxnKept DEF Threads
<1>24. ASSUME NEW p \in Apps, BroadcastLock(p) PROVE TxnInv'
  <2>1. Step(p, {"bcast"}, {"find_svc"})
    BY <1>24, Moves
  <2>2. UNCHANGED <<txn, clnt, svc>> /\ hist'.accepted = hist.accepted
    BY <1>24 DEF BroadcastLock
  <2>3. Emptied' <=> Emptied
    BY <2>1, <2>2, EmptiedKept DEF Threads
  <2> QED
    BY <2>1, <2>2, <2>3, TxnKept DEF Threads
<1>25. ASSUME NEW p \in Apps, BroadcastFind(p) PROVE TxnInv'
  <2>1. Step(p, {"find_svc"}, {"idle", "broadcast"})
    BY <1>25, Moves
  <2>2. UNCHANGED <<txn, clnt, svc>> /\ hist'.accepted = hist.accepted
    BY <1>25 DEF BroadcastFind
  <2>3. Emptied' <=> Emptied
    BY <2>1, <2>2, EmptiedKept DEF Threads
  <2> QED
    BY <2>1, <2>2, <2>3, TxnKept DEF Threads
<1>26. ASSUME NEW p \in Apps, BroadcastSend(p) PROVE TxnInv'
  <2>1. Step(p, {"broadcast"}, {"broadcast"})
    BY <1>26, Moves
  <2>2. UNCHANGED <<txn, clnt, svc>> /\ hist'.accepted = hist.accepted
    BY <1>26 DEF BroadcastSend
  <2>3. Emptied' <=> Emptied
    BY <2>1, <2>2, EmptiedKept DEF Threads
  <2> QED
    BY <2>1, <2>2, <2>3, TxnKept DEF Threads
<1>27. ASSUME NEW p \in Apps, BroadcastDone(p) PROVE TxnInv'
  <2>1. Step(p, {"broadcast"}, {"idle"})
    BY <1>27, Moves
  <2>2. UNCHANGED <<txn, clnt, svc>> /\ hist'.accepted = hist.accepted
    BY <1>27 DEF BroadcastDone
  <2>3. Emptied' <=> Emptied
    BY <2>1, <2>2, EmptiedKept DEF Threads
  <2> QED
    BY <2>1, <2>2, <2>3, TxnKept DEF Threads
<1>28. ASSUME NEW p \in Apps, FreeClients(p) PROVE TxnInv'
  <2>1. Step(p, {"closed"}, {"unlist"})
    BY <1>28, Moves
  <2>2. /\ txn' = FreeTxns(UNION {TxnsOf(h) : h \in ClientList}) /\ UNCHANGED <<svc, hist>>
        /\ DOMAIN clnt' = DOMAIN clnt
    BY <1>28 DEF FreeClients
  <2>3. /\ DOMAIN txn' = DOMAIN txn
        /\ \A t \in DOMAIN txn :
             /\ txn'[t].clnt = txn[t].clnt
             /\ \/ ~txn'[t].live /\ ~txn'[t].linked
                \/ txn'[t] = txn[t] /\ t \notin UNION {TxnsOf(h) : h \in ClientList}
    BY <2>2, FreeTxnsType
  <2>4. \A q \in Apps : th[q].pc # "send_resp" /\ th'[q].pc # "send_resp" /\ (q # p => th'[q] = th[q])
    <3>1. CanLock(p, "txn")
      BY <1>28 DEF FreeClients
    <3> QED
      BY <2>1, <3>1, NoSender DEF Threads, Step
  <2>5. th[Ev].pc = "idle"
    BY <2>1 DEF Step, ThreadInv
  <2>6. ASSUME NEW t \in DOMAIN txn
        PROVE  ~txn'[t].live /\ ~txn'[t].linked
    <3>1. CASE txn[t].live
      <4>1. txn[t].linked
        BY <2>4, <3>1 DEF TxnInv, TxnsLive, Sending
      <4>2. txn[t].clnt \in ClientList
        BY <2>5, <3>1 DEF TxnInv, TxnClients, ClientInv, ClientsLive, ClientList
      <4>3. t \in UNION {TxnsOf(h) : h \in ClientList}
        BY <4>1, <4>2 DEF TxnsOf
      <4> QED
        BY <2>3, <4>3
    <3>2. CASE ~txn[t].live
      BY <2>3, <3>2 DEF TxnInv, TxnsLive
    <3> QED
      BY <3>1, <3>2
  <2>7. TxnsLive'
    BY <2>3, <2>4, <2>6 DEF TxnInv, TxnsLive, Sending
  <2>8. TxnClients'
    BY <2>2, <2>3, <2>6 DEF TxnInv, TxnClients
  <2>9. CallTxns'
    BY <2>1, <2>2, <2>3, <2>4 DEF TxnInv, CallTxns, Step
  <2> QED
    BY <2>7, <2>8, <2>9 DEF TxnInv
<1>29. ASSUME NEW p \in Apps, FreeService(p) PROVE TxnInv'
  <2>1. Step(p, {"unlist"}, {"idle"})
    BY <1>29, Moves
  <2>2. UNCHANGED <<clnt, txn, hist>>
    BY <1>29 DEF FreeService
  <2>3. Emptied
    BY <2>1 DEF Step, Emptied
  <2>4. \A t : Sending(t)' <=> Sending(t)
    BY <2>1, SendersKept DEF Threads
  <2>5. TxnsLive'
    BY <2>2, <2>4 DEF TxnInv, TxnsLive
  <2>6. TxnClients'
    BY <2>2, <2>3 DEF TxnInv, TxnClients
  <2>7. CallTxns'
    BY <2>1, <2>2 DEF TxnInv, CallTxns, Step, Threads
  <2> QED
    BY <2>5, <2>6, <2>7 DEF TxnInv
<1> QED
  BY <1>1, <1>2, <1>3, <1>4, <1>5, <1>6, <1>7, <1>8, <1>9, <1>10, <1>11, <1>12, <1>13, <1>14,
     <1>15, <1>16, <1>17, <1>18, <1>19, <1>20, <1>21, <1>22, <1>23, <1>24, <1>25, <1>26, <1>27,
     <1>28, <1>29 DEF Next, EventStep, CallStep

-----------------------------------------------------------------------------
(* Answers. *)

\* The requests of transactions and their counts of answers have their types.
LEMMA RequestElements == TypeOK => /\ \A t \in DOMAIN txn : txn[t].req \in TxnIds
                                   /\ \A r \in TxnIds : hist.answers[r] \in Nat
  BY TxnElements DEF Txn, TypeOK

\* What keeps the answers right when no answer is sent and no request arrives.
TxnsSame ==
    /\ DOMAIN txn' = DOMAIN txn
    /\ \A t \in DOMAIN txn :
         /\ txn'[t].req = txn[t].req /\ txn'[t].clnt = txn[t].clnt
         /\ txn'[t].live => txn[t].live
         /\ txn'[t].linked => txn[t].linked
AddrsSame ==
    \A h \in DOMAIN clnt : h \in DOMAIN clnt' /\ clnt'[h].addr = clnt[h].addr
HistSame ==
    hist'.from = hist.from /\ hist'.answers = hist.answers /\ hist'.misdirected = hist.misdirected

\* A step that sends nothing, receives nothing and creates no transaction leaves the answers
\* right.
LEMMA AnswersKept ==
  ASSUME AnswerInv, TxnInv, TxnsSame, AddrsSame, HistSame
  PROVE  Received' = Received /\ Answers' /\ TxnAnswers'
<1>1. Received' = Received
  BY DEF Received, HistSame
<1>2. Answers'
  BY DEF AnswerInv, Answers, HistSame
<1>3. TxnAnswers'
  BY DEF AnswerInv, TxnAnswers, TxnInv, TxnClients, TxnsSame, AddrsSame, HistSame
<1> QED
  BY <1>1, <1>2, <1>3

\* So does the whole of AnswerInv when the event thread does not move or owes nothing after
\* the step.
LEMMA AnswerKept ==
  ASSUME AnswerInv, TxnInv, TxnsSame, AddrsSame, HistSame,
         \/ th'[Ev] = th[Ev] /\ hist'.accepted = hist.accepted
         \/ th'[Ev].pc \notin Owing
  PROVE  AnswerInv'
<1>1. Received' = Received /\ Answers' /\ TxnAnswers'
  BY AnswersKept
<1>2. Counted'
  BY <1>1 DEF AnswerInv, Counted, TxnsSame, HistSame, Owing
<1>3. EventAnswer'
  BY DEF AnswerInv, EventAnswer, HistSame
<1>4. EventTxn'
  BY DEF AnswerInv, EventTxn, TxnsSame, Owing
<1> QED
  BY <1>1, <1>2, <1>3, <1>4 DEF AnswerInv

\* AnswerInv is kept when the event thread goes on with the request it owes an answer to.
LEMMA OwingKept ==
  ASSUME AnswerInv, TxnInv, TxnsSame, AddrsSame, HistSame, hist'.accepted = hist.accepted,
         th'[Ev].req = th[Ev].req, th'[Ev].addr = th[Ev].addr, th'[Ev].txn = th[Ev].txn,
         \/ th[Ev].pc \in {"find", "connect"} /\ th'[Ev].pc \in {"find", "connect", "reply"}
         \/ th[Ev].pc = "process" /\ th'[Ev].pc = "free_txn"
  PROVE  AnswerInv'
<1>1. Received' = Received /\ Answers' /\ TxnAnswers'
  BY AnswersKept
<1>2. Counted'
  BY <1>1 DEF AnswerInv, Counted, TxnsSame, HistSame
<1>3. EventAnswer'
  BY DEF AnswerInv, EventAnswer, HistSame, Owing
<1>4. EventTxn'
  BY DEF AnswerInv, EventTxn, TxnsSame
<1> QED
  BY <1>1, <1>2, <1>3, <1>4 DEF AnswerInv

\* Every step keeps AnswerInv: whoever sends an answer was the only one left to send it.
LEMMA AnswerNext ==
  ASSUME TypeOK, LockInv, ThreadInv, ClientInv, TxnInv, AnswerInv, Next
  PROVE  AnswerInv'
<1>1. ASSUME NEW a \in Addrs, Recv(a) PROVE AnswerInv'
  <2>1. Step(Ev, {"idle"}, {"find", "reply"})
    BY <1>1, Moves
  <2> DEFINE r == Received + 1
             R == {s \in TxnIds : hist.from[s] # None}
  <2>2. /\ hist' = [hist EXCEPT !.from[r] = a] /\ UNCHANGED <<clnt, txn>>
        /\ Received < MaxReqs
    BY <1>1 DEF Recv
  <2>3. r \in TxnIds /\ Received \in Nat /\ r = Received + 1 /\ Received = Cardinality(R) /\ r # 0
    BY <2>2, ReceivedNat, BoundAssumption DEF TxnIds, Received
  <2> HIDE DEF r
  <2>4. /\ hist'.from = [hist.from EXCEPT ![r] = a] /\ hist'.answers = hist.answers
        /\ hist'.misdirected = hist.misdirected /\ hist'.accepted = hist.accepted
    BY <2>2 DEF TypeOK
  <2>5. hist.from \in [TxnIds -> Addrs \cup {None}]
    BY DEF TypeOK
  <2>6. hist'.from[r] = a /\ a # None /\ \A s \in TxnIds \ {r} : hist'.from[s] = hist.from[s]
    BY <2>3, <2>4, <2>5, ThreadAssumption
  <2>7. hist.from[r] = None
    <3>1. \A s \in TxnIds : hist.from[s] # None <=> s <= Received
      BY DEF AnswerInv, Counted
    <3>2. r \in TxnIds /\ ~(r <= Received)
      BY <2>3
    <3> QED
      BY <3>1, <3>2
  <2>8. Received' = Received + 1
    <3>1. {s \in TxnIds : hist'.from[s] # None} = R \cup {r}
      BY <2>3, <2>6
    <3>2. IsFiniteSet(R)
      <4>1. IsFiniteSet(TxnIds)
        BY FS_Interval, BoundAssumption DEF TxnIds
      <4> QED
        BY <4>1, FS_Subset
    <3>3. r \notin R
      BY <2>7
    <3> HIDE DEF R
    <3>4. Cardinality(R \cup {r}) = Cardinality(R) + 1
      BY <3>2, <3>3, FS_AddElement
    <3> QED
      BY <2>3, <3>1, <3>4 DEF Received
  <2>9. \A t \in DOMAIN txn : txn[t].req \in TxnIds /\ txn[t].req # r
    <3> SUFFICES ASSUME NEW t \in DOMAIN txn PROVE txn[t].req \in TxnIds /\ txn[t].req # r
      OBVIOUS
    <3>1. txn[t].req \in TxnIds
      BY RequestElements
    <3>2. hist.from[txn[t].req] \in Addrs
      BY ClientElements DEF AnswerInv, TxnAnswers, TxnInv, TxnClients, Client
    <3> QED
      BY <2>7, <3>1, <3>2, ThreadAssumption
  <2>10. th'[Ev].req = r /\ th'[Ev].addr = a /\ th'[Ev].pc \in {"find", "reply"}
    <3> DEFINE x == [Idle EXCEPT !.pc = "find", !.addr = a, !.req = r]
               y == [Idle EXCEPT !.pc = "reply", !.addr = a, !.req = r, !.rc = "malformed"]
    <3>1. x.pc = "find" /\ y.pc = "reply" /\ x.req = r /\ y.req = r /\ x.addr = a /\ y.addr = a
      BY DEF Idle
    <3>2. th' = [th EXCEPT ![Ev] = x] \/ th' = [th EXCEPT ![Ev] = y]
      BY <1>1 DEF Recv, r
    <3> HIDE DEF x, y
    <3> QED
      BY <3>1, <3>2 DEF TypeOK, Threads
  <2>11. Counted'
    <3>1. \A s \in TxnIds : hist'.from[s] # None <=> s <= Received'
      BY <2>3, <2>6, <2>7, <2>8 DEF AnswerInv, Counted, TxnIds
    <3>2. \A t \in DOMAIN txn : t \in TxnIds /\ t < Received'
      <4> SUFFICES ASSUME NEW t \in DOMAIN txn PROVE t \in TxnIds /\ t < Received'
        OBVIOUS
      <4>1. t \in TxnIds
        BY TxnPlaces
      <4>2. t <= Received
        BY DEF AnswerInv, Counted
      <4>3. t \in Nat
        BY <4>1 DEF TxnIds
      <4> QED
        BY <2>3, <2>8, <4>1, <4>2, <4>3
    <3> QED
      BY <2>2, <2>3, <2>8, <3>1, <3>2 DEF Counted, TxnIds
  <2>12. Answers'
    BY <2>4, <2>6 DEF AnswerInv, Answers
  <2>13. TxnAnswers'
    BY <2>2, <2>4, <2>6, <2>9 DEF AnswerInv, TxnAnswers
  <2>14. EventAnswer'
    BY <2>3, <2>4, <2>6, <2>7, <2>10 DEF AnswerInv, Answers, EventAnswer
  <2>15. EventTxn'
    BY <2>2, <2>9, <2>10 DEF EventTxn
  <2> QED
    BY <2>11, <2>12, <2>13, <2>14, <2>15 DEF AnswerInv
<1>2. ASSUME NEW a \in Addrs, Disconnect(a) PROVE AnswerInv'
  <2>1. Step(Ev, {"idle"}, {"clean"})
    BY <1>2, Moves
  <2>2. TxnsSame
    BY <1>2 DEF Disconnect, TxnsSame
  <2>3. AddrsSame
    BY <1>2, ClientElements DEF Disconnect, Client, AddrsSame
  <2>4. HistSame /\ hist'.accepted = hist.accepted
    BY <1>2 DEF Disconnect, HistSame
  <2> QED
    BY <2>1, <2>2, <2>3, <2>4, AnswerKept DEF Step, Owing
<1>3. ASSUME NEW h \in Handles, AddTxn(h) PROVE AnswerInv'
  <2>1. Step(Ev, {"find"}, {"process"})
    BY <1>3, Moves
  <2> DEFINE e == [clnt |-> h, req |-> th[Ev].req, linked |-> TRUE, live |-> TRUE]
             n == Len(txn) + 1
  <2>2. e \in Txn /\ e.req = th[Ev].req /\ e.clnt = h /\ th[Ev].req \in TxnIds
    BY <1>3 DEF AddTxn, Txn, AnswerInv, EventAnswer, Owing, At
  <2>3. txn' = Append(txn, e) /\ txn \in Seq(Txn) /\ UNCHANGED <<clnt, hist>>
    BY <1>3 DEF AddTxn, TypeOK
  <2> HIDE DEF e
  <2>4. /\ DOMAIN txn' = DOMAIN txn \cup {n} /\ n \notin DOMAIN txn
        /\ txn'[n] = e /\ \A t \in DOMAIN txn : txn'[t] = txn[t]
    BY <2>2, <2>3, Appended
  <2>5. th[Ev].pc = "find" /\ n <= Received
    BY <2>1, RoomForTxn DEF Step
  <2>6. th'[Ev].pc = "process" /\ th'[Ev].txn = n /\ th'[Ev].req = th[Ev].req /\ th'[Ev].addr = th[Ev].addr
    <3>1. th' = [th EXCEPT ![Ev].pc = "process", ![Ev].txn = n, ![Ev].clnt = h]
      BY <1>3 DEF AddTxn
    <3> QED
      BY <3>1 DEF TypeOK, Thread, Threads
  <2> HIDE DEF n
  <2>7. Received' = Received
    BY <2>3 DEF Received
  <2>8. clnt[h].addr = th[Ev].addr
    BY <1>3 DEF AddTxn, ClientAt
  <2>9. hist.from[th[Ev].req] = th[Ev].addr /\ hist.answers[th[Ev].req] = 0
    BY <2>5 DEF AnswerInv, EventAnswer, Owing
  <2>10. \A t \in DOMAIN txn : txn[t].req # th[Ev].req
    BY <2>5 DEF AnswerInv, EventTxn
  <2>11. Counted'
    BY <2>3, <2>4, <2>5, <2>6, <2>7 DEF AnswerInv, Counted
  <2>12. Answers'
    BY <2>3 DEF AnswerInv, Answers
  <2>13. TxnAnswers'
    BY <2>2, <2>3, <2>4, <2>8, <2>9, <2>10 DEF AnswerInv, TxnAnswers
  <2>14. EventAnswer'
    BY <2>3, <2>5, <2>6 DEF AnswerInv, EventAnswer, Owing
  <2>15. EventTxn'
    BY <2>2, <2>3, <2>4, <2>6 DEF EventTxn, TxnInv, CallTxns
  <2> QED
    BY <2>11, <2>12, <2>13, <2>14, <2>15 DEF AnswerInv
<1>4. ASSUME NEW h \in Handles, AddTxnNoMem(h) PROVE AnswerInv'
  <2>1. Step(Ev, {"find"}, {"reply"})
    BY <1>4, Moves
  <2>2. TxnsSame
    BY <1>4 DEF AddTxnNoMem, TxnsSame
  <2>3. AddrsSame
    BY <1>4 DEF AddTxnNoMem, AddrsSame
  <2>4. HistSame /\ hist'.accepted = hist.accepted
    BY <1>4 DEF AddTxnNoMem, HistSame, TypeOK
  <2>5. th'[Ev].req = th[Ev].req /\ th'[Ev].addr = th[Ev].addr /\ th'[Ev].txn = th[Ev].txn
    <3>1. th' = [th EXCEPT ![Ev].pc = "reply", ![Ev].rc = "no_memory"]
      BY <1>4 DEF AddTxnNoMem
    <3> QED
      BY <3>1 DEF TypeOK, Thread, Threads
  <2> QED
    BY <2>1, <2>2, <2>3, <2>4, <2>5, OwingKept DEF Step
<1>5. ASSUME CreateClient PROVE AnswerInv'
  <2>1. Step(Ev, {"find"}, {"connect"})
    BY <1>5, Moves
  <2>2. TxnsSame
    BY <1>5 DEF CreateClient, TxnsSame
  <2>3. AddrsSame
    <3> DEFINE e == [addr |-> th[Ev].addr, linked |-> TRUE, live |-> TRUE, conn |-> "connecting"]
    <3>1. e \in Client
      BY <1>5 DEF CreateClient, Client, AnswerInv, EventAnswer, Owing, At, TypeOK, Thread,
         Threads
    <3>2. clnt' = Append(clnt, e) /\ clnt \in Seq(Client)
      BY <1>5 DEF CreateClient, TypeOK
    <3> HIDE DEF e
    <3> QED
      BY <3>1, <3>2, Appended DEF AddrsSame
  <2>4. HistSame /\ hist'.accepted = hist.accepted
    BY <1>5 DEF CreateClient, HistSame
  <2>5. th'[Ev].req = th[Ev].req /\ th'[Ev].addr = th[Ev].addr /\ th'[Ev].txn = th[Ev].txn
    <3>1. th' = [th EXCEPT ![Ev].pc = "connect", ![Ev].clnt = Len(clnt) + 1]
      BY <1>5 DEF CreateClient
    <3> QED
      BY <3>1 DEF TypeOK, Thread, Threads
  <2> QED
    BY <2>1, <2>2, <2>3, <2>4, <2>5, OwingKept DEF Step
<1>6. ASSUME CreateClientNoMem PROVE AnswerInv'
  <2>1. Step(Ev, {"find"}, {"reply"})
    BY <1>6, Moves
  <2>2. TxnsSame
    BY <1>6 DEF CreateClientNoMem, TxnsSame
  <2>3. AddrsSame
    BY <1>6 DEF CreateClientNoMem, AddrsSame
  <2>4. HistSame /\ hist'.accepted = hist.accepted
    BY <1>6 DEF CreateClientNoMem, HistSame
  <2>5. th'[Ev].req = th[Ev].req /\ th'[Ev].addr = th[Ev].addr /\ th'[Ev].txn = th[Ev].txn
    <3>1. th' = [th EXCEPT ![Ev].pc = "reply", ![Ev].rc = "no_memory"]
      BY <1>6 DEF CreateClientNoMem
    <3> QED
      BY <3>1 DEF TypeOK, Thread, Threads
  <2> QED
    BY <2>1, <2>2, <2>3, <2>4, <2>5, OwingKept DEF Step
<1>7. ASSUME Connected PROVE AnswerInv'
  <2>1. Step(Ev, {"connect"}, {"find", "reply"})
    BY <1>7, Moves
  <2>2. TxnsSame
    BY <1>7 DEF Connected, TxnsSame
  <2>3. AddrsSame
    BY <1>7, ClientElements DEF Connected, Client, AddrsSame, FindClient
  <2>4. HistSame /\ hist'.accepted = hist.accepted
    BY <1>7 DEF Connected, HistSame
  <2>5. th'[Ev].req = th[Ev].req /\ th'[Ev].addr = th[Ev].addr /\ th'[Ev].txn = th[Ev].txn
    <3>1. Goto(Ev, "find") \/ th' = [th EXCEPT ![Ev].pc = "reply", ![Ev].rc = "internal"]
      BY <1>7 DEF Connected
    <3> QED
      BY <3>1 DEF TypeOK, Thread, Threads, Goto
  <2> QED
    BY <2>1, <2>2, <2>3, <2>4, <2>5, OwingKept DEF Step
<1>8. ASSUME ConnectRefused PROVE AnswerInv'
  <2>1. Step(Ev, {"connect"}, {"reply"})
    BY <1>8, Moves
  <2>2. TxnsSame
    BY <1>8 DEF ConnectRefused, TxnsSame
  <2>3. AddrsSame
    BY <1>8, ClientElements DEF ConnectRefused, Client, AddrsSame, FindClient
  <2>4. HistSame /\ hist'.accepted = hist.accepted
    BY <1>8 DEF ConnectRefused, HistSame
  <2>5. th'[Ev].req = th[Ev].req /\ th'[Ev].addr = th[Ev].addr /\ th'[Ev].txn = th[Ev].txn
    <3>1. \E e : th' = [th EXCEPT ![Ev].pc = "reply", ![Ev].rc = e]
      BY <1>8 DEF ConnectRefused
    <3> QED
      BY <3>1 DEF TypeOK, Thread, Threads
  <2> QED
    BY <2>1, <2>2, <2>3, <2>4, <2>5, OwingKept DEF Step
<1>9. ASSUME ProcessReq PROVE AnswerInv'
  <2>1. Step(Ev, {"process"}, {"return"})
    BY <1>9, Moves
  <2>2. TxnsSame
    BY <1>9 DEF ProcessReq, TxnsSame
  <2>3. AddrsSame
    BY <1>9 DEF ProcessReq, AddrsSame
  <2>4. HistSame
    BY <1>9 DEF ProcessReq, HistSame, TypeOK
  <2> QED
    BY <2>1, <2>2, <2>3, <2>4, AnswerKept DEF Step, Owing
<1>10. ASSUME ProcessFails PROVE AnswerInv'
  <2>1. Step(Ev, {"process"}, {"free_txn"})
    BY <1>10, Moves
  <2>2. TxnsSame
    BY <1>10 DEF ProcessFails, TxnsSame
  <2>3. AddrsSame
    BY <1>10 DEF ProcessFails, AddrsSame
  <2>4. HistSame /\ hist'.accepted = hist.accepted
    BY <1>10 DEF ProcessFails, HistSame
  <2>5. th'[Ev].req = th[Ev].req /\ th'[Ev].addr = th[Ev].addr /\ th'[Ev].txn = th[Ev].txn
    <3>1. \E e : th' = [th EXCEPT ![Ev].pc = "free_txn", ![Ev].rc = e]
      BY <1>10 DEF ProcessFails
    <3> QED
      BY <3>1 DEF TypeOK, Thread, Threads
  <2> QED
    BY <2>1, <2>2, <2>3, <2>4, <2>5, OwingKept DEF Step
<1>11. ASSUME CallbackReturns PROVE AnswerInv'
  <2>1. Step(Ev, {"return"}, {"idle"})
    BY <1>11, Moves
  <2>2. TxnsSame
    BY <1>11 DEF CallbackReturns, TxnsSame
  <2>3. AddrsSame
    BY <1>11 DEF CallbackReturns, AddrsSame
  <2>4. HistSame /\ hist'.accepted = hist.accepted
    BY <1>11 DEF CallbackReturns, HistSame
  <2> QED
    BY <2>1, <2>2, <2>3, <2>4, AnswerKept DEF Step, Owing
<1>12. ASSUME FreeTxn PROVE AnswerInv'
  <2>1. Step(Ev, {"free_txn"}, {"reply"})
    BY <1>12, Moves
  <2> DEFINE ts == {th[Ev].txn} \cap {t \in DOMAIN txn : txn[t].linked}
  <2>2. txn' = FreeTxns(ts) /\ UNCHANGED <<clnt, hist>>
    BY <1>12 DEF FreeTxn
  <2>3. /\ DOMAIN txn' = DOMAIN txn
        /\ \A t \in DOMAIN txn :
             /\ txn'[t].clnt = txn[t].clnt /\ txn'[t].req = txn[t].req
             /\ t \in ts => ~txn'[t].linked /\ ~txn'[t].live
             /\ t \notin ts => txn'[t] = txn[t]
    BY <2>2, FreeTxnsType
  <2>4. TxnsSame /\ AddrsSame /\ HistSame
    BY <2>2, <2>3 DEF TxnsSame, AddrsSame, HistSame
  <2>5. th[Ev].pc = "free_txn" /\ th'[Ev].pc = "reply" /\ th'[Ev].req = th[Ev].req /\ th'[Ev].addr = th[Ev].addr
    BY <1>12 DEF FreeTxn, Goto, At, TypeOK, Thread, Threads
  <2>6. Received' = Received /\ Answers' /\ TxnAnswers'
    BY <2>4, AnswersKept
  <2>7. ~txn'[th[Ev].txn].linked
    <3>1. th[Ev].txn \in DOMAIN txn
      BY <2>5 DEF AnswerInv, EventTxn
    <3> QED
      BY <2>3, <3>1
  <2>8. Counted'
    BY <2>2, <2>3, <2>5, <2>6 DEF AnswerInv, Counted
  <2>9. EventAnswer'
    BY <2>2, <2>5 DEF AnswerInv, EventAnswer, Owing
  <2>10. EventTxn'
    <3>1. th[Ev].txn \in DOMAIN txn \ hist.accepted /\ txn[th[Ev].txn].req = th[Ev].req
      BY <2>5 DEF AnswerInv, EventTxn
    <3>2. \A t \in DOMAIN txn : txn[t].req = th[Ev].req => t = th[Ev].txn
      BY <3>1 DEF AnswerInv, TxnAnswers
    <3> QED
      BY <2>2, <2>3, <2>5, <2>7, <3>1, <3>2 DEF EventTxn
  <2> QED
    BY <2>6, <2>8, <2>9, <2>10 DEF AnswerInv
<1>13. ASSUME Reply PROVE AnswerInv'
  <2>1. Step(Ev, {"reply"}, {"idle"})
    BY <1>13, Moves
  <2> DEFINE r == th[Ev].req
  <2>2. UNCHANGED <<clnt, txn>> /\ Answer(r, th[Ev].addr)
    BY <1>13 DEF Reply
  <2>3. th[Ev].pc = "reply" /\ r = th[Ev].req /\ th'[Ev].pc = "idle"
    BY <2>1 DEF Step
  <2>4. r \in TxnIds /\ hist.from[r] = th[Ev].addr /\ th[Ev].addr # None /\ hist.answers[r] = 0
    BY <2>3 DEF AnswerInv, EventAnswer, Owing
  <2> HIDE DEF r
  <2>5. /\ hist'.from = hist.from /\ hist'.accepted = hist.accepted
        /\ hist'.answers[r] = hist.answers[r] + 1 /\ \A s \in TxnIds \ {r} : hist'.answers[s] = hist.answers[s]
        /\ hist'.misdirected = hist.misdirected
    BY <2>2, <2>4, AnswerType DEF TypeOK
  <2>6. Received' = Received
    BY <2>5 DEF Received
  <2>7. \A t \in DOMAIN txn : txn[t].req = r => ~txn[t].live
    <3> SUFFICES ASSUME NEW t \in DOMAIN txn, txn[t].req = r PROVE ~txn[t].live
      OBVIOUS
    <3>1. ~txn[t].linked /\ t \notin hist.accepted
      BY <2>3 DEF AnswerInv, EventTxn
    <3>2. ~Sending(t)
      BY <3>1 DEF TxnInv, CallTxns, Sending
    <3> QED
      BY <3>1, <3>2 DEF TxnInv, TxnsLive
  <2>8. Counted'
    BY <2>2, <2>3, <2>5, <2>6 DEF AnswerInv, Counted
  <2>9. Answers'
    BY <2>4, <2>5 DEF AnswerInv, Answers
  <2>10. TxnAnswers'
    BY <2>2, <2>5, <2>7, RequestElements DEF AnswerInv, TxnAnswers
  <2>11. EventAnswer'
    BY <2>3 DEF EventAnswer, Owing
  <2>12. EventTxn'
    BY <2>3 DEF EventTxn
  <2> QED
    BY <2>8, <2>9, <2>10, <2>11, <2>12 DEF AnswerInv
<1>14. ASSUME CleanTxns PROVE AnswerInv'
  <2>1. Step(Ev, {"clean"}, {"idle"})
    BY <1>14, Moves
  <2>2. TxnsSame
    <3>1. txn' = FreeTxns(TxnsOf(th[Ev].clnt))
      BY <1>14 DEF CleanTxns
    <3> QED
      BY <3>1, FreeTxnsType DEF TxnsSame
  <2>3. AddrsSame
    BY <1>14, ClientElements DEF CleanTxns, Client, AddrsSame
  <2>4. HistSame /\ hist'.accepted = hist.accepted
    BY <1>14 DEF CleanTxns, HistSame
  <2> QED
    BY <2>1, <2>2, <2>3, <2>4, AnswerKept DEF Step, Owing
<1>15. ASSUME NEW p \in Apps, NEW t \in TxnIds, CallSendResp(p, t) PROVE AnswerInv'
  <2>1. Step(p, {"idle"}, {"resp"})
    BY <1>15, Moves
  <2>2. TxnsSame
    BY <1>15 DEF CallSendResp, TxnsSame
  <2>3. AddrsSame
    BY <1>15 DEF CallSendResp, AddrsSame
  <2>4. HistSame /\ hist'.accepted = hist.accepted
    BY <1>15 DEF CallSendResp, HistSame
  <2>5. th'[Ev] = th[Ev]
    BY <2>1, ThreadAssumption DEF Step, Threads
  <2> QED
    BY <2>2, <2>3, <2>4, <2>5, AnswerKept
<1>16. ASSUME NEW p \in Apps, NEW h \in Handles, CallSendInd(p, h) PROVE AnswerInv'
  <2>1. Step(p, {"idle"}, {"ind"})
    BY <1>16, Moves
  <2>2. TxnsSame
    BY <1>16 DEF CallSendInd, TxnsSame
  <2>3. AddrsSame
    BY <1>16 DEF CallSendInd, AddrsSame
  <2>4. HistSame /\ hist'.accepted = hist.accepted
    BY <1>16 DEF CallSendInd, HistSame
  <2>5. th'[Ev] = th[Ev]
    BY <2>1, ThreadAssumption DEF Step, Threads
  <2> QED
    BY <2>2, <2>3, <2>4, <2>5, AnswerKept
<1>17. ASSUME NEW p \in Apps, CallBroadcast(p) PROVE AnswerInv'
  <2>1. Step(p, {"idle"}, {"bcast"})
    BY <1>17, Moves
  <2>2. TxnsSame
    BY <1>17 DEF CallBroadcast, TxnsSame
  <2>3. AddrsSame
    BY <1>17 DEF CallBroadcast, AddrsSame
  <2>4. HistSame /\ hist'.accepted = hist.accepted
    BY <1>17 DEF CallBroadcast, HistSame
  <2>5. th'[Ev] = th[Ev]
    BY <2>1, ThreadAssumption DEF Step, Threads
  <2> QED
    BY <2>2, <2>3, <2>4, <2>5, AnswerKept
<1>18. ASSUME NEW p \in Apps, Unregister(p) PROVE AnswerInv'
  <2>1. Step(p, {"idle"}, {"closed"})
    BY <1>18, Moves
  <2>2. TxnsSame
    BY <1>18 DEF Unregister, TxnsSame
  <2>3. AddrsSame
    BY <1>18 DEF Unregister, AddrsSame
  <2>4. HistSame /\ hist'.accepted = hist.accepted
    BY <1>18 DEF Unregister, HistSame
  <2>5. th'[Ev] = th[Ev]
    BY <2>1, ThreadAssumption DEF Step, Threads
  <2> QED
    BY <2>2, <2>3, <2>4, <2>5, AnswerKept
<1>19. ASSUME NEW p \in Apps, TakeTxn(p) PROVE AnswerInv'
  <2>1. Step(p, {"resp"}, {"send_resp"})
    BY <1>19, Moves
  <2>2. TxnsSame
    BY <1>19, TxnElements DEF TakeTxn, FindTxn, Txn, TxnsSame
  <2>3. AddrsSame
    BY <1>19 DEF TakeTxn, AddrsSame
  <2>4. HistSame /\ hist'.accepted = hist.accepted
    BY <1>19 DEF TakeTxn, HistSame
  <2>5. th'[Ev] = th[Ev]
    BY <2>1, ThreadAssumption DEF Step, Threads
  <2> QED
    BY <2>2, <2>3, <2>4, <2>5, AnswerKept
<1>20. ASSUME NEW p \in Apps, SendResp(p) PROVE AnswerInv'
  <2>1. Step(p, {"send_resp"}, {"idle"})
    BY <1>20, Moves
  <2> DEFINE t == th[p].txn
             r == txn[t].req
  <2>2. /\ txn' = [txn EXCEPT ![t].live = FALSE] /\ UNCHANGED clnt
        /\ Answer(r, clnt[txn[t].clnt].addr)
    BY <1>20 DEF SendResp
  <2>3. t \in hist.accepted /\ t \in DOMAIN txn /\ txn[t].live
    BY <2>1 DEF Step, TxnInv, CallTxns, TxnsLive, Sending
  <2>4. r \in TxnIds /\ r = txn[t].req
    BY <2>3, RequestElements
  <2>5. hist.answers[r] = 0 /\ hist.from[r] = clnt[txn[t].clnt].addr
    BY <2>3 DEF AnswerInv, TxnAnswers
  <2> HIDE DEF t, r
  <2>6. /\ hist'.from = hist.from /\ hist'.accepted = hist.accepted
        /\ hist'.answers[r] = hist.answers[r] + 1 /\ \A s \in TxnIds \ {r} : hist'.answers[s] = hist.answers[s]
        /\ hist'.misdirected = hist.misdirected
    <3>1. /\ hist'.from = hist.from /\ hist'.accepted = hist.accepted
          /\ hist'.answers = [hist.answers EXCEPT ![r] = @ + 1]
          /\ hist.from[r] = clnt[txn[t].clnt].addr => hist'.misdirected = hist.misdirected
      BY <2>2, <2>4, AnswerType
    <3>2. hist.answers \in [TxnIds -> Nat]
      BY DEF TypeOK
    <3> QED
      BY <3>1, <3>2, <2>4, <2>5
  <2>7. Received' = Received
    BY <2>6 DEF Received
  <2>8. /\ DOMAIN txn' = DOMAIN txn /\ ~txn'[t].live /\ txn'[t].linked = txn[t].linked
        /\ txn'[t].clnt = txn[t].clnt /\ txn'[t].req = txn[t].req
        /\ \A u \in DOMAIN txn \ {t} : txn'[u] = txn[u]
    BY <2>2, <2>3, TxnElements DEF Txn
  <2>9. th'[Ev] = th[Ev]
    BY <2>1, ThreadAssumption DEF Step, Threads
  <2>10. th[Ev].pc \in Owing => th[Ev].req # r
    BY <2>3, <2>4 DEF AnswerInv, EventTxn, TxnAnswers, Owing
  <2>11. hist.from[r] # None
    <3>1. clnt[txn[t].clnt].addr \in Addrs
      BY <2>3, ClientElements DEF TxnInv, TxnClients, Client
    <3> QED
      BY <2>5, <3>1, ThreadAssumption
  <2>12. Counted'
    BY <2>6, <2>7, <2>8, <2>9 DEF AnswerInv, Counted
  <2>13. Answers'
    BY <2>4, <2>5, <2>6, <2>11 DEF AnswerInv, Answers
  <2>14. TxnAnswers'
    <3>1. \A u \in DOMAIN txn : txn'[u].req = txn[u].req /\ txn'[u].clnt = txn[u].clnt
      BY <2>8
    <3>2. \A u \in DOMAIN txn : u # t => txn[u].req # r /\ txn[u].req \in TxnIds
      BY <2>3, <2>4, RequestElements DEF AnswerInv, TxnAnswers
    <3> QED
      BY <2>2, <2>6, <2>8, <3>1, <3>2 DEF AnswerInv, TxnAnswers
  <2>15. EventAnswer'
    BY <2>4, <2>6, <2>9, <2>10 DEF AnswerInv, EventAnswer
  <2>16. EventTxn'
    <3>1. \A u \in DOMAIN txn : txn'[u].req = txn[u].req /\ txn'[u].linked = txn[u].linked
      BY <2>8
    <3> QED
      BY <2>6, <2>8, <2>9, <3>1 DEF AnswerInv, EventTxn
  <2> QED
    BY <2>12, <2>13, <2>14, <2>15, <2>16 DEF AnswerInv
<1>21. ASSUME NEW p \in Apps, TakeClient(p) PROVE AnswerInv'
  <2>1. Step(p, {"ind"}, {"send_ind"})
    BY <1>21, Moves
  <2>2. TxnsSame
    BY <1>21 DEF TakeClient, TxnsSame
  <2>3. AddrsSame
    BY <1>21 DEF TakeClient, AddrsSame
  <2>4. HistSame /\ hist'.accepted = hist.accepted
    BY <1>21 DEF TakeClient, HistSame
  <2>5. th'[Ev] = th[Ev]
    BY <2>1, ThreadAssumption DEF Step, Threads
  <2> QED
    BY <2>2, <2>3, <2>4, <2>5, AnswerKept
<1>22. ASSUME NEW p \in Apps, SendInd(p) PROVE AnswerInv'
  <2>1. Step(p, {"send_ind"}, {"idle"})
    BY <1>22, Moves
  <2>2. TxnsSame
    BY <1>22 DEF SendInd, TxnsSame
  <2>3. AddrsSame
    BY <1>22 DEF SendInd, AddrsSame
  <2>4. HistSame /\ hist'.accepted = hist.accepted
    BY <1>22 DEF SendInd, HistSame
  <2>5. th'[Ev] = th[Ev]
    BY <2>1, ThreadAssumption DEF Step, Threads
  <2> QED
    BY <2>2, <2>3, <2>4, <2>5, AnswerKept
<1>23. ASSUME NEW p \in Apps, InvalidHandle(p) PROVE AnswerInv'
  <2>1. Step(p, {"resp", "ind"}, {"idle"})
    BY <1>23, Moves
  <2>2. TxnsSame
    BY <1>23 DEF InvalidHandle, TxnsSame
  <2>3. AddrsSame
    BY <1>23 DEF InvalidHandle, AddrsSame
  <2>4. HistSame /\ hist'.accepted = hist.accepted
    BY <1>23 DEF InvalidHandle, HistSame
  <2>5. th'[Ev] = th[Ev]
    BY <2>1, ThreadAssumption DEF Step, Threads
  <2> QED
    BY <2>2, <2>3, <2>4, <2>5, AnswerKept
<1>24. ASSUME NEW p \in Apps, BroadcastLock(p) PROVE AnswerInv'
  <2>1. Step(p, {"bcast"}, {"find_svc"})
    BY <1>24, Moves
  <2>2. TxnsSame
    BY <1>24 DEF BroadcastLock, TxnsSame
  <2>3. AddrsSame
    BY <1>24 DEF BroadcastLock, AddrsSame
  <2>4. HistSame /\ hist'.accepted = hist.accepted
    BY <1>24 DEF BroadcastLock, HistSame
  <2>5. th'[Ev] = th[Ev]
    BY <2>1, ThreadAssumption DEF Step, Threads
  <2> QED
    BY <2>2, <2>3, <2>4, <2>5, AnswerKept
<1>25. ASSUME NEW p \in Apps, BroadcastFind(p) PROVE AnswerInv'
  <2>1. Step(p, {"find_svc"}, {"idle", "broadcast"})
    BY <1>25, Moves
  <2>2. TxnsSame
    BY <1>25 DEF BroadcastFind, TxnsSame
  <2>3. AddrsSame
    BY <1>25 DEF BroadcastFind, AddrsSame
  <2>4. HistSame /\ hist'.accepted = hist.accepted
    BY <1>25 DEF BroadcastFind, HistSame
  <2>5. th'[Ev] = th[Ev]
    BY <2>1, ThreadAssumption DEF Step, Threads
  <2> QED
    BY <2>2, <2>3, <2>4, <2>5, AnswerKept
<1>26. ASSUME NEW p \in Apps, BroadcastSend(p) PROVE AnswerInv'
  <2>1. Step(p, {"broadcast"}, {"broadcast"})
    BY <1>26, Moves
  <2>2. TxnsSame
    BY <1>26 DEF BroadcastSend, TxnsSame
  <2>3. AddrsSame
    BY <1>26 DEF BroadcastSend, AddrsSame
  <2>4. HistSame /\ hist'.accepted = hist.accepted
    BY <1>26 DEF BroadcastSend, HistSame
  <2>5. th'[Ev] = th[Ev]
    BY <2>1, ThreadAssumption DEF Step, Threads
  <2> QED
    BY <2>2, <2>3, <2>4, <2>5, AnswerKept
<1>27. ASSUME NEW p \in Apps, BroadcastDone(p) PROVE AnswerInv'
  <2>1. Step(p, {"broadcast"}, {"idle"})
    BY <1>27, Moves
  <2>2. TxnsSame
    BY <1>27 DEF BroadcastDone, TxnsSame
  <2>3. AddrsSame
    BY <1>27 DEF BroadcastDone, AddrsSame
  <2>4. HistSame /\ hist'.accepted = hist.accepted
    BY <1>27 DEF BroadcastDone, HistSame
  <2>5. th'[Ev] = th[Ev]
    BY <2>1, ThreadAssumption DEF Step, Threads
  <2> QED
    BY <2>2, <2>3, <2>4, <2>5, AnswerKept
<1>28. ASSUME NEW p \in Apps, FreeClients(p) PROVE AnswerInv'
  <2>1. Step(p, {"closed"}, {"unlist"})
    BY <1>28, Moves
  <2>2. TxnsSame
    <3>1. txn' = FreeTxns(UNION {TxnsOf(h) : h \in ClientList})
      BY <1>28 DEF FreeClients
    <3> QED
      BY <3>1, FreeTxnsType DEF TxnsSame
  <2>3. AddrsSame
    BY <1>28, ClientElements DEF FreeClients, Client, AddrsSame
  <2>4. HistSame /\ hist'.accepted = hist.accepted
    BY <1>28 DEF FreeClients, HistSame
  <2>5. th'[Ev] = th[Ev]
    BY <2>1, ThreadAssumption DEF Step, Threads
  <2> QED
    BY <2>2, <2>3, <2>4, <2>5, AnswerKept
<1>29. ASSUME NEW p \in Apps, FreeService(p) PROVE AnswerInv'
  <2>1. Step(p, {"unlist"}, {"idle"})
    BY <1>29, Moves
  <2>2. TxnsSame
    BY <1>29 DEF FreeService, TxnsSame
  <2>3. AddrsSame
    BY <1>29 DEF FreeService, AddrsSame
  <2>4. HistSame /\ hist'.accepted = hist.accepted
    BY <1>29 DEF FreeService, HistSame
  <2>5. th'[Ev] = th[Ev]
    BY <2>1, ThreadAssumption DEF Step, Threads
  <2> QED
    BY <2>2, <2>3, <2>4, <2>5, AnswerKept
<1> QED
  BY <1>1, <1>2, <1>3, <1>4, <1>5, <1>6, <1>7, <1>8, <1>9, <1>10, <1>11, <1>12, <1>13, <1>14,
     <1>15, <1>16, <1>17, <1>18, <1>19, <1>20, <1>21, <1>22, <1>23, <1>24, <1>25, <1>26, <1>27,
     <1>28, <1>29 DEF Next, EventStep, CallStep

-----------------------------------------------------------------------------
(* The inductive invariant and what it implies. *)

\* No step uses a freed struct: a response is sent of a live transaction to a live client, an
\* indication to a client on its list, and the service is there.
LEMMA FaultNext ==
  ASSUME ~fault, ClientInv, TxnInv, Next
  PROVE  ~fault'
<1>1. ASSUME NEW a \in Addrs, Recv(a) PROVE ~fault'
  BY <1>1 DEF Recv
<1>2. ASSUME NEW a \in Addrs, Disconnect(a) PROVE ~fault'
  BY <1>2 DEF Disconnect
<1>3. ASSUME NEW h \in Handles, AddTxn(h) PROVE ~fault'
  BY <1>3 DEF AddTxn
<1>4. ASSUME NEW h \in Handles, AddTxnNoMem(h) PROVE ~fault'
  BY <1>4 DEF AddTxnNoMem
<1>5. ASSUME CreateClient PROVE ~fault'
  BY <1>5 DEF CreateClient
<1>6. ASSUME CreateClientNoMem PROVE ~fault'
  BY <1>6 DEF CreateClientNoMem
<1>7. ASSUME Connected PROVE ~fault'
  BY <1>7 DEF Connected
<1>8. ASSUME ConnectRefused PROVE ~fault'
  BY <1>8 DEF ConnectRefused
<1>9. ASSUME ProcessReq PROVE ~fault'
  BY <1>9 DEF ProcessReq
<1>10. ASSUME ProcessFails PROVE ~fault'
  BY <1>10 DEF ProcessFails
<1>11. ASSUME CallbackReturns PROVE ~fault'
  BY <1>11 DEF CallbackReturns
<1>12. ASSUME FreeTxn PROVE ~fault'
  BY <1>12 DEF FreeTxn
<1>13. ASSUME Reply PROVE ~fault'
  BY <1>13 DEF Reply
<1>14. ASSUME CleanTxns PROVE ~fault'
  BY <1>14 DEF CleanTxns
<1>15. ASSUME NEW p \in Apps, NEW t \in TxnIds, CallSendResp(p, t) PROVE ~fault'
  BY <1>15 DEF CallSendResp
<1>16. ASSUME NEW p \in Apps, NEW h \in Handles, CallSendInd(p, h) PROVE ~fault'
  BY <1>16 DEF CallSendInd
<1>17. ASSUME NEW p \in Apps, CallBroadcast(p) PROVE ~fault'
  BY <1>17 DEF CallBroadcast
<1>18. ASSUME NEW p \in Apps, Unregister(p) PROVE ~fault'
  BY <1>18 DEF Unregister
<1>19. ASSUME NEW p \in Apps, TakeTxn(p) PROVE ~fault'
  BY <1>19 DEF TakeTxn
<1>20. ASSUME NEW p \in Apps, SendResp(p) PROVE ~fault'
  <2>1. th[p].pc = "send_resp"
    BY <1>20 DEF SendResp, At
  <2>2. th[p].txn \in DOMAIN txn /\ txn[th[p].txn].live
    BY <2>1 DEF TxnInv, CallTxns, TxnsLive, Sending
  <2>3. clnt[txn[th[p].txn].clnt].live /\ svc # "freed"
    BY <2>2 DEF TxnInv, TxnClients, Emptied
  <2> QED
    BY <1>20, <2>2, <2>3 DEF SendResp
<1>21. ASSUME NEW p \in Apps, TakeClient(p) PROVE ~fault'
  BY <1>21 DEF TakeClient
<1>22. ASSUME NEW p \in Apps, SendInd(p) PROVE ~fault'
  <2>1. th[p].pc = "send_ind"
    BY <1>22 DEF SendInd, At
  <2>2. th[p].clnt \in DOMAIN clnt /\ clnt[th[p].clnt].linked
    BY <2>1 DEF ClientInv, CallClients, ClientList
  <2>3. clnt[th[p].clnt].live /\ svc # "freed"
    BY <2>2 DEF ClientInv, ClientsLive, Emptied
  <2> QED
    BY <1>22, <2>3 DEF SendInd
<1>23. ASSUME NEW p \in Apps, InvalidHandle(p) PROVE ~fault'
  BY <1>23 DEF InvalidHandle
<1>24. ASSUME NEW p \in Apps, BroadcastLock(p) PROVE ~fault'
  BY <1>24 DEF BroadcastLock
<1>25. ASSUME NEW p \in Apps, BroadcastFind(p) PROVE ~fault'
  BY <1>25 DEF BroadcastFind
<1>26. ASSUME NEW p \in Apps, BroadcastSend(p) PROVE ~fault'
  <2>1. th[p].pc = "broadcast"
    BY <1>26 DEF BroadcastSend, At
  <2>2. \A h \in th[p].todo : h \in DOMAIN clnt /\ clnt[h].linked
    BY <2>1 DEF ClientInv, CallClients, ClientList
  <2>3. \A h \in th[p].todo : clnt[h].live /\ svc # "freed"
    BY <2>2 DEF ClientInv, ClientsLive, Emptied
  <2> QED
    BY <1>26, <2>3 DEF BroadcastSend
<1>27. ASSUME NEW p \in Apps, BroadcastDone(p) PROVE ~fault'
  BY <1>27 DEF BroadcastDone
<1>28. ASSUME NEW p \in Apps, FreeClients(p) PROVE ~fault'
  BY <1>28 DEF FreeClients
<1>29. ASSUME NEW p \in Apps, FreeService(p) PROVE ~fault'
  BY <1>29 DEF FreeService
<1> QED
  BY <1>1, <1>2, <1>3, <1>4, <1>5, <1>6, <1>7, <1>8, <1>9, <1>10, <1>11, <1>12, <1>13, <1>14,
     <1>15, <1>16, <1>17, <1>18, <1>19, <1>20, <1>21, <1>22, <1>23, <1>24, <1>25, <1>26, <1>27,
     <1>28, <1>29 DEF Next, EventStep, CallStep

\* The inductive invariant holds when the service has been registered.
LEMMA InvInit == Init => Inv
<1> SUFFICES ASSUME Init PROVE Inv
  OBVIOUS
<1>1. DOMAIN clnt = {} /\ DOMAIN txn = {} /\ clnt \in Seq(Client) /\ txn \in Seq(Txn) /\ Len(clnt) = 0 /\ Len(txn) = 0
  BY EmptySeq, LenProperties DEF Init
<1>2. TypeOK
  <2>1. th \in [Threads -> Thread]
    BY IdleThread DEF Init
  <2>2. lock \in [Locks -> [by : Threads \cup {None}, n : Nat]]
    BY DEF Init, Free
  <2>3. hist \in [from : [TxnIds -> Addrs \cup {None}], answers : [TxnIds -> Nat],
                  accepted : SUBSET TxnIds, misdirected : BOOLEAN, leaked : BOOLEAN]
    BY DEF Init
  <2>4. Len(clnt) <= MaxClients /\ Len(txn) <= MaxReqs
    BY <1>1, BoundAssumption
  <2>5. svc \in {"registered", "closing", "freed"} /\ fault \in BOOLEAN
    BY DEF Init
  <2> QED
    BY <1>1, <2>1, <2>2, <2>3, <2>4, <2>5 DEF TypeOK
<1>3. \A p \in Threads : th[p].pc = "idle"
  BY DEF Init, Idle
<1>4. LockInv
  BY <1>3, ThreadAssumption DEF Init, LockInv, Free, Locks, Threads
<1>5. ThreadInv
  BY <1>3 DEF Init, ThreadInv, EvPcs, AppPcs, Threads
<1>6. ClientInv
  BY <1>1, <1>3 DEF ClientInv, ClientsLive, EventClient, CallClients, Threads
<1>7. TxnInv
  BY <1>1, <1>3 DEF Init, TxnInv, TxnsLive, TxnClients, CallTxns, Threads
<1>8. AnswerInv
  <2>1. {r \in TxnIds : hist.from[r] # None} = {}
    BY DEF Init
  <2>2. Received = 0
    BY <2>1, FS_EmptySet DEF Received
  <2>3. Counted
    BY <1>1, <2>2 DEF Init, Counted, TxnIds
  <2> QED
    BY <1>1, <1>3, <2>3 DEF Init, AnswerInv, Answers, TxnAnswers, EventAnswer, EventTxn, Owing,
       Threads
<1> QED
  BY <1>2, <1>4, <1>5, <1>6, <1>7, <1>8 DEF Inv, Init

\* Every step keeps the inductive invariant.
LEMMA InvNext == Inv /\ [Next]_vars => Inv'
<1> SUFFICES ASSUME Inv, [Next]_vars PROVE Inv'
  OBVIOUS
<1>1. CASE Next
  BY <1>1, TypeNext, LockNext, ThreadNext, ClientNext, TxnNext, AnswerNext, FaultNext DEF Inv
<1>2. CASE UNCHANGED vars
  <2>1. TypeOK' /\ ~fault'
    BY <1>2 DEF vars, Inv, TypeOK
  <2>2. LockInv' /\ ThreadInv'
    BY <1>2 DEF vars, Inv, LockInv, ThreadInv
  <2>3. ClientInv'
    BY <1>2 DEF vars, Inv, ClientInv, ClientsLive, EventClient, CallClients, ClientList, Emptied
  <2>4. TxnInv'
    BY <1>2 DEF vars, Inv, TxnInv, TxnsLive, TxnClients, CallTxns, Sending, Emptied
  <2>5. AnswerInv'
    BY <1>2 DEF vars, Inv, AnswerInv, Counted, Answers, TxnAnswers, EventAnswer, EventTxn,
       Received
  <2> QED
    BY <2>1, <2>2, <2>3, <2>4, <2>5 DEF Inv
<1> QED
  BY <1>1, <1>2

\* The inductive invariant holds in every state of the service, for any number of threads,
\* addresses, requests and clients.
THEOREM Invariant == Spec => []Inv
  BY InvInit, InvNext, PTL DEF Spec

\* The type invariant of the service: every variable has its type.
THEOREM TypeCorrect == Spec => []TypeOK
<1>1. Inv => TypeOK
  BY DEF Inv
<1> QED
  BY <1>1, Invariant, PTL

\* No thread of the service uses a client struct, a transaction or the service after it was
\* freed, however responses, indications, broadcasts, disconnects and unregistering interleave.
THEOREM NothingUsedAfterFree == Spec => []NoUseAfterFree
<1>1. Inv => NoUseAfterFree
  BY DEF Inv, NoUseAfterFree
<1> QED
  BY <1>1, Invariant, PTL

\* No request is answered twice, by the service, by the framework or by both, and every answer
\* goes to the address the request came from.
THEOREM EveryRequestAnsweredOnce == Spec => []AnsweredOnce
<1>1. Inv => AnsweredOnce
  BY DEF Inv, AnsweredOnce, AnswerInv, Answers
<1> QED
  BY <1>1, Invariant, PTL

\* Unless an allocation failed, a thread that is back from the framework holds none of its locks.
THEOREM LocksAreReleased == Spec => []LocksReleased
<1>1. Inv => LocksReleased
  BY ThreadAssumption DEF Inv, LocksReleased, LockInv, Locks, Threads
<1> QED
  BY <1>1, Invariant, PTL

\* When unregistering has freed the service, every client struct and transaction is freed.
THEOREM NothingIsLeft == Spec => []NothingLeft
<1>1. Inv => NothingLeft
  BY DEF Inv, NothingLeft, Emptied, ThreadInv, ClientInv, ClientsLive, TxnInv, TxnClients
<1> QED
  BY <1>1, Invariant, PTL

=============================================================================
