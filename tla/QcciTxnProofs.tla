--------------------------- MODULE QcciTxnProofs ---------------------------
EXTENDS QcciTxn, SequenceTheorems, TLAPS

LEMMA InitType == Init => TypeOK
<1> SUFFICES ASSUME Init PROVE TypeOK
  OBVIOUS
<1>1. next \in 0..MaxTxns
  BY BoundAssumption DEF Init
<1>9. txn_list \subseteq Ids /\ fault \in BOOLEAN
  BY DEF Init
<1>2. tx_q \in Seq(Ids)
  BY EmptySeq DEF Init
<1>3. txn \in [Ids -> Block]
  BY DEF Init, Block, Rcs
<1>4. clnt \in Client
  BY DEF Init, Client
<1>5. net \in Network
  BY BoundAssumption DEF Init, Network
<1>6. Idle \in Thread
  BY DEF Idle, Thread, Labels, Rcs
<1>7. th \in [Procs -> Thread]
  BY <1>6 DEF Init
<1>8. hist \in [Ids -> History]
  BY DEF Init, History
<1> QED
  BY <1>1, <1>2, <1>3, <1>4, <1>5, <1>7, <1>8, <1>9 DEF TypeOK

LEMMA FreedType == ASSUME NEW b \in Block PROVE Freed(b) \in Block
<1>1. "none" \in Rcs
  BY DEF Rcs
<1> QED
  BY <1>1 DEF Freed, Block

LEMMA DecType ==
  ASSUME txn \in [Ids -> Block], NEW n \in Ids, DecTxn(n)
  PROVE  txn' \in [Ids -> Block]
<1>1. Freed(txn[n]) \in Block
  BY FreedType
<1>2. [txn[n] EXCEPT !.ref = txn[n].ref - 1] \in Block
  BY DEF Block
<1> QED
  BY <1>1, <1>2 DEF DecTxn, Dropped

LEMMA HandleErrorType ==
  ASSUME txn \in [Ids -> Block], hist \in [Ids -> History],
         NEW n \in Ids, NEW e \in Rcs, HandleTxnError(n, e)
  PROVE  txn' \in [Ids -> Block] /\ hist' \in [Ids -> History]
<1>1. txn' \in [Ids -> Block]
  BY DEF Block, HandleTxnError
<1>2. hist' \in [Ids -> History]
  BY DEF History, HandleTxnError
<1> QED
  BY <1>1, <1>2

LEMMA GotoType ==
  ASSUME th \in [Procs -> Thread], NEW p \in Procs, NEW l \in Labels, Goto(p, l)
  PROVE  th' \in [Procs -> Thread]
  BY DEF Goto, Thread

LEMMA IdleType == Idle \in Thread
  BY DEF Idle, Thread, Labels, Rcs

LEMMA ReturnType ==
  ASSUME th \in [Procs -> Thread], NEW p \in Procs, Return(p)
  PROVE  th' \in [Procs -> Thread]
<1>1. [th[p] EXCEPT !.pc = th[p].ret, !.cur = NoTxn] \in Thread
  BY DEF Thread
<1> QED
  BY <1>1, IdleType DEF Return

LEMMA RemoveAtType ==
  ASSUME NEW S, NEW s \in Seq(S), NEW i \in DOMAIN s
  PROVE  RemoveAt(s, i) \in Seq(S)
  BY DEF RemoveAt

LEMMA CleanupType ==
  ASSUME TypeOK, NEW p \in Procs, Cleanup(p)
  PROVE  TypeOK'
<1>next. next \in 0..MaxTxns
  BY DEF TypeOK
<1>txn. txn \in [Ids -> Block]
  BY DEF TypeOK
<1>txn_list. txn_list \subseteq Ids
  BY DEF TypeOK
<1>tx_q. tx_q \in Seq(Ids)
  BY DEF TypeOK
<1>clnt. clnt \in Client
  BY DEF TypeOK
<1>th. th \in [Procs -> Thread]
  BY DEF TypeOK
<1>net. net \in Network
  BY DEF TypeOK
<1>hist. hist \in [Ids -> History]
  BY DEF TypeOK
<1>p. p \in Procs
  BY DEF Procs
<1>1. CASE DetachQueue(p)
  <2>1. "clean_q" \in Labels
    BY DEF Labels
  <2>2. tx_q' \in Seq(Ids)
    BY <1>p, <1>tx_q, <1>th, <1>1, EmptySeq DEF DetachQueue
  <2>4. ToSet(tx_q) \subseteq Ids
    BY <1>tx_q DEF ToSet
  <2>3. th' \in [Procs -> Thread]
    BY <1>p, <1>th, <1>1, <2>1, <2>4 DEF DetachQueue, Thread
  <2> QED
    BY <1>1, <2>2, <2>3 DEF DetachQueue, TypeOK
<1>2. CASE CleanQueue(p)
  <2>1. "detach_l" \in Labels
    BY DEF Labels
  <2>2. txn' \in [Ids -> Block]
    BY <1>p, <1>txn, <1>th, <1>2, DecType DEF CleanQueue, Live
  <2>3. th' \in [Procs -> Thread]
    BY <1>p, <1>th, <1>2, <2>1 DEF CleanQueue, Goto, Thread
  <2> QED
    BY <1>2, <2>2, <2>3 DEF CleanQueue, TypeOK
<1>3. CASE DetachList(p)
  <2>1. "clean_cb" \in Labels
    BY DEF Labels
  <2>2. txn_list' \subseteq Ids
    BY <1>p, <1>txn_list, <1>3 DEF DetachList
  <2>3. th' \in [Procs -> Thread]
    BY <1>p, <1>th, <1>txn_list, <1>3, <2>1 DEF DetachList, Thread
  <2> QED
    BY <1>3, <2>2, <2>3 DEF DetachList, TypeOK
<1>4. CASE CleanFail(p)
  <2>1. "clean_inv" \in Labels
    BY DEF Labels
  <2>2. txn' \in [Ids -> Block]
    BY <1>p, <1>txn, <1>th, <1>hist, <1>4, HandleErrorType DEF CleanFail, Live, Rcs, CleanupError
  <2>3. hist' \in [Ids -> History]
    BY <1>p, <1>hist, <1>th, <1>txn, <1>4, HandleErrorType DEF CleanFail, Live, Rcs, CleanupError
  <2>4. th' \in [Procs -> Thread]
    BY <1>p, <1>th, <1>4, ReturnType, <2>1 DEF CleanFail, Thread
  <2> QED
    BY <1>4, <2>2, <2>3, <2>4 DEF CleanFail, TypeOK
<1>5. CASE CleanInvalidate(p)
  <2>1. "clean_dec" \in Labels
    BY DEF Labels
  <2>2. txn' \in [Ids -> Block]
    BY <1>p, <1>txn, <1>th, <1>5 DEF CleanInvalidate, Live, Block
  <2>3. th' \in [Procs -> Thread]
    BY <1>p, <1>th, <1>5, GotoType, <2>1 DEF CleanInvalidate
  <2> QED
    BY <1>5, <2>2, <2>3 DEF CleanInvalidate, TypeOK
<1>6. CASE CleanDec(p)
  <2>1. "clean_cb" \in Labels
    BY DEF Labels
  <2>2. txn' \in [Ids -> Block]
    BY <1>p, <1>txn, <1>th, <1>6, DecType DEF CleanDec, Live
  <2>3. th' \in [Procs -> Thread]
    BY <1>p, <1>th, <1>6, <2>1 DEF CleanDec, Thread
  <2> QED
    BY <1>6, <2>2, <2>3 DEF CleanDec, TypeOK
<1> QED
  BY <1>1, <1>2, <1>3, <1>4, <1>5, <1>6 DEF Cleanup

LEMMA FlushType ==
  ASSUME TypeOK, NEW p \in Procs, Flush(p)
  PROVE  TypeOK'
<1>next. next \in 0..MaxTxns
  BY DEF TypeOK
<1>txn. txn \in [Ids -> Block]
  BY DEF TypeOK
<1>txn_list. txn_list \subseteq Ids
  BY DEF TypeOK
<1>tx_q. tx_q \in Seq(Ids)
  BY DEF TypeOK
<1>clnt. clnt \in Client
  BY DEF TypeOK
<1>th. th \in [Procs -> Thread]
  BY DEF TypeOK
<1>net. net \in Network
  BY DEF TypeOK
<1>hist. hist \in [Ids -> History]
  BY DEF TypeOK
<1>p. p \in Procs
  BY DEF Procs
<1>1. CASE FlushStart(p)
  <2>1. "tx" \in Labels /\ "detach_q" \in Labels
    BY DEF Labels
  <2>2. th' \in [Procs -> Thread]
    BY <1>p, <1>th, <1>1, GotoType, <2>1 DEF FlushStart
  <2> QED
    BY <1>1, <2>2 DEF FlushStart, TypeOK
<1>2. CASE FlushDone(p)
  <2>1. th' \in [Procs -> Thread]
    BY <1>p, <1>th, <1>2, ReturnType DEF FlushDone
  <2> QED
    BY <1>2, <2>1 DEF FlushDone, TypeOK
<1>3. CASE FlushSend(p)
  <2>1. Head(tx_q) \in Ids /\ Tail(tx_q) \in Seq(Ids)
    BY <1>tx_q, <1>3, HeadTailProperties DEF FlushSend
  <2>2. PICK r \in {"ok", "busy", "internal"} :
          \/ /\ r = "busy" /\ net.busy < MaxBusy
             /\ net' = [net EXCEPT !.resume = TRUE, !.busy = @ + 1]
             /\ Return(p)
             /\ UNCHANGED tx_q
          \/ /\ r # "busy"
             /\ net' = IF r = "ok" THEN [net EXCEPT !.wire = @ \cup {Head(tx_q)}] ELSE net
             /\ tx_q' = Tail(tx_q)
             /\ th' = [th EXCEPT ![p].pc = "dec_tx", ![p].cur = Head(tx_q), ![p].rc = r]
    BY <1>3, KindAssumption DEF FlushSend
  <2>3. CASE r = "busy"
    <3>1. net' \in Network
      <4>1. net.busy < MaxBusy /\ net' = [net EXCEPT !.resume = TRUE, !.busy = @ + 1]
        BY <2>2, <2>3
      <4>2. net.busy + 1 \in 0..MaxBusy
        BY <1>net, <4>1, BoundAssumption DEF Network
      <4> QED
        BY <1>net, <4>1, <4>2 DEF Network
    <3>2. th' \in [Procs -> Thread]
      BY <1>p, <1>th, <2>2, <2>3, ReturnType
    <3> QED
      BY <1>3, <2>2, <2>3, <3>1, <3>2 DEF FlushSend, TypeOK
  <2>4. CASE r # "busy"
    <3>1. net' \in Network
      BY <1>net, <2>1, <2>2, <2>4 DEF Network
    <3>2. "dec_tx" \in Labels /\ r \in Rcs
      BY <2>4 DEF Labels, Rcs
    <3>3. th' \in [Procs -> Thread]
      <4>1. th' = [th EXCEPT ![p].pc = "dec_tx", ![p].cur = Head(tx_q), ![p].rc = r]
        BY <2>2, <2>4
      <4> QED
        BY ZenonT(60), <1>p, <1>th, <2>1, <4>1, <3>2 DEF Thread
    <3> QED
      BY <1>3, <2>1, <2>2, <2>4, <3>1, <3>3 DEF FlushSend, TypeOK
  <2> QED
    BY <2>3, <2>4
<1>4. CASE FlushDec(p)
  <2>1. "tx" \in Labels /\ "find" \in Labels
    BY DEF Labels
  <2>2. txn' \in [Ids -> Block]
    BY <1>p, <1>txn, <1>th, <1>4, DecType DEF FlushDec, Live
  <2>3. th' \in [Procs -> Thread]
    BY <1>p, <1>th, <1>4, GotoType, <2>1 DEF FlushDec
  <2> QED
    BY <1>4, <2>2, <2>3 DEF FlushDec, TypeOK
<1>5. CASE FlushFind(p)
  <2>1. "tx" \in Labels /\ "fail_cb" \in Labels
    BY DEF Labels
  <2>2. txn_list' \subseteq Ids
    BY <1>p, <1>txn_list, <1>5 DEF FlushFind
  <2>3. th' \in [Procs -> Thread]
    <3>1. Goto(p, "tx") \/ \E m \in Ids : th' = [th EXCEPT ![p].pc = "fail_cb", ![p].cur = m]
      BY <1>5, <1>txn_list DEF FlushFind, SameAddr
    <3>2. CASE Goto(p, "tx")
      BY <1>p, <1>th, <3>2, GotoType, <2>1
    <3>3. ASSUME NEW m \in Ids, th' = [th EXCEPT ![p].pc = "fail_cb", ![p].cur = m]
          PROVE  th' \in [Procs -> Thread]
      BY <1>p, <1>th, <3>3, <2>1 DEF Thread
    <3> QED
      BY <3>1, <3>2, <3>3
  <2> QED
    BY <1>5, <2>2, <2>3 DEF FlushFind, TypeOK
<1>6. CASE FlushFail(p)
  <2>1. "fail_dec" \in Labels
    BY DEF Labels
  <2>2. txn' \in [Ids -> Block]
    BY <1>p, <1>txn, <1>th, <1>hist, <1>6, HandleErrorType DEF FlushFail, Live, Rcs
  <2>3. hist' \in [Ids -> History]
    BY <1>p, <1>hist, <1>th, <1>txn, <1>6, HandleErrorType DEF FlushFail, Live, Rcs
  <2>4. th' \in [Procs -> Thread]
    BY <1>p, <1>th, <1>6, GotoType, <2>1 DEF FlushFail
  <2> QED
    BY <1>6, <2>2, <2>3, <2>4 DEF FlushFail, TypeOK
<1>7. CASE FlushFailDec(p)
  <2>1. "tx" \in Labels
    BY DEF Labels
  <2>2. txn' \in [Ids -> Block]
    BY <1>p, <1>txn, <1>th, <1>7, DecType DEF FlushFailDec, Live
  <2>3. th' \in [Procs -> Thread]
    BY <1>p, <1>th, <1>7, GotoType, <2>1 DEF FlushFailDec
  <2> QED
    BY <1>7, <2>2, <2>3 DEF FlushFailDec, TypeOK
<1>8. CASE Cleanup(p)
  BY <1>8, CleanupType
<1> QED
  BY <1>1, <1>2, <1>3, <1>4, <1>5, <1>6, <1>7, <1>8 DEF Flush

LEMMA SendType ==
  ASSUME TypeOK, NEW p \in Threads, Send(p)
  PROVE  TypeOK'
<1>next. next \in 0..MaxTxns
  BY DEF TypeOK
<1>txn. txn \in [Ids -> Block]
  BY DEF TypeOK
<1>txn_list. txn_list \subseteq Ids
  BY DEF TypeOK
<1>tx_q. tx_q \in Seq(Ids)
  BY DEF TypeOK
<1>clnt. clnt \in Client
  BY DEF TypeOK
<1>th. th \in [Procs -> Thread]
  BY DEF TypeOK
<1>net. net \in Network
  BY DEF TypeOK
<1>hist. hist \in [Ids -> History]
  BY DEF TypeOK
<1>p. p \in Procs
  BY DEF Procs
<1>1. CASE GetTxn(p)
  <2>1. next + 1 \in Ids /\ next + 1 \in 0..MaxTxns
    BY <1>next, <1>1, BoundAssumption DEF GetTxn, Ids
  <2>2. txn' \in [Ids -> Block]
    <3>1. PICK a \in FreeAddrs :
            txn' = [txn EXCEPT ![next + 1] =
                     [kind |-> IF th[p].ret = "own" THEN "sync" ELSE "async", addr |-> a,
                      ref |-> 1, rc |-> "none", sig |-> FALSE, rx_buf |-> TRUE]]
      BY <1>1 DEF GetTxn
    <3>2. a \in Addrs /\ "none" \in Rcs
      BY DEF FreeAddrs, Rcs
    <3> QED
      BY <1>txn, <2>1, <3>1, <3>2 DEF Block
  <2>3. txn_list' \subseteq Ids
    BY <1>txn_list, <1>1, <2>1 DEF GetTxn
  <2>4. th' \in [Procs -> Thread]
    BY ZenonT(60), <1>p, <1>th, <1>1, <2>1 DEF GetTxn, Thread
  <2>5. hist' \in [Ids -> History]
    BY <1>hist, <1>1, <2>1 DEF GetTxn, History
  <2> QED
    BY <1>1, <2>1, <2>2, <2>3, <2>4, <2>5 DEF GetTxn, TypeOK
<1>2. CASE OwnTxn(p)
  <2>1. "clear" \in Labels
    BY DEF Labels
  <2>2. txn' \in [Ids -> Block]
    BY <1>p, <1>txn, <1>th, <1>2 DEF OwnTxn, Live, Block
  <2>3. th' \in [Procs -> Thread]
    BY <1>p, <1>th, <1>2, GotoType, <2>1 DEF OwnTxn
  <2> QED
    BY <1>2, <2>2, <2>3 DEF OwnTxn, TypeOK
<1>3. CASE ClearSignal(p)
  <2>1. "set_rc" \in Labels
    BY DEF Labels
  <2>2. txn' \in [Ids -> Block]
    BY <1>p, <1>txn, <1>th, <1>3 DEF ClearSignal, Live, Block
  <2>3. th' \in [Procs -> Thread]
    BY <1>p, <1>th, <1>3, GotoType, <2>1 DEF ClearSignal
  <2> QED
    BY <1>3, <2>2, <2>3 DEF ClearSignal, TypeOK
<1>4. CASE SetRc(p)
  <2>1. "check" \in Labels
    BY DEF Labels
  <2>2. txn' \in [Ids -> Block]
    BY <1>p, <1>txn, <1>th, <1>4 DEF SetRc, Live, Block, Rcs
  <2>3. th' \in [Procs -> Thread]
    BY <1>p, <1>th, <1>4, GotoType, <2>1 DEF SetRc
  <2> QED
    BY <1>4, <2>2, <2>3 DEF SetRc, TypeOK
<1>5. CASE CheckServer(p)
  <2>1. "inc" \in Labels /\ "inval" \in Labels /\ "remove" \in Labels
    BY DEF Labels
  <2>3. Refused(p) \in Labels /\ "service" \in Rcs
    BY <2>1 DEF Refused, Rcs
  <2>2. th' \in [Procs -> Thread]
    BY <1>p, <1>th, <1>5, <2>1, <2>3 DEF CheckServer, Thread
  <2> QED
    BY <1>5, <2>2 DEF CheckServer, TypeOK
<1>6. CASE IncTxn(p)
  <2>1. "enq" \in Labels
    BY DEF Labels
  <2>2. txn' \in [Ids -> Block]
    BY <1>p, <1>txn, <1>th, <1>6 DEF IncTxn, Live, Block
  <2>3. th' \in [Procs -> Thread]
    BY <1>p, <1>th, <1>6, GotoType, <2>1 DEF IncTxn
  <2> QED
    BY <1>6, <2>2, <2>3 DEF IncTxn, TypeOK
<1>7. CASE Enqueue(p)
  <2>1. "flush" \in Labels /\ "wait" \in Labels /\ "sent" \in Labels /\ "dec_enq" \in Labels
    BY DEF Labels
  <2>2. tx_q' \in Seq(Ids)
    BY <1>p, <1>tx_q, <1>th, <1>7, AppendProperties DEF Enqueue, Live
  <2>3. th' \in [Procs -> Thread]
    BY <1>p, <1>th, <1>7, <2>1 DEF Enqueue, Thread, Rcs, Live
  <2> QED
    BY <1>7, <2>2, <2>3 DEF Enqueue, TypeOK
<1>8. CASE DecEnqueue(p)
  <2>1. "inval" \in Labels /\ "remove" \in Labels
    BY DEF Labels
  <2>2. txn' \in [Ids -> Block]
    BY <1>p, <1>txn, <1>th, <1>8, DecType DEF DecEnqueue, Live
  <2>3. th' \in [Procs -> Thread]
    BY <1>p, <1>th, <1>8, GotoType, <2>1 DEF DecEnqueue, Refused
  <2> QED
    BY <1>8, <2>2, <2>3 DEF DecEnqueue, TypeOK
<1>9. CASE AsyncReturn(p)
  <2>1. hist' \in [Ids -> History]
    BY <1>p, <1>hist, <1>th, <1>9 DEF AsyncReturn, History
  <2>2. th' \in [Procs -> Thread]
    BY <1>p, <1>th, <1>9, IdleType DEF AsyncReturn
  <2> QED
    BY <1>9, <2>1, <2>2 DEF AsyncReturn, TypeOK
<1>10. CASE Wake(p)
  <2>1. "woken" \in Labels
    BY DEF Labels
  <2>2. th' \in [Procs -> Thread]
    BY <1>p, <1>th, <1>10, GotoType, <2>1 DEF Wake
  <2> QED
    BY <1>10, <2>2 DEF Wake, TypeOK
<1>11. CASE Woken(p)
  <2>1. "wait" \in Labels /\ "inval" \in Labels
    BY DEF Labels
  <2>2. txn' \in [Ids -> Block]
    BY <1>p, <1>txn, <1>th, <1>11 DEF Woken, Live, Block
  <2>4. txn[th[p].txn].rc \in Rcs
    BY <1>txn, <1>11 DEF Woken, Live, Block
  <2>3. th' \in [Procs -> Thread]
    BY ZenonT(60), <1>p, <1>th, <1>11, <2>1, <2>4 DEF Woken, Thread
  <2> QED
    BY <1>11, <2>2, <2>3 DEF Woken, TypeOK
<1>12. CASE Invalidate(p)
  <2>1. "remove" \in Labels
    BY DEF Labels
  <2>2. txn' \in [Ids -> Block]
    BY <1>p, <1>txn, <1>th, <1>12 DEF Invalidate, Live, Block
  <2>3. th' \in [Procs -> Thread]
    BY <1>p, <1>th, <1>12, GotoType, <2>1 DEF Invalidate
  <2> QED
    BY <1>12, <2>2, <2>3 DEF Invalidate, TypeOK
<1>13. CASE RemoveTxn(p)
  <2>1. "dec_own" \in Labels
    BY DEF Labels
  <2>2. txn' \in [Ids -> Block]
    BY <1>p, <1>txn, <1>th, <1>txn_list, <1>13, DecType DEF RemoveTxn, Live, SameAddr
  <2>3. txn_list' \subseteq Ids
    BY <1>p, <1>txn_list, <1>13 DEF RemoveTxn
  <2>4. th' \in [Procs -> Thread]
    BY <1>p, <1>th, <1>13, GotoType, IdleType, <2>1 DEF RemoveTxn
  <2>5. hist' \in [Ids -> History]
    BY <1>p, <1>hist, <1>th, <1>13 DEF RemoveTxn, History
  <2> QED
    BY <1>13, <2>2, <2>3, <2>4, <2>5 DEF RemoveTxn, TypeOK
<1>14. CASE SyncReturn(p)
  <2>1. txn' \in [Ids -> Block]
    BY <1>p, <1>txn, <1>th, <1>14, DecType DEF SyncReturn, Live
  <2>2. th' \in [Procs -> Thread]
    BY <1>p, <1>th, <1>14, IdleType DEF SyncReturn
  <2>3. hist' \in [Ids -> History]
    BY <1>p, <1>hist, <1>th, <1>14 DEF SyncReturn, History
  <2> QED
    BY <1>14, <2>1, <2>2, <2>3 DEF SyncReturn, TypeOK
<1> QED
  BY <1>1, <1>2, <1>3, <1>4, <1>5, <1>6, <1>7, <1>8, <1>9, <1>10, <1>11, <1>12, <1>13, <1>14 DEF Send

LEMMA DeleteType ==
  ASSUME TypeOK, NEW p \in Threads, Delete(p)
  PROVE  TypeOK'
<1>next. next \in 0..MaxTxns
  BY DEF TypeOK
<1>txn. txn \in [Ids -> Block]
  BY DEF TypeOK
<1>txn_list. txn_list \subseteq Ids
  BY DEF TypeOK
<1>tx_q. tx_q \in Seq(Ids)
  BY DEF TypeOK
<1>clnt. clnt \in Client
  BY DEF TypeOK
<1>th. th \in [Procs -> Thread]
  BY DEF TypeOK
<1>net. net \in Network
  BY DEF TypeOK
<1>hist. hist \in [Ids -> History]
  BY DEF TypeOK
<1>p. p \in Procs
  BY DEF Procs
<1>1. CASE DeleteQueued(p)
  <2>1. "del_l" \in Labels /\ "del_dec_q" \in Labels
    BY DEF Labels
  <2>2. tx_q' \in Seq(Ids)
    BY <1>p, <1>tx_q, <1>th, <1>1, RemoveAtType DEF DeleteQueued
  <2>3. th' \in [Procs -> Thread]
    BY <1>p, <1>th, <1>tx_q, <1>1, GotoType, <2>1 DEF DeleteQueued, Thread
  <2> QED
    BY <1>1, <2>2, <2>3 DEF DeleteQueued, TypeOK
<1>2. CASE DeleteQueuedDec(p)
  <2>1. "del_l" \in Labels
    BY DEF Labels
  <2>2. txn' \in [Ids -> Block]
    BY <1>p, <1>txn, <1>th, <1>2, DecType DEF DeleteQueuedDec, Live
  <2>3. th' \in [Procs -> Thread]
    BY <1>p, <1>th, <1>2, GotoType, <2>1 DEF DeleteQueuedDec
  <2> QED
    BY <1>2, <2>2, <2>3 DEF DeleteQueuedDec, TypeOK
<1>3. CASE DeleteListed(p)
  <2>1. "del_inv" \in Labels
    BY DEF Labels
  <2>2. txn_list' \subseteq Ids
    BY <1>p, <1>txn_list, <1>3 DEF DeleteListed
  <2>3. th' \in [Procs -> Thread]
    BY <1>p, <1>th, <1>txn_list, <1>3, IdleType, <2>1 DEF DeleteListed, Thread, SameAddr
  <2>4. hist' \in [Ids -> History]
    BY <1>p, <1>hist, <1>th, <1>3 DEF DeleteListed, History
  <2> QED
    BY <1>3, <2>2, <2>3, <2>4 DEF DeleteListed, TypeOK
<1>4. CASE DeleteInvalidate(p)
  <2>1. "del_dec" \in Labels
    BY DEF Labels
  <2>2. txn' \in [Ids -> Block]
    BY <1>p, <1>txn, <1>th, <1>4 DEF DeleteInvalidate, Live, Block
  <2>3. th' \in [Procs -> Thread]
    BY <1>p, <1>th, <1>4, GotoType, <2>1 DEF DeleteInvalidate
  <2> QED
    BY <1>4, <2>2, <2>3 DEF DeleteInvalidate, TypeOK
<1>5. CASE DeleteReturn(p)
  <2>1. txn' \in [Ids -> Block]
    BY <1>p, <1>txn, <1>th, <1>5, DecType DEF DeleteReturn, Live
  <2>2. th' \in [Procs -> Thread]
    BY <1>p, <1>th, <1>5, IdleType DEF DeleteReturn
  <2>3. hist' \in [Ids -> History]
    BY <1>p, <1>hist, <1>th, <1>5 DEF DeleteReturn, History
  <2> QED
    BY <1>5, <2>1, <2>2, <2>3 DEF DeleteReturn, TypeOK
<1> QED
  BY <1>1, <1>2, <1>3, <1>4, <1>5 DEF Delete

LEMMA ReleaseType ==
  ASSUME TypeOK, NEW p \in Threads, Release(p)
  PROVE  TypeOK'
<1>next. next \in 0..MaxTxns
  BY DEF TypeOK
<1>txn. txn \in [Ids -> Block]
  BY DEF TypeOK
<1>txn_list. txn_list \subseteq Ids
  BY DEF TypeOK
<1>tx_q. tx_q \in Seq(Ids)
  BY DEF TypeOK
<1>clnt. clnt \in Client
  BY DEF TypeOK
<1>th. th \in [Procs -> Thread]
  BY DEF TypeOK
<1>net. net \in Network
  BY DEF TypeOK
<1>hist. hist \in [Ids -> History]
  BY DEF TypeOK
<1>p. p \in Procs
  BY DEF Procs
<1>1. CASE StopAccepting(p)
  <2>1. "detach_q" \in Labels /\ "close" \in Labels
    BY DEF Labels
  <2>2. clnt' \in Client
    BY <1>p, <1>clnt, <1>1 DEF StopAccepting, Client
  <2>3. th' \in [Procs -> Thread]
    BY <1>p, <1>th, <1>1, <2>1 DEF StopAccepting, Thread
  <2> QED
    BY <1>1, <2>2, <2>3 DEF StopAccepting, TypeOK
<1>2. CASE CloseXport(p)
  <2>1. "join" \in Labels
    BY DEF Labels
  <2>2. clnt' \in Client
    BY <1>p, <1>clnt, <1>2 DEF CloseXport, Client
  <2>3. th' \in [Procs -> Thread]
    BY <1>p, <1>th, <1>2, GotoType, <2>1 DEF CloseXport
  <2> QED
    BY <1>2, <2>2, <2>3 DEF CloseXport, TypeOK
<1>3. CASE JoinReader(p)
  <2>1. th' \in [Procs -> Thread]
    BY <1>p, <1>th, <1>3, IdleType DEF JoinReader
  <2> QED
    BY <1>3, <2>1 DEF JoinReader, TypeOK
<1> QED
  BY <1>1, <1>2, <1>3 DEF Release

LEMMA UpcallType == ASSUME TypeOK, Recv \/ Resume \/ ServerGone \/ UpcallStep PROVE TypeOK'
<1>next. next \in 0..MaxTxns
  BY DEF TypeOK
<1>txn. txn \in [Ids -> Block]
  BY DEF TypeOK
<1>txn_list. txn_list \subseteq Ids
  BY DEF TypeOK
<1>clnt. clnt \in Client
  BY DEF TypeOK
<1>th. th \in [Procs -> Thread]
  BY DEF TypeOK
<1>net. net \in Network
  BY DEF TypeOK
<1>hist. hist \in [Ids -> History]
  BY DEF TypeOK
<1>p. Reader \in Procs
  BY DEF Procs
<1>1. CASE Recv
  <2>1. PICK m \in net.wire, same_msg \in BOOLEAN :
          LET found == {i \in txn_list : TxnId(i) = TxnId(m)} IN
          /\ net' = [net EXCEPT !.wire = @ \ {m}]
          /\ IF found = {}
             THEN UNCHANGED <<th, txn_list>>
             ELSE \E n \in found :
                    /\ First(n, found)
                    /\ txn_list' = txn_list \ {n}
                    /\ th' = [th EXCEPT ![Reader].pc = IF same_msg THEN "deliver" ELSE "mismatch",
                                        ![Reader].cur = n]
    BY <1>1 DEF Recv
  <2> DEFINE found == {i \in txn_list : TxnId(i) = TxnId(m)}
  <2>2. net' \in Network
    BY <1>net, <2>1 DEF Network
  <2>3. CASE found = {}
    BY <1>1, <2>1, <2>2, <2>3 DEF Recv, TypeOK
  <2>4. CASE found # {}
    <3>1. PICK n \in Ids, l \in {"deliver", "mismatch"} :
            /\ txn_list' = txn_list \ {n}
            /\ th' = [th EXCEPT ![Reader].pc = l, ![Reader].cur = n]
      BY <1>txn_list, <2>1, <2>4
    <3>2. l \in Labels
      BY DEF Labels
    <3>3. txn_list' \subseteq Ids
      BY <1>txn_list, <3>1
    <3>4. th' \in [Procs -> Thread]
      BY <1>p, <1>th, <3>1, <3>2 DEF Thread
    <3> QED
      BY <1>1, <2>2, <3>3, <3>4 DEF Recv, TypeOK
  <2> QED
    BY <2>3, <2>4
<1>2. CASE Resume
  <2>1. "flush" \in Labels /\ "idle" \in Labels
    BY DEF Labels
  <2>2. th' \in [Procs -> Thread]
    BY <1>p, <1>th, <1>2, <2>1 DEF Resume, Thread
  <2>3. net' \in Network
    BY <1>net, <1>2 DEF Resume, Network
  <2> QED
    BY <1>2, <2>2, <2>3 DEF Resume, TypeOK
<1>3. CASE ServerGone
  <2>1. "detach_q" \in Labels /\ "idle" \in Labels
    BY DEF Labels
  <2>2. th' \in [Procs -> Thread]
    BY <1>p, <1>th, <1>3, <2>1 DEF ServerGone, Thread
  <2>3. clnt' \in Client
    BY <1>clnt, <1>3 DEF ServerGone, Client
  <2> QED
    BY <1>3, <2>2, <2>3 DEF ServerGone, TypeOK
<1>4. CASE Deliver
  <2>1. "recv_dec" \in Labels /\ "ok" \in Rcs
    BY DEF Labels, Rcs
  <2>2. th' \in [Procs -> Thread]
    BY <1>p, <1>th, <1>4, <2>1, GotoType DEF Deliver
  <2>3. txn' \in [Ids -> Block]
    BY <1>txn, <1>4, <2>1 DEF Deliver, Live, Block
  <2>4. hist' \in [Ids -> History]
    BY <1>hist, <1>4 DEF Deliver, Live, History
  <2> QED
    BY <1>4, <2>2, <2>3, <2>4 DEF Deliver, TypeOK
<1>5. CASE Mismatch
  <2>1. "recv_dec" \in Labels /\ "invalid_txn" \in Rcs
    BY DEF Labels, Rcs
  <2>2. th' \in [Procs -> Thread]
    BY <1>p, <1>th, <1>5, <2>1, GotoType DEF Mismatch
  <2>3. txn' \in [Ids -> Block] /\ hist' \in [Ids -> History]
    BY <1>txn, <1>hist, <1>5, <2>1, HandleErrorType DEF Mismatch, Live
  <2> QED
    BY <1>5, <2>2, <2>3 DEF Mismatch, TypeOK
<1>6. CASE RecvDec
  <2>1. txn' \in [Ids -> Block]
    BY <1>txn, <1>6, DecType DEF RecvDec, Live
  <2>2. th' \in [Procs -> Thread]
    BY <1>p, <1>th, <1>6, IdleType DEF RecvDec
  <2> QED
    BY <1>6, <2>1, <2>2 DEF RecvDec, TypeOK
<1>7. CASE Flush(Reader)
  BY <1>p, <1>7, FlushType
<1>8. CASE ReaderExit
  <2>1. "exit" \in Labels
    BY DEF Labels
  <2>2. th' \in [Procs -> Thread]
    BY <1>p, <1>th, <1>8, <2>1, GotoType DEF ReaderExit
  <2> QED
    BY <1>8, <2>2 DEF ReaderExit, TypeOK
<1> QED
  BY <1>1, <1>2, <1>3, <1>4, <1>5, <1>6, <1>7, <1>8 DEF UpcallStep

LEMMA StartType == ASSUME TypeOK, NEW p \in Threads, CallStart(p) \/ WaitTimeout(p) PROVE TypeOK'
<1>txn. txn \in [Ids -> Block]
  BY DEF TypeOK
<1>clnt. clnt \in Client
  BY DEF TypeOK
<1>th. th \in [Procs -> Thread]
  BY DEF TypeOK
<1>p. p \in Procs
  BY DEF Procs
<1>1. ASSUME NEW k \in Kinds, SendStart(p, k) PROVE TypeOK'
  <2>1. "get_txn" \in Labels /\ "own" \in Labels /\ "check" \in Labels
    BY DEF Labels
  <2>2. th' \in [Procs -> Thread]
    BY ZenonT(60), <1>p, <1>th, <1>1, <2>1 DEF SendStart, Thread
  <2> QED
    BY <1>1, <2>2 DEF SendStart, TypeOK
<1>2. CASE DeleteStart(p)
  <2>1. "del_q" \in Labels
    BY DEF Labels
  <2>2. th' \in [Procs -> Thread]
    BY <1>p, <1>th, <1>2, <2>1 DEF DeleteStart, Thread
  <2> QED
    BY <1>2, <2>2 DEF DeleteStart, TypeOK
<1>3. CASE ReleaseStart(p)
  <2>1. "stop" \in Labels
    BY DEF Labels
  <2>2. th' \in [Procs -> Thread]
    BY <1>p, <1>th, <1>3, <2>1, GotoType DEF ReleaseStart
  <2>3. clnt' \in Client
    BY <1>clnt, <1>3 DEF ReleaseStart, Client
  <2> QED
    BY <1>3, <2>2, <2>3 DEF ReleaseStart, TypeOK
<1>4. CASE WaitTimeout(p)
  <2>1. "inval" \in Labels /\ "timeout" \in Rcs
    BY DEF Labels, Rcs
  <2>2. th' \in [Procs -> Thread]
    BY ZenonT(60), <1>p, <1>th, <1>4, <2>1 DEF WaitTimeout, Thread
  <2>3. txn' \in [Ids -> Block]
    BY ZenonT(60), <1>txn, <1>4 DEF WaitTimeout, Live, Block
  <2> QED
    BY <1>4, <2>2, <2>3 DEF WaitTimeout, TypeOK
<1> QED
  BY <1>1, <1>2, <1>3, <1>4 DEF CallStart

LEMMA NextType == TypeOK /\ [Next]_vars => TypeOK'
<1> SUFFICES ASSUME TypeOK, [Next]_vars PROVE TypeOK'
  OBVIOUS
<1>1. ASSUME NEW p \in Threads, CallStart(p) \/ CallStep(p) \/ WaitTimeout(p) PROVE TypeOK'
  BY <1>1, StartType, SendType, FlushType, DeleteType, ReleaseType DEF CallStep, Procs
<1>2. CASE Recv \/ Resume \/ ServerGone \/ UpcallStep
  BY <1>2, UpcallType
<1>3. ASSUME NEW p \in Procs, UseAfterFree(p) PROVE TypeOK'
  BY <1>3 DEF UseAfterFree, TypeOK
<1>4. CASE UNCHANGED vars
  BY <1>4 DEF vars, TypeOK
<1> QED
  BY <1>1, <1>2, <1>3, <1>4 DEF Next

(* Every variable stays within its type: in particular no thread is left at a
   place the code does not have, and a reference count is never undefined. *)
THEOREM TypeCorrect == Spec => []TypeOK
  BY InitType, NextType, PTL DEF Spec
=============================================================================
