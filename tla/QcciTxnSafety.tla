----------------------------- MODULE QcciTxnSafety ----------------------------
(***************************************************************************)
(* The safety properties of QcciTxn that rest on how transactions are      *)
(* found: a freed block is in reach at one place only, no waiting caller   *)
(* is forgotten, nothing is left behind, and the engine implements         *)
(* QmiRequests.  SafeInv is inductive while DistinctTxns holds.  The first *)
(* half of the module says what a step of one thread does to the lists,    *)
(* the blocks, the histories and the thread (one lemma per group of        *)
(* actions), the second that each part of SafeInv survives such a step.    *)
(***************************************************************************)
EXTENDS QcciTxnRefs

\* Thread t becomes u in a step.  n leaves the list, or t no longer owes it.
Gone(n)       == n \in txn_list /\ n \notin txn_list'
Ends(t, u, n) == Owes(t, n) /\ ~Owes(u, n)

Fixed ==
  /\ next' = next /\ txn_list' \subseteq txn_list
  /\ \A n \in Ids : txn'[n].kind = txn[n].kind /\ txn'[n].addr = txn[n].addr

\* What comes into the hands of the thread, where it came from, and what is sent.
HandStep(t, u) ==
  \A n \in Ids :
    /\ Took(u, n) => Took(t, n) \/ Gone(n)
    /\ Owes(u, n) => Owes(t, n) \/ Gone(n)
    /\ Deleting(u, n) => Deleting(t, n) \/ Gone(n)
    /\ Gone(n) => \/ Owes(u, n)
                  \/ t.pc = "del_l" /\ t.txn = n
                  \/ t.pc = "remove" /\ t.txn = n
    /\ Gone(n) => \/ t.pc = "find" /\ t.cur = n
                  \/ t.pc = "detach_l"
                  \/ t.pc = "idle" /\ n \in net.wire
                  \/ t.pc \in {"del_l", "remove"} /\ t.txn = n
    /\ n \in ToSet(tx_q)' \/ n \in net'.wire \/ Passes(u, n) =>
         \/ n \in ToSet(tx_q) \/ n \in net.wire \/ Passes(t, n)
         \/ t.pc = "enq" /\ u.pc = "flush" /\ t.txn = n
    /\ n \in net'.wire => n \in net.wire \/ n \in ToSet(tx_q)

\* What the application sees of a transaction.
HistoryStep(t, u) ==
  \A n \in Ids :
    /\ hist'[n] # hist[n] => Ends(t, u, n) \/ (t.txn = n /\ u.txn = NoTxn)
    /\ hist'[n].wr # hist[n].wr =>
         Ends(t, u, n) /\ t.pc = "deliver" /\ t.cur = n /\ hist'[n].wr = hist[n].wr + 1
    /\ hist'[n].cb # hist[n].cb => Ends(t, u, n)
    /\ hist'[n].del # hist[n].del =>
         /\ t.txn = n /\ u.txn = NoTxn /\ t.pc \in DeleteLabels
         /\ hist'[n].del = "ok" => t.pc = "del_dec"
    /\ hist'[n].api # hist[n].api =>
         /\ t.txn = n /\ u.txn = NoTxn
         /\ \/ t.pc = "sent" /\ hist'[n].api = "sent"
            \/ t.pc = "remove" /\ txn[n].kind = "async" /\ hist'[n].api = "refused"
            \/ t.pc = "dec_own" /\ hist'[n].api \in {"ok", "timeout", "error"}

\* What becomes of a block.
BlockStep(t, u) ==
  \A n \in Ids :
    /\ txn'[n].rx_buf => txn[n].rx_buf
    /\ txn[n].rx_buf /\ ~txn'[n].rx_buf =>
         \/ txn'[n].ref = 0
         \/ t.pc = "inval" /\ u.pc = "remove" /\ t.txn = n
         \/ Took(t, n) /\ ~Owes(u, n)
    /\ Told(n) /\ ~Told(n)' =>
         \/ txn'[n].ref = 0
         \/ t.txn = n /\ t.pc \in {"clear", "set_rc", "woken"}
         \/ t.txn = n /\ t.pc = "wait" /\ u.pc = "inval"
    /\ txn'[n].rc # txn[n].rc =>
         \/ txn'[n].ref = 0
         \/ t.txn = n /\ t.pc = "set_rc"
         \/ /\ Ends(t, u, n) /\ txn'[n].rc \notin {"none", "timeout"}
            /\ txn'[n].rc = "ok" <=> hist'[n].wr # hist[n].wr
    /\ hist'[n].wr # hist[n].wr /\ txn[n].kind = "sync" => txn'[n].rc = "ok"
    /\ Ends(t, u, n) /\ txn[n].kind = "sync" => Told(n)' \/ ~txn[n].rx_buf

\* The way of a call through the code.
CallCourse(t, u) ==
  /\ \/ u.txn \in {t.txn, NoTxn}
     \/ /\ t.txn = NoTxn /\ t.pc = "idle" /\ u.pc = "del_q" /\ u.txn \in Ids
        /\ hist[u.txn].api = "sent" /\ hist[u.txn].del = "no"
        /\ \A q \in Procs : th[q].txn # u.txn
  /\ u.txn # NoTxn /\ u.txn = t.txn => (u.pc \in DeleteLabels <=> t.pc \in DeleteLabels)
  /\ u.pc \in CurLabels \cup {"find"} => u.cur \in Ids
  /\ u.pc \in {"del_inv", "del_dec"} => u.cur = u.txn
  /\ u.pc \in BeforeQueue => t.pc \in BeforeQueue /\ u.txn = t.txn
  /\ u.pc = "check" => t.pc = "set_rc"
  /\ u.pc = "inc" => t.pc = "check" /\ clnt.addr_valid
  /\ u.pc = "enq" => t.pc = "inc"
  /\ u.pc = "dec_enq" => u.rc = "internal"
  /\ u.pc = "inval" => /\ u.txn = t.txn /\ SyncTxn(t)
                       /\ \/ t.pc \in BeforeQueue /\ u.rc \in {"service", "internal"}
                          \/ t.pc = "woken" /\ u.rc = txn[t.txn].rc /\ u.rc # "timeout"
                          \/ t.pc = "wait" /\ u.rc = "timeout"
  /\ u.pc = "remove" => /\ u.txn = t.txn
                        /\ \/ t.pc = "inval" /\ u.rc = t.rc /\ SyncTxn(t) /\ ~txn'[t.txn].rx_buf
                           \/ t.pc \in BeforeQueue /\ AsyncTxn(t)
  /\ u.pc = "dec_own" => t.pc = "remove" /\ u.txn = t.txn /\ u.rc = t.rc /\ SyncTxn(t)
  /\ Leaving(t) => Leaving(u) \/ u.txn = NoTxn
  /\ t.pc = "set_rc" => txn'[t.txn].rc = "timeout"
  /\ Awaits(u) => /\ u.txn = t.txn
                  /\ \/ Awaits(t) /\ (t.pc = "woken" => txn[t.txn].rc = "timeout")
                     \/ t.pc = "enq" /\ clnt.accepting /\ SyncTxn(t)

\* The way of a flush or a cleanup, and what sets one going.
CleanupCourse(t, u) ==
  /\ clnt'.addr_valid => clnt.addr_valid
  /\ clnt'.accepting => clnt.accepting
  /\ clnt'.linked => clnt.linked
  /\ clnt.addr_valid /\ ~clnt'.addr_valid => u.pc = "detach_q"
  /\ clnt.accepting /\ ~clnt'.accepting => u.pc = "detach_q"
  /\ clnt.linked /\ ~clnt'.linked => u.pc = "stop"
  /\ t.pc = "stop" => ~clnt'.accepting
  /\ u.pc \in CleanupLabels => t.pc \in CleanupLabels \/ ~clnt'.addr_valid \/ ~clnt'.accepting
  /\ tx_q' # <<>> => tx_q # <<>> \/ (u.pc = "flush" /\ clnt'.accepting)
  /\ t.pc = "flush" => u.pc = "detach_q" \/ (u.pc = "tx" /\ clnt'.addr_valid)
  /\ t.pc = "detach_q" => u.pc = "clean_q" /\ tx_q' = <<>>
  /\ t.pc = "clean_q" => u.pc \in {"clean_q", "detach_l"}
  /\ t.pc = "detach_l" => txn_list' = {}
  /\ t.pc \in BeforeQueue => /\ u.txn = t.txn
                             /\ \/ u.pc \in BeforeQueue \cup {"inval", "remove"}
                                \/ u.pc = "flush" /\ clnt'.accepting
  /\ t.pc = "inval" => u.pc = "remove" /\ u.txn = t.txn
  /\ t.pc = "remove" => t.txn \notin txn_list'

Step(p) ==
  /\ Others(p) /\ Fixed
  /\ HandStep(th[p], th'[p]) /\ HistoryStep(th[p], th'[p]) /\ BlockStep(th[p], th'[p])
  /\ CallCourse(th[p], th'[p]) /\ CleanupCourse(th[p], th'[p])
-----------------------------------------------------------------------------
(* What kinds of step have in common.                                        *)

\* The thread keeps its local variables; a reference is dropped or nothing is done.
Keeps(t, u) == /\ u.txn = t.txn /\ u.ret = t.ret /\ u.cur = t.cur
               /\ u.work = t.work /\ u.rc = t.rc
Drops == \A n \in Ids : /\ txn'[n].rx_buf => txn[n].rx_buf
                        /\ \/ txn'[n].ref = 0
                           \/ /\ txn'[n].rx_buf = txn[n].rx_buf /\ txn'[n].sig = txn[n].sig
                              /\ txn'[n].rc = txn[n].rc
SameNames == \A n \in Ids : txn'[n].kind = txn[n].kind /\ txn'[n].addr = txn[n].addr

(* Goto moves one thread, which keeps its local variables. *)
LEMMA GotoKeeps ==
  ASSUME th \in [Procs -> Thread], NEW p \in Procs, NEW b, Goto(p, b)
  PROVE  Others(p) /\ th'[p].pc = b /\ Keeps(th[p], th'[p])
  BY DEF Goto, Thread, Others, Keeps

(* QMI_CCI_DEC_TXN drops a reference and, with the last one, the block. *)
LEMMA DecDrops ==
  ASSUME txn \in [Ids -> Block], NEW m \in Ids, DecTxn(m)
  PROVE  Drops /\ SameNames
<1>1. ASSUME NEW n \in Ids, n # m PROVE txn'[n] = txn[n]
  BY <1>1 DEF DecTxn
<1>2. txn'[m] = Dropped(txn[m]) /\ txn[m] \in Block
  BY DEF DecTxn
<1>3. /\ txn'[m].kind = txn[m].kind /\ txn'[m].addr = txn[m].addr
      /\ txn'[m].rx_buf => txn[m].rx_buf
      /\ \/ txn'[m].ref = 0
         \/ /\ txn'[m].rx_buf = txn[m].rx_buf /\ txn'[m].sig = txn[m].sig
            /\ txn'[m].rc = txn[m].rc
  BY <1>2 DEF Dropped, Freed, Block
<1> QED
  BY <1>1, <1>3 DEF Drops, SameNames

(* Blocks left alone are neither dropped nor renamed. *)
LEMMA SameDrops == UNCHANGED txn => Drops /\ SameNames
  BY DEF Drops, SameNames

(* A step after which the thread holds nothing from the list. *)
LEMMA PlainHands ==
  ASSUME NEW t, NEW u, \A n \in Ids : ~Took(u, n) /\ ~Passes(u, n),
         txn_list' = txn_list, ToSet(tx_q)' \subseteq ToSet(tx_q), net'.wire \subseteq net.wire
  PROVE  HandStep(t, u)
<1>1. \A n \in Ids : ~Owes(u, n) /\ ~Deleting(u, n)
  BY DEF Owes, Deleting, Took, ListCur, ListWork
<1> QED
  BY <1>1 DEF HandStep, Gone

(* A step that ends no transaction and writes nothing. *)
LEMMA QuietData ==
  ASSUME NEW t, NEW u, UNCHANGED hist, Drops, \A n \in Ids : ~Ends(t, u, n)
  PROVE  HistoryStep(t, u) /\ BlockStep(t, u)
<1>1. HistoryStep(t, u)
  BY DEF HistoryStep
<1>2. BlockStep(t, u)
  BY DEF BlockStep, Drops, Told
<1> QED
  BY <1>1, <1>2

(* A flush or a cleanup that returns goes on where it was called. *)
LEMMA ReturnKeeps ==
  ASSUME th \in [Procs -> Thread], NEW p \in Procs, Return(p),
         TxnOf(th[p]), th[p].pc \in FlushLabels
  PROVE  /\ Others(p) /\ th'[p].pc = th[p].ret /\ th'[p].txn = th[p].txn
         /\ th[p].ret \in {"idle", "close", "wait", "sent"}
<1>1. th[p] \in Thread /\ th[p].ret \in {"idle", "close", "wait", "sent"}
  BY DEF TxnOf
<1>2. Others(p)
  BY DEF Return, Others
<1>3. CASE th[p].ret = "idle"
  <2>1. th'[p] = Idle /\ th[p].txn = NoTxn
    BY <1>3 DEF Return, TxnOf
  <2> QED
    BY <1>2, <1>3, <2>1 DEF Idle
<1>4. CASE th[p].ret # "idle"
  <2>1. th'[p].pc = th[p].ret /\ th'[p].txn = th[p].txn
    BY <1>1, <1>4 DEF Return, Thread
  <2> QED
    BY <1>1, <1>2, <2>1
<1> QED
  BY <1>3, <1>4

(* Reporting an error ends a transaction. *)
LEMMA ErrorData ==
  ASSUME txn \in [Ids -> Block], hist \in [Ids -> History], NEW t, NEW u, NEW m \in Ids,
         NEW e \in Rcs \ {"none", "timeout", "ok"}, HandleTxnError(m, e), t.pc # "deliver",
         \A n \in Ids : Ends(t, u, n) <=> n = m
  PROVE  SameNames /\ HistoryStep(t, u) /\ BlockStep(t, u)
<1>1. /\ \A n \in Ids : n # m => txn'[n] = txn[n] /\ hist'[n] = hist[n]
      /\ txn'[m].kind = txn[m].kind /\ txn'[m].addr = txn[m].addr
      /\ txn'[m].rx_buf = txn[m].rx_buf /\ txn'[m].rc = e
      /\ txn[m].kind = "sync" => txn'[m].sig
      /\ txn[m].kind # "sync" => txn'[m].sig = txn[m].sig
  BY DEF HandleTxnError, Block
<1>2. /\ hist'[m].wr = hist[m].wr /\ hist'[m].del = hist[m].del /\ hist'[m].api = hist[m].api
  BY DEF HandleTxnError, History
<1>3. SameNames
  BY <1>1 DEF SameNames
<1>4. HistoryStep(t, u)
  BY <1>1, <1>2 DEF HistoryStep
<1>5. BlockStep(t, u)
  <2>1. ASSUME NEW n \in Ids, n # m
        PROVE  /\ ~Ends(t, u, n) /\ txn'[n].rx_buf = txn[n].rx_buf /\ txn'[n].rc = txn[n].rc
               /\ Told(n)' = Told(n) /\ hist'[n].wr = hist[n].wr
    BY <2>1, <1>1 DEF Told
  <2>2. Ends(t, u, m) /\ (txn[m].kind = "sync" => Told(m)') /\ (Told(m) => Told(m)')
    BY <1>1 DEF Told
  <2> QED
    BY <1>1, <1>2, <2>1, <2>2 DEF BlockStep
<1> QED
  BY <1>3, <1>4, <1>5

(* Taking back the buffer of a transaction that the thread took off the list. *)
LEMMA TakeBack ==
  ASSUME txn \in [Ids -> Block], NEW t, NEW u, NEW m \in Ids, UNCHANGED hist,
         txn' = [txn EXCEPT ![m].rx_buf = FALSE],
         \A n \in Ids : ~Ends(t, u, n), Took(t, m) /\ ~Owes(u, m)
  PROVE  HistoryStep(t, u) /\ BlockStep(t, u)
<1>1. HistoryStep(t, u)
  BY DEF HistoryStep
<1>2. \A n \in Ids : /\ n # m => txn'[n] = txn[n]
                     /\ txn'[n].sig = txn[n].sig /\ txn'[n].rc = txn[n].rc
                     /\ Told(n)' = Told(n) /\ (txn'[n].rx_buf => txn[n].rx_buf)
  BY DEF Block, Told
<1>3. BlockStep(t, u)
  BY <1>2 DEF BlockStep
<1> QED
  BY <1>1, <1>3

(* What the invariants say of one thread. *)
LEMMA ThreadFacts ==
  ASSUME CountInv, SafeInv, NEW p \in Procs
  PROVE  /\ th \in [Procs -> Thread] /\ txn \in [Ids -> Block] /\ hist \in [Ids -> History]
         /\ tx_q \in Seq(Ids) /\ txn_list \subseteq Ids /\ net \in Network /\ clnt \in Client
         /\ th[p] \in Thread /\ TxnOf(th[p]) /\ WorkOf(th[p]) /\ Known(th[p])
         /\ th[p].work \subseteq Ids /\ next \in Nat
         /\ th[p].pc \in CurLabels \cup {"find"} => th[p].cur \in Ids
  BY DEF CountInv, TypeOK, ThreadInv, AllocInv, Known, Thread, Ids, SafeInv, AddrInv
-----------------------------------------------------------------------------
(* The steps, one lemma per group of actions.                                *)

(* cleanup_client_lists. *)
LEMMA CleanupSteps ==
  ASSUME CountInv, SafeInv, NEW p \in Procs, Cleanup(p)
  PROVE  Step(p)
<1>t. PICK t : t = th[p]
  OBVIOUS
<1>u. PICK u : u = th'[p]
  OBVIOUS
<1>f. /\ th \in [Procs -> Thread] /\ txn \in [Ids -> Block] /\ hist \in [Ids -> History]
      /\ tx_q \in Seq(Ids) /\ txn_list \subseteq Ids /\ net \in Network /\ clnt \in Client
      /\ t \in Thread /\ TxnOf(t) /\ WorkOf(t) /\ t.work \subseteq Ids
      /\ t.pc \in CurLabels \cup {"find"} => t.cur \in Ids
  BY <1>t, ThreadFacts
<1>1. CASE DetachQueue(p)
  <2>1. /\ Others(p) /\ t.pc = "detach_q" /\ u.pc = "clean_q" /\ u.txn = t.txn /\ u.ret = t.ret
        /\ UNCHANGED <<next, txn, txn_list, clnt, net, hist>> /\ tx_q' = <<>>
    BY <1>1, <1>t, <1>u, <1>f DEF DetachQueue, At, Others, Thread
  <2>d. Drops /\ SameNames
    BY <2>1, SameDrops
  <2>3. Fixed
    BY <2>1, <2>d DEF Fixed, SameNames
  <2>2. \A n \in Ids : ~Took(u, n) /\ ~Passes(u, n) /\ ~Ends(t, u, n)
    BY <2>1 DEF Took, Passes, Ends, Owes, ListCur, ListWork
  <2>4. HandStep(t, u)
    BY <2>1, <2>2, PlainHands DEF ToSet
  <2>5. HistoryStep(t, u) /\ BlockStep(t, u)
    BY <2>1, <2>2, <2>d, QuietData
  <2>6. CallCourse(t, u)
    BY <2>1, <1>f DEF CallCourse, CurLabels, BeforeQueue, DeleteLabels, Awaits, Leaving, FlushLabels
  <2>7. CleanupCourse(t, u)
    BY <2>1, <1>f DEF CleanupCourse, CleanupLabels, ListWork, BeforeQueue
  <2> QED
    BY <1>t, <1>u, <2>1, <2>3, <2>4, <2>5, <2>6, <2>7 DEF Step
<1>2. CASE CleanQueue(p)
  <2>1. /\ Others(p) /\ t.pc = "clean_q" /\ u.pc \in {"clean_q", "detach_l"}
        /\ u.txn = t.txn /\ u.ret = t.ret
        /\ UNCHANGED <<next, txn_list, tx_q, clnt, net, hist>>
    BY <1>2, <1>t, <1>u, <1>f DEF CleanQueue, At, Others, Thread, Goto
  <2>d. Drops /\ SameNames
    BY <1>2, <1>f, SameDrops, DecDrops DEF CleanQueue, Live
  <2>3. Fixed
    BY <2>1, <2>d DEF Fixed, SameNames
  <2>5. HistoryStep(t, u) /\ BlockStep(t, u)
    <3>1. \A n \in Ids : ~Ends(t, u, n)
      BY <2>1 DEF Ends, Owes, ListWork
    <3> QED
      BY <2>1, <2>d, <3>1, QuietData
  <2>2. \A n \in Ids : ~Took(u, n) /\ ~Passes(u, n) /\ ~Ends(t, u, n)
    BY <2>1 DEF Took, Passes, Ends, Owes, ListCur, ListWork
  <2>4. HandStep(t, u)
    BY <2>1, <2>2, PlainHands DEF ToSet
  <2>6. CallCourse(t, u)
    BY <2>1, <1>f DEF CallCourse, CurLabels, BeforeQueue, DeleteLabels, Awaits, Leaving, FlushLabels
  <2>7. CleanupCourse(t, u)
    BY <2>1, <1>f DEF CleanupCourse, CleanupLabels, ListWork, BeforeQueue
  <2> QED
    BY <1>t, <1>u, <2>1, <2>3, <2>4, <2>5, <2>6, <2>7 DEF Step
<1>3. CASE DetachList(p)
  <2>1. /\ Others(p) /\ t.pc = "detach_l" /\ u.pc = "clean_cb" /\ u.txn = t.txn /\ u.ret = t.ret
        /\ u.work = txn_list /\ txn_list' = {}
        /\ UNCHANGED <<next, txn, tx_q, clnt, net, hist>>
    BY <1>3, <1>t, <1>u, <1>f DEF DetachList, At, Others, Thread
  <2>d. Drops /\ SameNames
    BY <2>1, SameDrops
  <2>3. Fixed
    BY <2>1, <2>d DEF Fixed, SameNames
  <2>4. HandStep(t, u)
    <3>1. \A n \in Ids : /\ Took(u, n) <=> n \in txn_list
                         /\ Owes(u, n) <=> n \in txn_list
                         /\ ~Deleting(u, n) /\ ~Passes(u, n)
      BY <2>1 DEF Took, Owes, Deleting, Passes, ListCur, ListWork
    <3> QED
      BY <2>1, <3>1 DEF HandStep, Gone
  <2>5. HistoryStep(t, u) /\ BlockStep(t, u)
    <3>1. \A n \in Ids : ~Ends(t, u, n)
      BY <2>1 DEF Ends, Owes, ListWork
    <3> QED
      BY <2>1, <2>d, <3>1, QuietData
  <2>6. CallCourse(t, u)
    BY <2>1, <1>f DEF CallCourse, CurLabels, BeforeQueue, DeleteLabels, Awaits, Leaving, FlushLabels
  <2>7. CleanupCourse(t, u)
    BY <2>1, <1>f DEF CleanupCourse, CleanupLabels, ListWork, BeforeQueue
  <2> QED
    BY <1>t, <1>u, <2>1, <2>3, <2>4, <2>5, <2>6, <2>7 DEF Step
<1>4. CASE CleanFail(p)
  <2>c. t.pc = "clean_cb" /\ UNCHANGED <<next, txn_list, tx_q, clnt, net>>
    BY <1>4, <1>t DEF CleanFail, At
  <2>a. CASE t.work = {}
    <3>1. /\ Others(p) /\ u.pc = t.ret /\ u.txn = t.txn /\ t.ret \in {"idle", "close", "wait", "sent"}
          /\ UNCHANGED <<txn, hist>>
      <4>1. Return(p) /\ UNCHANGED <<txn, hist>>
        BY <1>4, <1>t, <2>a DEF CleanFail
      <4> QED
        BY <1>t, <1>u, <1>f, <2>c, <4>1, ReturnKeeps DEF FlushLabels
    <3>2. Drops /\ SameNames
      BY <3>1, SameDrops
    <3>3. Fixed
      BY <2>c, <3>2 DEF Fixed, SameNames
    <3>4. \A n \in Ids : ~Took(u, n) /\ ~Passes(u, n) /\ ~Ends(t, u, n)
      BY <2>a, <2>c, <3>1 DEF Took, Passes, Ends, Owes, ListCur, ListWork
    <3>5. HandStep(t, u) /\ HistoryStep(t, u) /\ BlockStep(t, u)
      BY <2>c, <3>1, <3>2, <3>4, PlainHands, QuietData
    <3>6. CallCourse(t, u)
      BY <2>c, <3>1, <1>f DEF CallCourse, CurLabels, BeforeQueue, DeleteLabels, Awaits, Leaving, FlushLabels
    <3>7. CleanupCourse(t, u)
      BY <2>c, <3>1, <1>f DEF CleanupCourse, CleanupLabels, ListWork, BeforeQueue
    <3> QED
      BY <1>t, <1>u, <3>1, <3>3, <3>5, <3>6, <3>7 DEF Step
  <2>b. CASE t.work # {}
    <3>m. PICK m \in Ids : /\ m \in t.work /\ HandleTxnError(m, CleanupError(p))
                           /\ th' = [th EXCEPT ![p].pc = "clean_inv", ![p].cur = m]
      BY <1>4, <1>t, <1>f, <2>b DEF CleanFail
    <3>1. /\ Others(p) /\ u.pc = "clean_inv" /\ u.cur = m /\ u.txn = t.txn /\ u.ret = t.ret
          /\ u.work = t.work
      BY <1>t, <1>u, <1>f, <3>m DEF Others, Thread
    <3>2. \A n \in Ids : /\ Took(u, n) <=> Took(t, n)
                         /\ Owes(u, n) <=> Owes(t, n) /\ n # m
                         /\ ~Deleting(u, n) /\ ~Passes(u, n)
      BY <2>c, <3>1 DEF Took, Owes, Deleting, Passes, ListCur, ListWork
    <3>3. Owes(t, m)
      BY <2>c, <3>m DEF Owes, ListWork
    <3>4. SameNames /\ HistoryStep(t, u) /\ BlockStep(t, u)
      <4>1. CleanupError(p) \in Rcs \ {"none", "timeout", "ok"}
        BY DEF CleanupError, Rcs
      <4> QED
        BY <1>f, <2>c, <3>m, <3>2, <3>3, <4>1, ErrorData DEF Ends
    <3>5. Fixed
      BY <2>c, <3>4 DEF Fixed, SameNames
    <3>6. HandStep(t, u)
      BY <2>c, <3>2 DEF HandStep, Gone
    <3>7. CallCourse(t, u)
      BY <2>c, <3>1, <1>f DEF CallCourse, CurLabels, BeforeQueue, DeleteLabels, Awaits, Leaving, FlushLabels
    <3>8. CleanupCourse(t, u)
      BY <2>c, <3>1, <1>f DEF CleanupCourse, CleanupLabels, ListWork, BeforeQueue
    <3> QED
      BY <1>t, <1>u, <3>1, <3>4, <3>5, <3>6, <3>7, <3>8 DEF Step
  <2> QED
    BY <2>a, <2>b
<1>5. CASE CleanInvalidate(p)
  <2>1. /\ Others(p) /\ t.pc = "clean_inv" /\ u.pc = "clean_dec" /\ Keeps(t, u) /\ t.cur \in Ids
        /\ txn' = [txn EXCEPT ![t.cur].rx_buf = FALSE]
        /\ UNCHANGED <<next, txn_list, tx_q, clnt, net, hist>>
    BY <1>5, <1>t, <1>u, <1>f, GotoKeeps DEF CleanInvalidate, At, Live
  <2>k. u.txn = t.txn /\ u.ret = t.ret /\ u.cur = t.cur /\ u.work = t.work
    BY <2>1 DEF Keeps
  <2>d. SameNames
    BY <2>1, <1>f DEF SameNames, Block
  <2>3. Fixed
    BY <2>1, <2>d DEF Fixed, SameNames
  <2>2. /\ \A n \in Ids : /\ Took(u, n) <=> Took(t, n)
                          /\ Owes(u, n) <=> Owes(t, n)
                          /\ ~Deleting(u, n) /\ ~Passes(u, n)
        /\ Took(t, t.cur) /\ ~Owes(u, t.cur)
    BY <2>1, <2>k, <1>f DEF Took, Owes, Deleting, Passes, ListCur, ListWork, WorkOf
  <2>4. HandStep(t, u)
    BY <2>1, <2>2 DEF HandStep, Gone
  <2>5. HistoryStep(t, u) /\ BlockStep(t, u)
    BY <2>1, <2>2, <1>f, TakeBack DEF Ends
  <2>6. CallCourse(t, u)
    BY <2>1, <1>f, <2>k DEF CallCourse, CurLabels, BeforeQueue, DeleteLabels, Awaits, Leaving, FlushLabels
  <2>7. CleanupCourse(t, u)
    BY <2>1, <1>f, <2>k DEF CleanupCourse, CleanupLabels, ListWork, BeforeQueue
  <2> QED
    BY <1>t, <1>u, <2>1, <2>3, <2>4, <2>5, <2>6, <2>7 DEF Step
<1>6. CASE CleanDec(p)
  <2>1. /\ Others(p) /\ t.pc = "clean_dec" /\ u.pc = "clean_cb" /\ u.txn = t.txn /\ u.ret = t.ret
        /\ u.work = t.work \ {t.cur} /\ t.cur \in Ids /\ DecTxn(t.cur)
        /\ UNCHANGED <<next, txn_list, tx_q, clnt, net, hist>>
    BY <1>6, <1>t, <1>u, <1>f DEF CleanDec, At, Live, Others, Thread
  <2>d. Drops /\ SameNames
    BY <2>1, <1>f, DecDrops
  <2>3. Fixed
    BY <2>1, <2>d DEF Fixed, SameNames
  <2>2. \A n \in Ids : /\ Took(u, n) => Took(t, n)
                       /\ Owes(u, n) <=> Owes(t, n)
                       /\ ~Deleting(u, n) /\ ~Passes(u, n)
    BY <2>1 DEF Took, Owes, Deleting, Passes, ListCur, ListWork
  <2>4. HandStep(t, u)
    BY <2>1, <2>2 DEF HandStep, Gone
  <2>5. HistoryStep(t, u) /\ BlockStep(t, u)
    BY <2>1, <2>2, <2>d, QuietData DEF Ends
  <2>6. CallCourse(t, u)
    BY <2>1, <1>f DEF CallCourse, CurLabels, BeforeQueue, DeleteLabels, Awaits, Leaving, FlushLabels
  <2>7. CleanupCourse(t, u)
    BY <2>1, <1>f DEF CleanupCourse, CleanupLabels, ListWork, BeforeQueue
  <2> QED
    BY <1>t, <1>u, <2>1, <2>3, <2>4, <2>5, <2>6, <2>7 DEF Step
<1> QED
  BY <1>1, <1>2, <1>3, <1>4, <1>5, <1>6 DEF Cleanup
(* qmi_cci_flush_tx_q. *)
LEMMA FlushSteps ==
  ASSUME CountInv, SafeInv, NEW p \in Procs, Flush(p)
  PROVE  Step(p)
<1>t. PICK t : t = th[p]
  OBVIOUS
<1>u. PICK u : u = th'[p]
  OBVIOUS
<1>f. /\ th \in [Procs -> Thread] /\ txn \in [Ids -> Block] /\ hist \in [Ids -> History]
      /\ tx_q \in Seq(Ids) /\ txn_list \subseteq Ids /\ net \in Network /\ clnt \in Client
      /\ t \in Thread /\ TxnOf(t) /\ WorkOf(t) /\ t.work \subseteq Ids
      /\ t.pc \in CurLabels \cup {"find"} => t.cur \in Ids
  BY <1>t, ThreadFacts
<1>1. CASE FlushStart(p)
  <2>1. /\ Others(p) /\ t.pc = "flush" /\ u.pc = (IF clnt.addr_valid THEN "tx" ELSE "detach_q")
        /\ u.txn = t.txn /\ u.ret = t.ret /\ UNCHANGED <<next, txn, txn_list, tx_q, clnt, net, hist>>
    BY <1>1, <1>t, <1>u, <1>f, GotoKeeps DEF FlushStart, At, Keeps
  <2>d. Drops /\ SameNames
    BY <2>1, SameDrops
  <2>3. Fixed
    BY <2>1, <2>d DEF Fixed, SameNames
  <2>2. \A n \in Ids : ~Took(u, n) /\ ~Passes(u, n) /\ ~Ends(t, u, n)
    BY <2>1 DEF Took, Passes, Ends, Owes, ListCur, ListWork
  <2>4. HandStep(t, u)
    BY <2>1, <2>2, PlainHands DEF ToSet
  <2>5. HistoryStep(t, u) /\ BlockStep(t, u)
    BY <2>1, <2>2, <2>d, QuietData
  <2>6. CallCourse(t, u)
    BY <2>1, <1>f DEF CallCourse, CurLabels, BeforeQueue, DeleteLabels, Awaits, Leaving, FlushLabels
  <2>7. CleanupCourse(t, u)
    BY <2>1, <1>f DEF CleanupCourse, CleanupLabels, ListWork, BeforeQueue
  <2> QED
    BY <1>t, <1>u, <2>1, <2>3, <2>4, <2>5, <2>6, <2>7 DEF Step
<1>2. CASE FlushDone(p)
  <2>1. /\ Others(p) /\ t.pc = "tx" /\ u.pc = t.ret /\ u.txn = t.txn
        /\ t.ret \in {"idle", "close", "wait", "sent"}
        /\ UNCHANGED <<next, txn, txn_list, tx_q, clnt, net, hist>>
    BY <1>2, <1>t, <1>u, <1>f, ReturnKeeps DEF FlushDone, At, FlushLabels
  <2>d. Drops /\ SameNames
    BY <2>1, SameDrops
  <2>3. Fixed
    BY <2>1, <2>d DEF Fixed, SameNames
  <2>2. \A n \in Ids : ~Took(u, n) /\ ~Passes(u, n) /\ ~Ends(t, u, n)
    BY <2>1 DEF Took, Passes, Ends, Owes, ListCur, ListWork
  <2>4. HandStep(t, u)
    BY <2>1, <2>2, PlainHands DEF ToSet
  <2>5. HistoryStep(t, u) /\ BlockStep(t, u)
    BY <2>1, <2>2, <2>d, QuietData
  <2>6. CallCourse(t, u)
    BY <2>1, <1>f DEF CallCourse, CurLabels, BeforeQueue, DeleteLabels, Awaits, Leaving, FlushLabels
  <2>7. CleanupCourse(t, u)
    BY <2>1, <1>f DEF CleanupCourse, CleanupLabels, ListWork, BeforeQueue
  <2> QED
    BY <1>t, <1>u, <2>1, <2>3, <2>4, <2>5, <2>6, <2>7 DEF Step
<1>3. CASE FlushSend(p)
  <2>c. /\ t.pc = "tx" /\ tx_q # <<>> /\ UNCHANGED <<next, txn, txn_list, clnt, hist>>
    BY <1>3, <1>t DEF FlushSend, At
  <2>d. Drops /\ SameNames
    BY <2>c, SameDrops
  <2>3. Fixed
    BY <2>c, <2>d DEF Fixed, SameNames
  <2>a. CASE Return(p) /\ UNCHANGED tx_q /\ net'.wire = net.wire
    <3>1. /\ Others(p) /\ u.pc = t.ret /\ u.txn = t.txn /\ t.ret \in {"idle", "close", "wait", "sent"}
      BY <1>t, <1>u, <1>f, <2>a, <2>c, ReturnKeeps DEF FlushLabels
    <3>2. \A n \in Ids : ~Took(u, n) /\ ~Passes(u, n) /\ ~Ends(t, u, n)
      BY <2>c, <3>1 DEF Took, Passes, Ends, Owes, ListCur, ListWork
    <3>4. HandStep(t, u)
      BY <2>a, <2>c, <3>2, PlainHands DEF ToSet
    <3>5. HistoryStep(t, u) /\ BlockStep(t, u)
      BY <2>c, <2>d, <3>2, QuietData
    <3>6. CallCourse(t, u)
      BY <2>c, <3>1, <1>f DEF CallCourse, CurLabels, BeforeQueue, DeleteLabels, Awaits, Leaving, FlushLabels
    <3>7. CleanupCourse(t, u)
      BY <2>a, <2>c, <3>1, <1>f DEF CleanupCourse, CleanupLabels, ListWork, BeforeQueue
    <3> QED
      BY <1>t, <1>u, <2>3, <3>1, <3>4, <3>5, <3>6, <3>7 DEF Step
  <2>b. ASSUME NEW r, tx_q' = Tail(tx_q), net'.wire \subseteq net.wire \cup {Head(tx_q)},
               th' = [th EXCEPT ![p].pc = "dec_tx", ![p].cur = Head(tx_q), ![p].rc = r]
        PROVE  Step(p)
    <3>h. /\ tx_q \in Seq(Ids) /\ Distinct(tx_q)
      BY <1>f DEF CountInv, QueueInv, Distinct
    <3>m. PICK m \in Ids : m = Head(tx_q) /\ m \in ToSet(tx_q) /\ ToSet(tx_q)' = ToSet(tx_q) \ {m}
      <4>1. Head(tx_q) \in ToSet(tx_q) /\ ToSet(Tail(tx_q)) = ToSet(tx_q) \ {Head(tx_q)}
        BY <2>c, <3>h, TailDistinct
      <4>2. ToSet(tx_q) \subseteq Ids
        BY <3>h DEF ToSet
      <4>3. ToSet(tx_q)' = ToSet(Tail(tx_q))
        BY <2>b DEF ToSet
      <4> QED
        BY <4>1, <4>2, <4>3
    <3>1. /\ Others(p) /\ u.pc = "dec_tx" /\ u.cur = m /\ u.txn = t.txn /\ u.ret = t.ret
      BY <1>t, <1>u, <1>f, <2>b, <3>m DEF Others, Thread
    <3>2. \A n \in Ids : /\ ~Took(u, n) /\ ~Owes(u, n) /\ ~Deleting(u, n) /\ ~Ends(t, u, n)
                         /\ Passes(u, n) <=> n = m
      BY <2>c, <3>1 DEF Took, Owes, Deleting, Passes, Ends, ListCur, ListWork
    <3>4. HandStep(t, u)
      BY <2>b, <2>c, <3>m, <3>2 DEF HandStep, Gone
    <3>5. HistoryStep(t, u) /\ BlockStep(t, u)
      BY <2>c, <2>d, <3>2, QuietData
    <3>6. CallCourse(t, u)
      BY <2>c, <3>1, <1>f DEF CallCourse, CurLabels, BeforeQueue, DeleteLabels, Awaits, Leaving, FlushLabels
    <3>7. CleanupCourse(t, u)
      BY <2>c, <3>1, <1>f DEF CleanupCourse, CleanupLabels, ListWork, BeforeQueue
    <3> QED
      BY <1>t, <1>u, <2>3, <3>1, <3>4, <3>5, <3>6, <3>7 DEF Step
  <2> QED
    <3>1. ASSUME NEW r, r = "busy" /\ net.busy < MaxBusy,
                 net' = [net EXCEPT !.resume = TRUE, !.busy = @ + 1], Return(p), UNCHANGED tx_q
          PROVE  Step(p)
      <4>1. net'.wire = net.wire
        BY <1>f, <3>1 DEF Network
      <4> QED
        BY <2>a, <3>1, <4>1
    <3>2. ASSUME NEW r, net' = IF r = "ok" THEN [net EXCEPT !.wire = @ \cup {Head(tx_q)}] ELSE net,
                 tx_q' = Tail(tx_q),
                 th' = [th EXCEPT ![p].pc = "dec_tx", ![p].cur = Head(tx_q), ![p].rc = r]
          PROVE  Step(p)
      <4>1. net'.wire \subseteq net.wire \cup {Head(tx_q)}
        BY <1>f, <3>2 DEF Network
      <4> QED
        BY <2>b, <3>2, <4>1
    <3> QED
      BY <1>3, <3>1, <3>2 DEF FlushSend
<1>4. CASE FlushDec(p)
  <2>1. /\ Others(p) /\ t.pc = "dec_tx" /\ u.pc \in {"tx", "find"} /\ Keeps(t, u)
        /\ t.cur \in Ids /\ DecTxn(t.cur) /\ UNCHANGED <<next, txn_list, tx_q, clnt, net, hist>>
    BY <1>4, <1>t, <1>u, <1>f, GotoKeeps DEF FlushDec, At, Live
  <2>k. u.txn = t.txn /\ u.ret = t.ret /\ u.cur = t.cur /\ u.work = t.work
    BY <2>1 DEF Keeps
  <2>d. Drops /\ SameNames
    BY <2>1, <1>f, DecDrops
  <2>3. Fixed
    BY <2>1, <2>d DEF Fixed, SameNames
  <2>2. \A n \in Ids : /\ Took(u, n) => Took(t, n)
                       /\ Owes(u, n) <=> Owes(t, n)
                       /\ Deleting(u, n) => Deleting(t, n)
                       /\ Passes(u, n) => Passes(t, n)
    BY <2>1, <1>f, <2>k DEF Took, Owes, Deleting, Passes, ListCur, ListWork
  <2>4. HandStep(t, u)
    BY <2>1, <2>2 DEF HandStep, Gone
  <2>5. HistoryStep(t, u) /\ BlockStep(t, u)
    BY <2>1, <2>2, <2>d, QuietData DEF Ends
  <2>6. CallCourse(t, u)
    BY <2>1, <1>f, <2>k DEF CallCourse, CurLabels, BeforeQueue, DeleteLabels, Awaits, Leaving, FlushLabels
  <2>7. CleanupCourse(t, u)
    BY <2>1, <1>f, <2>k DEF CleanupCourse, CleanupLabels, ListWork, BeforeQueue
  <2> QED
    BY <1>t, <1>u, <2>1, <2>3, <2>4, <2>5, <2>6, <2>7 DEF Step
<1>5. CASE FlushFind(p)
  <2>c. t.pc = "find" /\ UNCHANGED <<next, txn, tx_q, clnt, net, hist>>
    BY <1>5, <1>t DEF FlushFind, At
  <2>d. Drops /\ SameNames
    BY <2>c, SameDrops
  <2>a. CASE Goto(p, "tx") /\ UNCHANGED txn_list
    <3>1. Others(p) /\ u.pc = "tx" /\ Keeps(t, u)
      BY <1>t, <1>u, <1>f, <2>a, GotoKeeps
    <3>0. /\ Others(p) /\ t.pc = "find" /\ u.pc = "tx" /\ u.txn = t.txn /\ u.ret = t.ret
          /\ UNCHANGED <<next, txn, txn_list, tx_q, clnt, net, hist>>
      BY <2>a, <2>c, <3>1 DEF Keeps
    <3>d. Drops /\ SameNames
      BY <2>d
    <3>3. Fixed
      BY <3>0, <3>d DEF Fixed, SameNames
    <3>2. \A n \in Ids : ~Took(u, n) /\ ~Passes(u, n) /\ ~Ends(t, u, n)
      BY <3>0 DEF Took, Passes, Ends, Owes, ListCur, ListWork
    <3>4. HandStep(t, u)
      BY <3>0, <3>2, PlainHands DEF ToSet
    <3>5. HistoryStep(t, u) /\ BlockStep(t, u)
      BY <3>0, <3>2, <3>d, QuietData
    <3>6. CallCourse(t, u)
      BY <3>0, <1>f DEF CallCourse, CurLabels, BeforeQueue, DeleteLabels, Awaits, Leaving, FlushLabels
    <3>7. CleanupCourse(t, u)
      BY <3>0, <1>f DEF CleanupCourse, CleanupLabels, ListWork, BeforeQueue
    <3> QED
      BY <1>t, <1>u, <3>0, <3>3, <3>4, <3>5, <3>6, <3>7 DEF Step
  <2>b. ASSUME NEW m \in SameAddr(txn_list, th[p].cur), txn_list' = txn_list \ {m},
               th' = [th EXCEPT ![p].pc = "fail_cb", ![p].cur = m]
        PROVE  Step(p)
    <3>m. m \in Ids /\ m \in txn_list /\ m = t.cur
      <4>1. /\ m \in txn_list /\ txn[m].addr = txn[t.cur].addr /\ m \in Ids /\ t.cur \in Ids
            /\ m <= next /\ t.cur <= next
        BY <1>t, <1>f, <2>b, <2>c DEF SameAddr, CountInv, AllocInv
      <4> QED
        BY <4>1 DEF SafeInv, AddrInv
    <3>1. /\ Others(p) /\ u.pc = "fail_cb" /\ u.cur = m /\ u.txn = t.txn /\ u.ret = t.ret
      BY <1>t, <1>u, <1>f, <2>b DEF Others, Thread
    <3>2. \A n \in Ids : /\ Took(u, n) <=> n = m
                         /\ Owes(u, n) <=> n = m
                         /\ ~Deleting(u, n) /\ ~Passes(u, n) /\ ~Ends(t, u, n)
      BY <2>c, <3>1 DEF Took, Owes, Deleting, Passes, Ends, ListCur, ListWork
    <3>3. Fixed
      BY <2>b, <2>c, <2>d DEF Fixed, SameNames
    <3>4. HandStep(t, u)
      BY <2>b, <2>c, <3>m, <3>2 DEF HandStep, Gone
    <3>5. HistoryStep(t, u) /\ BlockStep(t, u)
      BY <2>c, <2>d, <3>2, QuietData
    <3>6. CallCourse(t, u)
      BY <2>c, <3>1, <3>m, <1>f DEF CallCourse, CurLabels, BeforeQueue, DeleteLabels, Awaits, Leaving, FlushLabels
    <3>7. CleanupCourse(t, u)
      BY <2>c, <3>1, <1>f DEF CleanupCourse, CleanupLabels, ListWork, BeforeQueue
    <3> QED
      BY <1>t, <1>u, <3>1, <3>3, <3>4, <3>5, <3>6, <3>7 DEF Step
  <2> QED
    BY <1>5, <2>a, <2>b DEF FlushFind
<1>6. CASE FlushFail(p)
  <2>1. /\ Others(p) /\ t.pc = "fail_cb" /\ u.pc = "fail_dec" /\ Keeps(t, u)
        /\ t.cur \in Ids /\ HandleTxnError(t.cur, "internal")
        /\ UNCHANGED <<next, txn_list, tx_q, clnt, net>>
    BY <1>6, <1>t, <1>u, <1>f, GotoKeeps DEF FlushFail, At, Live
  <2>k. u.txn = t.txn /\ u.ret = t.ret /\ u.cur = t.cur /\ u.work = t.work
    BY <2>1 DEF Keeps
  <2>2. \A n \in Ids : /\ Took(u, n) => Took(t, n)
                       /\ Owes(t, n) <=> n = t.cur
                       /\ ~Owes(u, n) /\ ~Deleting(u, n) /\ ~Passes(u, n)
    BY <2>1, <2>k DEF Took, Owes, Deleting, Passes, ListCur, ListWork
  <2>5. SameNames /\ HistoryStep(t, u) /\ BlockStep(t, u)
    <3>1. "internal" \in Rcs \ {"none", "timeout", "ok"}
      BY DEF Rcs
    <3> QED
      BY <1>f, <2>1, <2>2, <3>1, ErrorData DEF Ends
  <2>3. Fixed
    BY <2>1, <2>5 DEF Fixed, SameNames
  <2>4. HandStep(t, u)
    BY <2>1, <2>2 DEF HandStep, Gone
  <2>6. CallCourse(t, u)
    BY <2>1, <1>f, <2>k DEF CallCourse, CurLabels, BeforeQueue, DeleteLabels, Awaits, Leaving, FlushLabels
  <2>7. CleanupCourse(t, u)
    BY <2>1, <1>f, <2>k DEF CleanupCourse, CleanupLabels, ListWork, BeforeQueue
  <2> QED
    BY <1>t, <1>u, <2>1, <2>3, <2>4, <2>5, <2>6, <2>7 DEF Step
<1>7. CASE FlushFailDec(p)
  <2>1. /\ Others(p) /\ t.pc = "fail_dec" /\ u.pc = "tx" /\ Keeps(t, u)
        /\ t.cur \in Ids /\ DecTxn(t.cur) /\ UNCHANGED <<next, txn_list, tx_q, clnt, net, hist>>
    BY <1>7, <1>t, <1>u, <1>f, GotoKeeps DEF FlushFailDec, At, Live
  <2>k. u.txn = t.txn /\ u.ret = t.ret
    BY <2>1 DEF Keeps
  <2>d. Drops /\ SameNames
    BY <2>1, <1>f, DecDrops
  <2>3. Fixed
    BY <2>1, <2>d DEF Fixed, SameNames
  <2>2. \A n \in Ids : ~Took(u, n) /\ ~Passes(u, n) /\ ~Ends(t, u, n)
    BY <2>1 DEF Took, Passes, Ends, Owes, ListCur, ListWork
  <2>4. HandStep(t, u)
    BY <2>1, <2>2, PlainHands DEF ToSet
  <2>5. HistoryStep(t, u) /\ BlockStep(t, u)
    BY <2>1, <2>2, <2>d, QuietData
  <2>6. CallCourse(t, u)
    BY <2>1, <1>f, <2>k DEF CallCourse, CurLabels, BeforeQueue, DeleteLabels, Awaits, Leaving, FlushLabels
  <2>7. CleanupCourse(t, u)
    BY <2>1, <1>f, <2>k DEF CleanupCourse, CleanupLabels, ListWork, BeforeQueue
  <2> QED
    BY <1>t, <1>u, <2>1, <2>3, <2>4, <2>5, <2>6, <2>7 DEF Step
<1>8. CASE Cleanup(p)
  BY <1>8, CleanupSteps
<1> QED
  BY <1>1, <1>2, <1>3, <1>4, <1>5, <1>6, <1>7, <1>8 DEF Flush

(* The send calls; the step that allocates the transaction is a lemma of its own. *)
LEMMA SendSteps ==
  ASSUME CountInv, SafeInv, NEW p \in Procs, Send(p), ~GetTxn(p)
  PROVE  Step(p)
<1>t. PICK t : t = th[p]
  OBVIOUS
<1>u. PICK u : u = th'[p]
  OBVIOUS
<1>f. /\ th \in [Procs -> Thread] /\ txn \in [Ids -> Block] /\ hist \in [Ids -> History]
      /\ tx_q \in Seq(Ids) /\ txn_list \subseteq Ids /\ net \in Network /\ clnt \in Client
      /\ t \in Thread /\ TxnOf(t) /\ WorkOf(t) /\ t.work \subseteq Ids
      /\ t.pc \in CurLabels \cup {"find"} => t.cur \in Ids
  BY <1>t, ThreadFacts
<1>1. CASE OwnTxn(p)
  <2>1. /\ Others(p) /\ t.pc = "own" /\ u.pc = "clear" /\ u.txn = t.txn /\ u.ret = t.ret
        /\ t.txn \in Ids /\ u.rc = t.rc /\ SyncTxn(t)
        /\ txn' = [txn EXCEPT ![t.txn].ref = @ + 1]
        /\ UNCHANGED <<next, txn_list, tx_q, clnt, net, hist>>
    BY <1>1, <1>t, <1>u, <1>f, GotoKeeps DEF OwnTxn, At, Keeps, Live, TxnOf, SyncLabels
  <2>d. Drops /\ SameNames
    BY <2>1, <1>f DEF Drops, SameNames, Block
  <2>3. Fixed
    BY <2>1, <2>d DEF Fixed, SameNames
  <2>2. \A n \in Ids : ~Took(u, n) /\ ~Passes(u, n) /\ ~Ends(t, u, n)
    BY <2>1 DEF Took, Passes, Ends, Owes, ListCur, ListWork
  <2>4. HandStep(t, u)
    BY <2>1, <2>2, PlainHands DEF ToSet
  <2>5. HistoryStep(t, u) /\ BlockStep(t, u)
    BY <2>1, <2>2, <2>d, QuietData
  <2>6. CallCourse(t, u)
    BY <2>1, <1>f DEF CallCourse, CurLabels, BeforeQueue, DeleteLabels, Awaits, Leaving, FlushLabels
  <2>7. CleanupCourse(t, u)
    BY <2>1, <1>f DEF CleanupCourse, CleanupLabels, ListWork, BeforeQueue
  <2> QED
    BY <1>t, <1>u, <2>1, <2>3, <2>4, <2>5, <2>6, <2>7 DEF Step
<1>2. CASE ClearSignal(p)
  <2>1. /\ Others(p) /\ t.pc = "clear" /\ u.pc = "set_rc" /\ u.txn = t.txn /\ u.ret = t.ret
        /\ t.txn \in Ids /\ u.rc = t.rc /\ SyncTxn(t)
        /\ txn' = [txn EXCEPT ![t.txn].sig = FALSE]
        /\ UNCHANGED <<next, txn_list, tx_q, clnt, net, hist>>
    BY <1>2, <1>t, <1>u, <1>f, GotoKeeps DEF ClearSignal, At, Keeps, Live, TxnOf, SyncLabels
  <2>d. SameNames
    BY <2>1, <1>f DEF SameNames, Block
  <2>3. Fixed
    BY <2>1, <2>d DEF Fixed, SameNames
  <2>2. \A n \in Ids : ~Took(u, n) /\ ~Passes(u, n) /\ ~Ends(t, u, n)
    BY <2>1 DEF Took, Passes, Ends, Owes, ListCur, ListWork
  <2>4. HandStep(t, u)
    BY <2>1, <2>2, PlainHands DEF ToSet
  <2>h. HistoryStep(t, u)
    BY <2>1, <2>2 DEF HistoryStep
  <2>b. \A n \in Ids : /\ n # t.txn => txn'[n] = txn[n]
                     /\ txn'[n].rx_buf = txn[n].rx_buf /\ txn'[n].rc = txn[n].rc
    BY <2>1, <1>f DEF Block
  <2>5. HistoryStep(t, u) /\ BlockStep(t, u)
    BY <2>1, <2>2, <2>h, <2>b DEF BlockStep, Told
  <2>6. CallCourse(t, u)
    BY <2>1, <1>f DEF CallCourse, CurLabels, BeforeQueue, DeleteLabels, Awaits, Leaving, FlushLabels
  <2>7. CleanupCourse(t, u)
    BY <2>1, <1>f DEF CleanupCourse, CleanupLabels, ListWork, BeforeQueue
  <2> QED
    BY <1>t, <1>u, <2>1, <2>3, <2>4, <2>5, <2>6, <2>7 DEF Step
<1>3. CASE SetRc(p)
  <2>1. /\ Others(p) /\ t.pc = "set_rc" /\ u.pc = "check" /\ u.txn = t.txn /\ u.ret = t.ret
        /\ t.txn \in Ids /\ u.rc = t.rc /\ SyncTxn(t)
        /\ txn' = [txn EXCEPT ![t.txn].rc = "timeout"]
        /\ UNCHANGED <<next, txn_list, tx_q, clnt, net, hist>>
    BY <1>3, <1>t, <1>u, <1>f, GotoKeeps DEF SetRc, At, Keeps, Live, TxnOf, SyncLabels
  <2>d. SameNames
    BY <2>1, <1>f DEF SameNames, Block
  <2>3. Fixed
    BY <2>1, <2>d DEF Fixed, SameNames
  <2>2. \A n \in Ids : ~Took(u, n) /\ ~Passes(u, n) /\ ~Ends(t, u, n)
    BY <2>1 DEF Took, Passes, Ends, Owes, ListCur, ListWork
  <2>4. HandStep(t, u)
    BY <2>1, <2>2, PlainHands DEF ToSet
  <2>h. HistoryStep(t, u)
    BY <2>1, <2>2 DEF HistoryStep
  <2>b. \A n \in Ids : /\ n # t.txn => txn'[n] = txn[n]
                     /\ txn'[n].rx_buf = txn[n].rx_buf
    BY <2>1, <1>f DEF Block
  <2>5. HistoryStep(t, u) /\ BlockStep(t, u)
    BY <2>1, <2>2, <2>h, <2>b DEF BlockStep, Told
  <2>c. txn'[t.txn].rc = "timeout"
    BY <2>1, <1>f DEF Block
  <2>6. CallCourse(t, u)
    BY <2>1, <1>f, <2>c DEF CallCourse, CurLabels, BeforeQueue, DeleteLabels, Awaits, Leaving, FlushLabels
  <2>7. CleanupCourse(t, u)
    BY <2>1, <1>f DEF CleanupCourse, CleanupLabels, ListWork, BeforeQueue
  <2> QED
    BY <1>t, <1>u, <2>1, <2>3, <2>4, <2>5, <2>6, <2>7 DEF Step
<1>4. CASE CheckServer(p)
  <2>k. t.pc = "check" /\ t.txn \in Ids /\ (Sync(p) <=> SyncTxn(t)) /\ (~Sync(p) <=> AsyncTxn(t))
    BY <1>4, <1>t, <1>f DEF CheckServer, At, Live, Sync, SyncTxn, AsyncTxn, Block
  <2>1. /\ Others(p) /\ t.pc = "check" /\ u.txn = t.txn /\ u.ret = t.ret
        /\ \/ u.pc = "inc" /\ clnt.addr_valid
           \/ u.pc = "inval" /\ SyncTxn(t) /\ u.rc = "service"
           \/ u.pc = "remove" /\ AsyncTxn(t)
        /\ UNCHANGED <<next, txn, txn_list, tx_q, clnt, net, hist>>
    BY <1>4, <1>t, <1>u, <1>f, <2>k DEF CheckServer, Refused, Others, Thread
  <2>d. Drops /\ SameNames
    BY <2>1, SameDrops
  <2>3. Fixed
    BY <2>1, <2>d DEF Fixed, SameNames
  <2>2. \A n \in Ids : ~Took(u, n) /\ ~Passes(u, n) /\ ~Ends(t, u, n)
    BY <2>1 DEF Took, Passes, Ends, Owes, ListCur, ListWork
  <2>4. HandStep(t, u)
    BY <2>1, <2>2, PlainHands DEF ToSet
  <2>5. HistoryStep(t, u) /\ BlockStep(t, u)
    BY <2>1, <2>2, <2>d, QuietData
  <2>6. CallCourse(t, u)
    BY <2>1, <1>f DEF CallCourse, CurLabels, BeforeQueue, DeleteLabels, Awaits, Leaving, FlushLabels
  <2>7. CleanupCourse(t, u)
    BY <2>1, <1>f DEF CleanupCourse, CleanupLabels, ListWork, BeforeQueue
  <2> QED
    BY <1>t, <1>u, <2>1, <2>3, <2>4, <2>5, <2>6, <2>7 DEF Step
<1>5. CASE IncTxn(p)
  <2>1. /\ Others(p) /\ t.pc = "inc" /\ u.pc = "enq" /\ u.txn = t.txn /\ u.ret = t.ret
        /\ t.txn \in Ids /\ u.rc = t.rc
        /\ txn' = [txn EXCEPT ![t.txn].ref = @ + 1]
        /\ UNCHANGED <<next, txn_list, tx_q, clnt, net, hist>>
    BY <1>5, <1>t, <1>u, <1>f, GotoKeeps DEF IncTxn, At, Keeps, Live
  <2>d. Drops /\ SameNames
    BY <2>1, <1>f DEF Drops, SameNames, Block
  <2>3. Fixed
    BY <2>1, <2>d DEF Fixed, SameNames
  <2>2. \A n \in Ids : ~Took(u, n) /\ ~Passes(u, n) /\ ~Ends(t, u, n)
    BY <2>1 DEF Took, Passes, Ends, Owes, ListCur, ListWork
  <2>4. HandStep(t, u)
    BY <2>1, <2>2, PlainHands DEF ToSet
  <2>5. HistoryStep(t, u) /\ BlockStep(t, u)
    BY <2>1, <2>2, <2>d, QuietData
  <2>6. CallCourse(t, u)
    BY <2>1, <1>f DEF CallCourse, CurLabels, BeforeQueue, DeleteLabels, Awaits, Leaving, FlushLabels
  <2>7. CleanupCourse(t, u)
    BY <2>1, <1>f DEF CleanupCourse, CleanupLabels, ListWork, BeforeQueue
  <2> QED
    BY <1>t, <1>u, <2>1, <2>3, <2>4, <2>5, <2>6, <2>7 DEF Step
<1>6. CASE Enqueue(p)
  <2>k. /\ t.pc = "enq" /\ t.txn \in Ids /\ (Sync(p) <=> SyncTxn(t)) /\ (~Sync(p) <=> AsyncTxn(t))
        /\ UNCHANGED <<next, txn, txn_list, clnt, net, hist>>
    BY <1>6, <1>t, <1>f DEF Enqueue, At, Live, Sync, SyncTxn, AsyncTxn, Block
  <2>a. CASE clnt.accepting
    <3>1. /\ Others(p) /\ u.pc = "flush" /\ u.txn = t.txn /\ tx_q' = Append(tx_q, t.txn)
          /\ \/ u.ret = "wait" /\ SyncTxn(t)
             \/ u.ret = "sent" /\ AsyncTxn(t)
      BY <1>6, <1>t, <1>u, <1>f, <2>k, <2>a DEF Enqueue, Others, Thread
    <3>q. ToSet(tx_q)' = ToSet(tx_q) \cup {t.txn}
      <4>1. /\ Distinct(tx_q) /\ t.txn \notin ToSet(tx_q)
        BY <1>t, <2>k DEF CountInv, QueueInv, BeforeQueue, Distinct
      <4>2. ToSet(Append(tx_q, t.txn)) = ToSet(tx_q) \cup {t.txn}
        BY <1>f, <2>k, <4>1, AppendDistinct
      <4> QED
        BY <3>1, <4>2 DEF ToSet
    <3>d. Drops /\ SameNames
      BY <2>k, SameDrops
    <3>3. Fixed
      BY <2>k, <3>d DEF Fixed, SameNames
    <3>2. \A n \in Ids : ~Took(u, n) /\ ~Owes(u, n) /\ ~Deleting(u, n) /\ ~Passes(u, n) /\ ~Ends(t, u, n)
      BY <2>k, <3>1 DEF Took, Owes, Deleting, Passes, Ends, ListCur, ListWork
    <3>4. HandStep(t, u)
      BY <2>k, <3>1, <3>q, <3>2 DEF HandStep, Gone
    <3>5. HistoryStep(t, u) /\ BlockStep(t, u)
      BY <2>k, <3>2, <3>d, QuietData
    <3>6. CallCourse(t, u)
      BY <2>k, <3>1, <2>a, <1>f DEF CallCourse, CurLabels, BeforeQueue, DeleteLabels, Awaits, Leaving, FlushLabels
    <3>7. CleanupCourse(t, u)
      BY <2>k, <3>1, <2>a, <1>f DEF CleanupCourse, CleanupLabels, ListWork, BeforeQueue
    <3> QED
      BY <1>t, <1>u, <2>k, <3>1, <2>a, <3>3, <3>4, <3>5, <3>6, <3>7 DEF Step
  <2>b. CASE ~clnt.accepting
    <3>1. /\ Others(p) /\ t.pc = "enq" /\ u.pc = "dec_enq" /\ u.txn = t.txn /\ u.rc = "internal"
          /\ UNCHANGED <<next, txn, txn_list, tx_q, clnt, net, hist>>
      BY <1>6, <1>t, <1>u, <1>f, <2>k, <2>b DEF Enqueue, Others, Thread
    <3>d. Drops /\ SameNames
      BY <3>1, SameDrops
    <3>3. Fixed
      BY <3>1, <3>d DEF Fixed, SameNames
    <3>2. \A n \in Ids : ~Took(u, n) /\ ~Passes(u, n) /\ ~Ends(t, u, n)
      BY <3>1 DEF Took, Passes, Ends, Owes, ListCur, ListWork
    <3>4. HandStep(t, u)
      BY <3>1, <3>2, PlainHands DEF ToSet
    <3>5. HistoryStep(t, u) /\ BlockStep(t, u)
      BY <3>1, <3>2, <3>d, QuietData
    <3>6. CallCourse(t, u)
      BY <3>1, <1>f DEF CallCourse, CurLabels, BeforeQueue, DeleteLabels, Awaits, Leaving, FlushLabels
    <3>7. CleanupCourse(t, u)
      BY <3>1, <1>f DEF CleanupCourse, CleanupLabels, ListWork, BeforeQueue
    <3> QED
      BY <1>t, <1>u, <3>1, <3>3, <3>4, <3>5, <3>6, <3>7 DEF Step
  <2> QED
    BY <2>a, <2>b
<1>7. CASE DecEnqueue(p)
  <2>k. t.pc = "dec_enq" /\ t.txn \in Ids /\ (Sync(p) <=> SyncTxn(t)) /\ (~Sync(p) <=> AsyncTxn(t))
    BY <1>7, <1>t, <1>f DEF DecEnqueue, At, Live, Sync, SyncTxn, AsyncTxn, Block
  <2>r. t.rc = "internal"
    BY <1>t, <2>k DEF SafeInv, SetupInv
  <2>g. Others(p) /\ u.pc = Refused(p) /\ Keeps(t, u)
    BY <1>7, <1>t, <1>u, <1>f, GotoKeeps DEF DecEnqueue
  <2>1. /\ Others(p) /\ t.pc = "dec_enq" /\ u.txn = t.txn /\ u.ret = t.ret /\ u.rc = "internal"
        /\ \/ u.pc = "inval" /\ SyncTxn(t)
           \/ u.pc = "remove" /\ AsyncTxn(t)
        /\ DecTxn(t.txn) /\ t.txn \in Ids /\ UNCHANGED <<next, txn_list, tx_q, clnt, net, hist>>
    BY <1>7, <1>t, <2>k, <2>r, <2>g DEF DecEnqueue, Refused, Keeps
  <2>d. Drops /\ SameNames
    BY <2>1, <1>f, DecDrops
  <2>3. Fixed
    BY <2>1, <2>d DEF Fixed, SameNames
  <2>2. \A n \in Ids : ~Took(u, n) /\ ~Passes(u, n) /\ ~Ends(t, u, n)
    BY <2>1 DEF Took, Passes, Ends, Owes, ListCur, ListWork
  <2>4. HandStep(t, u)
    BY <2>1, <2>2, PlainHands DEF ToSet
  <2>5. HistoryStep(t, u) /\ BlockStep(t, u)
    BY <2>1, <2>2, <2>d, QuietData
  <2>6. CallCourse(t, u)
    BY <2>1, <1>f DEF CallCourse, CurLabels, BeforeQueue, DeleteLabels, Awaits, Leaving, FlushLabels
  <2>7. CleanupCourse(t, u)
    BY <2>1, <1>f DEF CleanupCourse, CleanupLabels, ListWork, BeforeQueue
  <2> QED
    BY <1>t, <1>u, <2>1, <2>3, <2>4, <2>5, <2>6, <2>7 DEF Step
<1>8. CASE AsyncReturn(p)
  <2>1. /\ Others(p) /\ t.pc = "sent" /\ u = Idle /\ t.txn \in Ids /\ AsyncTxn(t)
        /\ hist' = [hist EXCEPT ![t.txn].api = "sent"]
        /\ UNCHANGED <<next, txn, txn_list, tx_q, clnt, net>>
    BY <1>8, <1>t, <1>u, <1>f DEF AsyncReturn, At, Others, TxnOf, AsyncLabels, AsyncTxn
  <2>i. u.pc = "idle" /\ u.txn = NoTxn /\ u.work = {}
    BY <2>1 DEF Idle
  <2>d. Drops /\ SameNames
    BY <2>1, SameDrops
  <2>3. Fixed
    BY <2>1, <2>d DEF Fixed, SameNames
  <2>2. \A n \in Ids : ~Took(u, n) /\ ~Passes(u, n) /\ ~Ends(t, u, n)
    BY <2>1, <2>i DEF Took, Passes, Ends, Owes, ListCur, ListWork
  <2>4. HandStep(t, u)
    BY <2>1, <2>i, <2>2, PlainHands DEF ToSet
  <2>h. \A n \in Ids : /\ n # t.txn => hist'[n] = hist[n]
                     /\ hist'[n].wr = hist[n].wr /\ hist'[n].cb = hist[n].cb /\ hist'[n].del = hist[n].del
    BY <2>1, <1>f DEF History
  <2>a. hist'[t.txn].api = "sent"
    BY <2>1, <1>f DEF History
  <2>5. HistoryStep(t, u) /\ BlockStep(t, u)
    <3>1. HistoryStep(t, u)
      BY <2>1, <2>i, <2>h, <2>a DEF HistoryStep
    <3>2. BlockStep(t, u)
      BY <2>1, <2>2, <2>h DEF BlockStep, Told
    <3> QED
      BY <3>1, <3>2
  <2>6. CallCourse(t, u)
    BY <2>1, <2>i, <1>f DEF CallCourse, CurLabels, BeforeQueue, DeleteLabels, Awaits, Leaving, FlushLabels
  <2>7. CleanupCourse(t, u)
    BY <2>1, <2>i, <1>f DEF CleanupCourse, CleanupLabels, ListWork, BeforeQueue
  <2> QED
    BY <1>t, <1>u, <2>1, <2>i, <2>3, <2>4, <2>5, <2>6, <2>7 DEF Step
<1>9. CASE Wake(p)
  <2>1. /\ Others(p) /\ t.pc = "wait" /\ u.pc = "woken" /\ u.txn = t.txn /\ u.ret = t.ret
        /\ t.txn \in Ids /\ u.rc = t.rc /\ SyncTxn(t)
        /\ UNCHANGED txn
        /\ UNCHANGED <<next, txn_list, tx_q, clnt, net, hist>>
    BY <1>9, <1>t, <1>u, <1>f, GotoKeeps DEF Wake, At, Keeps, Live, TxnOf, SyncLabels
  <2>d. Drops /\ SameNames
    BY <2>1, SameDrops
  <2>3. Fixed
    BY <2>1, <2>d DEF Fixed, SameNames
  <2>2. \A n \in Ids : ~Took(u, n) /\ ~Passes(u, n) /\ ~Ends(t, u, n)
    BY <2>1 DEF Took, Passes, Ends, Owes, ListCur, ListWork
  <2>4. HandStep(t, u)
    BY <2>1, <2>2, PlainHands DEF ToSet
  <2>5. HistoryStep(t, u) /\ BlockStep(t, u)
    BY <2>1, <2>2, <2>d, QuietData
  <2>6. CallCourse(t, u)
    BY <2>1, <1>f DEF CallCourse, CurLabels, BeforeQueue, DeleteLabels, Awaits, Leaving, FlushLabels
  <2>7. CleanupCourse(t, u)
    BY <2>1, <1>f DEF CleanupCourse, CleanupLabels, ListWork, BeforeQueue
  <2> QED
    BY <1>t, <1>u, <2>1, <2>3, <2>4, <2>5, <2>6, <2>7 DEF Step
<1>10. CASE Woken(p)
  <2>1. /\ Others(p) /\ t.pc = "woken" /\ u.txn = t.txn /\ u.ret = t.ret /\ t.txn \in Ids /\ SyncTxn(t)
        /\ \/ u.pc = "wait" /\ txn[t.txn].rc = "timeout"
           \/ u.pc = "inval" /\ u.rc = txn[t.txn].rc /\ u.rc # "timeout"
        /\ txn' = [txn EXCEPT ![t.txn].sig = FALSE]
        /\ UNCHANGED <<next, txn_list, tx_q, clnt, net, hist>>
    BY <1>10, <1>t, <1>u, <1>f DEF Woken, At, Others, Thread, TxnOf, SyncLabels, Live
  <2>d. SameNames
    BY <2>1, <1>f DEF SameNames, Block
  <2>3. Fixed
    BY <2>1, <2>d DEF Fixed, SameNames
  <2>2. \A n \in Ids : ~Took(u, n) /\ ~Passes(u, n) /\ ~Ends(t, u, n)
    BY <2>1 DEF Took, Passes, Ends, Owes, ListCur, ListWork
  <2>4. HandStep(t, u)
    BY <2>1, <2>2, PlainHands DEF ToSet
  <2>h. HistoryStep(t, u)
    BY <2>1, <2>2 DEF HistoryStep
  <2>b. \A n \in Ids : /\ n # t.txn => txn'[n] = txn[n]
                     /\ txn'[n].rx_buf = txn[n].rx_buf /\ txn'[n].rc = txn[n].rc
    BY <2>1, <1>f DEF Block
  <2>5. HistoryStep(t, u) /\ BlockStep(t, u)
    BY <2>1, <2>2, <2>h, <2>b DEF BlockStep, Told
  <2>6. CallCourse(t, u)
    BY <2>1, <1>f DEF CallCourse, CurLabels, BeforeQueue, DeleteLabels, Awaits, Leaving, FlushLabels
  <2>7. CleanupCourse(t, u)
    BY <2>1, <1>f DEF CleanupCourse, CleanupLabels, ListWork, BeforeQueue
  <2> QED
    BY <1>t, <1>u, <2>1, <2>3, <2>4, <2>5, <2>6, <2>7 DEF Step
<1>11. CASE Invalidate(p)
  <2>1. /\ Others(p) /\ t.pc = "inval" /\ u.pc = "remove" /\ u.txn = t.txn /\ u.ret = t.ret
        /\ t.txn \in Ids /\ u.rc = t.rc /\ SyncTxn(t)
        /\ txn' = [txn EXCEPT ![t.txn].rx_buf = FALSE]
        /\ UNCHANGED <<next, txn_list, tx_q, clnt, net, hist>>
    BY <1>11, <1>t, <1>u, <1>f, GotoKeeps DEF Invalidate, At, Keeps, Live, TxnOf, SyncLabels
  <2>d. SameNames
    BY <2>1, <1>f DEF SameNames, Block
  <2>3. Fixed
    BY <2>1, <2>d DEF Fixed, SameNames
  <2>2. \A n \in Ids : ~Took(u, n) /\ ~Passes(u, n) /\ ~Ends(t, u, n)
    BY <2>1 DEF Took, Passes, Ends, Owes, ListCur, ListWork
  <2>4. HandStep(t, u)
    BY <2>1, <2>2, PlainHands DEF ToSet
  <2>h. HistoryStep(t, u)
    BY <2>1, <2>2 DEF HistoryStep
  <2>b. \A n \in Ids : /\ n # t.txn => txn'[n] = txn[n]
                     /\ txn'[n].sig = txn[n].sig /\ txn'[n].rc = txn[n].rc /\ (txn'[n].rx_buf => txn[n].rx_buf)
    BY <2>1, <1>f DEF Block
  <2>5. HistoryStep(t, u) /\ BlockStep(t, u)
    BY <2>1, <2>2, <2>h, <2>b DEF BlockStep, Told
  <2>c. ~txn'[t.txn].rx_buf
    BY <2>1, <1>f DEF Block
  <2>6. CallCourse(t, u)
    BY <2>1, <1>f, <2>c DEF CallCourse, CurLabels, BeforeQueue, DeleteLabels, Awaits, Leaving, FlushLabels
  <2>7. CleanupCourse(t, u)
    BY <2>1, <1>f DEF CleanupCourse, CleanupLabels, ListWork, BeforeQueue
  <2> QED
    BY <1>t, <1>u, <2>1, <2>3, <2>4, <2>5, <2>6, <2>7 DEF Step
<1>12. CASE RemoveTxn(p)
  <2>k. /\ t.pc = "remove" /\ t.txn \in Ids /\ (Sync(p) <=> SyncTxn(t)) /\ (~Sync(p) <=> AsyncTxn(t))
        /\ UNCHANGED <<next, tx_q, clnt, net>>
    BY <1>12, <1>t, <1>f DEF RemoveTxn, At, TxnOf, EitherLabels, Sync, SyncTxn, AsyncTxn, Block
  <2>m. /\ Drops /\ SameNames /\ txn_list' \subseteq txn_list /\ t.txn \notin txn_list'
        /\ \A n \in Ids : Gone(n) => n = t.txn
    <3>1. CASE SameAddr(txn_list, th[p].txn) = {}
      <4>1. UNCHANGED <<txn, txn_list>> /\ t.txn \notin txn_list
        BY <1>12, <1>t, <3>1 DEF RemoveTxn, SameAddr
      <4> QED
        BY <4>1, SameDrops DEF Gone
    <3>2. CASE SameAddr(txn_list, th[p].txn) # {}
      <4>1. PICK m \in SameAddr(txn_list, th[p].txn) : DecTxn(m) /\ txn_list' = txn_list \ {m}
        BY <1>12, <3>2 DEF RemoveTxn
      <4>2. /\ m \in txn_list /\ txn[m].addr = txn[t.txn].addr /\ m \in Ids /\ t.txn \in Ids
            /\ m <= next /\ t.txn <= next
        BY <1>t, <1>f, <2>k, <4>1 DEF SameAddr, CountInv, AllocInv
      <4>3. m = t.txn
        BY <4>2 DEF SafeInv, AddrInv
      <4>4. Drops /\ SameNames
        BY <1>f, <4>1, <4>2, DecDrops
      <4> QED
        BY <4>1, <4>2, <4>3, <4>4 DEF Gone
    <3> QED
      BY <3>1, <3>2
  <2>1. /\ Others(p) /\ u.rc = (IF SyncTxn(t) THEN t.rc ELSE "none") /\ u.txn = (IF SyncTxn(t) THEN t.txn ELSE NoTxn)
        /\ u.pc = (IF SyncTxn(t) THEN "dec_own" ELSE "idle")
        /\ SyncTxn(t) => UNCHANGED hist
        /\ ~SyncTxn(t) => hist' = [hist EXCEPT ![t.txn].api = "refused"] /\ AsyncTxn(t)
    <3>1. CASE SyncTxn(t)
      <4>1. Goto(p, "dec_own") /\ UNCHANGED hist
        BY <1>12, <3>1, <2>k DEF RemoveTxn
      <4> QED
        BY <1>t, <1>u, <1>f, <3>1, <4>1, GotoKeeps DEF Keeps
    <3>2. CASE ~SyncTxn(t)
      <4>1. th' = [th EXCEPT ![p] = Idle] /\ hist' = [hist EXCEPT ![t.txn].api = "refused"] /\ AsyncTxn(t)
        BY <1>12, <1>t, <3>2, <2>k DEF RemoveTxn
      <4> QED
        BY <1>t, <1>u, <1>f, <3>2, <4>1 DEF Idle, Others
    <3> QED
      BY <3>1, <3>2
  <2>3. Fixed
    BY <2>k, <2>m DEF Fixed, SameNames
  <2>2. \A n \in Ids : ~Took(u, n) /\ ~Owes(u, n) /\ ~Deleting(u, n) /\ ~Passes(u, n) /\ ~Ends(t, u, n)
    BY <2>k, <2>1 DEF Took, Owes, Deleting, Passes, Ends, ListCur, ListWork
  <2>4. HandStep(t, u)
    <3>1. ToSet(tx_q)' = ToSet(tx_q) /\ net' = net
      BY <2>k
    <3>2. \A n \in Ids : Gone(n) => t.pc = "remove" /\ t.txn = n
      BY <2>k, <2>m
    <3>3. \A n \in Ids : ~Took(u, n) /\ ~Owes(u, n) /\ ~Deleting(u, n) /\ ~Passes(u, n)
      BY <2>2
    <3> QED
      BY <3>1, <3>2, <3>3, Zenon DEF HandStep
  <2>h. \A n \in Ids : /\ n # t.txn \/ SyncTxn(t) => hist'[n] = hist[n]
                     /\ hist'[n].wr = hist[n].wr /\ hist'[n].cb = hist[n].cb /\ hist'[n].del = hist[n].del
    <3>1. CASE SyncTxn(t)
      BY <2>1, <3>1
    <3>2. CASE ~SyncTxn(t)
      <4>1. /\ \A n \in Ids : n # t.txn => hist'[n] = hist[n]
            /\ t.txn \in Ids => hist'[t.txn] = [hist[t.txn] EXCEPT !.api = "refused"]
        BY <2>1, <1>f, <3>2
      <4>2. \A n \in Ids : hist[n] \in History
        BY <1>f
      <4>3. t.txn \in Ids => /\ hist'[t.txn].wr = hist[t.txn].wr /\ hist'[t.txn].cb = hist[t.txn].cb
                             /\ hist'[t.txn].del = hist[t.txn].del
        BY <4>1, <4>2 DEF History
      <4> QED
        BY <3>2, <4>1, <4>3
    <3> QED
      BY <3>1, <3>2
  <2>a. ~SyncTxn(t) => hist'[t.txn].api = "refused"
    BY <2>1, <2>k, <1>f DEF History
  <2>5. HistoryStep(t, u) /\ BlockStep(t, u)
    <3>1. HistoryStep(t, u)
      BY <2>k, <2>1, <2>h, <2>a DEF HistoryStep, AsyncTxn
    <3>2. BlockStep(t, u)
      BY <2>m, <2>2, <2>h DEF BlockStep, Told, Drops
    <3> QED
      BY <3>1, <3>2
  <2>6. CallCourse(t, u)
    BY <2>k, <2>m, <2>1, <1>f DEF CallCourse, CurLabels, BeforeQueue, DeleteLabels, Awaits, Leaving, FlushLabels
  <2>7. CleanupCourse(t, u)
    BY <2>k, <2>m, <2>1, <1>f DEF CleanupCourse, CleanupLabels, ListWork, BeforeQueue
  <2> QED
    BY <1>t, <1>u, <2>k, <2>m, <2>1, <2>3, <2>4, <2>5, <2>6, <2>7 DEF Step
<1>13. CASE SyncReturn(p)
  <2>1. /\ Others(p) /\ t.pc = "dec_own" /\ u = Idle /\ t.txn \in Ids /\ SyncTxn(t) /\ DecTxn(t.txn)
        /\ hist' = [hist EXCEPT ![t.txn].api = IF t.rc \in {"ok", "timeout"} THEN t.rc ELSE "error"]
        /\ UNCHANGED <<next, txn_list, tx_q, clnt, net>>
    BY <1>13, <1>t, <1>u, <1>f DEF SyncReturn, At, Others, TxnOf, SyncLabels, SyncTxn
  <2>i. u.pc = "idle" /\ u.txn = NoTxn /\ u.work = {}
    BY <2>1 DEF Idle
  <2>d. Drops /\ SameNames
    BY <2>1, <1>f, DecDrops
  <2>3. Fixed
    BY <2>1, <2>d DEF Fixed, SameNames
  <2>2. \A n \in Ids : ~Took(u, n) /\ ~Passes(u, n) /\ ~Ends(t, u, n)
    BY <2>1, <2>i DEF Took, Passes, Ends, Owes, ListCur, ListWork
  <2>4. HandStep(t, u)
    BY <2>1, <2>i, <2>2, PlainHands DEF ToSet
  <2>h. \A n \in Ids : /\ n # t.txn => hist'[n] = hist[n]
                     /\ hist'[n].wr = hist[n].wr /\ hist'[n].cb = hist[n].cb /\ hist'[n].del = hist[n].del
    BY <2>1, <1>f DEF History
  <2>a. hist'[t.txn].api \in {"ok", "timeout", "error"}
    BY <2>1, <1>f DEF History
  <2>5. HistoryStep(t, u) /\ BlockStep(t, u)
    <3>1. HistoryStep(t, u)
      BY <2>1, <2>i, <2>h, <2>a DEF HistoryStep
    <3>2. BlockStep(t, u)
      BY <2>d, <2>2, <2>h DEF BlockStep, Told, Drops
    <3> QED
      BY <3>1, <3>2
  <2>6. CallCourse(t, u)
    BY <2>1, <2>i, <1>f DEF CallCourse, CurLabels, BeforeQueue, DeleteLabels, Awaits, Leaving, FlushLabels
  <2>7. CleanupCourse(t, u)
    BY <2>1, <2>i, <1>f DEF CleanupCourse, CleanupLabels, ListWork, BeforeQueue
  <2> QED
    BY <1>t, <1>u, <2>1, <2>i, <2>3, <2>4, <2>5, <2>6, <2>7 DEF Step
<1> QED
  BY <1>1, <1>2, <1>3, <1>4, <1>5, <1>6, <1>7, <1>8, <1>9, <1>10, <1>11, <1>12, <1>13 DEF Send

(* qmi_client_delete_async_txn. *)
LEMMA DeleteSteps ==
  ASSUME CountInv, SafeInv, NEW p \in Procs, Delete(p)
  PROVE  Step(p)
<1>t. PICK t : t = th[p]
  OBVIOUS
<1>u. PICK u : u = th'[p]
  OBVIOUS
<1>f. /\ th \in [Procs -> Thread] /\ txn \in [Ids -> Block] /\ hist \in [Ids -> History]
      /\ tx_q \in Seq(Ids) /\ txn_list \subseteq Ids /\ net \in Network /\ clnt \in Client
      /\ t \in Thread /\ TxnOf(t) /\ WorkOf(t) /\ t.work \subseteq Ids
      /\ t.pc \in CurLabels \cup {"find"} => t.cur \in Ids
  BY <1>t, ThreadFacts
<1>1. CASE DeleteQueued(p)
  <2>c. t.pc = "del_q" /\ UNCHANGED <<next, txn, txn_list, clnt, net, hist>>
    BY <1>1, <1>t DEF DeleteQueued, At
  <2>d. Drops /\ SameNames
    BY <2>c, SameDrops
  <2>3. Fixed
    BY <2>c, <2>d DEF Fixed, SameNames
  <2>1. /\ Others(p) /\ u.pc \in {"del_l", "del_dec_q"} /\ u.txn = t.txn /\ ToSet(tx_q)' \subseteq ToSet(tx_q)
        /\ u.pc = "del_dec_q" => u.cur \in Ids
        /\ tx_q' # <<>> => tx_q # <<>>
    <3>1. CASE Goto(p, "del_l") /\ UNCHANGED tx_q
      BY <1>t, <1>u, <1>f, <3>1, GotoKeeps DEF Keeps, ToSet
    <3>2. ASSUME NEW i \in DOMAIN tx_q, tx_q' = RemoveAt(tx_q, i),
                 th' = [th EXCEPT ![p].pc = "del_dec_q", ![p].cur = tx_q[i]]
          PROVE  /\ Others(p) /\ u.pc = "del_dec_q" /\ u.txn = t.txn /\ ToSet(tx_q)' \subseteq ToSet(tx_q)
                 /\ u.cur \in Ids /\ tx_q # <<>>
      <4>1. Distinct(tx_q)
        BY DEF CountInv, QueueInv, Distinct
      <4>2. ToSet(RemoveAt(tx_q, i)) \subseteq ToSet(tx_q)
        BY <1>f, <3>2, <4>1, RemoveAtDistinct
      <4>3. ToSet(tx_q)' \subseteq ToSet(tx_q)
        BY <3>2, <4>2 DEF ToSet
      <4>4. tx_q[i] \in Ids /\ tx_q # <<>>
        BY <1>f
      <4>5. Others(p) /\ u.pc = "del_dec_q" /\ u.txn = t.txn /\ u.cur = tx_q[i]
        BY <1>t, <1>u, <1>f, <3>2 DEF Others, Thread
      <4> QED
        BY <4>3, <4>4, <4>5
    <3> QED
      BY <1>1, <3>1, <3>2 DEF DeleteQueued
  <2>2. \A n \in Ids : ~Took(u, n) /\ ~Passes(u, n) /\ ~Ends(t, u, n)
    BY <2>c, <2>1 DEF Took, Passes, Ends, Owes, ListCur, ListWork
  <2>4. HandStep(t, u)
    BY <2>c, <2>1, <2>2, PlainHands
  <2>5. HistoryStep(t, u) /\ BlockStep(t, u)
    BY <2>c, <2>2, <2>d, QuietData
  <2>6. CallCourse(t, u)
    BY <2>c, <2>1, <1>f DEF CallCourse, CurLabels, BeforeQueue, DeleteLabels, Awaits, Leaving, FlushLabels
  <2>7. CleanupCourse(t, u)
    BY <2>c, <2>1, <1>f DEF CleanupCourse, CleanupLabels, ListWork, BeforeQueue
  <2> QED
    BY <1>t, <1>u, <2>c, <2>1, <2>3, <2>4, <2>5, <2>6, <2>7 DEF Step
<1>2. CASE DeleteQueuedDec(p)
  <2>1. /\ Others(p) /\ t.pc = "del_dec_q" /\ u.pc = "del_l" /\ Keeps(t, u)
        /\ t.cur \in Ids /\ DecTxn(t.cur) /\ UNCHANGED <<next, txn_list, tx_q, clnt, net, hist>>
    BY <1>2, <1>t, <1>u, <1>f, GotoKeeps DEF DeleteQueuedDec, At, Live
  <2>k. u.txn = t.txn /\ u.ret = t.ret /\ u.cur = t.cur /\ u.work = t.work /\ u.rc = t.rc
    BY <2>1 DEF Keeps
  <2>d. Drops /\ SameNames
    BY <2>1, <1>f, DecDrops
  <2>3. Fixed
    BY <2>1, <2>d DEF Fixed, SameNames
  <2>2. \A n \in Ids : ~Took(u, n) /\ ~Passes(u, n) /\ ~Ends(t, u, n)
    BY <2>1 DEF Took, Passes, Ends, Owes, ListCur, ListWork
  <2>4. HandStep(t, u)
    BY <2>1, <2>2, PlainHands DEF ToSet
  <2>5. HistoryStep(t, u) /\ BlockStep(t, u)
    BY <2>1, <2>2, <2>d, QuietData
  <2>6. CallCourse(t, u)
    BY <2>1, <1>f, <2>k DEF CallCourse, CurLabels, BeforeQueue, DeleteLabels, Awaits, Leaving, FlushLabels
  <2>7. CleanupCourse(t, u)
    BY <2>1, <1>f, <2>k DEF CleanupCourse, CleanupLabels, ListWork, BeforeQueue
  <2> QED
    BY <1>t, <1>u, <2>1, <2>3, <2>4, <2>5, <2>6, <2>7 DEF Step
<1>3. CASE DeleteListed(p)
  <2>c. t.pc = "del_l" /\ t.txn \in Ids /\ UNCHANGED <<next, txn, tx_q, clnt, net>>
    BY <1>3, <1>t, <1>f DEF DeleteListed, At, TxnOf, AsyncLabels, AsyncTxn
  <2>d. Drops /\ SameNames
    BY <2>c, SameDrops
  <2>a. ASSUME hist' = [hist EXCEPT ![th[p].txn].del = "invalid"], th' = [th EXCEPT ![p] = Idle],
               UNCHANGED txn_list
        PROVE  Step(p)
    <3>1. /\ Others(p) /\ u.pc = "idle" /\ u.txn = NoTxn
      BY <1>t, <1>u, <1>f, <2>a DEF Others, Idle
    <3>h. \A n \in Ids : /\ n # t.txn => hist'[n] = hist[n]
                         /\ hist'[n].wr = hist[n].wr /\ hist'[n].cb = hist[n].cb /\ hist'[n].api = hist[n].api
      BY <1>t, <1>f, <2>a DEF History
    <3>i. hist'[t.txn].del = "invalid"
      BY <1>t, <1>f, <2>a, <2>c DEF History
    <3>2. \A n \in Ids : ~Took(u, n) /\ ~Passes(u, n) /\ ~Ends(t, u, n)
      BY <2>c, <3>1 DEF Took, Passes, Ends, Owes, ListCur, ListWork
    <3>3. Fixed
      BY <2>a, <2>c, <2>d DEF Fixed, SameNames
    <3>4. HandStep(t, u)
      BY <2>a, <2>c, <3>2, PlainHands DEF ToSet
    <3>5. HistoryStep(t, u) /\ BlockStep(t, u)
      <4>1. HistoryStep(t, u)
        BY <2>c, <3>1, <3>h, <3>i DEF HistoryStep, DeleteLabels
      <4>2. BlockStep(t, u)
        BY <2>c, <3>2, <3>h DEF BlockStep, Told
      <4> QED
        BY <4>1, <4>2
    <3>6. CallCourse(t, u)
      BY <2>c, <3>1, <1>f DEF CallCourse, CurLabels, BeforeQueue, DeleteLabels, Awaits, Leaving, FlushLabels
    <3>7. CleanupCourse(t, u)
      BY <2>c, <3>1, <1>f DEF CleanupCourse, CleanupLabels, ListWork, BeforeQueue
    <3> QED
      BY <1>t, <1>u, <2>c, <3>1, <3>3, <3>4, <3>5, <3>6, <3>7 DEF Step
  <2>b. ASSUME NEW m \in SameAddr(txn_list, th[p].txn), txn_list' = txn_list \ {m}, UNCHANGED hist,
               th' = [th EXCEPT ![p].pc = "del_inv", ![p].cur = m]
        PROVE  Step(p)
    <3>m. m \in Ids /\ m \in txn_list /\ m = t.txn
      <4>1. /\ m \in txn_list /\ txn[m].addr = txn[t.txn].addr /\ m \in Ids /\ t.txn \in Ids
            /\ m <= next /\ t.txn <= next
        BY <1>t, <1>f, <2>b, <2>c DEF SameAddr, CountInv, AllocInv
      <4> QED
        BY <4>1 DEF SafeInv, AddrInv
    <3>1. /\ Others(p) /\ u.pc = "del_inv" /\ u.cur = m /\ u.txn = t.txn /\ u.ret = t.ret
      BY <1>t, <1>u, <1>f, <2>b DEF Others, Thread
    <3>2. \A n \in Ids : /\ Took(u, n) <=> n = m
                         /\ Deleting(u, n) <=> n = m
                         /\ ~Owes(u, n) /\ ~Passes(u, n) /\ ~Ends(t, u, n)
      BY <2>c, <3>1 DEF Took, Owes, Deleting, Passes, Ends, ListCur, ListWork
    <3>3. Fixed
      BY <2>b, <2>c, <2>d DEF Fixed, SameNames
    <3>4. HandStep(t, u)
      BY <2>b, <2>c, <3>m, <3>2 DEF HandStep, Gone
    <3>5. HistoryStep(t, u) /\ BlockStep(t, u)
      BY <2>b, <2>d, <3>2, QuietData
    <3>6. CallCourse(t, u)
      BY <2>c, <3>1, <3>m, <1>f DEF CallCourse, CurLabels, BeforeQueue, DeleteLabels, Awaits, Leaving, FlushLabels
    <3>7. CleanupCourse(t, u)
      BY <2>c, <3>1, <3>m, <1>f DEF CleanupCourse, CleanupLabels, ListWork, BeforeQueue
    <3> QED
      BY <1>t, <1>u, <2>c, <3>1, <3>m, <3>3, <3>4, <3>5, <3>6, <3>7 DEF Step
  <2> QED
    BY <1>3, <2>a, <2>b DEF DeleteListed
<1>4. CASE DeleteInvalidate(p)
  <2>1. /\ Others(p) /\ t.pc = "del_inv" /\ u.pc = "del_dec" /\ Keeps(t, u)
        /\ t.cur \in Ids /\ txn' = [txn EXCEPT ![t.cur].rx_buf = FALSE]
        /\ UNCHANGED <<next, txn_list, tx_q, clnt, net, hist>>
    BY <1>4, <1>t, <1>u, <1>f, GotoKeeps DEF DeleteInvalidate, At, Live
  <2>k. u.txn = t.txn /\ u.ret = t.ret /\ u.cur = t.cur /\ u.work = t.work /\ u.rc = t.rc
    BY <2>1 DEF Keeps
  <2>d. SameNames
    BY <2>1, <1>f DEF SameNames, Block
  <2>3. Fixed
    BY <2>1, <2>d DEF Fixed, SameNames
  <2>2. \A n \in Ids : /\ Took(u, n) => Took(t, n)
                       /\ Owes(u, n) <=> Owes(t, n)
                       /\ Deleting(u, n) => Deleting(t, n)
                       /\ Passes(u, n) => Passes(t, n)
    BY <2>1, <1>f, <2>k DEF Took, Owes, Deleting, Passes, ListCur, ListWork
  <2>4. HandStep(t, u)
    BY <2>1, <2>2 DEF HandStep, Gone
  <2>c. t.cur = t.txn
    BY <1>t, <2>1 DEF SafeInv, OwnerInv
  <2>5. HistoryStep(t, u) /\ BlockStep(t, u)
    <3>1. Took(t, t.cur) /\ ~Owes(u, t.cur)
      BY <2>1, <2>k DEF Took, Owes, ListCur, ListWork
    <3> QED
      BY <2>1, <2>2, <3>1, <1>f, TakeBack DEF Ends
  <2>6. CallCourse(t, u)
    BY <2>1, <1>f, <2>k, <2>c DEF CallCourse, CurLabels, BeforeQueue, DeleteLabels, Awaits, Leaving, FlushLabels
  <2>7. CleanupCourse(t, u)
    BY <2>1, <1>f, <2>k DEF CleanupCourse, CleanupLabels, ListWork, BeforeQueue
  <2> QED
    BY <1>t, <1>u, <2>1, <2>3, <2>4, <2>5, <2>6, <2>7 DEF Step
<1>5. CASE DeleteReturn(p)
  <2>1. /\ Others(p) /\ t.pc = "del_dec" /\ u = Idle /\ t.txn \in Ids /\ t.cur \in Ids /\ DecTxn(t.cur)
        /\ hist' = [hist EXCEPT ![t.txn].del = "ok"]
        /\ UNCHANGED <<next, txn_list, tx_q, clnt, net>>
    BY <1>5, <1>t, <1>u, <1>f DEF DeleteReturn, At, Live, Others, TxnOf, AsyncLabels, AsyncTxn
  <2>i. u.pc = "idle" /\ u.txn = NoTxn /\ u.work = {}
    BY <2>1 DEF Idle
  <2>d. Drops /\ SameNames
    BY <2>1, <1>f, DecDrops
  <2>3. Fixed
    BY <2>1, <2>d DEF Fixed, SameNames
  <2>2. \A n \in Ids : ~Took(u, n) /\ ~Passes(u, n) /\ ~Ends(t, u, n)
    BY <2>1, <2>i DEF Took, Passes, Ends, Owes, ListCur, ListWork
  <2>4. HandStep(t, u)
    BY <2>1, <2>i, <2>2, PlainHands DEF ToSet
  <2>h. \A n \in Ids : /\ n # t.txn => hist'[n] = hist[n]
                     /\ hist'[n].wr = hist[n].wr /\ hist'[n].cb = hist[n].cb /\ hist'[n].api = hist[n].api
    BY <2>1, <1>f DEF History
  <2>5. HistoryStep(t, u) /\ BlockStep(t, u)
    <3>1. HistoryStep(t, u)
      BY <2>1, <2>i, <2>h DEF HistoryStep, DeleteLabels
    <3>2. BlockStep(t, u)
      BY <2>d, <2>2, <2>h DEF BlockStep, Told, Drops
    <3> QED
      BY <3>1, <3>2
  <2>6. CallCourse(t, u)
    BY <2>1, <2>i, <1>f DEF CallCourse, CurLabels, BeforeQueue, DeleteLabels, Awaits, Leaving, FlushLabels
  <2>7. CleanupCourse(t, u)
    BY <2>1, <2>i, <1>f DEF CleanupCourse, CleanupLabels, ListWork, BeforeQueue
  <2> QED
    BY <1>t, <1>u, <2>1, <2>i, <2>3, <2>4, <2>5, <2>6, <2>7 DEF Step
<1> QED
  BY <1>1, <1>2, <1>3, <1>4, <1>5 DEF Delete

(* qmi_client_release_async. *)
LEMMA ReleaseSteps ==
  ASSUME CountInv, SafeInv, NEW p \in Procs, Release(p)
  PROVE  Step(p)
<1>t. PICK t : t = th[p]
  OBVIOUS
<1>u. PICK u : u = th'[p]
  OBVIOUS
<1>f. /\ th \in [Procs -> Thread] /\ txn \in [Ids -> Block] /\ hist \in [Ids -> History]
      /\ tx_q \in Seq(Ids) /\ txn_list \subseteq Ids /\ net \in Network /\ clnt \in Client
      /\ t \in Thread /\ TxnOf(t) /\ WorkOf(t) /\ t.work \subseteq Ids
      /\ t.pc \in CurLabels \cup {"find"} => t.cur \in Ids
  BY <1>t, ThreadFacts
<1>1. CASE StopAccepting(p)
  <2>1. /\ Others(p) /\ t.pc = "stop" /\ u.pc = "detach_q" /\ u.ret = "close" /\ u.txn = t.txn
        /\ clnt' = [clnt EXCEPT !.accepting = FALSE]
        /\ UNCHANGED <<next, txn, txn_list, tx_q, net, hist>>
    BY <1>1, <1>t, <1>u, <1>f DEF StopAccepting, At, Others, Thread
  <2>c. /\ ~clnt'.accepting /\ clnt'.addr_valid = clnt.addr_valid /\ clnt'.linked = clnt.linked
    BY <2>1, <1>f DEF Client
  <2>d. Drops /\ SameNames
    BY <2>1, SameDrops
  <2>3. Fixed
    BY <2>1, <2>d DEF Fixed, SameNames
  <2>2. \A n \in Ids : ~Took(u, n) /\ ~Passes(u, n) /\ ~Ends(t, u, n)
    BY <2>1 DEF Took, Passes, Ends, Owes, ListCur, ListWork
  <2>4. HandStep(t, u)
    BY <2>1, <2>2, PlainHands DEF ToSet
  <2>5. HistoryStep(t, u) /\ BlockStep(t, u)
    BY <2>1, <2>2, <2>d, QuietData
  <2>6. CallCourse(t, u)
    BY <2>1, <1>f DEF CallCourse, CurLabels, BeforeQueue, DeleteLabels, Awaits, Leaving, FlushLabels
  <2>7. CleanupCourse(t, u)
    BY <2>1, <1>f, <2>c DEF CleanupCourse, CleanupLabels, ListWork, BeforeQueue
  <2> QED
    BY <1>t, <1>u, <2>1, <2>3, <2>4, <2>5, <2>6, <2>7 DEF Step
<1>2. CASE CloseXport(p)
  <2>1. /\ Others(p) /\ t.pc = "close" /\ u.pc = "join" /\ Keeps(t, u)
        /\ clnt' = [clnt EXCEPT !.handle = FALSE]
        /\ UNCHANGED <<next, txn, txn_list, tx_q, net, hist>>
    BY <1>2, <1>t, <1>u, <1>f, GotoKeeps DEF CloseXport, At
  <2>k. u.txn = t.txn /\ u.ret = t.ret /\ u.cur = t.cur /\ u.work = t.work /\ u.rc = t.rc
    BY <2>1 DEF Keeps
  <2>c. /\ clnt'.accepting = clnt.accepting /\ clnt'.addr_valid = clnt.addr_valid /\ clnt'.linked = clnt.linked
    BY <2>1, <1>f DEF Client
  <2>d. Drops /\ SameNames
    BY <2>1, SameDrops
  <2>3. Fixed
    BY <2>1, <2>d DEF Fixed, SameNames
  <2>2. \A n \in Ids : ~Took(u, n) /\ ~Passes(u, n) /\ ~Ends(t, u, n)
    BY <2>1 DEF Took, Passes, Ends, Owes, ListCur, ListWork
  <2>4. HandStep(t, u)
    BY <2>1, <2>2, PlainHands DEF ToSet
  <2>5. HistoryStep(t, u) /\ BlockStep(t, u)
    BY <2>1, <2>2, <2>d, QuietData
  <2>6. CallCourse(t, u)
    BY <2>1, <1>f, <2>k DEF CallCourse, CurLabels, BeforeQueue, DeleteLabels, Awaits, Leaving, FlushLabels
  <2>7. CleanupCourse(t, u)
    BY <2>1, <1>f, <2>c DEF CleanupCourse, CleanupLabels, ListWork, BeforeQueue
  <2> QED
    BY <1>t, <1>u, <2>1, <2>3, <2>4, <2>5, <2>6, <2>7 DEF Step
<1>3. CASE JoinReader(p)
  <2>1. /\ Others(p) /\ t.pc = "join" /\ u = Idle
        /\ UNCHANGED <<next, txn, txn_list, tx_q, clnt, net, hist>>
    BY <1>3, <1>t, <1>u, <1>f DEF JoinReader, At, Others
  <2>i. u.pc = "idle" /\ u.txn = NoTxn /\ u.work = {}
    BY <2>1 DEF Idle
  <2>d. Drops /\ SameNames
    BY <2>1, SameDrops
  <2>3. Fixed
    BY <2>1, <2>d DEF Fixed, SameNames
  <2>2. \A n \in Ids : ~Took(u, n) /\ ~Passes(u, n) /\ ~Ends(t, u, n)
    BY <2>1, <2>i DEF Took, Passes, Ends, Owes, ListCur, ListWork
  <2>4. HandStep(t, u)
    BY <2>1, <2>i, <2>2, PlainHands DEF ToSet
  <2>5. HistoryStep(t, u) /\ BlockStep(t, u)
    BY <2>1, <2>i, <2>2, <2>d, QuietData
  <2>6. CallCourse(t, u)
    BY <2>1, <2>i, <1>f DEF CallCourse, CurLabels, BeforeQueue, DeleteLabels, Awaits, Leaving, FlushLabels
  <2>7. CleanupCourse(t, u)
    BY <2>1, <2>i, <1>f DEF CleanupCourse, CleanupLabels, ListWork, BeforeQueue
  <2> QED
    BY <1>t, <1>u, <2>1, <2>i, <2>3, <2>4, <2>5, <2>6, <2>7 DEF Step
<1> QED
  BY <1>1, <1>2, <1>3 DEF Release

(* The up-calls of the transport's reader. *)
LEMMA UpcallSteps ==
  ASSUME CountInv, SafeInv, DistinctTxns, NEW p \in Procs, p = Reader, Recv \/ Resume \/ ServerGone \/ UpcallStep
  PROVE  Step(p)
<1>p. p = Reader
  OBVIOUS
<1>t. PICK t : t = th[p]
  OBVIOUS
<1>u. PICK u : u = th'[p]
  OBVIOUS
<1>f. /\ th \in [Procs -> Thread] /\ txn \in [Ids -> Block] /\ hist \in [Ids -> History]
      /\ tx_q \in Seq(Ids) /\ txn_list \subseteq Ids /\ net \in Network /\ clnt \in Client
      /\ t \in Thread /\ TxnOf(t) /\ WorkOf(t) /\ t.work \subseteq Ids
      /\ t.pc \in CurLabels \cup {"find"} => t.cur \in Ids
  BY <1>t, ThreadFacts
<1>1. CASE Recv
  <2>c. t.pc = "idle" /\ UNCHANGED <<next, txn, tx_q, clnt, hist>>
    BY <1>1, <1>p, <1>t DEF Recv, At
  <2>m. PICK m \in Ids, same_msg \in BOOLEAN :
           /\ m \in net.wire /\ net' = [net EXCEPT !.wire = @ \ {m}]
           /\ \/ UNCHANGED <<th, txn_list>>
              \/ \E n \in txn_list :
                   /\ TxnId(n) = TxnId(m)
                   /\ txn_list' = txn_list \ {n}
                   /\ th' = [th EXCEPT ![Reader].pc = IF same_msg THEN "deliver" ELSE "mismatch",
                                       ![Reader].cur = n]
    BY <1>1, <1>f DEF Recv, Network
  <2>n. net'.wire \subseteq net.wire /\ UNCHANGED <<next, txn, tx_q, clnt, hist>>
    BY <1>f, <2>c, <2>m DEF Network
  <2>d. Drops /\ SameNames
    BY <2>c, SameDrops
  <2>a. CASE UNCHANGED <<th, txn_list>>
    <3>1. Others(p) /\ u = t /\ t.pc = "idle"
      BY <1>t, <1>u, <2>a, <2>c DEF Others
    <3>2. \A n \in Ids : ~Took(u, n) /\ ~Passes(u, n) /\ ~Ends(t, u, n)
      BY <3>1 DEF Took, Passes, Ends, Owes, ListCur, ListWork
    <3>3. Fixed
      BY <2>a, <2>c, <2>d DEF Fixed, SameNames
    <3>4. HandStep(t, u)
      BY <2>a, <2>n, <3>2, PlainHands DEF ToSet
    <3>5. HistoryStep(t, u) /\ BlockStep(t, u)
      BY <2>c, <2>d, <3>2, QuietData
    <3>6. CallCourse(t, u)
      BY <2>c, <3>1, <1>f DEF CallCourse, CurLabels, BeforeQueue, DeleteLabels, Awaits, Leaving, FlushLabels
    <3>7. CleanupCourse(t, u)
      BY <2>c, <3>1, <1>f DEF CleanupCourse, CleanupLabels, ListWork, BeforeQueue
    <3> QED
      BY <1>t, <1>u, <2>c, <3>1, <3>3, <3>4, <3>5, <3>6, <3>7 DEF Step
  <2>b. ASSUME NEW n \in txn_list, TxnId(n) = TxnId(m), txn_list' = txn_list \ {n},
               th' = [th EXCEPT ![Reader].pc = IF same_msg THEN "deliver" ELSE "mismatch",
                                ![Reader].cur = n]
        PROVE  Step(p)
    <3>m. n \in Ids /\ n = m
      <4>1. m \in 1..MaxTxns /\ n \in 1..MaxTxns /\ MaxTxns \in Nat /\ LastTxnId \in Nat /\ MaxTxns <= LastTxnId
        BY <1>f, <2>b, BoundAssumption DEF Ids, DistinctTxns
      <4>2. (m - 1) % LastTxnId = m - 1 /\ (n - 1) % LastTxnId = n - 1
        BY <4>1, SMT
      <4>3. m - 1 = n - 1
        BY <2>b, <4>1, <4>2 DEF TxnId
      <4> QED
        BY <4>1, <4>3 DEF Ids
    <3>1. /\ Others(p) /\ u.pc \in {"deliver", "mismatch"} /\ u.cur = n /\ u.txn = t.txn /\ u.ret = t.ret
      BY <1>p, <1>t, <1>u, <1>f, <2>b DEF Others, Thread
    <3>2. \A x \in Ids : /\ Took(u, x) <=> x = n
                         /\ Owes(u, x) <=> x = n
                         /\ Passes(u, x) <=> x = n
                         /\ ~Deleting(u, x) /\ ~Ends(t, u, x)
      BY <2>c, <3>1 DEF Took, Owes, Deleting, Passes, Ends, ListCur, ListWork
    <3>3. Fixed
      BY <2>b, <2>c, <2>d DEF Fixed, SameNames
    <3>4. HandStep(t, u)
      BY <2>b, <2>c, <2>m, <2>n, <3>m, <3>2 DEF HandStep, Gone
    <3>5. HistoryStep(t, u) /\ BlockStep(t, u)
      BY <2>c, <2>d, <3>2, QuietData
    <3>6. CallCourse(t, u)
      BY <2>c, <3>1, <3>m, <1>f DEF CallCourse, CurLabels, BeforeQueue, DeleteLabels, Awaits, Leaving, FlushLabels
    <3>7. CleanupCourse(t, u)
      BY <2>c, <3>1, <3>m, <1>f DEF CleanupCourse, CleanupLabels, ListWork, BeforeQueue
    <3> QED
      BY <1>t, <1>u, <2>c, <3>1, <3>m, <3>3, <3>4, <3>5, <3>6, <3>7 DEF Step
  <2> QED
    BY <2>m, <2>a, <2>b
<1>2. CASE Resume
  <2>1. /\ Others(p) /\ t.pc = "idle" /\ u.pc = "flush" /\ u.ret = "idle" /\ u.txn = t.txn /\ u.cur = t.cur
        /\ net'.wire = net.wire
        /\ UNCHANGED <<next, txn, txn_list, tx_q, clnt, hist>>
    BY <1>2, <1>t, <1>u, <1>f, <1>p DEF Resume, At, Others, Thread, Network
  <2>d. Drops /\ SameNames
    BY <2>1, SameDrops
  <2>3. Fixed
    BY <2>1, <2>d DEF Fixed, SameNames
  <2>2. \A n \in Ids : ~Took(u, n) /\ ~Passes(u, n) /\ ~Ends(t, u, n)
    BY <2>1 DEF Took, Passes, Ends, Owes, ListCur, ListWork
  <2>4. HandStep(t, u)
    BY <2>1, <2>2, PlainHands DEF ToSet
  <2>5. HistoryStep(t, u) /\ BlockStep(t, u)
    BY <2>1, <2>2, <2>d, QuietData
  <2>6. CallCourse(t, u)
    BY <2>1, <1>f DEF CallCourse, CurLabels, BeforeQueue, DeleteLabels, Awaits, Leaving, FlushLabels
  <2>7. CleanupCourse(t, u)
    BY <2>1, <1>f DEF CleanupCourse, CleanupLabels, ListWork, BeforeQueue
  <2> QED
    BY <1>t, <1>u, <2>1, <2>3, <2>4, <2>5, <2>6, <2>7 DEF Step
<1>3. CASE ServerGone
  <2>1. /\ Others(p) /\ t.pc = "idle" /\ u.pc = "detach_q" /\ u.ret = "idle" /\ u.txn = t.txn /\ u.cur = t.cur
        /\ ~clnt'.addr_valid /\ clnt'.accepting = clnt.accepting /\ clnt'.linked = clnt.linked
        /\ UNCHANGED <<next, txn, txn_list, tx_q, net, hist>>
    BY <1>3, <1>t, <1>u, <1>f, <1>p DEF ServerGone, At, Others, Thread, Client
  <2>d. Drops /\ SameNames
    BY <2>1, SameDrops
  <2>3. Fixed
    BY <2>1, <2>d DEF Fixed, SameNames
  <2>2. \A n \in Ids : ~Took(u, n) /\ ~Passes(u, n) /\ ~Ends(t, u, n)
    BY <2>1 DEF Took, Passes, Ends, Owes, ListCur, ListWork
  <2>4. HandStep(t, u)
    BY <2>1, <2>2, PlainHands DEF ToSet
  <2>5. HistoryStep(t, u) /\ BlockStep(t, u)
    BY <2>1, <2>2, <2>d, QuietData
  <2>6. CallCourse(t, u)
    BY <2>1, <1>f DEF CallCourse, CurLabels, BeforeQueue, DeleteLabels, Awaits, Leaving, FlushLabels
  <2>7. CleanupCourse(t, u)
    BY <2>1, <1>f DEF CleanupCourse, CleanupLabels, ListWork, BeforeQueue
  <2> QED
    BY <1>t, <1>u, <2>1, <2>3, <2>4, <2>5, <2>6, <2>7 DEF Step
<1>4. CASE Deliver
  <2>1. /\ Others(p) /\ t.pc = "deliver" /\ u.pc = "recv_dec" /\ Keeps(t, u) /\ t.cur \in Ids
        /\ UNCHANGED <<next, txn_list, tx_q, clnt, net>>
    BY <1>4, <1>p, <1>t, <1>u, <1>f, GotoKeeps DEF Deliver, At, Live
  <2>k. u.txn = t.txn /\ u.ret = t.ret /\ u.cur = t.cur /\ u.work = t.work /\ u.rc = t.rc
    BY <2>1 DEF Keeps
  <2>2. \A n \in Ids : /\ Took(u, n) => Took(t, n)
                       /\ Passes(u, n) => Passes(t, n)
                       /\ Owes(t, n) <=> n = t.cur
                       /\ ~Owes(u, n) /\ ~Deleting(u, n)
    BY <2>1, <2>k DEF Took, Owes, Deleting, Passes, ListCur, ListWork
  <2>e. \A n \in Ids : Ends(t, u, n) <=> n = t.cur
    BY <2>2 DEF Ends
  <2>4. HandStep(t, u)
    BY <2>1, <2>2 DEF HandStep, Gone
  <2>a. ASSUME ~txn[t.cur].rx_buf PROVE HistoryStep(t, u) /\ BlockStep(t, u) /\ Fixed
    <3>1. UNCHANGED <<txn, hist>>
      BY <1>4, <1>p, <1>t, <2>a DEF Deliver
    <3>3. Fixed
      BY <2>1, <3>1 DEF Fixed
    <3>5. HistoryStep(t, u) /\ BlockStep(t, u)
      BY <2>a, <2>e, <3>1 DEF HistoryStep, BlockStep, Told
    <3> QED
      BY <3>3, <3>5
  <2>b. ASSUME txn[t.cur].rx_buf /\ txn[t.cur].kind = "sync" PROVE HistoryStep(t, u) /\ BlockStep(t, u) /\ Fixed
    <3>1. /\ txn' = [txn EXCEPT ![t.cur].rc = "ok", ![t.cur].sig = TRUE]
          /\ hist' = [hist EXCEPT ![t.cur].wr = @ + 1]
      BY <1>4, <1>p, <1>t, <2>b DEF Deliver
    <3>2. /\ \A n \in Ids : n # t.cur => txn'[n] = txn[n] /\ hist'[n] = hist[n]
          /\ txn'[t.cur].kind = txn[t.cur].kind /\ txn'[t.cur].addr = txn[t.cur].addr
          /\ txn'[t.cur].rx_buf = txn[t.cur].rx_buf /\ txn'[t.cur].rc = "ok" /\ txn'[t.cur].sig
          /\ hist'[t.cur].wr = hist[t.cur].wr + 1 /\ hist'[t.cur].cb = hist[t.cur].cb
          /\ hist'[t.cur].del = hist[t.cur].del /\ hist'[t.cur].api = hist[t.cur].api
          /\ hist[t.cur].wr \in Nat
      BY <1>f, <2>1, <3>1 DEF Block, History
    <3>3. Fixed
      BY <2>1, <3>2 DEF Fixed
    <3>4. HistoryStep(t, u)
      BY <2>1, <2>e, <3>2 DEF HistoryStep
    <3>5. BlockStep(t, u)
      BY <2>1, <2>e, <3>2 DEF BlockStep, Told
    <3> QED
      BY <3>3, <3>4, <3>5
  <2>c. ASSUME txn[t.cur].rx_buf /\ txn[t.cur].kind # "sync" PROVE HistoryStep(t, u) /\ BlockStep(t, u) /\ Fixed
    <3>1. UNCHANGED txn /\ hist' = [hist EXCEPT ![t.cur].wr = @ + 1, ![t.cur].cb = @ + 1]
      BY <1>4, <1>p, <1>t, <2>c DEF Deliver
    <3>2. /\ \A n \in Ids : n # t.cur => hist'[n] = hist[n]
          /\ hist'[t.cur].wr = hist[t.cur].wr + 1
          /\ hist'[t.cur].del = hist[t.cur].del /\ hist'[t.cur].api = hist[t.cur].api
      BY <1>f, <2>1, <3>1 DEF History
    <3>3. Fixed
      BY <2>1, <3>1 DEF Fixed
    <3>4. HistoryStep(t, u)
      BY <2>1, <2>e, <3>2 DEF HistoryStep
    <3>5. BlockStep(t, u)
      BY <2>c, <2>1, <2>e, <3>1, <3>2 DEF BlockStep, Told
    <3> QED
      BY <3>3, <3>4, <3>5
  <2>5. HistoryStep(t, u) /\ BlockStep(t, u) /\ Fixed
    BY <2>a, <2>b, <2>c
  <2>3. Fixed
    BY <2>5
  <2>6. CallCourse(t, u)
    BY <2>1, <1>f, <2>k DEF CallCourse, CurLabels, BeforeQueue, DeleteLabels, Awaits, Leaving, FlushLabels
  <2>7. CleanupCourse(t, u)
    BY <2>1, <1>f, <2>k DEF CleanupCourse, CleanupLabels, ListWork, BeforeQueue
  <2> QED
    BY <1>t, <1>u, <2>1, <2>3, <2>4, <2>5, <2>6, <2>7 DEF Step
<1>5. CASE Mismatch
  <2>1. /\ Others(p) /\ t.pc = "mismatch" /\ u.pc = "recv_dec" /\ Keeps(t, u)
        /\ t.cur \in Ids /\ HandleTxnError(t.cur, "invalid_txn")
        /\ UNCHANGED <<next, txn_list, tx_q, clnt, net>>
    BY <1>5, <1>t, <1>u, <1>f, <1>p, GotoKeeps DEF Mismatch, At, Live
  <2>k. u.txn = t.txn /\ u.ret = t.ret /\ u.cur = t.cur /\ u.work = t.work /\ u.rc = t.rc
    BY <2>1 DEF Keeps
  <2>2. \A n \in Ids : /\ Took(u, n) => Took(t, n)
                       /\ Passes(u, n) => Passes(t, n)
                       /\ Owes(t, n) <=> n = t.cur
                       /\ ~Owes(u, n) /\ ~Deleting(u, n)
    BY <2>1, <2>k DEF Took, Owes, Deleting, Passes, ListCur, ListWork
  <2>5. SameNames /\ HistoryStep(t, u) /\ BlockStep(t, u)
    <3>1. "invalid_txn" \in Rcs \ {"none", "timeout", "ok"}
      BY DEF Rcs
    <3> QED
      BY <1>f, <2>1, <2>2, <3>1, ErrorData DEF Ends
  <2>3. Fixed
    BY <2>1, <2>5 DEF Fixed, SameNames
  <2>4. HandStep(t, u)
    BY <2>1, <2>2 DEF HandStep, Gone
  <2>6. CallCourse(t, u)
    BY <2>1, <1>f, <2>k DEF CallCourse, CurLabels, BeforeQueue, DeleteLabels, Awaits, Leaving, FlushLabels
  <2>7. CleanupCourse(t, u)
    BY <2>1, <1>f, <2>k DEF CleanupCourse, CleanupLabels, ListWork, BeforeQueue
  <2> QED
    BY <1>t, <1>u, <2>1, <2>3, <2>4, <2>5, <2>6, <2>7 DEF Step
<1>6. CASE RecvDec
  <2>1. /\ Others(p) /\ t.pc = "recv_dec" /\ u = Idle /\ t.cur \in Ids /\ DecTxn(t.cur)
        /\ UNCHANGED <<next, txn_list, tx_q, clnt, net, hist>>
    BY <1>6, <1>t, <1>u, <1>f, <1>p DEF RecvDec, At, Others, Live
  <2>i. u.pc = "idle" /\ u.txn = NoTxn /\ u.work = {}
    BY <2>1 DEF Idle
  <2>d. Drops /\ SameNames
    BY <2>1, <1>f, DecDrops
  <2>3. Fixed
    BY <2>1, <2>d DEF Fixed, SameNames
  <2>2. \A n \in Ids : ~Took(u, n) /\ ~Passes(u, n) /\ ~Ends(t, u, n)
    BY <2>1, <2>i DEF Took, Passes, Ends, Owes, ListCur, ListWork
  <2>4. HandStep(t, u)
    BY <2>1, <2>i, <2>2, PlainHands DEF ToSet
  <2>5. HistoryStep(t, u) /\ BlockStep(t, u)
    BY <2>1, <2>i, <2>2, <2>d, QuietData
  <2>6. CallCourse(t, u)
    BY <2>1, <2>i, <1>f DEF CallCourse, CurLabels, BeforeQueue, DeleteLabels, Awaits, Leaving, FlushLabels
  <2>7. CleanupCourse(t, u)
    BY <2>1, <2>i, <1>f DEF CleanupCourse, CleanupLabels, ListWork, BeforeQueue
  <2> QED
    BY <1>t, <1>u, <2>1, <2>i, <2>3, <2>4, <2>5, <2>6, <2>7 DEF Step
<1>7. CASE Flush(Reader)
  BY <1>7, <1>p, FlushSteps
<1>8. CASE ReaderExit
  <2>1. /\ Others(p) /\ t.pc = "idle" /\ u.pc = "exit" /\ Keeps(t, u)
        /\ UNCHANGED <<next, txn, txn_list, tx_q, clnt, net, hist>>
    BY <1>8, <1>t, <1>u, <1>f, <1>p, GotoKeeps DEF ReaderExit, At
  <2>k. u.txn = t.txn /\ u.ret = t.ret /\ u.cur = t.cur /\ u.work = t.work /\ u.rc = t.rc
    BY <2>1 DEF Keeps
  <2>d. Drops /\ SameNames
    BY <2>1, SameDrops
  <2>3. Fixed
    BY <2>1, <2>d DEF Fixed, SameNames
  <2>2. \A n \in Ids : ~Took(u, n) /\ ~Passes(u, n) /\ ~Ends(t, u, n)
    BY <2>1 DEF Took, Passes, Ends, Owes, ListCur, ListWork
  <2>4. HandStep(t, u)
    BY <2>1, <2>2, PlainHands DEF ToSet
  <2>5. HistoryStep(t, u) /\ BlockStep(t, u)
    BY <2>1, <2>2, <2>d, QuietData
  <2>6. CallCourse(t, u)
    BY <2>1, <1>f, <2>k DEF CallCourse, CurLabels, BeforeQueue, DeleteLabels, Awaits, Leaving, FlushLabels
  <2>7. CleanupCourse(t, u)
    BY <2>1, <1>f, <2>k DEF CleanupCourse, CleanupLabels, ListWork, BeforeQueue
  <2> QED
    BY <1>t, <1>u, <2>1, <2>3, <2>4, <2>5, <2>6, <2>7 DEF Step
<1> QED
  BY <1>1, <1>2, <1>3, <1>4, <1>5, <1>6, <1>7, <1>8 DEF UpcallStep

(* The calls an application begins, and a wait that ends. *)
LEMMA StartSteps ==
  ASSUME CountInv, SafeInv, NEW p \in Procs, CallStart(p) \/ WaitTimeout(p)
  PROVE  Step(p)
<1>t. PICK t : t = th[p]
  OBVIOUS
<1>u. PICK u : u = th'[p]
  OBVIOUS
<1>f. /\ th \in [Procs -> Thread] /\ txn \in [Ids -> Block] /\ hist \in [Ids -> History]
      /\ tx_q \in Seq(Ids) /\ txn_list \subseteq Ids /\ net \in Network /\ clnt \in Client
      /\ t \in Thread /\ TxnOf(t) /\ WorkOf(t) /\ t.work \subseteq Ids
      /\ t.pc \in CurLabels \cup {"find"} => t.cur \in Ids
  BY <1>t, ThreadFacts
<1>1. ASSUME NEW k \in Kinds, SendStart(p, k) PROVE Step(p)
  <2>1. /\ Others(p) /\ t.pc = "idle" /\ u.pc = "get_txn" /\ u.txn = t.txn /\ t.txn = NoTxn
        /\ UNCHANGED <<next, txn, txn_list, tx_q, clnt, net, hist>>
    BY <1>1, <1>t, <1>u, <1>f DEF SendStart, At, Others, Thread, TxnOf, NoTxnLabels
  <2>d. Drops /\ SameNames
    BY <2>1, SameDrops
  <2>3. Fixed
    BY <2>1, <2>d DEF Fixed, SameNames
  <2>2. \A n \in Ids : ~Took(u, n) /\ ~Passes(u, n) /\ ~Ends(t, u, n)
    BY <2>1 DEF Took, Passes, Ends, Owes, ListCur, ListWork
  <2>4. HandStep(t, u)
    BY <2>1, <2>2, PlainHands DEF ToSet
  <2>5. HistoryStep(t, u) /\ BlockStep(t, u)
    BY <2>1, <2>2, <2>d, QuietData
  <2>6. CallCourse(t, u)
    BY <2>1, <1>f DEF CallCourse, CurLabels, BeforeQueue, DeleteLabels, Awaits, Leaving, FlushLabels
  <2>7. CleanupCourse(t, u)
    BY <2>1, <1>f DEF CleanupCourse, CleanupLabels, ListWork, BeforeQueue
  <2> QED
    BY <1>t, <1>u, <2>1, <2>3, <2>4, <2>5, <2>6, <2>7 DEF Step
<1>2. CASE DeleteStart(p)
  <2>m. PICK m \in Ids : /\ hist[m].api = "sent" /\ hist[m].del = "no"
                         /\ \A q \in Threads : th[q].txn # m
                         /\ th' = [th EXCEPT ![p].pc = "del_q", ![p].txn = m]
    BY <1>2 DEF DeleteStart
  <2>1. /\ Others(p) /\ t.pc = "idle" /\ u.pc = "del_q" /\ u.txn = m /\ t.txn = NoTxn
        /\ UNCHANGED <<next, txn, txn_list, tx_q, clnt, net, hist>>
    BY <1>2, <1>t, <1>u, <1>f, <2>m DEF DeleteStart, At, Others, Thread, TxnOf, NoTxnLabels
  <2>c. m \in Ids /\ m # NoTxn /\ \A q \in Procs : th[q].txn # m
    <3>1. th[Reader].txn = NoTxn
      BY DEF SafeInv, OwnerInv
    <3>2. m # NoTxn
      BY <1>f, BoundAssumption DEF Ids, NoTxn
    <3> QED
      BY <2>m, <3>1, <3>2 DEF Procs
  <2>d. Drops /\ SameNames
    BY <2>1, SameDrops
  <2>3. Fixed
    BY <2>1, <2>d DEF Fixed, SameNames
  <2>2. \A n \in Ids : ~Took(u, n) /\ ~Passes(u, n) /\ ~Ends(t, u, n)
    BY <2>1 DEF Took, Passes, Ends, Owes, ListCur, ListWork
  <2>4. HandStep(t, u)
    BY <2>1, <2>2, PlainHands DEF ToSet
  <2>5. HistoryStep(t, u) /\ BlockStep(t, u)
    BY <2>1, <2>2, <2>d, QuietData
  <2>6. CallCourse(t, u)
    BY <2>1, <1>f, <2>c, <2>m DEF CallCourse, CurLabels, BeforeQueue, DeleteLabels, Awaits, Leaving, FlushLabels
  <2>7. CleanupCourse(t, u)
    BY <2>1, <1>f DEF CleanupCourse, CleanupLabels, ListWork, BeforeQueue
  <2> QED
    BY <1>t, <1>u, <2>1, <2>3, <2>4, <2>5, <2>6, <2>7 DEF Step
<1>3. CASE ReleaseStart(p)
  <2>1. /\ Others(p) /\ t.pc = "idle" /\ u.pc = "stop" /\ Keeps(t, u)
        /\ clnt' = [clnt EXCEPT !.linked = FALSE]
        /\ UNCHANGED <<next, txn, txn_list, tx_q, net, hist>>
    BY <1>3, <1>t, <1>u, <1>f, GotoKeeps DEF ReleaseStart, At
  <2>k. u.txn = t.txn /\ u.ret = t.ret /\ u.cur = t.cur /\ u.work = t.work /\ u.rc = t.rc
    BY <2>1 DEF Keeps
  <2>c. /\ clnt'.accepting = clnt.accepting /\ clnt'.addr_valid = clnt.addr_valid /\ ~clnt'.linked
    BY <2>1, <1>f DEF Client
  <2>d. Drops /\ SameNames
    BY <2>1, SameDrops
  <2>3. Fixed
    BY <2>1, <2>d DEF Fixed, SameNames
  <2>2. \A n \in Ids : ~Took(u, n) /\ ~Passes(u, n) /\ ~Ends(t, u, n)
    BY <2>1 DEF Took, Passes, Ends, Owes, ListCur, ListWork
  <2>4. HandStep(t, u)
    BY <2>1, <2>2, PlainHands DEF ToSet
  <2>5. HistoryStep(t, u) /\ BlockStep(t, u)
    BY <2>1, <2>2, <2>d, QuietData
  <2>6. CallCourse(t, u)
    BY <2>1, <1>f, <2>k DEF CallCourse, CurLabels, BeforeQueue, DeleteLabels, Awaits, Leaving, FlushLabels
  <2>7. CleanupCourse(t, u)
    BY <2>1, <1>f, <2>c DEF CleanupCourse, CleanupLabels, ListWork, BeforeQueue
  <2> QED
    BY <1>t, <1>u, <2>1, <2>3, <2>4, <2>5, <2>6, <2>7 DEF Step
<1>4. CASE WaitTimeout(p)
  <2>1. /\ Others(p) /\ t.pc = "wait" /\ u.pc = "inval" /\ u.rc = "timeout" /\ u.txn = t.txn /\ t.txn \in Ids
        /\ SyncTxn(t) /\ txn' = [txn EXCEPT ![t.txn].sig = FALSE]
        /\ UNCHANGED <<next, txn_list, tx_q, clnt, net, hist>>
    BY <1>4, <1>t, <1>u, <1>f DEF WaitTimeout, At, Others, Thread, TxnOf, SyncLabels, Live
  <2>d. SameNames
    BY <2>1, <1>f DEF SameNames, Block
  <2>3. Fixed
    BY <2>1, <2>d DEF Fixed, SameNames
  <2>2. \A n \in Ids : ~Took(u, n) /\ ~Passes(u, n) /\ ~Ends(t, u, n)
    BY <2>1 DEF Took, Passes, Ends, Owes, ListCur, ListWork
  <2>4. HandStep(t, u)
    BY <2>1, <2>2, PlainHands DEF ToSet
  <2>h. HistoryStep(t, u)
    BY <2>1, <2>2 DEF HistoryStep
  <2>b. \A n \in Ids : /\ n # t.txn => txn'[n] = txn[n]
                     /\ txn'[n].rx_buf = txn[n].rx_buf /\ txn'[n].rc = txn[n].rc
    BY <2>1, <1>f DEF Block
  <2>5. HistoryStep(t, u) /\ BlockStep(t, u)
    BY <2>1, <2>2, <2>h, <2>b DEF BlockStep, Told
  <2>6. CallCourse(t, u)
    BY <2>1, <1>f DEF CallCourse, CurLabels, BeforeQueue, DeleteLabels, Awaits, Leaving, FlushLabels
  <2>7. CleanupCourse(t, u)
    BY <2>1, <1>f DEF CleanupCourse, CleanupLabels, ListWork, BeforeQueue
  <2> QED
    BY <1>t, <1>u, <2>1, <2>3, <2>4, <2>5, <2>6, <2>7 DEF Step
<1> QED
  BY <1>1, <1>2, <1>3, <1>4 DEF CallStart

(* The reader's up-calls do not start a deletion. *)
LEMMA ReaderOwns ==
  ASSUME CountInv, SafeInv, Recv \/ Resume \/ ServerGone \/ UpcallStep, Step(Reader)
  PROVE  th'[Reader].txn = NoTxn
<1>p. Reader \in Procs
  BY DEF Procs
<1>f. th \in [Procs -> Thread] /\ th[Reader].txn = NoTxn
  BY <1>p, ThreadFacts DEF SafeInv, OwnerInv
<1>1. CASE th[Reader].pc # "idle"
  BY <1>1, <1>f DEF Step, CallCourse
<1>2. CASE th[Reader].pc = "idle"
  <2>1. CASE Recv
    <3>1. \/ th' = th
          \/ \E l, n : th' = [th EXCEPT ![Reader].pc = l, ![Reader].cur = n]
      BY <2>1 DEF Recv
    <3>2. th'[Reader].txn = th[Reader].txn
      BY <1>p, <1>f, <3>1 DEF Thread
    <3> QED
      BY <1>f, <3>2
  <2>2. CASE Resume
    BY <1>p, <1>f, <2>2 DEF Resume, Thread
  <2>3. CASE ServerGone
    BY <1>p, <1>f, <2>3 DEF ServerGone, Thread
  <2>4. CASE ReaderExit
    BY <1>p, <1>f, <2>4 DEF ReaderExit, Goto, Thread
  <2>5. CASE Deliver \/ Mismatch \/ RecvDec
    BY <1>2, <2>5 DEF Deliver, Mismatch, RecvDec, At
  <2>6. CASE Flush(Reader)
    <3>1. th[Reader].pc \in FlushLabels
      BY <2>6 DEF Flush, Cleanup, FlushLabels, At, FlushStart, FlushDone, FlushSend, FlushDec,
                  FlushFind, FlushFail, FlushFailDec, DetachQueue, CleanQueue, DetachList,
                  CleanFail, CleanInvalidate, CleanDec
    <3> QED
      BY <1>2, <3>1 DEF FlushLabels
  <2> QED
    BY <2>1, <2>2, <2>3, <2>4, <2>5, <2>6 DEF UpcallStep
<1> QED
  BY <1>1, <1>2

(* What a step of the engine is. *)
LEMMA NextSteps ==
  ASSUME CountInv, SafeInv, DistinctTxns, Next
  PROVE  \/ \E p \in Procs : Step(p) /\ th'[Reader].txn = NoTxn
         \/ \E p \in Procs : GetTxn(p) /\ p # Reader
         \/ \E p \in Procs : UseAfterFree(p)
<1>1. ASSUME NEW p \in Threads, CallStart(p) \/ CallStep(p) \/ WaitTimeout(p), ~GetTxn(p)
      PROVE  p \in Procs /\ Step(p) /\ th'[Reader].txn = NoTxn
  <2>1. p \in Procs /\ Reader \in Procs /\ p # Reader
    BY <1>1, ReaderAssumption DEF Procs
  <2>2. Step(p)
    BY <1>1, <2>1, SendSteps, FlushSteps, DeleteSteps, ReleaseSteps, StartSteps DEF CallStep
  <2>3. th'[Reader] = th[Reader]
    BY <2>1, <2>2 DEF Step, Others
  <2> QED
    BY <2>1, <2>2, <2>3 DEF SafeInv, OwnerInv
<1>2. ASSUME Recv \/ Resume \/ ServerGone \/ UpcallStep
      PROVE  Reader \in Procs /\ Step(Reader) /\ th'[Reader].txn = NoTxn
  <2>1. Reader \in Procs
    BY DEF Procs
  <2>2. Step(Reader)
    BY <1>2, <2>1, UpcallSteps
  <2> QED
    BY <1>2, <2>1, <2>2, ReaderOwns
<1>3. ASSUME NEW p \in Threads PROVE p \in Procs /\ p # Reader
  BY ReaderAssumption DEF Procs
<1> QED
  BY <1>1, <1>2, <1>3 DEF Next
-----------------------------------------------------------------------------
(* What follows from such a step for the parts of the invariant.             *)

\* Whoever holds a reference holds an allocated block.
HeldAlive ==
  \A n \in Ids, q \in Procs :
    \/ n \in txn_list
    \/ Took(th[q], n)
    \/ th[q].txn = n /\ txn[n].kind = "sync" /\ th[q].pc \notin {"idle", "get_txn", "own"}
    => txn[n].ref > 0

(* It follows from the exact counts ... *)
LEMMA HeldLive == CountInv => HeldAlive
<1> SUFFICES ASSUME CountInv, NEW n \in Ids, NEW q \in Procs,
                    \/ n \in txn_list
                    \/ Took(th[q], n)
                    \/ /\ th[q].txn = n /\ txn[n].kind = "sync"
                       /\ th[q].pc \notin {"idle", "get_txn", "own"}
             PROVE  txn[n].ref > 0
  BY DEF HeldAlive
<1>0. WorkOf(th[q])
  BY DEF CountInv, ThreadInv
<1>1. n \in txn_list \/ HoldsOwn(q, n) \/ HoldsCur(q, n) \/ HoldsWork(q, n)
  BY <1>0 DEF Took, HoldsOwn, HoldsCur, HoldsWork, ListCur, ListWork, CurLabels, WorkOf
<1>2. Holders(n) # {}
  <2>1. Reader \in Procs
    BY DEF Procs
  <2> QED
    BY <1>1, <2>1 DEF Holders
<1>3. IsFiniteSet(Holders(n)) /\ txn[n].ref = Cardinality(Holders(n))
  BY HoldersFinite DEF CountInv, RefCountExact
<1> QED
  BY <1>2, <1>3, FS_EmptySet, FS_CardinalityType

(* ... and so it holds after a step. *)
LEMMA HeldLiveNext == CountInv' => HeldAlive'
  BY HeldLive, PTL

(* A step of one thread, seen from a transaction: who owes it, whether it was *)
(* sent, and that a holder's block is allocated.                              *)
LEMMA StepFacts ==
  ASSUME CountInv, SafeInv, CountInv', NEW p \in Procs, Step(p), NEW n \in Ids
  PROVE  /\ Owed(n)' => Owed(n) /\ txn'[n].ref > 0
         /\ Owes(th[p], n) => Owed(n) /\ Took(th[p], n)
         /\ Took(th[p], n) /\ ~Owes(th'[p], n) => ~Owed(n)'
         /\ Ends(th[p], th'[p], n) => ~Owed(n)' /\ \A q \in Procs : ~Deleting(th'[q], n)
         /\ Owed(n) /\ ~Owed(n)' => \/ Ends(th[p], th'[p], n)
                                    \/ th[p].txn = n /\ th[p].pc \in {"del_l", "remove"}
         /\ Sent(n)' => Sent(n) \/ (th[p].pc = "enq" /\ th'[p].pc = "flush" /\ th[p].txn = n)
         /\ \A q \in Procs : /\ th'[q].txn = n /\ txn[n].kind = "sync"
                             /\ th'[q].pc \notin {"idle", "get_txn", "own"}
                             => txn'[n].ref > 0
<1>t. PICK t : t = th[p]
  OBVIOUS
<1>u. PICK u : u = th'[p]
  OBVIOUS
<1>s. /\ \A q \in Procs : q # p => th'[q] = th[q]
      /\ txn_list' \subseteq txn_list /\ txn'[n].kind = txn[n].kind
      /\ HandStep(t, u)
  BY <1>t, <1>u DEF Step, Others, Fixed
<1>h. /\ Took(u, n) => Took(t, n) \/ Gone(n)
      /\ Owes(u, n) => Owes(t, n) \/ Gone(n)
      /\ Deleting(u, n) => Deleting(t, n) \/ Gone(n)
      /\ Gone(n) => \/ Owes(u, n)
                    \/ t.pc \in {"del_l", "remove"} /\ t.txn = n
      /\ n \in ToSet(tx_q)' \/ n \in net'.wire \/ Passes(u, n) =>
           \/ n \in ToSet(tx_q) \/ n \in net.wire \/ Passes(t, n)
           \/ t.pc = "enq" /\ u.pc = "flush" /\ t.txn = n
  BY <1>s DEF HandStep
<1>k. \A q \in Procs : Took(th[q], n) => n \notin txn_list /\ \A r \in Procs : Took(th[r], n) => q = r
  BY DEF SafeInv, TookInv
<1>o. \A q \in Procs : /\ Owes(th[q], n) => Took(th[q], n)
                       /\ Deleting(th[q], n) => Took(th[q], n)
                       /\ ~(Deleting(th[q], n) /\ Owes(th[q], n))
  BY DEF Owes, Took, Deleting, ListCur, ListWork
<1>l. Owed(n)' <=> (n \in txn_list' \/ \E q \in Procs : Owes(th'[q], n))
  BY DEF Owed
<1>1. Owed(n)' => Owed(n)
  BY <1>l, <1>t, <1>u, <1>s, <1>h DEF Owed, Gone
<1>2. Owed(n)' => txn'[n].ref > 0
  <2>1. HeldAlive'
    BY HeldLiveNext
  <2>2. \A q \in Procs : Owes(th'[q], n) => Took(th'[q], n)
    BY DEF Owes, Took, ListCur, ListWork
  <2> QED
    BY <1>l, <2>1, <2>2 DEF HeldAlive
<1>3. Took(t, n) /\ ~Owes(u, n) => ~Owed(n)'
  BY <1>l, <1>t, <1>u, <1>s, <1>k, <1>o
<1>4. Owes(t, n) => Owed(n) /\ Took(t, n)
  BY <1>t, <1>o DEF Owed
<1>5. Ends(t, u, n) => ~Owed(n)' /\ \A q \in Procs : ~Deleting(th'[q], n)
  <2>1. SUFFICES ASSUME Ends(t, u, n) PROVE ~Owed(n)' /\ \A q \in Procs : ~Deleting(th'[q], n)
    OBVIOUS
  <2>2. Took(t, n) /\ Owes(t, n) /\ ~Owes(u, n) /\ n \notin txn_list
    BY <1>t, <1>4, <1>k, <2>1 DEF Ends
  <2>3. ASSUME NEW q \in Procs PROVE ~Deleting(th'[q], n)
    BY <1>t, <1>u, <1>s, <1>h, <1>k, <1>o, <2>2, <2>3 DEF Gone
  <2> QED
    BY <1>3, <2>2, <2>3
<1>6. Owed(n) /\ ~Owed(n)' => Ends(t, u, n) \/ (t.txn = n /\ t.pc \in {"del_l", "remove"})
  BY <1>l, <1>t, <1>u, <1>s, <1>h DEF Owed, Gone, Ends
<1>7. Sent(n)' => Sent(n) \/ (t.pc = "enq" /\ u.pc = "flush" /\ t.txn = n)
  <2>1. Sent(n)' <=> (n \in ToSet(tx_q)' \/ n \in net'.wire \/ \E q \in Procs : Passes(th'[q], n))
    BY DEF Sent
  <2> QED
    BY <2>1, <1>t, <1>u, <1>s, <1>h DEF Sent
<1>8. ASSUME NEW q \in Procs, th'[q].txn = n, txn[n].kind = "sync",
             th'[q].pc \notin {"idle", "get_txn", "own"}
      PROVE  txn'[n].ref > 0
  BY <1>s, <1>8, HeldLiveNext DEF HeldAlive
<1> QED
  BY <1>t, <1>u, <1>1, <1>2, <1>3, <1>4, <1>5, <1>6, <1>7, <1>8

(* Addresses. *)
LEMMA AddrNext ==
  ASSUME CountInv, SafeInv, CountInv', NEW p \in Procs, Step(p)
  PROVE  AddrInv'
<1>s. /\ \A q \in Procs : q # p => th'[q] = th[q]
      /\ next' = next /\ \A n \in Ids : txn'[n].addr = txn[n].addr
      /\ th'[p].pc \in CurLabels \cup {"find"} => th'[p].cur \in Ids
  BY DEF Step, Others, Fixed, CallCourse
<1>1. \A n \in Ids : n \in net'.wire => n \in net.wire \/ n \in ToSet(tx_q)
  BY DEF Step, HandStep
<1>2. net'.wire \subseteq Ids
  BY DEF CountInv, TypeOK, Network
<1>3. \A n \in net'.wire : n <= next'
  BY <1>s, <1>1, <1>2 DEF SafeInv, AddrInv, CountInv, AllocInv
<1>4. \A m, n \in Ids : m <= next' /\ n <= next' /\ txn'[m].addr = txn'[n].addr => m = n
  BY <1>s DEF SafeInv, AddrInv
<1>5. \A q \in Procs : th'[q].pc \in CurLabels \cup {"find"} => th'[q].cur \in Ids
  BY <1>s DEF SafeInv, AddrInv
<1> QED
  BY <1>3, <1>4, <1>5 DEF AddrInv

(* A transaction keeps its one caller. *)
LEMMA OwnerNext ==
  ASSUME CountInv, SafeInv, NEW p \in Procs, Step(p), th'[Reader].txn = NoTxn
  PROVE  OwnerInv'
<1>t. PICK t : t = th[p]
  OBVIOUS
<1>u. PICK u : u = th'[p]
  OBVIOUS
<1>s. /\ \A q \in Procs : q # p => th'[q] = th[q]
      /\ next' = next /\ \A n \in Ids : txn'[n].kind = txn[n].kind
      /\ HistoryStep(t, u) /\ CallCourse(t, u)
  BY <1>t, <1>u DEF Step, Others, Fixed
<1>c. \/ u.txn \in {t.txn, NoTxn}
      \/ /\ t.txn = NoTxn /\ u.pc = "del_q" /\ u.txn \in Ids
         /\ hist[u.txn].api = "sent" /\ hist[u.txn].del = "no"
         /\ \A q \in Procs : th[q].txn # u.txn
  BY <1>s DEF CallCourse
<1>f. \A q \in Procs : th[q].txn # NoTxn => th[q].txn \in Ids
  BY DEF CountInv, TypeOK, Thread
<1>k. OwnerInv
  BY DEF SafeInv
<1>h. \A n \in Ids :
        /\ hist'[n].del # hist[n].del => t.txn = n /\ u.txn = NoTxn /\ t.pc \in DeleteLabels
        /\ hist'[n].api # hist[n].api => 
             /\ t.txn = n /\ u.txn = NoTxn
             /\ \/ t.pc = "sent" /\ hist'[n].api = "sent"
                \/ t.pc = "remove" /\ hist'[n].api = "refused"
                \/ t.pc = "dec_own" /\ hist'[n].api \in {"ok", "timeout", "error"}
  BY <1>s DEF HistoryStep
<1>n. NoTxn \notin Ids
  BY BoundAssumption DEF Ids, NoTxn
<1>2. \A q, r \in Procs : th'[q].txn # NoTxn /\ th'[q].txn = th'[r].txn => q = r
  BY <1>t, <1>u, <1>s, <1>c, <1>k DEF OwnerInv
<1>3. ASSUME NEW q \in Procs, th'[q].txn # NoTxn
      PROVE  IF th'[q].pc \in DeleteLabels
             THEN hist'[th'[q].txn].api = "sent" /\ hist'[th'[q].txn].del = "no"
             ELSE hist'[th'[q].txn].api = "calling"
  <2>1. CASE q # p
    <3>1. th'[q] = th[q] /\ th[q].txn \in Ids /\ t.txn # th[q].txn
      BY <1>t, <1>s, <1>f, <1>k, <1>3, <2>1 DEF OwnerInv
    <3>2. hist'[th[q].txn].api = hist[th[q].txn].api /\ hist'[th[q].txn].del = hist[th[q].txn].del
      BY <1>h, <3>1
    <3> QED
      BY <1>k, <1>3, <3>1, <3>2 DEF OwnerInv
  <2>2. CASE q = p
    <3>1. u.txn \in Ids /\ u.txn # NoTxn
      BY <1>t, <1>u, <1>f, <1>c, <1>3, <2>2
    <3>2. hist'[u.txn].api = hist[u.txn].api /\ hist'[u.txn].del = hist[u.txn].del
      BY <1>h, <3>1
    <3>3. CASE u.txn = t.txn
      <4>1. u.pc \in DeleteLabels <=> t.pc \in DeleteLabels
        BY <1>s, <3>1, <3>3 DEF CallCourse
      <4> QED
        BY <1>t, <1>u, <1>k, <2>2, <3>1, <3>2, <3>3, <4>1 DEF OwnerInv
    <3>4. CASE u.txn # t.txn
      BY <1>u, <1>c, <2>2, <3>1, <3>2, <3>4 DEF DeleteLabels
    <3> QED
      BY <3>3, <3>4
  <2> QED
    BY <2>1, <2>2
<1>4. \A q \in Procs : th'[q].pc \in {"del_inv", "del_dec"} => th'[q].cur = th'[q].txn
  BY <1>u, <1>s, <1>k DEF OwnerInv, CallCourse
<1>5. ASSUME NEW n \in Ids, n > next'
      PROVE  hist'[n] = [api |-> "none", del |-> "no", cb |-> 0, wr |-> 0]
  <2>1. t.txn <= next /\ t.cur <= next /\ \A m \in t.work : m <= next
    BY <1>t DEF CountInv, AllocInv
  <2>2. next \in Int /\ n \in Int
    BY BoundAssumption DEF CountInv, TypeOK, Ids
  <2>3. ~Owes(t, n) /\ t.txn # n
    BY <1>5, <1>s, <2>1, <2>2 DEF Owes
  <2>4. hist'[n] = hist[n]
    BY <1>s, <2>3 DEF HistoryStep, Ends
  <2> QED
    BY <1>5, <1>s, <1>k, <2>4 DEF OwnerInv
<1>6. ASSUME NEW n \in Ids, hist'[n].api = "none" PROVE n > next'
  BY <1>6, <1>h, <1>s, <1>k DEF OwnerInv
<1>7. ASSUME NEW n \in Ids, hist'[n].del # "no" PROVE hist'[n].api = "sent"
  <2>1. hist[n].api = "sent"
    <3>1. CASE hist'[n].del = hist[n].del
      BY <1>7, <1>k, <3>1 DEF OwnerInv
    <3>2. CASE hist'[n].del # hist[n].del
      <4>1. t.txn = n /\ t.pc \in DeleteLabels /\ t.txn # NoTxn
        BY <1>h, <1>n, <3>2
      <4> QED
        BY <1>t, <1>k, <4>1 DEF OwnerInv
    <3> QED
      BY <3>1, <3>2
  <2>2. CASE hist'[n].api = hist[n].api
    BY <2>1, <2>2
  <2>3. CASE hist'[n].api # hist[n].api
    <3>1. t.txn = n /\ t.txn # NoTxn /\ t.pc \notin DeleteLabels
      BY <1>h, <1>n, <2>3 DEF DeleteLabels
    <3> QED
      BY <1>t, <1>k, <2>1, <3>1 DEF OwnerInv
  <2> QED
    BY <2>2, <2>3
<1>8. ASSUME NEW n \in Ids, hist'[n].api \in {"ok", "error", "timeout"} PROVE txn'[n].kind = "sync"
  <2>1. CASE hist'[n].api = hist[n].api
    BY <1>8, <1>s, <1>k, <2>1 DEF OwnerInv
  <2>2. CASE hist'[n].api # hist[n].api
    <3>1. t.txn = n /\ t.pc = "dec_own"
      BY <1>8, <1>h, <2>2
    <3>2. txn[n].kind = "sync"
      BY <1>t, <3>1 DEF CountInv, ThreadInv, TxnOf, SyncLabels, SyncTxn
    <3> QED
      BY <1>s, <3>2
  <2> QED
    BY <2>1, <2>2
<1> QED
  BY <1>2, <1>3, <1>4, <1>5, <1>6, <1>7, <1>8 DEF OwnerInv

(* A transaction is still taken off the list once. *)
LEMMA TookNext ==
  ASSUME CountInv, SafeInv, NEW p \in Procs, Step(p)
  PROVE  TookInv'
<1>s. /\ \A q \in Procs : q # p => th'[q] = th[q]
      /\ txn_list' \subseteq txn_list
      /\ \A n \in Ids : Took(th'[p], n) => Took(th[p], n) \/ Gone(n)
  BY DEF Step, Others, Fixed, HandStep
<1>k. \A q \in Procs, n \in Ids : Took(th[q], n) =>
        n \notin txn_list /\ \A r \in Procs : Took(th[r], n) => q = r
  BY DEF SafeInv, TookInv
<1>1. ASSUME NEW q \in Procs, NEW n \in Ids, Took(th'[q], n)
      PROVE  n \notin txn_list' /\ \A r \in Procs : Took(th'[r], n) => q = r
  <2>1. CASE Gone(n)
    <3>1. \A r \in Procs : ~Took(th[r], n)
      BY <1>k, <2>1 DEF Gone
    <3> QED
      BY <1>1, <1>s, <2>1, <3>1 DEF Gone
  <2>2. CASE ~Gone(n)
    <3>1. \A r \in Procs : Took(th'[r], n) => Took(th[r], n)
      BY <1>s, <2>2
    <3> QED
      BY <1>1, <1>s, <1>k, <3>1
  <2> QED
    BY <2>1, <2>2
<1> QED
  BY <1>1 DEF TookInv

(* What is owed has not ended, and what ends does so once. *)
LEMMA OpenNext ==
  ASSUME CountInv, SafeInv, CountInv', NEW p \in Procs, Step(p)
  PROVE  OpenInv'
<1> SUFFICES ASSUME NEW n \in Ids
    PROVE  /\ hist'[n].wr \in {0, 1}
           /\ Owed(n)' \/ (\E q \in Procs : Deleting(th'[q], n)) =>
                hist'[n].wr = 0 /\ hist'[n].cb = 0 /\ hist'[n].del # "ok"
  BY DEF OpenInv
<1>t. PICK t : t = th[p]
  OBVIOUS
<1>u. PICK u : u = th'[p]
  OBVIOUS
<1>s. /\ \A q \in Procs : q # p => th'[q] = th[q]
      /\ HistoryStep(t, u) /\ HandStep(t, u) /\ CallCourse(t, u)
  BY <1>t, <1>u DEF Step, Others
<1>h. /\ hist'[n].wr # hist[n].wr => Ends(t, u, n) /\ hist'[n].wr = hist[n].wr + 1
      /\ hist'[n].cb # hist[n].cb => Ends(t, u, n)
      /\ hist'[n].del # hist[n].del => /\ t.txn = n /\ u.txn = NoTxn
                                       /\ hist'[n].del = "ok" => t.pc = "del_dec"
      /\ Deleting(u, n) => Deleting(t, n) \/ Gone(n)
      /\ Took(u, n) => Took(t, n) \/ Gone(n)
      /\ Owes(u, n) => Owes(t, n) \/ Gone(n)
  BY <1>s DEF HistoryStep, HandStep
<1>o. /\ hist[n].wr \in {0, 1}
      /\ Owed(n) \/ (\E q \in Procs : Deleting(th[q], n)) =>
           hist[n].wr = 0 /\ hist[n].cb = 0 /\ hist[n].del # "ok"
  BY DEF SafeInv, OpenInv
<1>b. /\ Owed(n)' => Owed(n)
      /\ Owes(t, n) => Owed(n)
      /\ Ends(t, u, n) => ~Owed(n)' /\ \A q \in Procs : ~Deleting(th'[q], n)
  BY <1>t, <1>u, StepFacts
<1>1. hist'[n].wr \in {0, 1}
  BY <1>h, <1>o, <1>b DEF Ends
<1>2. ASSUME Owed(n)' \/ \E q \in Procs : Deleting(th'[q], n)
      PROVE  hist'[n].wr = 0 /\ hist'[n].cb = 0 /\ hist'[n].del # "ok"
  <2>1. Owed(n) \/ \E q \in Procs : Deleting(th[q], n)
    BY <1>2, <1>t, <1>u, <1>s, <1>h, <1>b DEF Gone, Owed
  <2>2. hist'[n].wr = hist[n].wr /\ hist'[n].cb = hist[n].cb
    BY <1>2, <1>h, <1>b
  <2>3. CASE hist'[n].del = hist[n].del
    BY <1>o, <2>1, <2>2, <2>3
  <2>4. CASE hist'[n].del # hist[n].del /\ hist'[n].del = "ok"
    <3>1. t.txn = n /\ u.txn = NoTxn /\ t.pc = "del_dec"
      BY <1>h, <2>4
    <3>2. t.cur = n
      BY <1>t, <3>1 DEF SafeInv, OwnerInv
    <3>3. Took(t, n) /\ ~Owes(t, n)
      BY <3>1, <3>2 DEF Took, Owes, ListCur, ListWork
    <3>4. n \notin txn_list /\ \A q \in Procs : Took(th[q], n) => q = p
      BY <1>t, <3>3 DEF SafeInv, TookInv
    <3>5. ~Owes(u, n)
      BY <1>h, <3>3, <3>4 DEF Gone
    <3>6. ~Owed(n)'
      BY <1>t, <1>u, <3>3, <3>5, StepFacts
    <3>7. PICK q \in Procs : Deleting(th'[q], n)
      BY <1>2, <3>6
    <3>8. q = p
      BY <1>s, <3>4, <3>7 DEF Deleting, Took, ListCur
    <3>9. u.cur = u.txn /\ n # NoTxn
      BY <1>u, <1>s, <3>7, <3>8, BoundAssumption DEF CallCourse, Deleting, Ids, NoTxn
    <3> QED
      BY <1>u, <3>1, <3>7, <3>8, <3>9 DEF Deleting
  <2> QED
    BY <1>o, <2>1, <2>2, <2>3, <2>4
<1> QED
  BY <1>1, <1>2

(* What has not reached the transmit queue is not answered. *)
LEMMA SetupNext ==
  ASSUME CountInv, SafeInv, CountInv', NEW p \in Procs, Step(p)
  PROVE  SetupInv'
<1>t. PICK t : t = th[p]
  OBVIOUS
<1>u. PICK u : u = th'[p]
  OBVIOUS
<1>s. /\ \A q \in Procs : q # p => th'[q] = th[q]
      /\ txn_list' \subseteq txn_list
      /\ \A n \in Ids : txn'[n].kind = txn[n].kind
      /\ HistoryStep(t, u) /\ HandStep(t, u) /\ CallCourse(t, u) /\ CleanupCourse(t, u)
  BY <1>t, <1>u DEF Step, Others, Fixed
<1>i. SetupInv /\ OwnerInv
  BY DEF SafeInv
<1>n. NoTxn \notin Ids
  BY BoundAssumption DEF Ids, NoTxn
<1>b. \A n \in Ids : Sent(n)' => Sent(n) \/ (t.pc = "enq" /\ u.pc = "flush" /\ t.txn = n)
  BY <1>t, <1>u, StepFacts
<1>w. \A n \in Ids : hist'[n].wr # hist[n].wr => Sent(n) /\ t.pc = "deliver"
  BY <1>t, <1>s DEF HistoryStep, Sent, Passes
<1>x. \A q \in Procs : Unsent(th[q]) => th[q].txn \in Ids
  BY DEF CountInv, ThreadInv, TxnOf, Unsent, BeforeQueue, SyncLabels, EitherLabels, SyncTxn
<1>y. Unsent(u)' => u.txn = t.txn /\ Unsent(t) /\ u.pc # "flush" /\ t.pc # "deliver"
  <2>1. ASSUME Unsent(u)' PROVE u.txn = t.txn /\ t.pc \in BeforeQueue
    <3>1. u.pc \in BeforeQueue \/ (u.pc = "remove" /\ u.txn \in Ids /\ txn'[u.txn].kind = "async")
      BY <2>1 DEF Unsent, AsyncTxn
    <3>2. CASE u.pc \in BeforeQueue
      BY <1>s, <3>2 DEF CallCourse
    <3>3. CASE u.pc = "remove" /\ u.txn \in Ids /\ txn[u.txn].kind = "async"
      BY <1>s, <3>3 DEF CallCourse, SyncTxn
    <3> QED
      BY <1>s, <3>1, <3>2, <3>3
  <2> QED
    BY <2>1 DEF Unsent, BeforeQueue
<1>1. ASSUME NEW q \in Procs, Unsent(th[q])' PROVE ~Sent(th[q].txn)' /\ hist'[th'[q].txn].wr = 0
  <2>1. PICK n : n = th'[q].txn
    OBVIOUS
  <2>2. Unsent(th[q]) /\ th[q].txn = n /\ ~(t.pc = "enq" /\ u.pc = "flush" /\ t.txn = n)
    <3>1. CASE q = p
      <4>1. Unsent(u)'
        BY <1>1, <1>u, <3>1 DEF Unsent, AsyncTxn
      <4> QED
        BY <1>t, <1>u, <1>y, <2>1, <3>1, <4>1
    <3>2. CASE q # p
      <4>1. th'[q] = th[q]
        BY <1>s, <3>2
      <4>2. Unsent(th[q])
        BY <1>1, <1>s, <4>1 DEF Unsent, AsyncTxn
      <4>3. t.txn # n
        BY <1>t, <1>i, <1>x, <1>n, <2>1, <3>2, <4>1, <4>2 DEF OwnerInv
      <4> QED
        BY <2>1, <4>1, <4>2, <4>3
    <3> QED
      BY <3>1, <3>2
  <2>3. n \in Ids /\ ~Sent(n) /\ hist[n].wr = 0
    BY <1>i, <1>x, <2>2 DEF SetupInv
  <2>4. ~Sent(n)' /\ hist'[n].wr = 0
    BY <1>b, <1>w, <2>2, <2>3
  <2> QED
    BY <2>1, <2>4
<1>2. ASSUME NEW q \in Procs, th'[q].pc \in BeforeQueue
      PROVE  th'[q].txn \in txn_list' \/ ~clnt'.addr_valid \/ ~clnt'.accepting
  <2>1. th[q].pc \in BeforeQueue /\ th'[q].txn = th[q].txn
    BY <1>2, <1>t, <1>u, <1>s DEF CallCourse
  <2>2. th[q].txn \in txn_list \/ ~clnt.addr_valid \/ ~clnt.accepting
    BY <1>i, <2>1 DEF SetupInv
  <2>3. (clnt'.addr_valid => clnt.addr_valid) /\ (clnt'.accepting => clnt.accepting)
    BY <1>s DEF CleanupCourse
  <2>4. ASSUME Gone(th[q].txn) PROVE ~clnt'.addr_valid \/ ~clnt'.accepting
    <3>0. PICK n \in Ids : n = th[q].txn /\ ~Sent(n)
      BY <1>i, <1>x, <2>1 DEF SetupInv, Unsent
    <3>1. \/ t.pc = "find" /\ t.cur = n
          \/ t.pc = "detach_l"
          \/ t.pc = "idle" /\ n \in net.wire
          \/ t.pc \in {"del_l", "remove"} /\ t.txn = n
      BY <1>s, <2>4, <3>0 DEF HandStep
    <3>2. t.pc \in {"del_l", "remove"} => t.txn # n
      BY <1>t, <1>i, <1>n, <2>1, <3>0 DEF OwnerInv, BeforeQueue
    <3>3. t.pc = "detach_l"
      BY <1>t, <3>0, <3>1, <3>2 DEF Sent, Passes
    <3> QED
      BY <1>t, <2>3, <3>3 DEF SafeInv, CleanupInv, CleanupLabels
  <2> QED
    BY <2>1, <2>2, <2>3, <2>4 DEF Gone
<1>3. \A q \in Procs : th'[q].pc = "dec_enq" => th'[q].rc = "internal"
  BY <1>u, <1>s, <1>i DEF CallCourse, SetupInv
<1>4. ASSUME NEW n \in Ids, hist'[n].api = "refused" PROVE ~Sent(n)'
  <2>1. ~Sent(n)
    <3>1. CASE hist[n].api = "refused"
      BY <1>i, <3>1 DEF SetupInv
    <3>2. CASE hist[n].api # "refused"
      <4>1. t.txn = n /\ t.pc = "remove" /\ txn[n].kind = "async"
        BY <1>4, <1>s, <3>2 DEF HistoryStep
      <4>2. Unsent(t)
        BY <4>1 DEF Unsent, AsyncTxn
      <4> QED
        BY <1>t, <1>i, <4>1, <4>2 DEF SetupInv
    <3> QED
      BY <3>1, <3>2
  <2>2. ~(t.pc = "enq" /\ t.txn = n)
    <3>1. SUFFICES ASSUME t.pc = "enq", t.txn = n PROVE FALSE
      OBVIOUS
    <3>2. hist[n].api = "calling"
      BY <1>t, <1>i, <1>n, <3>1 DEF OwnerInv, DeleteLabels
    <3>3. hist'[n].api # hist[n].api => t.pc # "enq"
      BY <1>s DEF HistoryStep
    <3> QED
      BY <1>4, <3>1, <3>2, <3>3
  <2> QED
    BY <1>b, <2>1, <2>2
<1> QED
  BY <1>1, <1>2, <1>3, <1>4 DEF SetupInv

(* A cleanup is still one for a server that is gone or a client being released. *)
LEMMA CleanupNext ==
  ASSUME SafeInv, NEW p \in Procs, Step(p)
  PROVE  CleanupInv'
  BY DEF SafeInv, CleanupInv, Step, Others, CleanupCourse

(* The buffers. *)
LEMMA BufferNext ==
  ASSUME CountInv, SafeInv, CountInv', NEW p \in Procs, Step(p)
  PROVE  BufferInv'
<1>t. PICK t : t = th[p]
  OBVIOUS
<1>u. PICK u : u = th'[p]
  OBVIOUS
<1>s. /\ \A q \in Procs : q # p => th'[q] = th[q]
      /\ \A n \in Ids : txn'[n].kind = txn[n].kind
      /\ HistoryStep(t, u) /\ BlockStep(t, u) /\ CallCourse(t, u)
  BY <1>t, <1>u DEF Step, Others, Fixed
<1>i. BufferInv /\ OwnerInv
  BY DEF SafeInv
<1>n. NoTxn \notin Ids
  BY BoundAssumption DEF Ids, NoTxn
<1>y. TxnOf(t)
  BY <1>t DEF CountInv, ThreadInv
<1>b. \A n \in Ids : /\ Owed(n)' => Owed(n) /\ txn'[n].ref > 0
                     /\ Took(t, n) /\ ~Owes(u, n) => ~Owed(n)'
  BY <1>t, <1>u, StepFacts
<1>1. ASSUME NEW n \in Ids, Owed(n)', ~txn'[n].rx_buf
      PROVE  txn'[n].kind = "sync" /\ \A q \in Procs : th'[q].txn = n => Leaving(th'[q])
  <2>1. CASE ~txn[n].rx_buf
    <3>1. txn[n].kind = "sync" /\ \A q \in Procs : th[q].txn = n => Leaving(th[q])
      BY <1>1, <1>b, <1>i, <2>1 DEF BufferInv
    <3>2. ASSUME u.txn = n PROVE Leaving(u)
      <4>1. hist[n].api # "sent"
        BY <3>1 DEF CountInv, AllocInv
      <4>2. t.txn = n
        BY <1>s, <1>n, <3>2, <4>1 DEF CallCourse
      <4> QED
        BY <1>t, <1>s, <1>n, <3>1, <3>2, <4>2 DEF CallCourse
    <3> QED
      BY <1>t, <1>u, <1>s, <3>1, <3>2
  <2>2. CASE txn[n].rx_buf
    <3>1. t.pc = "inval" /\ u.pc = "remove" /\ t.txn = n
      <4>1. \/ txn'[n].ref = 0
            \/ t.pc = "inval" /\ u.pc = "remove" /\ t.txn = n
            \/ Took(t, n) /\ ~Owes(u, n)
        BY <1>1, <1>s, <2>2 DEF BlockStep
      <4> QED
        BY <1>1, <1>b, <4>1
    <3>2. txn[n].kind = "sync"
      BY <1>y, <3>1 DEF TxnOf, SyncLabels, SyncTxn
    <3>3. \A q \in Procs : q # p => th'[q].txn # n
      BY <1>t, <1>s, <1>i, <1>n, <3>1 DEF OwnerInv
    <3>4. Leaving(u)
      BY <3>1 DEF Leaving
    <3> QED
      BY <1>u, <1>s, <3>2, <3>3, <3>4
  <2> QED
    BY <2>1, <2>2
<1>2. ASSUME NEW q \in Procs, Leaving(th'[q]), th'[q].txn \in Ids, txn'[th'[q].txn].kind = "sync"
      PROVE  ~txn'[th'[q].txn].rx_buf
  <2>1. CASE q # p
    <3>1. ~txn[th[q].txn].rx_buf
      BY <1>2, <1>s, <1>i, <2>1 DEF BufferInv, SyncTxn
    <3> QED
      BY <1>2, <1>s, <2>1, <3>1 DEF BlockStep
  <2>2. CASE q = p /\ u.pc = "remove"
    BY <1>2, <1>u, <1>s, <2>2 DEF CallCourse, AsyncTxn
  <2>3. CASE q = p /\ u.pc = "dec_own"
    <3>1. t.pc = "remove" /\ u.txn = t.txn /\ SyncTxn(t)
      BY <1>s, <2>3 DEF CallCourse
    <3>2. ~txn[t.txn].rx_buf
      BY <1>t, <1>i, <3>1 DEF BufferInv, Leaving
    <3> QED
      BY <1>2, <1>u, <1>s, <2>3, <3>1, <3>2 DEF BlockStep
  <2> QED
    BY <1>2, <1>u, <2>1, <2>2, <2>3 DEF Leaving
<1>3. ASSUME NEW n \in Ids, txn'[n].kind = "sync", txn'[n].rx_buf PROVE hist'[n].api = "calling"
  <2>1. txn[n].kind = "sync" /\ txn[n].rx_buf
    BY <1>3, <1>s DEF BlockStep
  <2>2. hist[n].api = "calling"
    BY <1>i, <2>1 DEF BufferInv
  <2>3. CASE hist'[n].api # hist[n].api
    <3>1. t.txn = n /\ t.pc \in {"sent", "dec_own"}
      BY <1>s, <2>1, <2>3 DEF HistoryStep
    <3>2. t.pc = "dec_own" /\ SyncTxn(t)
      BY <1>y, <2>1, <3>1 DEF TxnOf, AsyncLabels, AsyncTxn, SyncTxn
    <3> QED
      BY <1>t, <1>i, <2>1, <3>1, <3>2 DEF BufferInv, Leaving
  <2> QED
    BY <2>2, <2>3
<1> QED
  BY <1>1, <1>2, <1>3 DEF BufferInv, SyncTxn

(* The outcome of a call that is under way does not get lost. *)
LEMMA StaysTold ==
  ASSUME CountInv, SafeInv, CountInv', NEW p \in Procs, Step(p), NEW n \in Ids, NEW q \in Procs,
         th[q].txn = n, th'[q].txn = n, txn[n].kind = "sync", ~Leaving(th[q]),
         th'[q].pc \notin {"idle", "get_txn", "own"},
         th[p].txn = n => th[p].pc \notin {"clear", "set_rc", "del_l", "remove"},
         th[p].txn = n /\ th[p].pc = "woken" => txn[n].rc = "timeout",
         th[p].txn = n /\ th[p].pc = "wait" => th'[p].pc # "inval",
         Told(n) \/ Owed(n)
  PROVE  Told(n)' \/ Owed(n)'
<1>t. PICK t : t = th[p]
  OBVIOUS
<1>u. PICK u : u = th'[p]
  OBVIOUS
<1>s. BlockStep(t, u)
  BY <1>t, <1>u DEF Step
<1>b. /\ txn'[n].ref # 0
      /\ Ends(t, u, n) => ~Owed(n)'
      /\ Owed(n) /\ ~Owed(n)' => Ends(t, u, n) \/ (t.txn = n /\ t.pc \in {"del_l", "remove"})
  BY <1>t, <1>u, StepFacts
<1>1. CASE Told(n)
  BY <1>1, <1>t, <1>u, <1>s, <1>b DEF BlockStep, Told
<1>2. CASE Owed(n) /\ ~Owed(n)'
  <2>1. Ends(t, u, n)
    BY <1>2, <1>t, <1>b
  <2>2. txn[n].rx_buf
    BY <1>2 DEF SafeInv, BufferInv
  <2> QED
    BY <1>s, <2>1, <2>2 DEF BlockStep
<1> QED
  BY <1>1, <1>2

(* No waiter is forgotten. *)
LEMMA WaitNext ==
  ASSUME CountInv, SafeInv, CountInv', NEW p \in Procs, Step(p)
  PROVE  WaitInv'
<1>t. PICK t : t = th[p]
  OBVIOUS
<1>u. PICK u : u = th'[p]
  OBVIOUS
<1>s. /\ \A q \in Procs : q # p => th'[q] = th[q]
      /\ \A n \in Ids : txn'[n].kind = txn[n].kind
      /\ CallCourse(t, u) /\ CleanupCourse(t, u)
  BY <1>t, <1>u DEF Step, Others, Fixed
<1>i. WaitInv /\ OwnerInv /\ SetupInv
  BY DEF SafeInv
<1>n. NoTxn \notin Ids
  BY BoundAssumption DEF Ids, NoTxn
<1>y. \A q \in Procs : Awaits(th[q]) => SyncTxn(th[q])
  BY DEF CountInv, ThreadInv, TxnOf, Awaits, SyncLabels, FlushLabels
<1>w. \A v : /\ Awaits(v) => v.pc \notin {"idle", "get_txn", "own", "remove", "dec_own", "inval"}
             /\ Awaits(v) => v.pc \notin {"clear", "set_rc", "del_l", "inc", "enq"}
  BY DEF Awaits, FlushLabels
<1>o. \A q \in Procs : q # p /\ th[q].txn \in Ids => t.txn # th[q].txn
  BY <1>t, <1>i, <1>n DEF OwnerInv
<1>1. ASSUME NEW q \in Procs, Awaits(th'[q]) PROVE Told(th[q].txn)' \/ Owed(th[q].txn)'
  <2>1. CASE q # p
    <3>1. th'[q] = th[q] /\ SyncTxn(th[q]) /\ Awaits(th[q])
      BY <1>1, <1>s, <1>y, <2>1
    <3>2. PICK n \in Ids : n = th[q].txn /\ n = th'[q].txn /\ txn[n].kind = "sync" /\ t.txn # n
      BY <1>o, <2>1, <3>1 DEF SyncTxn
    <3>3. Told(n) \/ Owed(n)
      BY <1>i, <3>1, <3>2 DEF WaitInv
    <3>4. ~Leaving(th[q]) /\ th'[q].pc \notin {"idle", "get_txn", "own"}
      BY <1>w, <3>1 DEF Leaving
    <3>5. Told(n)' \/ Owed(n)'
      BY <1>t, <3>2, <3>3, <3>4, StaysTold
    <3> QED
      BY <3>2, <3>5
  <2>2. CASE q = p /\ Awaits(t)
    <3>1. SyncTxn(t) /\ u.txn = t.txn /\ (t.pc = "woken" => txn[t.txn].rc = "timeout") /\ Awaits(u)
      BY <1>1, <1>t, <1>u, <1>s, <1>y, <1>w, <2>2 DEF CallCourse
    <3>2. PICK n \in Ids : n = th[q].txn /\ n = th'[q].txn /\ txn[n].kind = "sync"
      BY <1>t, <1>u, <2>2, <3>1 DEF SyncTxn
    <3>3. Told(n) \/ Owed(n)
      BY <1>t, <1>i, <2>2, <3>2 DEF WaitInv
    <3>4. /\ ~Leaving(th[q]) /\ th'[q].pc \notin {"idle", "get_txn", "own", "inval"}
          /\ th[q].pc \notin {"clear", "set_rc", "del_l", "remove"}
          /\ th[q].pc = "woken" => txn[n].rc = "timeout"
      BY <1>t, <1>u, <1>w, <2>2, <3>1, <3>2 DEF Leaving
    <3>5. Told(n)' \/ Owed(n)'
      BY <2>2, <3>2, <3>3, <3>4, StaysTold
    <3> QED
      BY <3>2, <3>5
  <2>3. CASE q = p /\ t.pc = "enq" /\ clnt.accepting /\ SyncTxn(t)
    <3>1. u.txn = t.txn /\ Awaits(u)
      BY <1>1, <1>u, <1>s, <2>3 DEF CallCourse
    <3>2. PICK n \in Ids : n = th[q].txn /\ n = th'[q].txn /\ txn[n].kind = "sync"
      BY <1>t, <1>u, <2>3, <3>1 DEF SyncTxn
    <3>3. Told(n) \/ Owed(n)
      BY <1>t, <1>i, <2>3, <3>2 DEF WaitInv
    <3>4. ~Leaving(th[q]) /\ th'[q].pc \notin {"idle", "get_txn", "own"}
      BY <1>t, <1>u, <1>w, <2>3, <3>1 DEF Leaving
    <3>5. Told(n)' \/ Owed(n)'
      BY <1>t, <2>3, <3>2, <3>3, <3>4, StaysTold
    <3> QED
      BY <3>2, <3>5
  <2> QED
    BY <1>1, <1>u, <1>s, <2>1, <2>2, <2>3 DEF CallCourse
<1>2. ASSUME NEW q \in Procs, th'[q].pc \in {"inc", "enq"}, SyncTxn(th[q])'
      PROVE  Told(th[q].txn)' \/ Owed(th[q].txn)' \/ ~clnt'.accepting
  <2>1. SUFFICES ASSUME clnt'.accepting PROVE Told(th[q].txn)' \/ Owed(th[q].txn)'
    OBVIOUS
  <2>2. clnt.accepting
    BY <1>s, <2>1 DEF CleanupCourse
  <2>3. PICK n \in Ids : n = th'[q].txn /\ txn[n].kind = "sync"
    BY <1>2, <1>s DEF SyncTxn
  <2>4. th[q].txn = n /\ (q # p => th'[q] = th[q]) /\ (q = p => t.pc \in {"check", "inc"})
    BY <1>2, <1>t, <1>u, <1>s, <2>3 DEF CallCourse, BeforeQueue
  <2>5. Told(n) \/ Owed(n)
    <3>1. CASE th[q].pc \in {"inc", "enq"}
      BY <1>i, <2>2, <2>3, <2>4, <3>1 DEF WaitInv, SyncTxn
    <3>2. CASE th[q].pc = "check"
      <4>1. clnt.addr_valid
        BY <1>2, <1>t, <1>u, <1>s, <2>4, <3>2 DEF CallCourse
      <4>2. n \in txn_list
        BY <1>i, <2>2, <2>4, <3>2, <4>1 DEF SetupInv, BeforeQueue
      <4> QED
        BY <4>2 DEF Owed
    <3> QED
      BY <1>2, <1>t, <2>4, <3>1, <3>2
  <2>6. /\ ~Leaving(th[q]) /\ th'[q].pc \notin {"idle", "get_txn", "own"}
        /\ t.txn = n => t.pc \in {"check", "inc"}
    BY <1>2, <1>t, <1>o, <2>3, <2>4 DEF Leaving
  <2>7. Told(n)' \/ Owed(n)'
    BY <1>t, <2>3, <2>4, <2>5, <2>6, StaysTold
  <2> QED
    BY <2>3, <2>7
<1> QED
  BY <1>1, <1>2 DEF WaitInv

(* The return codes. *)
LEMMA RcNext ==
  ASSUME CountInv, SafeInv, CountInv', NEW p \in Procs, Step(p)
  PROVE  RcInv'
<1>t. PICK t : t = th[p]
  OBVIOUS
<1>u. PICK u : u = th'[p]
  OBVIOUS
<1>s. /\ \A q \in Procs : q # p => th'[q] = th[q]
      /\ \A n \in Ids : txn'[n].kind = txn[n].kind
      /\ HistoryStep(t, u) /\ BlockStep(t, u) /\ CallCourse(t, u)
  BY <1>t, <1>u DEF Step, Others, Fixed
<1>i. RcInv /\ OwnerInv /\ SetupInv /\ OpenInv
  BY DEF SafeInv
<1>n. NoTxn \notin Ids
  BY BoundAssumption DEF Ids, NoTxn
<1>o. \A q \in Procs : q # p /\ th[q].txn \in Ids => t.txn # th[q].txn
  BY <1>t, <1>i, <1>n DEF OwnerInv
<1> SUFFICES ASSUME NEW q \in Procs, NEW n \in Ids, th'[q].txn = n, txn'[n].kind = "sync"
    PROVE  /\ Asked(th'[q]) /\ Owed(n)' => txn'[n].rc = "timeout"
           /\ Asked(th'[q]) => (txn'[n].rc = "ok" <=> hist'[n].wr = 1)
           /\ th'[q].pc \in {"inval", "remove", "dec_own"} =>
                /\ th'[q].rc = "ok" => hist'[n].wr = 1
                /\ th'[q].rc \notin {"ok", "timeout"} => hist'[n].wr = 0 /\ ~(Owed(n)' /\ Sent(n)')
  BY DEF RcInv, SyncTxn
<1>k. txn[n].kind = "sync" /\ hist[n].wr \in {0, 1}
  BY <1>s, <1>i DEF OpenInv
<1>b. /\ Owed(n)' => Owed(n) /\ txn'[n].ref # 0
      /\ Owes(t, n) => Owed(n)
      /\ Ends(t, u, n) => ~Owed(n)'
      /\ Sent(n)' => Sent(n) \/ (t.pc = "enq" /\ u.pc = "flush" /\ t.txn = n)
      /\ th'[q].pc \notin {"idle", "get_txn", "own"} => txn'[n].ref # 0
  BY <1>t, <1>u, <1>k, StepFacts
<1>h. /\ hist'[n].wr # hist[n].wr => /\ Ends(t, u, n) /\ Owed(n) /\ Sent(n) /\ t.pc = "deliver"
                                     /\ hist[n].wr = 0 /\ hist'[n].wr = 1
      /\ Ends(t, u, n) => hist[n].wr = 0
  <2>1. Ends(t, u, n) => hist[n].wr = 0
    BY <1>b, <1>i DEF Ends, OpenInv
  <2>2. ASSUME hist'[n].wr # hist[n].wr
        PROVE  Ends(t, u, n) /\ t.pc = "deliver" /\ t.cur = n /\ hist'[n].wr = hist[n].wr + 1
    BY <1>s, <2>2 DEF HistoryStep
  <2> QED
    BY <1>t, <1>b, <2>1, <2>2 DEF Ends, Sent, Passes
<1>r. /\ txn'[n].rc # txn[n].rc => \/ txn'[n].ref = 0
                                   \/ t.txn = n /\ t.pc = "set_rc"
                                   \/ Ends(t, u, n) /\ (txn'[n].rc = "ok" <=> hist'[n].wr # hist[n].wr)
      /\ hist'[n].wr # hist[n].wr => txn'[n].rc = "ok"
  BY <1>s, <1>k DEF BlockStep
<1>a. \A v : Asked(v) => v.pc \notin {"idle", "get_txn", "own", "set_rc"}
  BY DEF Asked, Awaits, FlushLabels
<1>m. Asked(th'[q]) => \/ Asked(th[q]) /\ th[q].txn = n
                       \/ q = p /\ t.pc = "set_rc" /\ t.txn = n
  <2>1. CASE q # p
    BY <1>s, <2>1
  <2>2. CASE q = p
    BY <1>t, <1>u, <1>s, <2>2 DEF CallCourse, Asked, BeforeQueue
  <2> QED
    BY <2>1, <2>2
<1>1. ASSUME Asked(th'[q]), q = p, t.pc = "set_rc", t.txn = n
      PROVE  txn'[n].rc = "timeout" /\ hist'[n].wr = 0
  <2>1. txn'[n].rc = "timeout"
    BY <1>1, <1>s DEF CallCourse
  <2>2. hist[n].wr = 0
    BY <1>1, <1>t, <1>i DEF SetupInv, Unsent, BeforeQueue
  <2> QED
    BY <1>1, <1>h, <2>1, <2>2
<1>2. ASSUME Asked(th'[q]), Asked(th[q]), th[q].txn = n
      PROVE  /\ Owed(n)' => txn'[n].rc = "timeout"
             /\ txn'[n].rc = "ok" <=> hist'[n].wr = 1
  <2>1. /\ Owed(n) => txn[n].rc = "timeout"
        /\ txn[n].rc = "ok" <=> hist[n].wr = 1
    BY <1>2, <1>i, <1>k DEF RcInv, SyncTxn
  <2>2. txn'[n].ref # 0 /\ ~(t.txn = n /\ t.pc = "set_rc")
    BY <1>2, <1>t, <1>a, <1>b, <1>o
  <2>3. CASE txn'[n].rc = txn[n].rc
    BY <1>b, <1>h, <1>r, <2>1, <2>3
  <2>4. CASE txn'[n].rc # txn[n].rc
    <3>1. Ends(t, u, n) /\ (txn'[n].rc = "ok" <=> hist'[n].wr # hist[n].wr)
      BY <1>r, <2>2, <2>4
    <3> QED
      BY <1>b, <1>h, <3>1
  <2> QED
    BY <2>3, <2>4
<1>3. ASSUME th'[q].pc \in {"inval", "remove", "dec_own"}
      PROVE  /\ th'[q].rc = "ok" => hist'[n].wr = 1
             /\ th'[q].rc \notin {"ok", "timeout"} => hist'[n].wr = 0 /\ ~(Owed(n)' /\ Sent(n)')
  <2>0. th[q].txn = n /\ ~(t.pc = "enq" /\ u.pc = "flush" /\ t.txn = n)
    BY <1>3, <1>t, <1>u, <1>s, <1>o DEF CallCourse
  <2>1. ASSUME /\ th'[q].rc = "ok" => hist[n].wr = 1
               /\ th'[q].rc \notin {"ok", "timeout"} => hist[n].wr = 0 /\ ~(Owed(n) /\ Sent(n))
        PROVE  /\ th'[q].rc = "ok" => hist'[n].wr = 1
               /\ th'[q].rc \notin {"ok", "timeout"} => hist'[n].wr = 0 /\ ~(Owed(n)' /\ Sent(n)')
    BY <1>b, <1>h, <2>0, <2>1
  <2>2. CASE th[q].pc \in {"inval", "remove", "dec_own"} /\ th'[q].rc = th[q].rc
    BY <1>i, <1>k, <2>0, <2>1, <2>2 DEF RcInv, SyncTxn
  <2>3. CASE q = p /\ u.pc = "inval" /\ t.pc \in BeforeQueue /\ u.rc \in {"service", "internal"}
    <3>1. ~Sent(n) /\ hist[n].wr = 0
      BY <1>t, <1>i, <2>0, <2>3 DEF SetupInv, Unsent
    <3> QED
      BY <1>u, <2>1, <2>3, <3>1
  <2>4. CASE q = p /\ u.pc = "inval" /\ t.pc = "woken" /\ u.rc = txn[t.txn].rc /\ u.rc # "timeout"
    <3>1. Asked(th[q])
      BY <1>t, <2>4 DEF Asked, Awaits
    <3>2. /\ Owed(n) => txn[n].rc = "timeout"
          /\ txn[n].rc = "ok" <=> hist[n].wr = 1
      BY <1>i, <1>k, <2>0, <3>1 DEF RcInv, SyncTxn
    <3> QED
      BY <1>t, <1>u, <1>k, <2>0, <2>1, <2>4, <3>2
  <2>5. CASE q = p /\ u.pc = "inval" /\ t.pc = "wait" /\ u.rc = "timeout"
    BY <1>u, <2>5
  <2>6. q # p => th'[q] = th[q]
    BY <1>s
  <2>7. q = p => \/ t.pc \in {"inval", "remove"} /\ u.rc = t.rc
                 \/ u.pc = "inval" /\ \/ t.pc \in BeforeQueue /\ u.rc \in {"service", "internal"}
                                      \/ t.pc = "woken" /\ u.rc = txn[t.txn].rc /\ u.rc # "timeout"
                                      \/ t.pc = "wait" /\ u.rc = "timeout"
    <3>1. ~AsyncTxn(t) \/ q # p
      BY <1>t, <1>k, <2>0 DEF AsyncTxn
    <3> QED
      BY <1>3, <1>u, <1>s, <3>1 DEF CallCourse
  <2> QED
    BY <1>3, <1>t, <1>u, <2>2, <2>3, <2>4, <2>5, <2>6, <2>7
<1> QED
  BY <1>m, <1>1, <1>2, <1>3

(* What is left in the queue is known to a thread that will clean it up. *)
LEMMA QueueLeftNext ==
  ASSUME SafeInv, NEW p \in Procs, Step(p)
  PROVE  QueueLeft'
<1>t. PICK t : t = th[p]
  OBVIOUS
<1>u. PICK u : u = th'[p]
  OBVIOUS
<1>s. /\ \A q \in Procs : q # p => th'[q] = th[q]
      /\ CleanupCourse(t, u) /\ QueueLeft
  BY <1>t, <1>u DEF Step, Others, SafeInv
<1>1. ASSUME tx_q' # <<>>, ~clnt'.addr_valid
      PROVE  \E q \in Procs : th'[q].pc \in {"flush", "detach_q"}
  BY <1>1, <1>t, <1>u, <1>s DEF CleanupCourse, QueueLeft
<1>2. ASSUME tx_q' # <<>>, ~clnt'.accepting
      PROVE  \E q \in Procs : th'[q].pc = "detach_q"
  BY <1>2, <1>t, <1>u, <1>s DEF CleanupCourse, QueueLeft
<1>3. ASSUME ~clnt'.linked, clnt'.accepting
      PROVE  \E q \in Procs : th'[q].pc = "stop"
  BY <1>3, <1>t, <1>u, <1>s DEF CleanupCourse, QueueLeft
<1> QED
  BY <1>1, <1>2, <1>3 DEF QueueLeft

(* And so is what is left outstanding. *)
LEMMA ListLeftNext ==
  ASSUME SafeInv, NEW p \in Procs, Step(p)
  PROVE  ListLeft'
<1>t. PICK t : t = th[p]
  OBVIOUS
<1>u. PICK u : u = th'[p]
  OBVIOUS
<1>s. /\ \A q \in Procs : q # p => th'[q] = th[q]
      /\ CleanupCourse(t, u) /\ ListLeft /\ txn_list' \subseteq txn_list
  BY <1>t, <1>u DEF Step, Others, SafeInv, Fixed
<1>c. Cleaning => Cleaning' \/ txn_list' = {}
  BY <1>t, <1>u, <1>s DEF Cleaning, CleanupCourse
<1>1. ASSUME NEW n \in txn_list', ~clnt'.addr_valid
      PROVE  Cleaning' \/ \E q \in Procs :
               th'[q].txn = n /\ th'[q].pc \in BeforeQueue \cup {"inval", "remove", "flush"}
  <2>1. CASE clnt.addr_valid
    BY <1>1, <1>u, <1>s, <2>1 DEF CleanupCourse, Cleaning
  <2>2. ASSUME NEW r \in Procs, th[r].txn = n, th[r].pc \in BeforeQueue \cup {"inval", "remove", "flush"}
        PROVE  Cleaning' \/ \E q \in Procs :
               th'[q].txn = n /\ th'[q].pc \in BeforeQueue \cup {"inval", "remove", "flush"}
    <3>1. CASE r # p
      BY <1>s, <2>2, <3>1
    <3>2. CASE r = p
      <4>1. \/ u.txn = n /\ u.pc \in BeforeQueue \cup {"inval", "remove", "flush"}
            \/ u.pc = "detach_q"
        BY <1>1, <1>t, <1>s, <2>2, <3>2 DEF CleanupCourse
      <4> QED
        BY <1>u, <4>1 DEF Cleaning
    <3> QED
      BY <3>1, <3>2
  <2> QED
    BY <1>1, <1>s, <1>c, <2>1, <2>2 DEF ListLeft
<1>2. ASSUME NEW n \in txn_list', ~clnt'.accepting
      PROVE  Cleaning' \/ \E q \in Procs :
               th'[q].txn = n /\ th'[q].pc \in BeforeQueue \cup {"inval", "remove"}
  <2>1. CASE clnt.accepting
    BY <1>2, <1>u, <1>s, <2>1 DEF CleanupCourse, Cleaning
  <2>2. ASSUME NEW r \in Procs, th[r].txn = n, th[r].pc \in BeforeQueue \cup {"inval", "remove"}
        PROVE  \E q \in Procs :
               th'[q].txn = n /\ th'[q].pc \in BeforeQueue \cup {"inval", "remove"}
    <3>1. CASE r # p
      BY <1>s, <2>2, <3>1
    <3>2. CASE r = p
      <4>1. u.txn = n /\ u.pc \in BeforeQueue \cup {"inval", "remove"}
        BY <1>2, <1>t, <1>s, <2>2, <3>2 DEF CleanupCourse
      <4> QED
        BY <1>u, <4>1
    <3> QED
      BY <3>1, <3>2
  <2> QED
    BY <1>2, <1>s, <1>c, <2>1, <2>2 DEF ListLeft
<1> QED
  BY <1>1, <1>2 DEF ListLeft

(* A transaction that is allocated is new to everything. *)
LEMMA GetTxnNext ==
  ASSUME CountInv, SafeInv, DistinctTxns, NEW p \in Procs, p # Reader, GetTxn(p)
  PROVE  SafeInv'
<1>t. PICK t : t = th[p]
  OBVIOUS
<1>u. PICK u : u = th'[p]
  OBVIOUS
<1>m. PICK m \in Ids : m = next + 1
  BY BoundAssumption DEF GetTxn, CountInv, TypeOK, Ids
<1>f. /\ th \in [Procs -> Thread] /\ txn \in [Ids -> Block] /\ hist \in [Ids -> History]
      /\ t \in Thread /\ TxnOf(t) /\ next \in Nat /\ m \in Nat /\ Ids \subseteq Nat /\ NoTxn \notin Ids
  BY <1>t, <1>m, ThreadFacts, BoundAssumption DEF Ids, NoTxn
<1>1. /\ \A q \in Procs : q # p => th'[q] = th[q]
      /\ t.pc = "get_txn" /\ t.txn = NoTxn /\ u.pc = t.ret /\ u.pc \in {"own", "check"} /\ u.txn = m
      /\ next' = m /\ txn_list' = txn_list \cup {m} /\ UNCHANGED <<tx_q, clnt, net>>
      /\ hist' = [hist EXCEPT ![m].api = "calling"]
  BY <1>t, <1>u, <1>m, <1>f DEF GetTxn, At, TxnOf, NoTxnLabels, Thread
<1>a. PICK a \in FreeAddrs :
        txn' = [txn EXCEPT ![m] = [kind |-> IF t.ret = "own" THEN "sync" ELSE "async", addr |-> a,
                                   ref |-> 1, rc |-> "none", sig |-> FALSE, rx_buf |-> TRUE]]
  BY <1>t, <1>m DEF GetTxn
<1>2. /\ \A n \in Ids : n # m => txn'[n] = txn[n] /\ hist'[n] = hist[n]
      /\ txn'[m].kind = (IF u.pc = "own" THEN "sync" ELSE "async") /\ txn'[m].addr = a /\ txn'[m].rx_buf
      /\ hist'[m] = [api |-> "calling", del |-> "no", cb |-> 0, wr |-> 0]
  <2>1. hist[m] = [api |-> "none", del |-> "no", cb |-> 0, wr |-> 0]
    BY <1>m, <1>f DEF SafeInv, OwnerInv
  <2>2. hist'[m] = [hist[m] EXCEPT !.api = "calling"]
    BY <1>1, <1>f
  <2> QED
    BY <1>1, <1>a, <1>f, <2>1, <2>2
<1>3. \A n \in Ids : n <= next => txn[n].addr # a
  <2>1. \A n \in 1..next : txn[n].addr # a
    BY <1>a DEF FreeAddrs, DistinctTxns
  <2> QED
    BY <1>f, <2>1 DEF Ids
<1>4. /\ \A q \in Procs : th[q].txn # m /\ th[q].cur # m /\ m \notin th[q].work
      /\ m \notin txn_list /\ m \notin ToSet(tx_q) /\ m \notin net.wire
  <2>1. \A k \in {m} : ~(k <= next)
    BY <1>m, <1>f
  <2> QED
    BY <2>1 DEF CountInv, AllocInv, SafeInv, AddrInv
<1>5. \A n : ~Took(t, n) /\ ~Took(u, n) /\ ~Owes(t, n) /\ ~Owes(u, n) /\ ~Deleting(t, n) /\ ~Deleting(u, n)
             /\ ~Passes(t, n) /\ ~Passes(u, n)
  BY <1>1 DEF Took, Owes, Deleting, Passes, ListCur, ListWork
<1>6. /\ \A n \in Ids, q \in Procs : Took(th'[q], n) <=> Took(th[q], n)
      /\ \A n \in Ids, q \in Procs : Owes(th'[q], n) <=> Owes(th[q], n)
      /\ \A n \in Ids, q \in Procs : Deleting(th'[q], n) <=> Deleting(th[q], n)
      /\ \A n \in Ids, q \in Procs : Passes(th'[q], n) <=> Passes(th[q], n)
      /\ \A q \in Procs : ~Took(th[q], m) /\ ~Owes(th[q], m) /\ ~Deleting(th[q], m) /\ ~Passes(th[q], m)
  <2>1. \A q \in Procs : ~Took(th[q], m) /\ ~Owes(th[q], m) /\ ~Deleting(th[q], m) /\ ~Passes(th[q], m)
    BY <1>4 DEF Took, Owes, Deleting, Passes
  <2> QED
    BY <1>1, <1>5, <1>t, <1>u, <2>1
<1>7. \A n \in Ids : /\ Owed(n)' <=> Owed(n) \/ n = m
                     /\ Sent(n)' <=> Sent(n)
                     /\ ~Owed(m) /\ ~Sent(m)
  <2>1. \A n \in Ids : Owed(n)' <=> (n \in txn_list' \/ \E q \in Procs : Owes(th'[q], n))
    BY DEF Owed
  <2>2. \A n \in Ids : Sent(n)' <=> (n \in ToSet(tx_q)' \/ n \in net'.wire \/ \E q \in Procs : Passes(th'[q], n))
    BY DEF Sent
  <2>3. ToSet(tx_q)' = ToSet(tx_q) /\ net'.wire = net.wire
    BY <1>1 DEF ToSet
  <2> QED
    BY <1>1, <1>4, <1>6, <2>1, <2>2, <2>3 DEF Owed, Sent
<1>8. AddrInv'
  <2>1. ASSUME NEW k \in Ids, NEW n \in Ids, k <= next', n <= next', txn'[k].addr = txn'[n].addr
        PROVE  k = n
    <3>1. \A i \in Ids : i <= next' /\ i # m => i <= next
      BY <1>1, <1>m, <1>f
    <3> QED
      BY <1>1, <1>2, <1>3, <2>1, <3>1 DEF SafeInv, AddrInv
  <2>2. \A n \in net'.wire : n <= next'
    <3>1. \A n \in net.wire : n \in Ids /\ n <= next
      BY DEF SafeInv, AddrInv, CountInv, TypeOK, Network
    <3> QED
      BY <1>1, <1>m, <1>f, <3>1
  <2>3. \A q \in Procs : th'[q].pc \in CurLabels \cup {"find"} => th'[q].cur \in Ids
    BY <1>1, <1>u DEF SafeInv, AddrInv, CurLabels
  <2> QED
    BY <2>1, <2>2, <2>3 DEF AddrInv
<1>9. OwnerInv'
  <2>k. OwnerInv
    BY DEF SafeInv
  <2>1. th'[Reader].txn = NoTxn
    BY <1>1, <2>k DEF OwnerInv, Procs
  <2>2. \A q, r \in Procs : th'[q].txn # NoTxn /\ th'[q].txn = th'[r].txn => q = r
    BY <1>1, <1>u, <1>4, <2>k DEF OwnerInv
  <2>3. ASSUME NEW q \in Procs, th'[q].txn # NoTxn
        PROVE  IF th'[q].pc \in DeleteLabels
               THEN hist'[th'[q].txn].api = "sent" /\ hist'[th'[q].txn].del = "no"
               ELSE hist'[th'[q].txn].api = "calling"
    <3>1. CASE q = p
      BY <1>1, <1>2, <1>u, <3>1 DEF DeleteLabels
    <3>2. CASE q # p
      <4>1. th[q].txn \in Ids /\ th[q].txn # m /\ th'[q] = th[q]
        BY <1>1, <1>4, <1>f, <2>3, <3>2 DEF Thread
      <4> QED
        BY <1>2, <2>3, <2>k, <4>1 DEF OwnerInv
    <3> QED
      BY <3>1, <3>2
  <2>4. \A q \in Procs : th'[q].pc \in {"del_inv", "del_dec"} => th'[q].cur = th'[q].txn
    BY <1>1, <1>u, <2>k DEF OwnerInv
  <2>5. \A n \in Ids : n > next' => hist'[n] = [api |-> "none", del |-> "no", cb |-> 0, wr |-> 0]
    BY <1>1, <1>2, <1>m, <1>f, <2>k DEF OwnerInv
  <2>6. ASSUME NEW n \in Ids, hist'[n].api = "none" PROVE n > next'
    <3>1. n # m
      BY <1>2, <2>6
    <3>2. n > next
      BY <1>2, <2>6, <2>k, <3>1 DEF OwnerInv
    <3> QED
      BY <1>1, <1>m, <1>f, <3>1, <3>2
  <2>7. \A n \in Ids : hist'[n].del # "no" => hist'[n].api = "sent"
    BY <1>2, <2>k DEF OwnerInv
  <2>8. \A n \in Ids : hist'[n].api \in {"ok", "error", "timeout"} => txn'[n].kind = "sync"
    BY <1>2, <2>k DEF OwnerInv
  <2> QED
    BY <2>1, <2>2, <2>3, <2>4, <2>5, <2>6, <2>7, <2>8 DEF OwnerInv
<1>10. TookInv'
  BY <1>1, <1>6 DEF SafeInv, TookInv
<1>11. OpenInv'
  <2>1. \A n \in Ids :
          /\ hist'[n].wr \in {0, 1}
          /\ Owed(n)' \/ (\E q \in Procs : Deleting(th'[q], n)) =>
               hist'[n].wr = 0 /\ hist'[n].cb = 0 /\ hist'[n].del # "ok"
    BY <1>2, <1>6, <1>7 DEF SafeInv, OpenInv
  <2> QED
    BY <2>1 DEF OpenInv
<1>12. SetupInv'
  <2>1. ASSUME NEW q \in Procs, Unsent(th[q])' PROVE ~Sent(th[q].txn)' /\ hist'[th'[q].txn].wr = 0
    <3>1. CASE q = p
      <4>1. ~Sent(m)' /\ hist'[m].wr = 0
        BY <1>2, <1>7
      <4> QED
        BY <1>1, <1>u, <3>1, <4>1
    <3>2. CASE q # p
      <4>1. th'[q] = th[q] /\ Unsent(th[q])
        BY <1>1, <1>2, <1>4, <2>1, <3>2 DEF Unsent, AsyncTxn
      <4>2. th[q].txn \in Ids
        BY <4>1 DEF CountInv, ThreadInv, TxnOf, Unsent, BeforeQueue, SyncLabels, EitherLabels, SyncTxn
      <4>3. PICK n \in Ids : n = th[q].txn /\ n = th'[q].txn /\ n # m
        BY <1>4, <4>1, <4>2
      <4>4. ~Sent(n)' /\ hist'[n].wr = 0
        BY <1>2, <1>7, <4>1, <4>3 DEF SafeInv, SetupInv
      <4> QED
        BY <4>3, <4>4
    <3> QED
      BY <3>1, <3>2
  <2>2. \A q \in Procs : th'[q].pc \in BeforeQueue =>
          th'[q].txn \in txn_list' \/ ~clnt'.addr_valid \/ ~clnt'.accepting
    BY <1>1, <1>u DEF SafeInv, SetupInv
  <2>3. \A q \in Procs : th'[q].pc = "dec_enq" => th'[q].rc = "internal"
    BY <1>1, <1>u DEF SafeInv, SetupInv
  <2>4. \A n \in Ids : hist'[n].api = "refused" => ~Sent(n)'
    BY <1>2, <1>7 DEF SafeInv, SetupInv
  <2> QED
    BY <2>1, <2>2, <2>3, <2>4 DEF SetupInv
<1>13. CleanupInv'
  BY <1>1, <1>u DEF SafeInv, CleanupInv, CleanupLabels, ListWork
<1>14. BufferInv'
  <2>1. ASSUME NEW n \in Ids, Owed(n)', ~txn'[n].rx_buf
        PROVE  txn'[n].kind = "sync" /\ \A q \in Procs : th'[q].txn = n => Leaving(th'[q])
    <3>1. n # m /\ Owed(n) /\ ~txn[n].rx_buf /\ txn'[n].kind = txn[n].kind
      BY <1>2, <1>7, <2>1
    <3> QED
      BY <1>1, <1>u, <3>1 DEF SafeInv, BufferInv
  <2>2. ASSUME NEW q \in Procs, Leaving(th'[q]), th'[q].txn \in Ids, txn'[th'[q].txn].kind = "sync"
        PROVE  ~txn'[th'[q].txn].rx_buf
    <3>1. q # p
      BY <1>1, <1>u, <2>2 DEF Leaving
    <3>2. th'[q] = th[q] /\ th[q].txn # m
      BY <1>1, <1>4, <3>1
    <3> QED
      BY <1>2, <2>2, <3>2 DEF SafeInv, BufferInv, SyncTxn
  <2>3. \A n \in Ids : txn'[n].kind = "sync" /\ txn'[n].rx_buf => hist'[n].api = "calling"
    BY <1>2 DEF SafeInv, BufferInv
  <2> QED
    BY <2>1, <2>2, <2>3 DEF BufferInv, SyncTxn
<1>15. \A n \in Ids : n # m => (Told(n)' <=> Told(n))
  BY <1>2 DEF Told
<1>16. \A q \in Procs : Asked(th'[q]) \/ th'[q].pc \in {"inval", "remove", "dec_own"} =>
         q # p \/ u.pc = "check"
  BY <1>1, <1>u DEF Asked, Awaits, FlushLabels
<1>17. WaitInv'
  <2>1. ASSUME NEW q \in Procs, Awaits(th'[q]) PROVE Told(th[q].txn)' \/ Owed(th[q].txn)'
    <3>1. q # p /\ th'[q] = th[q] /\ Awaits(th[q])
      BY <1>1, <1>u, <2>1 DEF Awaits, FlushLabels
    <3>2. SyncTxn(th[q])
      BY <3>1 DEF CountInv, ThreadInv, TxnOf, Awaits, SyncLabels, FlushLabels
    <3>3. PICK n \in Ids : n = th[q].txn /\ n = th'[q].txn /\ n # m
      BY <1>4, <3>1, <3>2 DEF SyncTxn
    <3>4. Told(n)' \/ Owed(n)'
      BY <1>7, <1>15, <3>1, <3>3 DEF SafeInv, WaitInv
    <3> QED
      BY <3>3, <3>4
  <2>2. ASSUME NEW q \in Procs, th'[q].pc \in {"inc", "enq"}, SyncTxn(th[q])'
        PROVE  Told(th[q].txn)' \/ Owed(th[q].txn)' \/ ~clnt'.accepting
    <3>1. q # p /\ th'[q] = th[q]
      BY <1>1, <1>u, <2>2
    <3>2. PICK n \in Ids : n = th[q].txn /\ n = th'[q].txn /\ n # m /\ txn[n].kind = "sync"
      BY <1>2, <1>4, <2>2, <3>1 DEF SyncTxn
    <3>3. Told(n)' \/ Owed(n)' \/ ~clnt'.accepting
      BY <1>1, <1>7, <1>15, <2>2, <3>1, <3>2 DEF SafeInv, WaitInv, SyncTxn
    <3> QED
      BY <3>2, <3>3
  <2> QED
    BY <2>1, <2>2 DEF WaitInv
<1>18. RcInv'
  <2> SUFFICES ASSUME NEW q \in Procs, NEW n \in Ids, th'[q].txn = n, txn'[n].kind = "sync",
                      Asked(th'[q]) \/ th'[q].pc \in {"inval", "remove", "dec_own"}
      PROVE  /\ Asked(th'[q]) /\ Owed(n)' => txn'[n].rc = "timeout"
             /\ Asked(th'[q]) => (txn'[n].rc = "ok" <=> hist'[n].wr = 1)
             /\ th'[q].pc \in {"inval", "remove", "dec_own"} =>
                  /\ th'[q].rc = "ok" => hist'[n].wr = 1
                  /\ th'[q].rc \notin {"ok", "timeout"} => hist'[n].wr = 0 /\ ~(Owed(n)' /\ Sent(n)')
    BY DEF RcInv, SyncTxn
  <2>1. q # p
    BY <1>1, <1>2, <1>u, <1>16
  <2>2. th'[q] = th[q] /\ n # m /\ txn'[n] = txn[n] /\ hist'[n] = hist[n]
    BY <1>1, <1>2, <1>4, <2>1
  <2>3. (Owed(n)' => Owed(n)) /\ (Sent(n)' => Sent(n))
    BY <1>7, <2>2
  <2> QED
    BY <2>2, <2>3 DEF SafeInv, RcInv, SyncTxn
<1>19. QueueLeft'
  <2>1. \A q \in Procs : th[q].pc \in {"flush", "detach_q", "stop"} => th'[q] = th[q]
    BY <1>1, <1>t
  <2> QED
    BY <1>1, <2>1 DEF SafeInv, QueueLeft
<1>20. ListLeft'
  <2>1. \A q \in Procs : q # p => th'[q] = th[q]
    BY <1>1
  <2>2. Cleaning => Cleaning'
    BY <1>1, <1>t DEF Cleaning
  <2>3. u.txn = m /\ u.pc \in BeforeQueue
    BY <1>1 DEF BeforeQueue
  <2>4. t.txn = NoTxn /\ NoTxn \notin txn_list
    BY <1>1, <1>f DEF CountInv, TypeOK
  <2>5. ASSUME NEW n \in txn_list', ~clnt'.addr_valid
        PROVE  Cleaning' \/ \E q \in Procs :
                 th'[q].txn = n /\ th'[q].pc \in BeforeQueue \cup {"inval", "remove", "flush"}
    <3>1. CASE n = m
      BY <1>u, <2>3, <3>1
    <3>2. CASE n \in txn_list
      <4>1. Cleaning \/ \E q \in Procs :
               th[q].txn = n /\ th[q].pc \in BeforeQueue \cup {"inval", "remove", "flush"}
        BY <1>1, <2>5, <3>2 DEF SafeInv, ListLeft
      <4> QED
        BY <1>t, <2>1, <2>2, <2>4, <3>2, <4>1
    <3> QED
      BY <1>1, <2>5, <3>1, <3>2
  <2>6. ASSUME NEW n \in txn_list', ~clnt'.accepting
        PROVE  Cleaning' \/ \E q \in Procs :
                 th'[q].txn = n /\ th'[q].pc \in BeforeQueue \cup {"inval", "remove"}
    <3>1. CASE n = m
      BY <1>u, <2>3, <3>1
    <3>2. CASE n \in txn_list
      <4>1. Cleaning \/ \E q \in Procs :
               th[q].txn = n /\ th[q].pc \in BeforeQueue \cup {"inval", "remove"}
        BY <1>1, <2>6, <3>2 DEF SafeInv, ListLeft
      <4> QED
        BY <1>t, <2>1, <2>2, <2>4, <3>2, <4>1
    <3> QED
      BY <1>1, <2>6, <3>1, <3>2
  <2> QED
    BY <2>5, <2>6 DEF ListLeft
<1> QED
  BY <1>8, <1>9, <1>10, <1>11, <1>12, <1>13, <1>14, <1>17, <1>18, <1>19, <1>20 DEF SafeInv
-----------------------------------------------------------------------------
(* The inductive invariant.                                                  *)

(* A step that only leaves the code's state alone keeps it. *)
LEMMA StutterSafe ==
  ASSUME SafeInv, UNCHANGED <<next, txn, txn_list, tx_q, clnt, th, net, hist>>
  PROVE  SafeInv'
<1>1. AddrInv'
  BY DEF SafeInv, AddrInv
<1>2. OwnerInv'
  BY DEF SafeInv, OwnerInv
<1>3. TookInv'
  BY DEF SafeInv, TookInv
<1>4. \A n : (Owed(n)' <=> Owed(n)) /\ (Sent(n)' <=> Sent(n)) /\ (Told(n)' <=> Told(n))
  BY DEF Owed, Sent, Told
<1>5. OpenInv'
  BY <1>4 DEF SafeInv, OpenInv
<1>6. \A p \in Procs : /\ Unsent(th[p])' <=> Unsent(th[p])
                       /\ SyncTxn(th[p])' <=> SyncTxn(th[p])
                       /\ Sent(th[p].txn)' <=> Sent(th[p].txn)
                       /\ Owed(th[p].txn)' <=> Owed(th[p].txn)
                       /\ Told(th[p].txn)' <=> Told(th[p].txn)
  BY DEF Unsent, AsyncTxn, SyncTxn, Sent, Owed, Told
<1>7. SetupInv'
  BY <1>4, <1>6 DEF SafeInv, SetupInv
<1>8. CleanupInv'
  BY DEF SafeInv, CleanupInv
<1>9. BufferInv'
  BY <1>4, <1>6 DEF SafeInv, BufferInv
<1>10. WaitInv'
  BY <1>4, <1>6 DEF SafeInv, WaitInv
<1>11. RcInv'
  BY <1>4, <1>6 DEF SafeInv, RcInv
<1>12. QueueLeft'
  BY DEF SafeInv, QueueLeft
<1>13. ListLeft'
  BY DEF SafeInv, ListLeft, Cleaning
<1> QED
  BY <1>1, <1>2, <1>3, <1>5, <1>7, <1>8, <1>9, <1>10, <1>11, <1>12, <1>13 DEF SafeInv

(* It holds at the start ... *)
LEMMA InitSafe == Init => SafeInv
<1> SUFFICES ASSUME Init PROVE SafeInv
  OBVIOUS
<1>1. /\ \A p \in Procs : th[p] = Idle
      /\ next = 0 /\ txn_list = {} /\ ToSet(tx_q) = {} /\ tx_q = <<>> /\ net.wire = {}
      /\ clnt.linked /\ clnt.addr_valid /\ clnt.accepting
      /\ \A n \in Ids : /\ hist[n] = [api |-> "none", del |-> "no", cb |-> 0, wr |-> 0]
                        /\ ~txn[n].rx_buf
  BY DEF Init, ToSet
<1>2. NoTxn \notin Ids /\ Reader \in Procs /\ \A n \in Ids : n \in Nat /\ n > 0
  BY BoundAssumption DEF Ids, NoTxn, Procs
<1>3. \A n : ~Took(Idle, n) /\ ~Owes(Idle, n) /\ ~Deleting(Idle, n) /\ ~Passes(Idle, n)
  BY DEF Idle, Took, Owes, Deleting, Passes, ListCur, ListWork
<1>4. \A n : ~Owed(n) /\ ~Sent(n)
  BY <1>1, <1>3 DEF Owed, Sent
<1>5. ~Unsent(Idle) /\ ~Leaving(Idle) /\ ~Awaits(Idle) /\ ~Asked(Idle) /\ ~SyncTxn(Idle)
  BY <1>2 DEF Idle, Unsent, Leaving, Awaits, Asked, SyncTxn, BeforeQueue, FlushLabels
<1>6. Idle.pc = "idle" /\ Idle.txn = NoTxn
  BY DEF Idle
<1>7. AddrInv
  BY <1>1, <1>2, <1>6 DEF AddrInv, CurLabels
<1>8. OwnerInv
  BY <1>1, <1>2, <1>6 DEF OwnerInv
<1>9. TookInv /\ OpenInv
  BY <1>1, <1>3, <1>4 DEF TookInv, OpenInv
<1>10. SetupInv
  BY <1>1, <1>4, <1>5, <1>6 DEF SetupInv, BeforeQueue
<1>11. CleanupInv
  BY <1>1, <1>6 DEF CleanupInv, CleanupLabels, ListWork
<1>12. BufferInv
  BY <1>1, <1>4, <1>5 DEF BufferInv
<1>13. WaitInv /\ RcInv
  BY <1>1, <1>5, <1>6 DEF WaitInv, RcInv
<1>14. QueueLeft /\ ListLeft
  BY <1>1 DEF QueueLeft, ListLeft
<1> QED
  BY <1>7, <1>8, <1>9, <1>10, <1>11, <1>12, <1>13, <1>14 DEF SafeInv

(* ... and every step preserves it. *)
LEMMA NextSafe ==
  ASSUME DistinctTxns, CountInv, SafeInv, [Next]_vars
  PROVE  SafeInv'
<1>1. CountInv'
  BY NextCounts
<1>2. ASSUME NEW p \in Procs, Step(p), th'[Reader].txn = NoTxn PROVE SafeInv'
  <2>1. AddrInv' /\ OwnerInv' /\ TookInv' /\ OpenInv'
    BY <1>1, <1>2, AddrNext, OwnerNext, TookNext, OpenNext
  <2>2. SetupInv' /\ CleanupInv' /\ BufferInv' /\ WaitInv'
    BY <1>1, <1>2, SetupNext, CleanupNext, BufferNext, WaitNext
  <2>3. RcInv' /\ QueueLeft' /\ ListLeft'
    BY <1>1, <1>2, RcNext, QueueLeftNext, ListLeftNext
  <2> QED
    BY <2>1, <2>2, <2>3 DEF SafeInv
<1>3. ASSUME NEW p \in Procs, UseAfterFree(p) PROVE SafeInv'
  BY <1>3, StutterSafe DEF UseAfterFree
<1>4. CASE UNCHANGED vars
  BY <1>4, StutterSafe DEF vars
<1> QED
  BY <1>2, <1>3, <1>4, GetTxnNext, NextSteps

(* Both invariants hold in every state. *)
LEMMA SafeAlways ==
  ASSUME DistinctTxns
  PROVE  Spec => [](CountInv /\ SafeInv)
<1>1. Init => CountInv /\ SafeInv
  BY InitCounts, InitSafe
<1>2. CountInv /\ SafeInv /\ [Next]_vars => CountInv' /\ SafeInv'
  BY NextCounts, NextSafe
<1> QED
  BY <1>1, <1>2, PTL DEF Spec
-----------------------------------------------------------------------------
(* The safety properties.                                                    *)

(* A block with a holder is allocated, one without is not. *)
LEMMA HoldersLive == CountInv => \A n \in Ids : Live(n) <=> Holders(n) # {}
<1> SUFFICES ASSUME CountInv, NEW n \in Ids PROVE Live(n) <=> Holders(n) # {}
  OBVIOUS
<1>1. IsFiniteSet(Holders(n)) /\ txn[n].ref = Cardinality(Holders(n))
  BY HoldersFinite DEF CountInv, RefCountExact
<1> QED
  BY <1>1, FS_EmptySet, FS_CardinalityType DEF Live

(* Who uses a block holds it, but for the caller that has just allocated it. *)
LEMMA DerefsHeld == CountInv /\ SafeInv => DanglingOnlyWhenUnheld
<1> SUFFICES ASSUME CountInv, SafeInv, NEW p \in Procs, NEW n \in Derefs(p), ~Live(n)
             PROVE  /\ th[p].txn = n
                    /\ th[p].pc \in IF Sync(p) THEN {"own"} ELSE {"check", "inc"}
                    /\ ~clnt.addr_valid \/ ~clnt.accepting
  BY DEF DanglingOnlyWhenUnheld
<1>f. /\ TxnOf(th[p]) /\ WorkOf(th[p]) /\ th[p].work \subseteq Ids /\ tx_q \in Seq(Ids)
      /\ th[p].pc \in CurLabels \cup {"find"} => th[p].cur \in Ids
      /\ Reader \in Procs
  BY ThreadFacts DEF Procs
<1>h. n \in Ids => Holders(n) = {}
  BY HoldersLive
<1>1. CASE th[p].pc \in OwnLabels
  <2>1. n = th[p].txn
    BY <1>1 DEF Derefs, OwnLabels, CurLabels
  <2>2. n \in Ids
    BY <1>f, <1>1, <2>1 DEF TxnOf, SyncTxn, OwnLabels, SyncLabels, EitherLabels
  <2>3. n \notin txn_list /\ ~HoldsOwn(p, n) /\ ~HoldsEnq(p, n)
    BY <1>f, <1>h, <2>2 DEF Holders
  <2>4. th[p].pc \in IF Sync(p) THEN {"own"} ELSE {"check", "inc"}
    <3>1. CASE txn[n].kind = "sync"
      BY <1>1, <2>1, <2>3, <3>1 DEF HoldsOwn, Sync, OwnLabels
    <3>2. CASE txn[n].kind # "sync"
      <4>1. th[p].pc \notin SyncLabels
        BY <1>f, <2>1, <3>2 DEF TxnOf, SyncTxn
      <4> QED
        BY <1>1, <2>1, <2>3, <3>2, <4>1 DEF HoldsEnq, Sync, OwnLabels, SyncLabels
    <3> QED
      BY <3>1, <3>2
  <2>5. th[p].pc \in BeforeQueue
    BY <2>4 DEF BeforeQueue
  <2> QED
    BY <2>1, <2>3, <2>4, <2>5 DEF SafeInv, SetupInv
<1>2. CASE th[p].pc \in CurLabels
  <2>1. n = th[p].cur /\ n \in Ids
    BY <1>f, <1>2 DEF Derefs, OwnLabels, CurLabels
  <2>2. HoldsCur(p, n) \/ HoldsWork(p, n)
    BY <1>f, <1>2, <2>1 DEF HoldsCur, HoldsWork, WorkOf
  <2> QED
    BY <1>h, <2>1, <2>2 DEF Holders
<1>3. CASE th[p].pc \in {"clean_q", "clean_cb"}
  <2>1. n \in th[p].work /\ n \in Ids
    BY <1>f, <1>3 DEF Derefs, OwnLabels, CurLabels
  <2> QED
    BY <1>h, <2>1 DEF Holders, HoldsWork
<1>4. CASE th[p].pc = "tx"
  <2>1. n \in ToSet(tx_q)
    BY <1>4 DEF Derefs, OwnLabels, CurLabels
  <2>2. n \in Ids
    BY <1>f, <2>1 DEF ToSet
  <2> QED
    BY <1>f, <1>h, <2>1, <2>2 DEF Holders
<1>5. CASE th[p].pc \notin OwnLabels \cup CurLabels \cup {"clean_q", "clean_cb", "tx"}
  <2>1. Derefs(p) = {}
    BY <1>5 DEF Derefs
  <2> QED
    BY <2>1
<1> QED
  BY <1>1, <1>2, <1>3, <1>4, <1>5

(* The use of a freed block stays possible only where the recorded finding has it: by a
   call that has allocated its transaction and taken no reference yet, when the
   server's exit or a release has run a cleanup.  For every number of threads. *)
THEOREM Dangling ==
  ASSUME DistinctTxns
  PROVE  Spec => []DanglingOnlyWhenUnheld
  BY SafeAlways, DerefsHeld, PTL

(* No wake-up is lost: qmi_cci_response_wait_loop waits only for a transaction that was
   signalled, or that is outstanding or in the hands of a thread that will signal it. *)
THEOREM NoLostWakeup ==
  ASSUME DistinctTxns
  PROVE  Spec => []WaiterNotForgotten
<1>1. CountInv /\ SafeInv => WaiterNotForgotten
  <2> SUFFICES ASSUME CountInv, SafeInv, NEW p \in Threads, th[p].pc = "wait"
               PROVE  txn[th[p].txn].sig \/ InGoodHands(th[p].txn)
    BY DEF WaiterNotForgotten, At
  <2>1. Told(th[p].txn) \/ Owed(th[p].txn)
    BY DEF SafeInv, WaitInv, Awaits, Procs
  <2>2. ASSUME NEW q \in Procs, NEW n, Owes(th[q], n) PROVE InGoodHands(n)
    BY <2>2 DEF Owes, InGoodHands, ListWork
  <2> QED
    BY <2>1, <2>2 DEF Told, Owed, InGoodHands
<1> QED
  BY <1>1, SafeAlways, PTL

(* After the server's exit or a release, once every call has returned, both lists
   are empty and every block is freed. *)
THEOREM LeavesNothing ==
  ASSUME DistinctTxns
  PROVE  Spec => []NothingLeftBehind
<1>1. CountInv /\ SafeInv => NothingLeftBehind
  <2> SUFFICES ASSUME CountInv, SafeInv, Quiet, ~clnt.addr_valid \/ ~clnt.linked
               PROVE  txn_list = {} /\ tx_q = <<>> /\ \A n \in Ids : ~Live(n)
    BY DEF NothingLeftBehind
  <2>1. ~clnt.addr_valid \/ ~clnt.accepting
    BY DEF SafeInv, QueueLeft, Quiet
  <2>2. tx_q = <<>>
    BY <2>1 DEF SafeInv, QueueLeft, Quiet
  <2>3. txn_list = {}
    BY <2>1 DEF SafeInv, ListLeft, Quiet, Cleaning, BeforeQueue
  <2>4. ASSUME NEW n \in Ids PROVE ~Live(n)
    <3>1. \A q \in Procs : /\ TxnOf(th[q]) /\ WorkOf(th[q]) /\ th[q].pc \in {"idle", "exit"}
      BY DEF CountInv, ThreadInv, Quiet
    <3>2. n # NoTxn
      BY BoundAssumption DEF Ids, NoTxn
    <3>3. \A q \in Procs : /\ ~HoldsOwn(q, n) /\ ~HoldsEnq(q, n)
                           /\ ~HoldsCur(q, n) /\ ~HoldsWork(q, n)
      BY <3>1, <3>2 DEF TxnOf, NoTxnLabels, WorkOf, WorkLabels, HoldsOwn, HoldsEnq, HoldsCur,
                        HoldsWork, CurLabels
    <3>4. ToSet(tx_q) = {}
      BY <2>2 DEF ToSet
    <3>5. Holders(n) = {}
      BY <2>3, <3>3, <3>4 DEF Holders
    <3> QED
      BY <3>5, HoldersLive
  <2> QED
    BY <2>2, <2>3, <2>4
<1> QED
  BY <1>1, SafeAlways, PTL
-----------------------------------------------------------------------------
(* The refinement of QmiRequests: what one step of the engine is to the      *)
(* application.                                                              *)

(* A step that the application does not see. *)
LEMMA Unseen ==
  ASSUME SameNames, UNCHANGED hist
  PROVE  UNCHANGED Requests!vars
<1>1. /\ [n \in Ids |-> txn[n].kind]' = [n \in Ids |-> txn[n].kind]
      /\ [n \in Ids |-> hist[n].api]' = [n \in Ids |-> hist[n].api]
      /\ [n \in Ids |-> hist[n].wr]' = [n \in Ids |-> hist[n].wr]
      /\ [n \in Ids |-> hist[n].cb]' = [n \in Ids |-> hist[n].cb]
      /\ [n \in Ids |-> hist[n].del]' = [n \in Ids |-> hist[n].del]
  BY DEF SameNames
<1> QED
  BY <1>1 DEF Requests!vars

(* A call that allocates a transaction makes a request. *)
LEMMA SeenCall ==
  ASSUME hist \in [Ids -> History], NEW n \in Ids, NEW k \in {"sync", "async"},
         hist[n].api = "none", hist' = [hist EXCEPT ![n].api = "calling"],
         \A m \in Ids : txn'[m].kind = IF m = n THEN k ELSE txn[m].kind
  PROVE  Requests!Call(n)
<1>1. hist[n] \in History /\ \A m \in Ids : m # n => hist'[m] = hist[m]
  OBVIOUS
<1>2. /\ hist'[n].api = "calling" /\ hist'[n].wr = hist[n].wr
      /\ hist'[n].cb = hist[n].cb /\ hist'[n].del = hist[n].del
  BY <1>1 DEF History
<1>3. [m \in Ids |-> txn[m].kind]' = [[m \in Ids |-> txn[m].kind] EXCEPT ![n] = k]
  OBVIOUS
<1>4. [m \in Ids |-> hist[m].api]' = [[m \in Ids |-> hist[m].api] EXCEPT ![n] = "calling"]
  BY <1>1, <1>2
<1>5. /\ [m \in Ids |-> hist[m].wr]' = [m \in Ids |-> hist[m].wr]
      /\ [m \in Ids |-> hist[m].cb]' = [m \in Ids |-> hist[m].cb]
      /\ [m \in Ids |-> hist[m].del]' = [m \in Ids |-> hist[m].del]
  BY <1>1, <1>2
<1> QED
  BY <1>3, <1>4, <1>5 DEF Requests!Call

(* A call that returns. *)
LEMMA SeenReturn ==
  ASSUME hist \in [Ids -> History], SameNames, NEW n \in Ids, NEW r,
         hist[n].api = "calling", hist' = [hist EXCEPT ![n].api = r],
         \/ txn[n].kind = "async" /\ r = "sent"
         \/ txn[n].kind = "async" /\ r = "refused" /\ hist[n].wr = 0
         \/ txn[n].kind = "sync" /\ r = "timeout"
         \/ txn[n].kind = "sync" /\ r = "ok" /\ hist[n].wr = 1
         \/ txn[n].kind = "sync" /\ r = "error" /\ hist[n].wr = 0
  PROVE  Requests!Return(n)
<1>1. hist[n] \in History /\ \A m \in Ids : m # n => hist'[m] = hist[m]
  OBVIOUS
<1>2. /\ hist'[n].api = r /\ hist'[n].wr = hist[n].wr
      /\ hist'[n].cb = hist[n].cb /\ hist'[n].del = hist[n].del
  BY <1>1 DEF History
<1>3. [m \in Ids |-> txn[m].kind]' = [m \in Ids |-> txn[m].kind]
  BY DEF SameNames
<1>4. [m \in Ids |-> hist[m].api]' = [[m \in Ids |-> hist[m].api] EXCEPT ![n] = r]
  BY <1>1, <1>2
<1>5. /\ [m \in Ids |-> hist[m].wr]' = [m \in Ids |-> hist[m].wr]
      /\ [m \in Ids |-> hist[m].cb]' = [m \in Ids |-> hist[m].cb]
      /\ [m \in Ids |-> hist[m].del]' = [m \in Ids |-> hist[m].del]
  BY <1>1, <1>2
<1>6. r \in Requests!ReturnCodes(n)
  BY DEF Requests!ReturnCodes
<1> QED
  BY <1>3, <1>4, <1>5, <1>6 DEF Requests!Return

(* A response that is delivered. *)
LEMMA SeenResponse ==
  ASSUME hist \in [Ids -> History], SameNames, NEW n \in Ids,
         hist[n].wr = 0, hist[n].cb = 0, hist[n].del # "ok",
         hist[n].api = "calling" \/ (txn[n].kind = "async" /\ hist[n].api = "sent"),
         hist' = IF txn[n].kind = "async" THEN [hist EXCEPT ![n].wr = @ + 1, ![n].cb = @ + 1]
                                          ELSE [hist EXCEPT ![n].wr = @ + 1]
  PROVE  Requests!Respond(n)
<1>1. hist[n] \in History /\ \A m \in Ids : m # n => hist'[m] = hist[m]
  OBVIOUS
<1>2. /\ hist'[n].wr = 1 /\ hist'[n].api = hist[n].api /\ hist'[n].del = hist[n].del
      /\ hist'[n].cb = IF txn[n].kind = "async" THEN 1 ELSE hist[n].cb
  BY <1>1 DEF History
<1>3. /\ [m \in Ids |-> txn[m].kind]' = [m \in Ids |-> txn[m].kind]
      /\ [m \in Ids |-> hist[m].api]' = [m \in Ids |-> hist[m].api]
      /\ [m \in Ids |-> hist[m].del]' = [m \in Ids |-> hist[m].del]
  BY <1>1, <1>2 DEF SameNames
<1>4. [m \in Ids |-> hist[m].wr]' = [[m \in Ids |-> hist[m].wr] EXCEPT ![n] = 1]
  BY <1>1, <1>2
<1>5. [m \in Ids |-> hist[m].cb]' = IF txn[n].kind = "async"
                                    THEN [[m \in Ids |-> hist[m].cb] EXCEPT ![n] = 1]
                                    ELSE [m \in Ids |-> hist[m].cb]
  BY <1>1, <1>2
<1> QED
  BY <1>3, <1>4, <1>5 DEF Requests!Respond, Requests!Open

(* A callback that reports an error. *)
LEMMA SeenFailure ==
  ASSUME hist \in [Ids -> History], SameNames, NEW n \in Ids, txn[n].kind = "async",
         hist[n].wr = 0, hist[n].cb = 0, hist[n].del # "ok", hist[n].api # "none",
         hist' = [hist EXCEPT ![n].cb = @ + 1]
  PROVE  Requests!Fail(n)
<1>1. hist[n] \in History /\ \A m \in Ids : m # n => hist'[m] = hist[m]
  OBVIOUS
<1>2. /\ hist'[n].cb = 1 /\ hist'[n].api = hist[n].api
      /\ hist'[n].wr = hist[n].wr /\ hist'[n].del = hist[n].del
  BY <1>1 DEF History
<1>3. /\ [m \in Ids |-> txn[m].kind]' = [m \in Ids |-> txn[m].kind]
      /\ [m \in Ids |-> hist[m].api]' = [m \in Ids |-> hist[m].api]
      /\ [m \in Ids |-> hist[m].wr]' = [m \in Ids |-> hist[m].wr]
      /\ [m \in Ids |-> hist[m].del]' = [m \in Ids |-> hist[m].del]
  BY <1>1, <1>2 DEF SameNames
<1>4. [m \in Ids |-> hist[m].cb]' = [[m \in Ids |-> hist[m].cb] EXCEPT ![n] = 1]
  BY <1>1, <1>2
<1> QED
  BY <1>3, <1>4 DEF Requests!Fail, Requests!Open

(* A deletion that returns. *)
LEMMA SeenDelete ==
  ASSUME hist \in [Ids -> History], SameNames, NEW n \in Ids, txn[n].kind = "async",
         hist[n].api = "sent", hist[n].del = "no", NEW d,
         d = "invalid" \/ (d = "ok" /\ hist[n].cb = 0), hist' = [hist EXCEPT ![n].del = d]
  PROVE  Requests!Delete(n)
<1>1. hist[n] \in History /\ \A m \in Ids : m # n => hist'[m] = hist[m]
  OBVIOUS
<1>2. /\ hist'[n].del = d /\ hist'[n].api = hist[n].api
      /\ hist'[n].wr = hist[n].wr /\ hist'[n].cb = hist[n].cb
  BY <1>1 DEF History
<1>3. /\ [m \in Ids |-> txn[m].kind]' = [m \in Ids |-> txn[m].kind]
      /\ [m \in Ids |-> hist[m].api]' = [m \in Ids |-> hist[m].api]
      /\ [m \in Ids |-> hist[m].wr]' = [m \in Ids |-> hist[m].wr]
      /\ [m \in Ids |-> hist[m].cb]' = [m \in Ids |-> hist[m].cb]
  BY <1>1, <1>2 DEF SameNames
<1>4. [m \in Ids |-> hist[m].del]' = [[m \in Ids |-> hist[m].del] EXCEPT ![n] = d]
  BY <1>1, <1>2
<1> QED
  BY <1>3, <1>4 DEF Requests!Delete

Seen == UNCHANGED Requests!vars \/ \E n \in Ids : \/ Requests!Call(n) \/ Requests!Respond(n)
                                                  \/ Requests!Fail(n) \/ Requests!Return(n)
                                                  \/ Requests!Delete(n)

(* A transaction that somebody owes is open, and was called for. *)
LEMMA OwedOpen ==
  ASSUME CountInv, SafeInv, NEW p \in Procs, NEW n \in Ids, Owes(th[p], n)
  PROVE  hist[n].wr = 0 /\ hist[n].cb = 0 /\ hist[n].del # "ok" /\ hist[n].api # "none"
<1>1. Owed(n)
  BY DEF Owed
<1>2. n <= next /\ next \in Nat /\ n \in Nat
  BY ThreadFacts, BoundAssumption DEF Owes, Known, Ids
<1>3. ~(n > next)
  BY <1>2
<1> QED
  BY <1>1, <1>3 DEF SafeInv, OpenInv, OwnerInv

(* Reporting an error is seen as a failure, or not at all. *)
LEMMA ErrorSeen ==
  ASSUME CountInv, SafeInv, SameNames, NEW p \in Procs, NEW n \in Ids, Owes(th[p], n),
         NEW e, HandleTxnError(n, e)
  PROVE  Seen
<1>1. hist \in [Ids -> History] /\ txn[n].kind \in {"sync", "async"}
  BY DEF CountInv, TypeOK, Block
<1>2. CASE txn[n].kind = "sync"
  BY <1>2, Unseen DEF HandleTxnError, Seen
<1>3. CASE txn[n].kind = "async"
  BY <1>1, <1>3, OwedOpen, SeenFailure DEF HandleTxnError, Seen
<1> QED
  BY <1>1, <1>2, <1>3

(* What the application sees of the steps that it sees. *)
LEMMA StepSeen ==
  ASSUME CountInv, SafeInv, NEW p \in Procs, SameNames,
         \/ AsyncReturn(p) \/ RemoveTxn(p) \/ SyncReturn(p)
         \/ DeleteListed(p) \/ DeleteReturn(p)
         \/ FlushFail(p) \/ CleanFail(p)
  PROVE  Seen
<1>f. /\ hist \in [Ids -> History] /\ txn \in [Ids -> Block] /\ th[p] \in Thread
      /\ TxnOf(th[p]) /\ th[p].work \subseteq Ids /\ NoTxn \notin Ids
  BY ThreadFacts, BoundAssumption DEF Ids, NoTxn
<1>c. th[p].txn # NoTxn => IF th[p].pc \in DeleteLabels
                           THEN hist[th[p].txn].api = "sent" /\ hist[th[p].txn].del = "no"
                           ELSE hist[th[p].txn].api = "calling"
  BY DEF SafeInv, OwnerInv
<1>1. CASE AsyncReturn(p)
  <2>1. AsyncTxn(th[p]) /\ th[p].pc = "sent"
    BY <1>1, <1>f DEF AsyncReturn, At, TxnOf, AsyncLabels
  <2>2. th[p].txn \in Ids /\ txn[th[p].txn].kind = "async" /\ hist[th[p].txn].api = "calling"
    BY <1>f, <1>c, <2>1 DEF AsyncTxn, DeleteLabels
  <2> QED
    BY <1>1, <1>f, <2>2, SeenReturn DEF AsyncReturn, Seen
<1>2. CASE RemoveTxn(p)
  <2>1. th[p].pc = "remove" /\ th[p].txn \in Ids
    BY <1>2, <1>f DEF RemoveTxn, At, TxnOf, EitherLabels
  <2>2. hist[th[p].txn].api = "calling"
    BY <1>f, <1>c, <2>1 DEF DeleteLabels
  <2>3. CASE txn[th[p].txn].kind = "sync"
    BY <1>2, <2>3, Unseen DEF RemoveTxn, Sync, Seen
  <2>4. CASE txn[th[p].txn].kind # "sync"
    <3>1. AsyncTxn(th[p])
      BY <1>f, <2>1, <2>4 DEF AsyncTxn, Block
    <3>2. hist[th[p].txn].wr = 0
      BY <2>1, <3>1 DEF SafeInv, SetupInv, Unsent
    <3> QED
      BY <1>2, <1>f, <2>1, <2>2, <2>4, <3>1, <3>2, SeenReturn DEF RemoveTxn, Sync, AsyncTxn, Seen
  <2> QED
    BY <2>3, <2>4
<1>3. CASE SyncReturn(p)
  <2>1. th[p].pc = "dec_own" /\ SyncTxn(th[p])
    BY <1>3, <1>f DEF SyncReturn, At, TxnOf, SyncLabels
  <2>2. th[p].txn \in Ids /\ txn[th[p].txn].kind = "sync" /\ hist[th[p].txn].api = "calling"
    BY <1>f, <1>c, <2>1 DEF SyncTxn, DeleteLabels
  <2>3. PICK r : r = IF th[p].rc \in {"ok", "timeout"} THEN th[p].rc ELSE "error"
    OBVIOUS
  <2>4. /\ r = "ok" => hist[th[p].txn].wr = 1
        /\ r = "error" => hist[th[p].txn].wr = 0
        /\ r \in {"ok", "timeout", "error"}
    BY <2>1, <2>3 DEF SafeInv, RcInv
  <2>5. hist' = [hist EXCEPT ![th[p].txn].api = r]
    BY <1>3, <2>3 DEF SyncReturn
  <2> QED
    BY <1>f, <2>2, <2>4, <2>5, SeenReturn DEF Seen
<1>4. CASE DeleteListed(p)
  <2>1. AsyncTxn(th[p]) /\ th[p].pc = "del_l"
    BY <1>4, <1>f DEF DeleteListed, At, TxnOf, AsyncLabels
  <2>2. /\ th[p].txn \in Ids /\ txn[th[p].txn].kind = "async"
        /\ hist[th[p].txn].api = "sent" /\ hist[th[p].txn].del = "no"
    BY <1>f, <1>c, <2>1 DEF AsyncTxn, DeleteLabels
  <2>3. UNCHANGED hist \/ hist' = [hist EXCEPT ![th[p].txn].del = "invalid"]
    BY <1>4 DEF DeleteListed
  <2> QED
    BY <1>f, <2>2, <2>3, Unseen, SeenDelete DEF Seen
<1>5. CASE DeleteReturn(p)
  <2>1. AsyncTxn(th[p]) /\ th[p].pc = "del_dec"
    BY <1>5, <1>f DEF DeleteReturn, At, TxnOf, AsyncLabels
  <2>2. /\ th[p].txn \in Ids /\ txn[th[p].txn].kind = "async"
        /\ hist[th[p].txn].api = "sent" /\ hist[th[p].txn].del = "no"
    BY <1>f, <1>c, <2>1 DEF AsyncTxn, DeleteLabels
  <2>3. Deleting(th[p], th[p].txn)
    BY <2>1 DEF SafeInv, OwnerInv, Deleting
  <2>4. hist[th[p].txn].cb = 0
    BY <2>2, <2>3 DEF SafeInv, OpenInv
  <2> QED
    BY <1>5, <1>f, <2>2, <2>4, SeenDelete DEF DeleteReturn, Seen
<1>6. CASE FlushFail(p)
  <2>1. th[p].cur \in Ids /\ Owes(th[p], th[p].cur) /\ HandleTxnError(th[p].cur, "internal")
    BY <1>6 DEF FlushFail, At, Live, Owes
  <2> QED
    BY <2>1, ErrorSeen
<1>7. CASE CleanFail(p)
  <2>1. CASE th[p].work = {}
    BY <1>7, <2>1, Unseen DEF CleanFail, Seen
  <2>2. CASE th[p].work # {}
    <3>1. PICK m \in th[p].work : HandleTxnError(m, CleanupError(p))
      BY <1>7, <2>2 DEF CleanFail
    <3>2. m \in Ids /\ Owes(th[p], m)
      BY <1>7, <1>f, <3>1 DEF CleanFail, At, Owes, ListWork
    <3> QED
      BY <3>1, <3>2, ErrorSeen
  <2> QED
    BY <2>1, <2>2
<1> QED
  BY <1>1, <1>2, <1>3, <1>4, <1>5, <1>6, <1>7

(* What it sees of the reader. *)
LEMMA ReaderSeen ==
  ASSUME CountInv, SafeInv, SameNames, Deliver \/ Mismatch
  PROVE  Seen
<1>p. Reader \in Procs
  BY DEF Procs
<1>f. hist \in [Ids -> History] /\ txn \in [Ids -> Block]
  BY DEF CountInv, TypeOK
<1>n. PICK n \in Ids : n = th[Reader].cur
  BY DEF Deliver, Mismatch, Live
<1>1. Owes(th[Reader], n)
  BY <1>n DEF Deliver, Mismatch, At, Owes
<1>2. CASE Mismatch
  BY <1>p, <1>n, <1>1, <1>2, ErrorSeen DEF Mismatch
<1>3. CASE Deliver
  <2>1. CASE ~txn[n].rx_buf
    BY <1>n, <1>3, <2>1, Unseen DEF Deliver, Seen
  <2>2. CASE txn[n].rx_buf
    <3>1. /\ hist[n].wr = 0 /\ hist[n].cb = 0 /\ hist[n].del # "ok" /\ hist[n].api # "none"
      BY <1>p, <1>1, OwedOpen
    <3>2. Sent(n)
      BY <1>p, <1>n, <1>3 DEF Deliver, At, Sent, Passes
    <3>3. hist[n].api = "calling" \/ (txn[n].kind = "async" /\ hist[n].api = "sent")
      <4>1. CASE txn[n].kind = "sync"
        BY <2>2, <4>1 DEF SafeInv, BufferInv
      <4>2. CASE txn[n].kind = "async"
        <5>1. hist[n].api \notin {"refused", "ok", "error", "timeout"}
          BY <3>2, <4>2 DEF SafeInv, SetupInv, OwnerInv
        <5>2. hist[n].api \in {"none", "calling", "sent", "refused", "ok", "error", "timeout"}
          BY <1>f DEF History
        <5> QED
          BY <3>1, <4>2, <5>1, <5>2
      <4> QED
        BY <1>f, <4>1, <4>2 DEF Block
    <3>4. hist' = IF txn[n].kind = "async" THEN [hist EXCEPT ![n].wr = @ + 1, ![n].cb = @ + 1]
                                           ELSE [hist EXCEPT ![n].wr = @ + 1]
      BY <1>f, <1>n, <1>3, <2>2 DEF Deliver, Block
    <3> QED
      BY <1>f, <3>1, <3>3, <3>4, SeenResponse DEF Seen
  <2> QED
    BY <2>1, <2>2
<1> QED
  BY <1>2, <1>3

(* What it sees of an allocation. *)
LEMMA GetTxnSeen ==
  ASSUME CountInv, SafeInv, NEW p \in Procs, GetTxn(p)
  PROVE  Seen
<1>f. hist \in [Ids -> History] /\ txn \in [Ids -> Block] /\ next \in Nat
  BY DEF CountInv, TypeOK
<1>n. PICK n \in Ids : n = next + 1
  BY <1>f, BoundAssumption DEF GetTxn, Ids
<1>k. PICK k \in {"sync", "async"} : k = IF th[p].ret = "own" THEN "sync" ELSE "async"
  OBVIOUS
<1>1. n > next
  BY <1>f, <1>n
<1>2. hist[n].api = "none"
  BY <1>1 DEF SafeInv, OwnerInv
<1>3. \A m \in Ids : txn'[m].kind = IF m = n THEN k ELSE txn[m].kind
  BY <1>f, <1>n, <1>k DEF GetTxn
<1>4. hist' = [hist EXCEPT ![n].api = "calling"]
  BY <1>n DEF GetTxn
<1> QED
  BY <1>f, <1>2, <1>3, <1>4, SeenCall DEF Seen

(* Every other step leaves alone what the application sees. *)
LEMMA OthersUnseen ==
  ASSUME Next
  PROVE  \/ UNCHANGED hist
         \/ \E p \in Procs : GetTxn(p)
         \/ \E p \in Procs : \/ AsyncReturn(p) \/ RemoveTxn(p) \/ SyncReturn(p)
                             \/ DeleteListed(p) \/ DeleteReturn(p)
                             \/ FlushFail(p) \/ CleanFail(p)
         \/ Deliver \/ Mismatch
<1>1. ASSUME NEW p \in Procs, Cleanup(p), ~CleanFail(p) PROVE UNCHANGED hist
  BY <1>1 DEF Cleanup, DetachQueue, CleanQueue, DetachList, CleanInvalidate, CleanDec
<1>2. ASSUME NEW p \in Procs, Flush(p), ~Cleanup(p), ~FlushFail(p) PROVE UNCHANGED hist
  BY <1>2 DEF Flush, FlushStart, FlushDone, FlushSend, FlushDec, FlushFind, FlushFailDec
<1>3. ASSUME NEW p \in Procs, Send(p), ~GetTxn(p), ~AsyncReturn(p), ~RemoveTxn(p), ~SyncReturn(p)
      PROVE  UNCHANGED hist
  BY <1>3 DEF Send, OwnTxn, ClearSignal, SetRc, CheckServer, IncTxn, Enqueue, DecEnqueue,
              Wake, Woken, Invalidate
<1>4. ASSUME NEW p \in Procs, Delete(p), ~DeleteListed(p), ~DeleteReturn(p) PROVE UNCHANGED hist
  BY <1>4 DEF Delete, DeleteQueued, DeleteQueuedDec, DeleteInvalidate
<1>5. ASSUME NEW p \in Procs, Release(p) \/ CallStart(p) \/ WaitTimeout(p) PROVE UNCHANGED hist
  BY <1>5 DEF Release, StopAccepting, CloseXport, JoinReader, CallStart, SendStart, DeleteStart,
              ReleaseStart, WaitTimeout
<1>6. ASSUME Recv \/ Resume \/ ServerGone \/ RecvDec \/ ReaderExit PROVE UNCHANGED hist
  BY <1>6 DEF Recv, Resume, ServerGone, RecvDec, ReaderExit
<1>7. ASSUME NEW p \in Procs, UseAfterFree(p) PROVE UNCHANGED hist
  BY <1>7 DEF UseAfterFree
<1> QED
  BY <1>1, <1>2, <1>3, <1>4, <1>5, <1>6, <1>7 DEF Next, CallStep, UpcallStep, Procs

(* A step of the engine is a step of QmiRequests, or is not seen. *)
LEMMA NextSeen ==
  ASSUME DistinctTxns, CountInv, SafeInv, [Next]_vars
  PROVE  [Requests!Next]_(Requests!vars)
<1>1. Seen => [Requests!Next]_(Requests!vars)
  BY DEF Seen, Requests!Next
<1>2. CASE UNCHANGED vars
  BY <1>1, <1>2, Unseen DEF vars, SameNames, Seen
<1>3. CASE \E p \in Procs : GetTxn(p)
  BY <1>1, <1>3, GetTxnSeen
<1>4. CASE Next /\ ~\E p \in Procs : GetTxn(p)
  <2>1. SameNames
    BY <1>4, NextSteps DEF Step, Fixed, SameNames, UseAfterFree
  <2> QED
    BY <1>1, <1>4, <2>1, OthersUnseen, StepSeen, ReaderSeen, Unseen DEF Seen
<1> QED
  BY <1>2, <1>3, <1>4

(* At the start no request was made. *)
LEMMA InitSeen == Init => Requests!Init
<1> SUFFICES ASSUME Init PROVE Requests!Init
  OBVIOUS
<1>1. \A n \in Ids : txn[n].kind = "sync" /\ hist[n] = [api |-> "none", del |-> "no", cb |-> 0, wr |-> 0]
  BY DEF Init
<1> QED
  BY <1>1 DEF Requests!Init

(* The engine implements QmiRequests: whatever the threads, the lists and the transport
   do, a response is written once and never into the buffer of a call that has
   returned or of a request that was deleted, a synchronous call reports success
   exactly when it has the response, and an asynchronous request ends once. *)
THEOREM Refinement ==
  ASSUME DistinctTxns
  PROVE  Spec => ImplementsRequests
<1>1. CountInv /\ SafeInv /\ [Next]_vars => [Requests!Next]_(Requests!vars)
  BY NextSeen
<1> QED
  BY <1>1, SafeAlways, InitSeen, PTL DEF Spec, ImplementsRequests, Requests!Spec
=============================================================================
