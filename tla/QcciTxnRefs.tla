----------------------------- MODULE QcciTxnRefs -----------------------------
(***************************************************************************)
(* The reference counts of QcciTxn are exact, for any number of threads,   *)
(* transactions and addresses and whatever the transport and the service   *)
(* do.  CountInv is inductive: the lemmas classify what a step does to the *)
(* references (keeps, gains, loses or moves them) and to the thread that   *)
(* takes it; then there is one lemma per group of actions and under it one *)
(* case per action.                                                        *)
(***************************************************************************)
EXTENDS QcciTxnInv, QcciTxnProofs, FiniteSetTheorems, SequenceTheorems, TLAPS

-----------------------------------------------------------------------------
(* Counting the holders of a transaction.  A holder is a slot: a list, or    *)
(* one of the references a thread may have.  A step that fills a slot,       *)
(* empties one or passes a reference from one to another changes the number  *)
(* of holders by one, one or nothing; the reference count must follow.       *)

ListNames   == {"txn_list", "tx_q"}
ThreadNames == {"own", "enq", "cur", "work"}
Slots == {<<r, Reader>> : r \in ListNames} \cup (ThreadNames \X Procs)
Slot(r, p) == <<r, IF r \in ListNames THEN Reader ELSE p>>

InSlot(h, n) ==
  \/ h[1] = "txn_list" /\ n \in txn_list
  \/ h[1] = "tx_q" /\ n \in ToSet(tx_q)
  \/ h[1] = "own" /\ HoldsOwn(h[2], n)
  \/ h[1] = "enq" /\ HoldsEnq(h[2], n)
  \/ h[1] = "cur" /\ HoldsCur(h[2], n)
  \/ h[1] = "work" /\ HoldsWork(h[2], n)

(* The holders of a transaction are the slots in which it is, before and after a step. *)
LEMMA HoldersSet ==
  /\ \A n : Holders(n) = {h \in Slots : InSlot(h, n)}
  /\ \A n : Holders(n)' = {h \in Slots : InSlot(h, n)'}
<1>1. ASSUME NEW n PROVE Holders(n) = {h \in Slots : InSlot(h, n)}
  BY DEF Holders, Slots, InSlot, Procs, ListNames, ThreadNames
<1>2. ASSUME NEW n PROVE Holders(n)' = {h \in Slots : InSlot(h, n)'}
  BY DEF Holders, Slots, InSlot, Procs, ListNames, ThreadNames
<1> QED
  BY <1>1, <1>2

(* Every holder is one of the slots. *)
LEMMA HoldersInSlots == \A n : Holders(n) \subseteq Slots /\ Holders(n)' \subseteq Slots
  BY HoldersSet

(* A transaction has finitely many holders, so that they can be counted. *)
LEMMA HoldersFinite == \A n : IsFiniteSet(Holders(n))
<1>1. IsFiniteSet(Procs)
  BY ReaderAssumption, FS_Singleton, FS_Union DEF Procs
<1>2. IsFiniteSet(ThreadNames) /\ IsFiniteSet(ListNames)
  <2>1. IsFiniteSet({"own"}) /\ IsFiniteSet({"txn_list"}) 
    BY FS_Singleton
  <2>2. ListNames = {"txn_list"} \cup {"tx_q"}
    BY DEF ListNames
  <2>3. ThreadNames = (({"own"} \cup {"enq"}) \cup {"cur"}) \cup {"work"}
    BY DEF ThreadNames
  <2> QED
    BY <2>1, <2>2, <2>3, FS_AddElement
<1>3. IsFiniteSet(ThreadNames \X Procs)
  BY <1>1, <1>2, FS_Product
<1>4. IsFiniteSet({<<r, Reader>> : r \in ListNames})
  <2>1. {<<r, Reader>> : r \in ListNames} = {<<"txn_list", Reader>>} \cup {<<"tx_q", Reader>>}
    BY DEF ListNames
  <2>2. IsFiniteSet({<<"txn_list", Reader>>}) /\ IsFiniteSet({<<"tx_q", Reader>>})
    BY FS_Singleton
  <2>3. IsFiniteSet({<<"txn_list", Reader>>} \cup {<<"tx_q", Reader>>})
    BY <2>2, FS_Union
  <2> QED
    BY <2>1, <2>3
<1>5. IsFiniteSet(Slots)
  BY <1>3, <1>4, FS_Union DEF Slots
<1> QED
  BY <1>5, HoldersInSlots, FS_Subset

\* For the transactions of M, holder l gives up its reference and g takes one.
Effect(l, g, p, M) ==
  \A n \in Ids :
    /\ (n \in txn_list)' <=> (n \in txn_list /\ ~(l = "txn_list" /\ n \in M)) \/ (g = "txn_list" /\ n \in M)
    /\ (n \in ToSet(tx_q))' <=> (n \in ToSet(tx_q) /\ ~(l = "tx_q" /\ n \in M)) \/ (g = "tx_q" /\ n \in M)
    /\ \A q \in Procs :
        /\ HoldsOwn(q, n)' <=> (HoldsOwn(q, n) /\ ~(l = "own" /\ q = p /\ n \in M)) \/ (g = "own" /\ q = p /\ n \in M)
        /\ HoldsEnq(q, n)' <=> (HoldsEnq(q, n) /\ ~(l = "enq" /\ q = p /\ n \in M)) \/ (g = "enq" /\ q = p /\ n \in M)
        /\ HoldsCur(q, n)' <=> (HoldsCur(q, n) /\ ~(l = "cur" /\ q = p /\ n \in M)) \/ (g = "cur" /\ q = p /\ n \in M)
        /\ HoldsWork(q, n)' <=> (HoldsWork(q, n) /\ ~(l = "work" /\ q = p /\ n \in M)) \/ (g = "work" /\ q = p /\ n \in M)

(* What a step with an effect does to one slot of one transaction. *)
LEMMA EffectHolders ==
  ASSUME NEW p \in Procs, NEW M, NEW l, NEW g, Effect(l, g, p, M),
         NEW n \in Ids, NEW h \in Slots
  PROVE  h \in Holders(n)' <=> \/ h \in Holders(n) /\ ~(n \in M /\ h = Slot(l, p))
                               \/ n \in M /\ h = Slot(g, p)
<1>1. h \in Holders(n)' <=> InSlot(h, n)'
  BY HoldersSet
<1>2. h \in Holders(n) <=> InSlot(h, n)
  BY HoldersSet
<1>3. ASSUME NEW r \in ListNames, h = <<r, Reader>>
      PROVE InSlot(h, n)' <=> \/ InSlot(h, n) /\ ~(n \in M /\ h = Slot(l, p))
                              \/ n \in M /\ h = Slot(g, p)
  BY <1>3 DEF InSlot, Effect, Slot, ListNames
<1>4. ASSUME NEW r \in ThreadNames, NEW q \in Procs, h = <<r, q>>
      PROVE InSlot(h, n)' <=> \/ InSlot(h, n) /\ ~(n \in M /\ h = Slot(l, p))
                              \/ n \in M /\ h = Slot(g, p)
  BY <1>4 DEF InSlot, Effect, Slot, ListNames, ThreadNames
<1> QED
  BY <1>1, <1>2, <1>3, <1>4 DEF Slots

Names == ListNames \cup ThreadNames

\* Thread p, or a list, holds a reference r on n.
Has(r, p, n) ==
  \/ r = "txn_list" /\ n \in txn_list
  \/ r = "tx_q" /\ n \in ToSet(tx_q)
  \/ r = "own" /\ HoldsOwn(p, n)
  \/ r = "enq" /\ HoldsEnq(p, n)
  \/ r = "cur" /\ HoldsCur(p, n)
  \/ r = "work" /\ HoldsWork(p, n)

(* A slot is a holder exactly if the reference it stands for is held. *)
LEMMA SlotHeld ==
  ASSUME NEW p \in Procs, NEW r \in Names, NEW n
  PROVE  /\ Slot(r, p) \in Holders(n) => Has(r, p, n)
         /\ Has(r, p, n) => Slot(r, p) \in Holders(n)
<1>1. CASE r \in ListNames
  BY <1>1, HoldersSet DEF InSlot, Has, Slot, Slots, ListNames
<1>2. CASE r \in ThreadNames
  BY <1>2, HoldersSet DEF InSlot, Has, Slot, Slots, ListNames, ThreadNames
<1> QED
  BY <1>1, <1>2 DEF Names

(* The slot of a named reference. *)
LEMMA SlotType == \A p \in Procs, r \in Names : Slot(r, p) \in Slots
  BY DEF Names, Slot, Slots

(* No reference changes hands. *)
LEMMA KeepRefs ==
  ASSUME RefCountExact, NEW p \in Procs, Effect("none", "none", p, {}),
         \A n \in Ids : txn'[n].ref = txn[n].ref
  PROVE  RefCountExact'
<1> SUFFICES ASSUME NEW n \in Ids PROVE txn'[n].ref = Cardinality(Holders(n)')
  BY DEF RefCountExact
<1>1. Slot("none", p) \notin Slots
  BY DEF Slot, Slots, ListNames, ThreadNames
<1>2. \A h \in Slots : h \in Holders(n)' <=> h \in Holders(n)
  BY <1>1, EffectHolders
<1>3. Holders(n)' = Holders(n)
  BY <1>2, HoldersInSlots
<1> QED
  BY <1>3 DEF RefCountExact

(* Each transaction of M gets one more holder, and one more reference. *)
LEMMA GainRef ==
  ASSUME RefCountExact, NEW p \in Procs, NEW M \in SUBSET Ids, NEW g \in Names,
         Effect("none", g, p, M), \A n \in M : ~Has(g, p, n),
         \A n \in Ids : txn'[n].ref = IF n \in M THEN txn[n].ref + 1 ELSE txn[n].ref
  PROVE  RefCountExact'
<1> SUFFICES ASSUME NEW n \in Ids PROVE txn'[n].ref = Cardinality(Holders(n)')
  BY DEF RefCountExact
<1>1. Slot("none", p) \notin Slots /\ Slot(g, p) \in Slots
  BY SlotType DEF Slot, Slots, ListNames, ThreadNames
<1>2. \A h \in Slots : h \in Holders(n)' <=> h \in Holders(n) \/ (n \in M /\ h = Slot(g, p))
  BY <1>1, EffectHolders
<1>3. Holders(n)' = IF n \in M THEN Holders(n) \cup {Slot(g, p)} ELSE Holders(n)
  BY <1>1, <1>2, HoldersInSlots
<1>4. IsFiniteSet(Holders(n))
  BY HoldersFinite
<1>5. CASE n \in M
  <2>2. Slot(g, p) \notin Holders(n)
    BY <1>5, SlotHeld
  <2>1. Cardinality(Holders(n)') = Cardinality(Holders(n)) + 1
    BY <1>3, <1>4, <1>5, <2>2, FS_AddElement
  <2> QED
    BY <1>5, <2>1 DEF RefCountExact
<1>6. CASE n \notin M
  BY <1>3, <1>6 DEF RefCountExact
<1> QED
  BY <1>5, <1>6

(* A holder of each transaction of M drops its reference. *)
LEMMA LoseRef ==
  ASSUME RefCountExact, NEW p \in Procs, NEW M \in SUBSET Ids, NEW l \in Names,
         Effect(l, "none", p, M), \A n \in M : Has(l, p, n),
         \A n \in Ids : txn'[n].ref = IF n \in M THEN txn[n].ref - 1 ELSE txn[n].ref
  PROVE  RefCountExact'
<1> SUFFICES ASSUME NEW n \in Ids PROVE txn'[n].ref = Cardinality(Holders(n)')
  BY DEF RefCountExact
<1>1. Slot("none", p) \notin Slots /\ Slot(l, p) \in Slots
  BY SlotType DEF Slot, Slots, ListNames, ThreadNames
<1>2. \A h \in Slots : h \in Holders(n)' <=> h \in Holders(n) /\ ~(n \in M /\ h = Slot(l, p))
  BY <1>1, EffectHolders
<1>3. Holders(n)' = IF n \in M THEN Holders(n) \ {Slot(l, p)} ELSE Holders(n)
  BY <1>1, <1>2, HoldersInSlots
<1>4. IsFiniteSet(Holders(n))
  BY HoldersFinite
<1>5. CASE n \in M
  <2>2. Slot(l, p) \in Holders(n)
    BY <1>5, SlotHeld
  <2>1. Cardinality(Holders(n)') = Cardinality(Holders(n)) - 1
    <3>1. Holders(n)' = Holders(n) \ {Slot(l, p)}
      BY <1>3, <1>5
    <3>2. Cardinality(Holders(n) \ {Slot(l, p)}) = Cardinality(Holders(n)) - 1
      BY <2>2, HoldersFinite, FS_RemoveElement
    <3> QED
      BY <3>1, <3>2
  <2> QED
    BY <1>5, <2>1 DEF RefCountExact
<1>6. CASE n \notin M
  BY <1>3, <1>6 DEF RefCountExact
<1> QED
  BY <1>5, <1>6

(* References pass from one holder to another. *)
LEMMA MoveRef ==
  ASSUME RefCountExact, NEW p \in Procs, NEW M \in SUBSET Ids, NEW l \in Names, NEW g \in Names,
         Effect(l, g, p, M), \A n \in M : Has(l, p, n), \A n \in M : ~Has(g, p, n),
         \A n \in Ids : txn'[n].ref = txn[n].ref
  PROVE  RefCountExact'
<1> SUFFICES ASSUME NEW n \in Ids PROVE txn'[n].ref = Cardinality(Holders(n)')
  BY DEF RefCountExact
<1>1. Slot(l, p) \in Slots /\ Slot(g, p) \in Slots
  BY SlotType
<1>2. ASSUME NEW h \in Slots
      PROVE  /\ h \in Holders(n) /\ ~(n \in M /\ h = Slot(l, p)) => h \in Holders(n)'
             /\ n \in M /\ h = Slot(g, p) => h \in Holders(n)'
             /\ h \in Holders(n)' => \/ h \in Holders(n) /\ ~(n \in M /\ h = Slot(l, p))
                                     \/ n \in M /\ h = Slot(g, p)
  BY EffectHolders
<1>3. CASE n \in M
  <2>1. Holders(n)' = (Holders(n) \ {Slot(l, p)}) \cup {Slot(g, p)}
    BY <1>1, <1>2, <1>3, HoldersInSlots
  <2>2. IsFiniteSet(Holders(n) \ {Slot(l, p)})
    BY HoldersFinite, FS_RemoveElement
  <2>6. Slot(l, p) \in Holders(n) /\ Slot(g, p) \notin Holders(n) \ {Slot(l, p)}
    BY <1>3, SlotHeld
  <2>3. Cardinality(Holders(n)') = Cardinality(Holders(n) \ {Slot(l, p)}) + 1
    BY <2>1, <2>2, <2>6, FS_AddElement
  <2>4. Cardinality(Holders(n) \ {Slot(l, p)}) = Cardinality(Holders(n)) - 1
    BY <2>6, HoldersFinite, FS_RemoveElement
  <2>5. Cardinality(Holders(n)) \in Nat
    BY HoldersFinite, FS_CardinalityType
  <2> QED
    BY <2>3, <2>4, <2>5 DEF RefCountExact
<1>4. CASE n \notin M
  <2>1. Holders(n)' = Holders(n)
    BY <1>2, <1>4, HoldersInSlots
  <2> QED
    BY <2>1 DEF RefCountExact
<1> QED
  BY <1>3, <1>4

\* Sequences without repetitions.
Distinct(s) == \A i, j \in DOMAIN s : s[i] = s[j] => i = j

(* Deleting an element of a list without repetitions. *)
LEMMA RemoveAtDistinct ==
  ASSUME NEW S, NEW s \in Seq(S), Distinct(s), NEW i \in DOMAIN s
  PROVE  Distinct(RemoveAt(s, i)) /\ ToSet(RemoveAt(s, i)) = ToSet(s) \ {s[i]}
<1> DEFINE r == RemoveAt(s, i)
<1>1. DOMAIN s = 1..Len(s) /\ Len(s) \in Nat /\ i \in 1..Len(s)
  OBVIOUS
<1>2. /\ r \in Seq(S) /\ Len(r) = Len(s) - 1
      /\ \A k \in 1..Len(r) : r[k] = IF k < i THEN s[k] ELSE s[k + 1]
  <2> DEFINE a == SubSeq(s, 1, i - 1)
             b == SubSeq(s, i + 1, Len(s))
  <2>1. a \in Seq(S) /\ Len(a) = i - 1 /\ \A k \in 1..(i - 1) : a[k] = s[k]
    BY <1>1
  <2>2. b \in Seq(S) /\ Len(b) = Len(s) - i /\ \A k \in 1..(Len(s) - i) : b[k] = s[k + i]
    BY <1>1
  <2>3. r = a \o b
    BY DEF RemoveAt
  <2> HIDE DEF a, b
  <2>4. /\ r \in Seq(S) /\ Len(r) = Len(a) + Len(b)
        /\ \A k \in 1..(Len(a) + Len(b)) : r[k] = IF k <= Len(a) THEN a[k] ELSE b[k - Len(a)]
    BY <2>1, <2>2, <2>3, ConcatProperties
  <2>5. Len(r) = Len(s) - 1
    BY <1>1, <2>1, <2>2, <2>4
  <2>6. ASSUME NEW k \in 1..Len(r) PROVE r[k] = IF k < i THEN s[k] ELSE s[k + 1]
    <3>1. CASE k < i
      BY <1>1, <2>1, <2>2, <2>4, <2>5, <2>6, <3>1
    <3>2. CASE ~(k < i)
      <4>1. r[k] = b[k - (i - 1)] /\ k - (i - 1) \in 1..(Len(s) - i)
        <5>1. k \in 1..(Len(a) + Len(b)) /\ ~(k <= Len(a)) /\ Len(a) = i - 1
          BY <1>1, <2>1, <2>2, <2>4, <2>5, <2>6, <3>2
        <5>2. r[k] = b[k - (i - 1)]
          BY <2>4, <5>1
        <5> QED
          BY <1>1, <2>5, <2>6, <3>2, <5>2
      <4>2. k - (i - 1) + i = k + 1
        BY <1>1, <2>5, <2>6
      <4> QED
        BY <2>2, <3>2, <4>1, <4>2
    <3> QED
      BY <3>1, <3>2
  <2> QED
    BY <2>4, <2>5, <2>6
<1>3. DOMAIN r = 1..(Len(s) - 1)
  BY <1>1, <1>2
<1>4. Distinct(r)
  <2>1. ASSUME NEW k \in DOMAIN r
        PROVE  LET o == IF k < i THEN k ELSE k + 1
               IN  o \in DOMAIN s /\ o # i /\ r[k] = s[o]
    BY <1>1, <1>2, <1>3
  <2>2. ASSUME NEW j \in DOMAIN r, NEW k \in DOMAIN r, r[j] = r[k]
        PROVE  (IF j < i THEN j ELSE j + 1) = (IF k < i THEN k ELSE k + 1)
    BY <2>1, <2>2 DEF Distinct
  <2>3. ASSUME NEW j \in DOMAIN r, NEW k \in DOMAIN r,
               (IF j < i THEN j ELSE j + 1) = (IF k < i THEN k ELSE k + 1)
        PROVE  j = k
    BY <1>1, <1>3, <2>3
  <2> QED
    BY <2>2, <2>3 DEF Distinct
<1>5. ToSet(r) \subseteq ToSet(s) \ {s[i]}
  BY <1>1, <1>2, <1>3 DEF Distinct, ToSet
<1>6. ASSUME NEW k \in DOMAIN s, k # i PROVE s[k] \in ToSet(r)
  <2>1. CASE k < i
    <3>1. k \in DOMAIN r /\ r[k] = s[k]
      BY <1>1, <1>2, <1>3, <1>6, <2>1
    <3> QED
      BY <3>1 DEF ToSet
  <2>2. CASE k > i
    <3>1. k - 1 \in DOMAIN r /\ r[k - 1] = s[k]
      BY <1>1, <1>2, <1>3, <1>6, <2>2
    <3> QED
      BY <3>1 DEF ToSet
  <2> QED
    BY <1>1, <1>6, <2>1, <2>2
<1>7. ToSet(s) \ {s[i]} \subseteq ToSet(r)
  BY <1>6 DEF ToSet
<1> QED
  BY <1>4, <1>5, <1>7

(* Taking the head off a list without repetitions. *)
LEMMA TailDistinct ==
  ASSUME NEW S, NEW s \in Seq(S), Distinct(s), s # <<>>
  PROVE  /\ Distinct(Tail(s)) /\ ToSet(Tail(s)) = ToSet(s) \ {Head(s)}
         /\ Head(s) \in ToSet(s)
<1>1. DOMAIN s = 1..Len(s) /\ Len(s) \in Nat /\ Len(s) > 0
  BY EmptySeq
<1>2. /\ Tail(s) \in Seq(S) /\ Len(Tail(s)) = Len(s) - 1 /\ Head(s) = s[1]
      /\ \A k \in 1..Len(Tail(s)) : Tail(s)[k] = s[k + 1]
  BY <1>1, HeadTailProperties
<1>3. DOMAIN Tail(s) = 1..(Len(s) - 1)
  BY <1>1, <1>2
<1>4. Distinct(Tail(s))
  BY <1>1, <1>2, <1>3 DEF Distinct
<1>5. ToSet(Tail(s)) \subseteq ToSet(s) \ {Head(s)}
  BY <1>1, <1>2, <1>3 DEF Distinct, ToSet
<1>6. ASSUME NEW k \in DOMAIN s, k # 1 PROVE s[k] \in ToSet(Tail(s))
  <2>1. k - 1 \in DOMAIN Tail(s) /\ Tail(s)[k - 1] = s[k]
    BY <1>1, <1>2, <1>3, <1>6
  <2> QED
    BY <2>1 DEF ToSet
<1>7. ToSet(s) \ {Head(s)} \subseteq ToSet(Tail(s))
  BY <1>2, <1>6 DEF ToSet
<1>8. Head(s) \in ToSet(s)
  BY <1>1, <1>2 DEF ToSet
<1> QED
  BY <1>4, <1>5, <1>7, <1>8

(* Appending an element that is not in the list. *)
LEMMA AppendDistinct ==
  ASSUME NEW S, NEW s \in Seq(S), NEW e \in S, Distinct(s), e \notin ToSet(s)
  PROVE  Distinct(Append(s, e)) /\ ToSet(Append(s, e)) = ToSet(s) \cup {e}
<1>1. /\ DOMAIN s = 1..Len(s) /\ Len(s) \in Nat
      /\ DOMAIN Append(s, e) = 1..(Len(s) + 1)
      /\ \A k \in 1..Len(s) : Append(s, e)[k] = s[k]
      /\ Append(s, e)[Len(s) + 1] = e
  BY AppendProperties
<1>2. \A k \in 1..Len(s) : s[k] # e
  BY <1>1 DEF ToSet
<1>3. Distinct(Append(s, e))
  BY <1>1, <1>2 DEF Distinct
<1>4. ToSet(Append(s, e)) = {Append(s, e)[k] : k \in 1..(Len(s) + 1)}
  BY <1>1 DEF ToSet
<1>5. ToSet(s) = {s[k] : k \in 1..Len(s)}
  BY <1>1 DEF ToSet
<1>6. 1..(Len(s) + 1) = (1..Len(s)) \cup {Len(s) + 1}
  BY <1>1
<1>7. ToSet(Append(s, e)) = ToSet(s) \cup {e}
  BY <1>1, <1>4, <1>5, <1>6
<1> QED
  BY <1>3, <1>7

-----------------------------------------------------------------------------
(* What a step does to the reference counts and to the thread that takes it. *)

SameKinds == \A n \in Ids : txn'[n].kind = txn[n].kind
SameRefs  == \A n \in Ids : txn'[n].ref = txn[n].ref
AddRef(m)  == \A n \in Ids : txn'[n].ref = IF n \in {m} THEN txn[n].ref + 1 ELSE txn[n].ref
DropRef(m) == \A n \in Ids : txn'[n].ref = IF n \in {m} THEN txn[n].ref - 1 ELSE txn[n].ref
SentKnown == \A n \in Ids : hist'[n].api = "sent" =>
                hist[n].api = "sent" \/ (n <= next /\ txn[n].kind = "async")
NoRepeats == \A i, j \in DOMAIN tx_q : tx_q[i] = tx_q[j] => i = j
Others(p) == \A q \in Procs : q # p => th'[q] = th[q]

Known(t) == t.txn <= next /\ t.cur <= next /\ \A n \in t.work : n <= next

\* What a step of p may do to its own record.
Moves(p) ==
  /\ Others(p)
  /\ TxnOf(th'[p]) /\ WorkOf(th'[p]) /\ Known(th'[p])
  /\ th'[p].pc \in BeforeQueue => th[p].pc \in BeforeQueue /\ th'[p].txn = th[p].txn

Lists == /\ next' = next /\ txn_list' \subseteq txn_list
         /\ ToSet(tx_q)' \subseteq ToSet(tx_q) /\ NoRepeats'

(* QMI_CCI_DEC_TXN drops one reference, whether or not it frees the block. *)
LEMMA DecFacts ==
  ASSUME txn \in [Ids -> Block], NEW m \in Ids, DecTxn(m)
  PROVE  SameKinds /\ DropRef(m)
  BY DEF DecTxn, Dropped, Freed, Block, SameKinds, DropRef

(* Reporting an error touches no reference. *)
LEMMA HandleFacts ==
  ASSUME txn \in [Ids -> Block], hist \in [Ids -> History],
         NEW m \in Ids, NEW e, HandleTxnError(m, e)
  PROVE  SameKinds /\ SameRefs /\ SentKnown
<1>1. SameKinds /\ SameRefs
  BY DEF HandleTxnError, Block, SameKinds, SameRefs
<1>2. SentKnown
  BY DEF HandleTxnError, History, SentKnown
<1> QED
  BY <1>1, <1>2

(* The thread, queue and allocation invariants survive a step that moves one thread and
   adds nothing to the lists. *)
LEMMA Frame ==
  ASSUME ThreadInv, QueueInv, AllocInv, NEW p \in Procs,
         Moves(p), SameKinds, SentKnown, Lists
  PROVE  ThreadInv' /\ QueueInv' /\ AllocInv'
<1>1. ThreadInv'
  <2> SUFFICES ASSUME NEW q \in Procs PROVE TxnOf(th[q])' /\ WorkOf(th[q])'
    BY DEF ThreadInv
  <2>1. CASE q = p
    <3>1. TxnOf(th'[p]) /\ WorkOf(th'[p])
      BY DEF Moves
    <3> QED
      BY <2>1, <3>1 DEF TxnOf, WorkOf, SyncTxn, AsyncTxn, SameKinds
  <2>2. CASE q # p
    <3>1. th'[q] = th[q] /\ TxnOf(th[q]) /\ WorkOf(th[q])
      BY <2>2 DEF Moves, Others, ThreadInv
    <3> QED
      BY <3>1 DEF TxnOf, WorkOf, SyncTxn, AsyncTxn, SameKinds
  <2> QED
    BY <2>1, <2>2
<1>2. QueueInv'
  <2>1. NoRepeats'
    BY DEF Lists
  <2>2. ASSUME NEW q \in Procs, th'[q].pc \in BeforeQueue 
        PROVE th[q].pc \in BeforeQueue /\ th'[q].txn = th[q].txn
    BY <2>2 DEF Moves, Others
  <2>3. \A q \in Procs : th'[q].pc \in BeforeQueue => th'[q].txn \notin ToSet(tx_q)'
    BY <2>2 DEF QueueInv, Lists
  <2>4. \A q, r \in Procs : /\ th'[q].pc \in BeforeQueue /\ th'[r].pc \in BeforeQueue
                            /\ th'[q].txn = th'[r].txn
                            => q = r
    BY <2>2 DEF QueueInv
  <2> QED
    BY <2>1, <2>3, <2>4 DEF QueueInv, NoRepeats
<1>3. AllocInv'
  <2>1. \A n \in (txn_list \cup ToSet(tx_q))' : n <= next'
    BY DEF AllocInv, Lists
  <2>2. \A q \in Procs : /\ th'[q].txn <= next' /\ th'[q].cur <= next'
                         /\ \A n \in th'[q].work : n <= next'
    BY DEF AllocInv, Lists, Moves, Others, Known
  <2>3. \A n \in Ids : hist'[n].api = "sent" => n <= next' /\ txn'[n].kind = "async"
    BY DEF AllocInv, Lists, SentKnown, SameKinds
  <2> QED
    BY <2>1, <2>2, <2>3 DEF AllocInv
<1> QED
  BY <1>1, <1>2, <1>3

\* It is enough to look at the references of the thread that moves.
LocalEffect(l, g, p, M) ==
  \A n \in Ids :
    /\ (n \in txn_list)' <=> (n \in txn_list /\ ~(l = "txn_list" /\ n \in M)) \/ (g = "txn_list" /\ n \in M)
    /\ (n \in ToSet(tx_q))' <=> (n \in ToSet(tx_q) /\ ~(l = "tx_q" /\ n \in M)) \/ (g = "tx_q" /\ n \in M)
    /\ HoldsOwn(p, n)' <=> (HoldsOwn(p, n) /\ ~(l = "own" /\ n \in M)) \/ (g = "own" /\ n \in M)
    /\ HoldsEnq(p, n)' <=> (HoldsEnq(p, n) /\ ~(l = "enq" /\ n \in M)) \/ (g = "enq" /\ n \in M)
    /\ HoldsCur(p, n)' <=> (HoldsCur(p, n) /\ ~(l = "cur" /\ n \in M)) \/ (g = "cur" /\ n \in M)
    /\ HoldsWork(p, n)' <=> (HoldsWork(p, n) /\ ~(l = "work" /\ n \in M)) \/ (g = "work" /\ n \in M)

(* The other threads keep their references when only p moves. *)
LEMMA EffectFromLocal ==
  ASSUME NEW p \in Procs, NEW l, NEW g, NEW M, Others(p), SameKinds, LocalEffect(l, g, p, M)
  PROVE  Effect(l, g, p, M)
<1> SUFFICES ASSUME NEW n \in Ids, NEW q \in Procs
    PROVE 
        /\ HoldsOwn(q, n)' <=> (HoldsOwn(q, n) /\ ~(l = "own" /\ q = p /\ n \in M)) \/ (g = "own" /\ q = p /\ n \in M)
        /\ HoldsEnq(q, n)' <=> (HoldsEnq(q, n) /\ ~(l = "enq" /\ q = p /\ n \in M)) \/ (g = "enq" /\ q = p /\ n \in M)
        /\ HoldsCur(q, n)' <=> (HoldsCur(q, n) /\ ~(l = "cur" /\ q = p /\ n \in M)) \/ (g = "cur" /\ q = p /\ n \in M)
        /\ HoldsWork(q, n)' <=> (HoldsWork(q, n) /\ ~(l = "work" /\ q = p /\ n \in M)) \/ (g = "work" /\ q = p /\ n \in M)
  BY DEF LocalEffect, Effect
<1>1. CASE q = p
  BY <1>1 DEF LocalEffect
<1>2. CASE q # p
  <2>1. th'[q] = th[q]
    BY <1>2 DEF Others
  <2>2. HoldsOwn(q, n)' <=> HoldsOwn(q, n)
    BY <2>1 DEF HoldsOwn, SameKinds
  <2>3. HoldsEnq(q, n)' <=> HoldsEnq(q, n)
    BY <2>1 DEF HoldsEnq
  <2>4. HoldsCur(q, n)' <=> HoldsCur(q, n)
    BY <2>1 DEF HoldsCur
  <2>5. HoldsWork(q, n)' <=> HoldsWork(q, n)
    BY <2>1 DEF HoldsWork
  <2> QED
    BY <1>2, <2>2, <2>3, <2>4, <2>5
<1> QED
  BY <1>1, <1>2

Counted == ThreadInv /\ QueueInv /\ AllocInv /\ RefCountExact

(* A step of p that moves no reference. *)
LEMMA KeepStep ==
  ASSUME CountInv, NEW p \in Procs, Moves(p), SameKinds, SentKnown, Lists,
         SameRefs, LocalEffect("none", "none", p, {})
  PROVE  Counted'
  BY Frame, EffectFromLocal, KeepRefs DEF CountInv, Counted, Moves, SameRefs

(* A step in which p, or a list, takes a reference. *)
LEMMA GainStep ==
  ASSUME CountInv, NEW p \in Procs, Moves(p), SameKinds, SentKnown, Lists,
         NEW g \in Names, NEW m \in Ids, AddRef(m), ~Has(g, p, m),
         LocalEffect("none", g, p, {m})
  PROVE  Counted'
<1>1. Effect("none", g, p, {m})
  BY EffectFromLocal DEF Moves
<1>2. RefCountExact'
  BY <1>1, GainRef DEF CountInv, AddRef
<1> QED
  BY <1>2, Frame DEF CountInv, Counted

(* A step in which p, or a list, gives up a reference. *)
LEMMA LoseStep ==
  ASSUME CountInv, NEW p \in Procs, Moves(p), SameKinds, SentKnown, Lists,
         NEW l \in Names, NEW m \in Ids, DropRef(m), Has(l, p, m),
         LocalEffect(l, "none", p, {m})
  PROVE  Counted'
<1>1. Effect(l, "none", p, {m})
  BY EffectFromLocal DEF Moves
<1>2. RefCountExact'
  BY <1>1, LoseRef DEF CountInv, DropRef
<1> QED
  BY <1>2, Frame DEF CountInv, Counted

(* A step in which references change hands. *)
LEMMA MoveStep ==
  ASSUME CountInv, NEW p \in Procs, Moves(p), SameKinds, SentKnown, Lists,
         NEW l \in Names, NEW g \in Names, NEW M \in SUBSET Ids, SameRefs,
         \A n \in M : Has(l, p, n), \A n \in M : ~Has(g, p, n),
         LocalEffect(l, g, p, M)
  PROVE  Counted'
<1>1. Effect(l, g, p, M)
  BY EffectFromLocal DEF Moves
<1>2. RefCountExact'
  BY <1>1, MoveRef DEF CountInv, SameRefs
<1> QED
  BY <1>2, Frame DEF CountInv, Counted

(* What the invariant says of one thread. *)
LEMMA Facts ==
  ASSUME CountInv, NEW p \in Procs
  PROVE  /\ th \in [Procs -> Thread] /\ txn \in [Ids -> Block] /\ hist \in [Ids -> History]
         /\ TxnOf(th[p]) /\ WorkOf(th[p]) /\ Known(th[p])
         /\ th[p].txn \in Nat /\ th[p].cur \in Nat /\ th[p].work \subseteq Ids
         /\ next \in Nat
  BY DEF CountInv, TypeOK, ThreadInv, AllocInv, Known, Thread, Ids, NoTxn

(* Lists that a step leaves alone. *)
LEMMA SameLists ==
  ASSUME CountInv, UNCHANGED <<next, txn_list, tx_q>>
  PROVE  Lists
  BY DEF CountInv, QueueInv, Lists, NoRepeats

(* Blocks and histories that a step leaves alone. *)
LEMMA SameTxns ==
  /\ UNCHANGED txn => SameKinds /\ SameRefs
  /\ UNCHANGED hist => SentKnown
  BY DEF SameKinds, SameRefs, SentKnown

\* The thread goes on at another place and keeps its local variables.
Jump(p) ==
  /\ Others(p)
  /\ th'[p].txn = th[p].txn /\ th'[p].ret = th[p].ret
  /\ th'[p].cur = th[p].cur /\ th'[p].work = th[p].work

KeepJumps ==
  {<<"clear", "set_rc">>, <<"set_rc", "check">>, <<"check", "inc">>, <<"check", "inval">>,
   <<"check", "remove">>, <<"enq", "dec_enq">>, <<"flush", "tx">>, <<"flush", "detach_q">>,
   <<"find", "tx">>, <<"fail_cb", "fail_dec">>, <<"clean_q", "detach_l">>,
   <<"clean_inv", "clean_dec">>, <<"wait", "woken">>, <<"woken", "wait">>, <<"woken", "inval">>,
   <<"wait", "inval">>, <<"inval", "remove">>, <<"remove", "dec_own">>, <<"del_q", "del_l">>,
   <<"del_inv", "del_dec">>, <<"deliver", "recv_dec">>, <<"mismatch", "recv_dec">>,
   <<"idle", "exit">>, <<"idle", "stop">>, <<"close", "join">>}
OwnJumps  == {<<"own", "clear">>}
EnqJumps  == {<<"inc", "enq">>}
DropEnq   == {<<"dec_enq", "inval">>, <<"dec_enq", "remove">>}
DropCur   == {<<"dec_tx", "tx">>, <<"dec_tx", "find">>, <<"fail_dec", "tx">>, <<"del_dec_q", "del_l">>}

JumpOk(p) == /\ th'[p].pc \in {"inval", "dec_own"} => SyncTxn(th[p])
             /\ th'[p].pc = "detach_l" => th[p].work = {}

(* Each of these jumps leaves the thread where its transaction may be. *)
LEMMA JumpMoves ==
  ASSUME CountInv, NEW p \in Procs, Jump(p), JumpOk(p),
         <<th[p].pc, th'[p].pc>> \in KeepJumps \cup OwnJumps \cup EnqJumps \cup DropEnq \cup DropCur
  PROVE  Moves(p)
<1>t. TxnOf(th[p]) /\ WorkOf(th[p]) /\ Known(th[p])
  BY Facts
<1>1. TxnOf(th'[p])
  BY <1>t DEF Jump, JumpOk, KeepJumps, OwnJumps, EnqJumps, DropEnq, DropCur,
       TxnOf, SyncTxn, AsyncTxn, SyncLabels, AsyncLabels, EitherLabels, NoTxnLabels, FlushLabels
<1>2. WorkOf(th'[p])
  BY <1>t DEF Jump, JumpOk, KeepJumps, OwnJumps, EnqJumps, DropEnq, DropCur, WorkOf, WorkLabels
<1>3. Known(th'[p])
  BY <1>t DEF Jump, Known
<1>4. th'[p].pc \in BeforeQueue => th[p].pc \in BeforeQueue
  BY DEF KeepJumps, OwnJumps, EnqJumps, DropEnq, DropCur, BeforeQueue
<1> QED
  BY <1>1, <1>2, <1>3, <1>4 DEF Moves, Jump

(* Lists left alone keep their references. *)
LEMMA SameListRefs ==
  ASSUME UNCHANGED <<txn_list, tx_q>>
  PROVE  \A n : ((n \in txn_list)' <=> n \in txn_list) /\ ((n \in ToSet(tx_q))' <=> n \in ToSet(tx_q))
  OBVIOUS

(* A jump of KeepJumps moves no reference. *)
LEMMA KeepJumpEffect ==
  ASSUME CountInv, NEW p \in Procs, Jump(p), SameKinds, <<th[p].pc, th'[p].pc>> \in KeepJumps,
         UNCHANGED <<txn_list, tx_q>>
  PROVE  LocalEffect("none", "none", p, {})
<1>0. th[p].pc = "idle" => th[p].txn \notin Ids
  BY Facts DEF TxnOf, NoTxnLabels, NoTxn, Ids
<1>1. \A n \in Ids : HoldsOwn(p, n)' <=> HoldsOwn(p, n)
  BY <1>0 DEF Jump, KeepJumps, HoldsOwn, SameKinds
<1>2. \A n \in Ids : HoldsEnq(p, n)' <=> HoldsEnq(p, n)
  BY DEF Jump, KeepJumps, HoldsEnq
<1>3. \A n \in Ids : HoldsCur(p, n)' <=> HoldsCur(p, n)
  BY DEF Jump, KeepJumps, HoldsCur, CurLabels
<1>4. \A n \in Ids : HoldsWork(p, n)' <=> HoldsWork(p, n)
  BY DEF Jump, HoldsWork
<1> QED
  BY <1>1, <1>2, <1>3, <1>4, SameListRefs DEF LocalEffect

(* ... and preserves the invariant. *)
LEMMA KeepJump ==
  ASSUME CountInv, NEW p \in Procs, Jump(p), JumpOk(p),
         <<th[p].pc, th'[p].pc>> \in KeepJumps,
         SameKinds, SameRefs, SentKnown, UNCHANGED <<next, txn_list, tx_q>>
  PROVE  Counted'
  BY JumpMoves, KeepJumpEffect, SameLists, KeepStep

(* A synchronous caller takes a reference of its own. *)
LEMMA OwnJump ==
  ASSUME CountInv, NEW p \in Procs, Jump(p), <<th[p].pc, th'[p].pc>> \in OwnJumps,
         AddRef(th[p].txn), SameKinds, SentKnown, UNCHANGED <<next, txn_list, tx_q>>
  PROVE  Counted'
<1>0. SyncTxn(th[p])
  BY Facts DEF OwnJumps, TxnOf, SyncLabels
<1>1. \A n \in Ids : HoldsOwn(p, n)' <=> n = th[p].txn
  BY <1>0 DEF Jump, OwnJumps, HoldsOwn, SameKinds, SyncTxn
<1>2. \A n \in Ids : ~HoldsOwn(p, n)
  BY DEF OwnJumps, HoldsOwn
<1>3. \A n \in Ids : HoldsEnq(p, n)' <=> HoldsEnq(p, n)
  BY DEF Jump, OwnJumps, HoldsEnq
<1>4. \A n \in Ids : HoldsCur(p, n)' <=> HoldsCur(p, n)
  BY DEF Jump, OwnJumps, HoldsCur, CurLabels
<1>5. \A n \in Ids : HoldsWork(p, n)' <=> HoldsWork(p, n)
  BY DEF Jump, HoldsWork
<1>m. PICK m \in Ids : m = th[p].txn
  BY <1>0 DEF SyncTxn
<1>6. LocalEffect("none", "own", p, {m})
  BY <1>m, <1>1, <1>2, <1>3, <1>4, <1>5, SameListRefs DEF LocalEffect
<1>7. ~Has("own", p, m) /\ "own" \in Names /\ th[p].txn \in Ids
  BY <1>m, <1>0, <1>2 DEF Has, Names, ThreadNames, SyncTxn
<1>8. Moves(p)
  BY JumpMoves DEF OwnJumps, JumpOk
<1>9. Lists
  BY SameLists
<1>10. AddRef(m)
  BY <1>m
<1> QED
  BY <1>10, <1>6, <1>7, <1>8, <1>9, GainStep

(* A sender takes the reference of the transmit queue. *)
LEMMA EnqJump ==
  ASSUME CountInv, NEW p \in Procs, Jump(p), <<th[p].pc, th'[p].pc>> \in EnqJumps,
         AddRef(th[p].txn), SameKinds, SentKnown, UNCHANGED <<next, txn_list, tx_q>>
  PROVE  Counted'
<1>0. th[p].txn \in Ids
  BY Facts DEF EnqJumps, TxnOf, EitherLabels
<1>1. \A n \in Ids : HoldsOwn(p, n)' <=> HoldsOwn(p, n)
  BY DEF Jump, EnqJumps, HoldsOwn, SameKinds
<1>2. \A n \in Ids : ~HoldsEnq(p, n)
  BY DEF EnqJumps, HoldsEnq
<1>3. \A n \in Ids : HoldsEnq(p, n)' <=> n = th[p].txn
  BY DEF Jump, EnqJumps, HoldsEnq
<1>4. \A n \in Ids : HoldsCur(p, n)' <=> HoldsCur(p, n)
  BY DEF Jump, EnqJumps, HoldsCur, CurLabels
<1>5. \A n \in Ids : HoldsWork(p, n)' <=> HoldsWork(p, n)
  BY DEF Jump, HoldsWork
<1>m. PICK m \in Ids : m = th[p].txn
  BY <1>0
<1>6. LocalEffect("none", "enq", p, {m})
  BY <1>m, <1>1, <1>2, <1>3, <1>4, <1>5, SameListRefs DEF LocalEffect
<1>7. ~Has("enq", p, m) /\ "enq" \in Names
  BY <1>m, <1>0, <1>2 DEF Has, Names, ThreadNames
<1>8. Moves(p)
  BY JumpMoves DEF EnqJumps, JumpOk
<1>9. Lists
  BY SameLists
<1>10. AddRef(m)
  BY <1>m
<1> QED
  BY <1>10, <1>6, <1>7, <1>8, <1>9, GainStep

(* A sender whose transaction was not queued gives that reference up. *)
LEMMA DropEnqJump ==
  ASSUME CountInv, NEW p \in Procs, Jump(p), JumpOk(p), <<th[p].pc, th'[p].pc>> \in DropEnq,
         DropRef(th[p].txn), SameKinds, SentKnown, UNCHANGED <<next, txn_list, tx_q>>
  PROVE  Counted'
<1>0. th[p].txn \in Ids
  BY Facts DEF DropEnq, TxnOf, EitherLabels
<1>1. \A n \in Ids : HoldsOwn(p, n)' <=> HoldsOwn(p, n)
  BY DEF Jump, DropEnq, HoldsOwn, SameKinds
<1>2. \A n \in Ids : ~HoldsEnq(p, n)'
  BY DEF DropEnq, HoldsEnq
<1>3. \A n \in Ids : HoldsEnq(p, n) <=> n = th[p].txn
  BY DEF DropEnq, HoldsEnq
<1>4. \A n \in Ids : HoldsCur(p, n)' <=> HoldsCur(p, n)
  BY DEF Jump, DropEnq, HoldsCur, CurLabels
<1>5. \A n \in Ids : HoldsWork(p, n)' <=> HoldsWork(p, n)
  BY DEF Jump, HoldsWork
<1>m. PICK m \in Ids : m = th[p].txn
  BY <1>0
<1>6. LocalEffect("enq", "none", p, {m})
  BY <1>m, <1>1, <1>2, <1>3, <1>4, <1>5, SameListRefs DEF LocalEffect
<1>7. Has("enq", p, m) /\ "enq" \in Names
  BY <1>m, <1>0, <1>3 DEF Has, Names, ThreadNames
<1>8. Moves(p)
  BY JumpMoves
<1>9. Lists
  BY SameLists
<1>10. DropRef(m)
  BY <1>m
<1> QED
  BY <1>10, <1>6, <1>7, <1>8, <1>9, LoseStep

(* A thread gives up the reference on the transaction it took off a list. *)
LEMMA DropCurJump ==
  ASSUME CountInv, NEW p \in Procs, Jump(p), <<th[p].pc, th'[p].pc>> \in DropCur,
         th[p].cur \in Ids, DropRef(th[p].cur), SameKinds, SentKnown,
         UNCHANGED <<next, txn_list, tx_q>>
  PROVE  Counted'
<1>1. \A n \in Ids : HoldsOwn(p, n)' <=> HoldsOwn(p, n)
  BY DEF Jump, DropCur, HoldsOwn, SameKinds
<1>2. \A n \in Ids : HoldsEnq(p, n)' <=> HoldsEnq(p, n)
  BY DEF Jump, DropCur, HoldsEnq
<1>3. \A n \in Ids : ~HoldsCur(p, n)'
  BY DEF DropCur, HoldsCur, CurLabels
<1>4. \A n \in Ids : HoldsCur(p, n) <=> n = th[p].cur
  BY DEF DropCur, HoldsCur, CurLabels
<1>5. \A n \in Ids : HoldsWork(p, n)' <=> HoldsWork(p, n)
  BY DEF Jump, HoldsWork
<1>m. PICK m \in Ids : m = th[p].cur
  OBVIOUS
<1>6. LocalEffect("cur", "none", p, {m})
  BY <1>m, <1>1, <1>2, <1>3, <1>4, <1>5, SameListRefs DEF LocalEffect
<1>7. Has("cur", p, m) /\ "cur" \in Names
  BY <1>m, <1>4 DEF Has, Names, ThreadNames
<1>8. Moves(p)
  BY JumpMoves DEF DropCur, JumpOk
<1>9. Lists
  BY SameLists
<1>10. DropRef(m)
  BY <1>m
<1> QED
  BY <1>10, <1>6, <1>7, <1>8, <1>9, LoseStep

\* The call ends.
GoesIdle(p) == Others(p) /\ th'[p] = Idle

(* A thread may always become idle. *)
LEMMA IdleMoves ==
  ASSUME CountInv, NEW p \in Procs, GoesIdle(p)
  PROVE  Moves(p)
<1>n. next \in Nat
  BY Facts
<1>1. TxnOf(Idle)
  BY DEF Idle, TxnOf, SyncLabels, AsyncLabels, EitherLabels, NoTxnLabels, FlushLabels
<1>2. WorkOf(Idle)
  BY DEF Idle, WorkOf, WorkLabels
<1>3. Known(Idle)
  BY <1>n DEF Idle, Known, NoTxn
<1>4. Idle.pc \notin BeforeQueue
  BY DEF Idle, BeforeQueue
<1> QED
  BY <1>1, <1>2, <1>3, <1>4 DEF Moves, GoesIdle

(* An idle thread holds no reference. *)
LEMMA IdleHoldsNothing ==
  ASSUME NEW p \in Procs, GoesIdle(p), NEW n
  PROVE  ~HoldsOwn(p, n)' /\ ~HoldsEnq(p, n)' /\ ~HoldsCur(p, n)' /\ ~HoldsWork(p, n)'
  BY DEF GoesIdle, Idle, HoldsOwn, HoldsEnq, HoldsCur, HoldsWork, CurLabels

(* A call that ends without a reference. *)
LEMMA IdleKeep ==
  ASSUME CountInv, NEW p \in Procs, GoesIdle(p),
         \A n \in Ids : ~HoldsOwn(p, n) /\ ~HoldsEnq(p, n) /\ ~HoldsCur(p, n) /\ ~HoldsWork(p, n),
         SameKinds, SameRefs, SentKnown, UNCHANGED <<next, txn_list, tx_q>>
  PROVE  Counted'
<1>1. LocalEffect("none", "none", p, {})
  BY IdleHoldsNothing, SameListRefs DEF LocalEffect
<1> QED
  BY <1>1, IdleMoves, SameLists, KeepStep

(* A call that ends by giving up the transaction it took off the list. *)
LEMMA IdleDropCur ==
  ASSUME CountInv, NEW p \in Procs, GoesIdle(p), th[p].pc \in {"del_dec", "recv_dec"},
         th[p].cur \in Ids, DropRef(th[p].cur), SameKinds, SentKnown,
         UNCHANGED <<next, txn_list, tx_q>>
  PROVE  Counted'
<1>m. PICK m \in Ids : m = th[p].cur
  OBVIOUS
<1>0. TxnOf(th[p]) /\ WorkOf(th[p])
  BY Facts
<1>1. \A n \in Ids : ~HoldsOwn(p, n)
  BY <1>0 DEF TxnOf, AsyncLabels, NoTxnLabels, NoTxn, Ids, AsyncTxn, HoldsOwn
<1>2. \A n \in Ids : ~HoldsEnq(p, n) /\ ~HoldsWork(p, n)
  BY <1>0 DEF WorkOf, WorkLabels, HoldsEnq, HoldsWork
<1>3. \A n \in Ids : HoldsCur(p, n) <=> n = m
  BY <1>m DEF HoldsCur, CurLabels
<1>4. LocalEffect("cur", "none", p, {m})
  BY <1>1, <1>2, <1>3, IdleHoldsNothing, SameListRefs DEF LocalEffect
<1>5. Has("cur", p, m) /\ "cur" \in Names
  BY <1>3 DEF Has, Names, ThreadNames
<1>6. DropRef(m)
  BY <1>m
<1>7. Moves(p) /\ Lists
  BY IdleMoves, SameLists
<1> QED
  BY <1>4, <1>5, <1>6, <1>7, LoseStep

(* A synchronous call ends by giving up its own reference. *)
LEMMA IdleDropOwn ==
  ASSUME CountInv, NEW p \in Procs, GoesIdle(p), th[p].pc = "dec_own",
         DropRef(th[p].txn), SameKinds, SentKnown, UNCHANGED <<next, txn_list, tx_q>>
  PROVE  Counted'
<1>0. TxnOf(th[p]) /\ WorkOf(th[p])
  BY Facts
<1>m. PICK m \in Ids : m = th[p].txn /\ txn[m].kind = "sync"
  BY <1>0 DEF TxnOf, SyncLabels, SyncTxn
<1>1. \A n \in Ids : HoldsOwn(p, n) <=> n = m
  BY <1>m DEF HoldsOwn
<1>2. \A n \in Ids : ~HoldsEnq(p, n) /\ ~HoldsWork(p, n)
  BY <1>0 DEF WorkOf, WorkLabels, HoldsEnq, HoldsWork
<1>3. \A n \in Ids : ~HoldsCur(p, n)
  BY DEF HoldsCur, CurLabels
<1>4. LocalEffect("own", "none", p, {m})
  BY <1>1, <1>2, <1>3, IdleHoldsNothing, SameListRefs DEF LocalEffect
<1>5. Has("own", p, m) /\ "own" \in Names
  BY <1>1 DEF Has, Names, ThreadNames
<1>6. DropRef(m)
  BY <1>m
<1>7. Moves(p) /\ Lists
  BY IdleMoves, SameLists
<1> QED
  BY <1>4, <1>5, <1>6, <1>7, LoseStep

(* A flush or a cleanup returns to its caller. *)
LEMMA ReturnKeep ==
  ASSUME CountInv, NEW p \in Procs, Return(p), th[p].pc \in {"tx", "clean_cb"}, th[p].work = {},
         SameKinds, SameRefs, SentKnown, UNCHANGED <<next, txn_list, tx_q>>
  PROVE  Counted'
<1>0. TxnOf(th[p]) /\ WorkOf(th[p]) /\ Known(th[p]) /\ th \in [Procs -> Thread] /\ next \in Nat
  BY Facts
<1>1. \A n \in Ids : ~HoldsEnq(p, n) /\ ~HoldsWork(p, n) /\ ~HoldsCur(p, n)
  BY DEF HoldsEnq, HoldsWork, HoldsCur, CurLabels
<1>o. Others(p)
  BY <1>0 DEF Others, Return
<1>2. CASE th[p].ret = "idle"
  <2>1. GoesIdle(p)
    BY <1>0, <1>2, <1>o DEF Return, GoesIdle
  <2>2. \A n \in Ids : ~HoldsOwn(p, n)
    BY <1>0, <1>2 DEF TxnOf, FlushLabels, NoTxn, Ids, HoldsOwn
  <2> QED
    BY <1>1, <2>1, <2>2, IdleKeep
<1>3. CASE th[p].ret # "idle"
  <2>1. /\ th'[p].pc = th[p].ret /\ th'[p].ret = th[p].ret /\ th'[p].txn = th[p].txn
        /\ th'[p].cur = NoTxn /\ th'[p].work = {}
    BY <1>0, <1>3 DEF Return, Thread
  <2>2. \/ th[p].ret = "wait" /\ SyncTxn(th[p])
        \/ th[p].ret = "sent" /\ AsyncTxn(th[p])
        \/ th[p].ret = "close" /\ th[p].txn = NoTxn
    BY <1>0, <1>3 DEF TxnOf, FlushLabels
  <2>3. TxnOf(th'[p])
    BY <2>1, <2>2 DEF TxnOf, SyncTxn, AsyncTxn, SyncLabels, AsyncLabels, EitherLabels, NoTxnLabels, FlushLabels
  <2>4. WorkOf(th'[p])
    BY <2>1, <2>2 DEF WorkOf
  <2>5. Known(th'[p])
    BY <1>0, <2>1 DEF Known, NoTxn
  <2>6. Moves(p)
    BY <1>o, <2>1, <2>2, <2>3, <2>4, <2>5 DEF Moves, BeforeQueue
  <2>7. \A n \in Ids : HoldsOwn(p, n)' <=> HoldsOwn(p, n)
    BY <2>1, <2>2 DEF HoldsOwn, SameKinds
  <2>8. \A n \in Ids : ~HoldsEnq(p, n)' /\ ~HoldsWork(p, n)' /\ ~HoldsCur(p, n)'
    BY <2>1, <2>2 DEF HoldsEnq, HoldsWork, HoldsCur, CurLabels
  <2>9. LocalEffect("none", "none", p, {})
    BY <1>1, <2>7, <2>8, SameListRefs DEF LocalEffect
  <2> QED
    BY <2>6, <2>9, SameLists, KeepStep
<1> QED
  BY <1>2, <1>3

\* A call, a flush or a cleanup begins.
Begins == {<<"idle", "get_txn", "own">>, <<"idle", "get_txn", "check">>, <<"idle", "flush", "idle">>,
           <<"idle", "detach_q", "idle">>, <<"stop", "detach_q", "close">>}

(* No reference moves when a call, a flush or a cleanup begins. *)
LEMMA BeginKeep ==
  ASSUME CountInv, NEW p \in Procs, Others(p),
         th'[p].txn = th[p].txn, th'[p].cur = th[p].cur, th'[p].work = th[p].work,
         <<th[p].pc, th'[p].pc, th'[p].ret>> \in Begins,
         SameKinds, SameRefs, SentKnown, UNCHANGED <<next, txn_list, tx_q>>
  PROVE  Counted'
<1>0. TxnOf(th[p]) /\ WorkOf(th[p]) /\ Known(th[p])
  BY Facts
<1>1. th[p].txn = NoTxn /\ NoTxn \notin Ids
  BY <1>0 DEF Begins, TxnOf, NoTxnLabels, NoTxn, Ids
<1>2. TxnOf(th'[p])
  BY <1>1 DEF Begins, TxnOf, SyncTxn, AsyncTxn, SyncLabels, AsyncLabels, EitherLabels, NoTxnLabels, FlushLabels
<1>3. WorkOf(th'[p]) /\ Known(th'[p])
  BY <1>0 DEF Begins, WorkOf, WorkLabels, Known
<1>4. th'[p].pc \notin BeforeQueue
  BY DEF Begins, BeforeQueue
<1>5. Moves(p)
  BY <1>2, <1>3, <1>4 DEF Moves
<1>6. \A n \in Ids : /\ ~HoldsOwn(p, n)' /\ ~HoldsOwn(p, n)
                     /\ ~HoldsEnq(p, n)' /\ ~HoldsEnq(p, n)
  BY <1>1 DEF HoldsOwn, HoldsEnq
<1>7. \A n \in Ids : ~HoldsCur(p, n)' /\ ~HoldsCur(p, n)
  BY DEF Begins, HoldsCur, CurLabels
<1>8. \A n \in Ids : HoldsWork(p, n)' <=> HoldsWork(p, n)
  BY DEF HoldsWork
<1>9. LocalEffect("none", "none", p, {})
  BY <1>6, <1>7, <1>8, SameListRefs DEF LocalEffect
<1> QED
  BY <1>5, <1>9, SameLists, KeepStep

\* A thread takes transaction m off the list, or off the queue, to handle it.
Takes(p, m) == /\ Others(p)
               /\ th'[p].txn = th[p].txn /\ th'[p].ret = th[p].ret
               /\ th'[p].cur = m /\ th'[p].work = th[p].work

TakeSteps == {<<"find", "fail_cb">>, <<"del_l", "del_inv">>, <<"idle", "deliver">>,
              <<"idle", "mismatch">>, <<"tx", "dec_tx">>, <<"del_q", "del_dec_q">>}

(* What taking a transaction off a list does to the thread. *)
LEMMA TakeFacts ==
  ASSUME CountInv, NEW p \in Procs, NEW m \in Ids, m <= next, Takes(p, m), SameKinds,
         <<th[p].pc, th'[p].pc>> \in TakeSteps
  PROVE  /\ Moves(p)
         /\ \A n \in Ids : /\ HoldsOwn(p, n)' <=> HoldsOwn(p, n)
                           /\ HoldsEnq(p, n)' <=> HoldsEnq(p, n)
                           /\ HoldsWork(p, n)' <=> HoldsWork(p, n)
                           /\ ~HoldsCur(p, n)
                           /\ HoldsCur(p, n)' <=> n = m
<1>0. TxnOf(th[p]) /\ WorkOf(th[p]) /\ Known(th[p])
  BY Facts
<1>1. TxnOf(th'[p])
  BY <1>0 DEF Takes, TakeSteps, TxnOf, SyncTxn, AsyncTxn, SyncLabels, AsyncLabels, EitherLabels, NoTxnLabels, FlushLabels
<1>2. WorkOf(th'[p])
  BY <1>0 DEF Takes, TakeSteps, WorkOf, WorkLabels
<1>3. Known(th'[p])
  BY <1>0 DEF Takes, Known
<1>4. th'[p].pc \notin BeforeQueue
  BY DEF TakeSteps, BeforeQueue
<1>5. Moves(p)
  BY <1>1, <1>2, <1>3, <1>4 DEF Moves, Takes
<1>6. th[p].pc = "idle" => th[p].txn \notin Ids
  BY <1>0 DEF TxnOf, NoTxnLabels, NoTxn, Ids
<1>7. \A n \in Ids : HoldsOwn(p, n)' <=> HoldsOwn(p, n)
  BY <1>6 DEF Takes, TakeSteps, HoldsOwn, SameKinds
<1>8. \A n \in Ids : (HoldsEnq(p, n)' <=> HoldsEnq(p, n)) /\ (HoldsWork(p, n)' <=> HoldsWork(p, n))
  BY DEF Takes, TakeSteps, HoldsEnq, HoldsWork
<1>9. \A n \in Ids : ~HoldsCur(p, n) /\ (HoldsCur(p, n)' <=> n = m)
  BY DEF Takes, TakeSteps, HoldsCur, CurLabels
<1> QED
  BY <1>5, <1>7, <1>8, <1>9

(* The reference of txn_list passes to the thread that took the transaction off it. *)
LEMMA TakeListed ==
  ASSUME CountInv, NEW p \in Procs, NEW m \in txn_list, Takes(p, m),
         <<th[p].pc, th'[p].pc>> \in TakeSteps, txn_list' = txn_list \ {m},
         SameKinds, SameRefs, SentKnown, UNCHANGED <<next, tx_q>>
  PROVE  Counted'
<1>m. PICK k \in Ids : k = m
  BY DEF CountInv, TypeOK
<1>0. k <= next
  BY <1>m DEF CountInv, AllocInv
<1>t. Takes(p, k)
  BY <1>m
<1>1. Moves(p)
  BY <1>0, <1>t, TakeFacts
<1>2. LocalEffect("txn_list", "cur", p, {k})
  BY <1>m, <1>0, <1>t, TakeFacts DEF LocalEffect
<1>3. Has("txn_list", p, k) /\ ~Has("cur", p, k)
  BY <1>m, <1>0, <1>t, TakeFacts DEF Has
<1>4. "txn_list" \in Names /\ "cur" \in Names
  BY DEF Names, ListNames, ThreadNames
<1>5. Lists
  BY DEF Lists, CountInv, QueueInv, NoRepeats
<1>6. \A n \in {k} : Has("txn_list", p, n) /\ ~Has("cur", p, n)
  BY <1>3
<1>7. {k} \in SUBSET Ids
  OBVIOUS
<1> QED
  BY <1>1, <1>2, <1>4, <1>5, <1>6, <1>7, MoveStep

(* The reference of tx_q passes to the thread that took the transaction off it. *)
LEMMA TakeQueued ==
  ASSUME CountInv, NEW p \in Procs, NEW m \in ToSet(tx_q), Takes(p, m),
         <<th[p].pc, th'[p].pc>> \in TakeSteps,
         ToSet(tx_q)' = ToSet(tx_q) \ {m}, NoRepeats',
         SameKinds, SameRefs, SentKnown, UNCHANGED <<next, txn_list>>
  PROVE  Counted'
<1>m. PICK k \in Ids : k = m
  BY DEF CountInv, TypeOK, ToSet
<1>0. k <= next
  BY <1>m DEF CountInv, AllocInv
<1>t. Takes(p, k)
  BY <1>m
<1>1. Moves(p)
  BY <1>0, <1>t, TakeFacts
<1>2. LocalEffect("tx_q", "cur", p, {k})
  BY <1>m, <1>0, <1>t, TakeFacts DEF LocalEffect
<1>3. Has("tx_q", p, k) /\ ~Has("cur", p, k)
  BY <1>m, <1>0, <1>t, TakeFacts DEF Has
<1>4. "tx_q" \in Names /\ "cur" \in Names
  BY DEF Names, ListNames, ThreadNames
<1>5. Lists
  BY DEF Lists
<1>6. \A n \in {k} : Has("tx_q", p, n) /\ ~Has("cur", p, n)
  BY <1>3
<1>7. {k} \in SUBSET Ids
  OBVIOUS
<1> QED
  BY <1>1, <1>2, <1>4, <1>5, <1>6, <1>7, MoveStep

(* A step that leaves the threads and the lists alone. *)
LEMMA StutterCounts ==
  ASSUME CountInv, UNCHANGED <<next, txn, txn_list, tx_q, th, hist>>
  PROVE  Counted'
<1>p. Reader \in Procs
  BY DEF Procs
<1>1. SameKinds /\ SameRefs /\ SentKnown /\ Lists
  BY SameTxns, SameLists
<1>2. Moves(Reader)
  BY <1>p, Facts DEF Moves, Others
<1>3. LocalEffect("none", "none", Reader, {})
  BY DEF LocalEffect, HoldsOwn, HoldsEnq, HoldsCur, HoldsWork
<1> QED
  BY <1>p, <1>1, <1>2, <1>3, KeepStep

(* Goto is a jump. *)
LEMMA GotoJump ==
  ASSUME th \in [Procs -> Thread], NEW p \in Procs, NEW b, Goto(p, b)
  PROVE  Jump(p) /\ th'[p].pc = b
  BY DEF Goto, Thread, Jump, Others

(* cleanup_client_lists: both lists are detached and every reference is given up. *)
LEMMA CleanupCounts ==
  ASSUME CountInv, NEW p \in Procs, Cleanup(p)
  PROVE  Counted'
<1>f. /\ th \in [Procs -> Thread] /\ txn \in [Ids -> Block] /\ hist \in [Ids -> History]
      /\ TxnOf(th[p]) /\ WorkOf(th[p]) /\ Known(th[p])
      /\ th[p].work \subseteq Ids /\ next \in Nat
  BY Facts
<1>a. \A n \in txn_list \cup ToSet(tx_q) : n \in Ids /\ n <= next
  BY DEF CountInv, AllocInv, TypeOK, ToSet
<1>1. CASE DetachQueue(p)
  <2>u. /\ Others(p) /\ th[p].pc = "detach_q" /\ th'[p].pc = "clean_q"
        /\ th'[p].txn = th[p].txn /\ th'[p].ret = th[p].ret /\ th'[p].cur = th[p].cur
        /\ th'[p].work = ToSet(tx_q)
    BY <1>1, <1>f DEF DetachQueue, At, Others, Thread
  <2>k. SameKinds /\ SameRefs /\ SentKnown
    BY <1>1, SameTxns DEF DetachQueue
  <2>M. PICK M \in SUBSET Ids : M = ToSet(tx_q)
    BY <1>a
  <2>1. TxnOf(th'[p])
    BY <1>f, <2>u DEF TxnOf, SyncTxn, AsyncTxn, SyncLabels, AsyncLabels, EitherLabels, NoTxnLabels, FlushLabels
  <2>2. WorkOf(th'[p]) /\ Known(th'[p])
    BY <1>f, <1>a, <2>u DEF WorkOf, WorkLabels, Known
  <2>3. Moves(p)
    BY <2>u, <2>1, <2>2 DEF Moves, BeforeQueue
  <2>4. tx_q' = <<>> /\ ToSet(tx_q)' = {}
    BY <1>1 DEF DetachQueue, ToSet
  <2>5. Lists
    BY <1>1, <2>4 DEF DetachQueue, Lists, NoRepeats
  <2>6. th[p].work = {}
    BY <1>f, <2>u DEF WorkOf, WorkLabels
  <2>7. \A n \in Ids : HoldsOwn(p, n)' <=> HoldsOwn(p, n)
    BY <2>u, <2>k DEF HoldsOwn, SameKinds
  <2>8. \A n \in Ids : (HoldsEnq(p, n)' <=> HoldsEnq(p, n)) /\ (HoldsCur(p, n)' <=> HoldsCur(p, n))
    BY <2>u DEF HoldsEnq, HoldsCur, CurLabels
  <2>9. \A n \in Ids : ~HoldsWork(p, n) /\ (HoldsWork(p, n)' <=> n \in M)
    BY <2>u, <2>6, <2>M DEF HoldsWork
  <2>10. LocalEffect("tx_q", "work", p, M)
    BY <1>1, <2>4, <2>7, <2>8, <2>9, <2>M DEF LocalEffect, DetachQueue
  <2>11. "tx_q" \in Names /\ "work" \in Names
    BY DEF Names, ListNames, ThreadNames
  <2>12. (\A n \in M : Has("tx_q", p, n)) /\ (\A n \in M : ~Has("work", p, n))
    BY <2>9, <2>M DEF Has
  <2> QED
    BY <2>3, <2>k, <2>5, <2>10, <2>11, <2>12, MoveStep
<1>2. CASE CleanQueue(p)
  <2>1. CASE th[p].work = {}
    <3>1. Jump(p) /\ th[p].pc = "clean_q" /\ th'[p].pc = "detach_l"
      BY <1>2, <1>f, <2>1, GotoJump DEF CleanQueue, At
    <3>2. <<th[p].pc, th'[p].pc>> \in KeepJumps /\ JumpOk(p)
      BY <2>1, <3>1 DEF KeepJumps, JumpOk
    <3>3. SameKinds /\ SameRefs /\ SentKnown
      BY <1>2, <2>1, SameTxns DEF CleanQueue
    <3> QED
      BY <1>2, <3>1, <3>2, <3>3, KeepJump DEF CleanQueue
  <2>2. CASE th[p].work # {}
    <3>1. PICK m \in Ids : /\ m \in th[p].work /\ DecTxn(m)
                           /\ th' = [th EXCEPT ![p].work = @ \ {m}]
      BY <1>2, <1>f, <2>2 DEF CleanQueue
    <3>2. SameKinds /\ DropRef(m)
      BY <1>f, <3>1, DecFacts
    <3>3. /\ Others(p) /\ th[p].pc = "clean_q" /\ th'[p].pc = "clean_q"
          /\ th'[p].txn = th[p].txn /\ th'[p].ret = th[p].ret /\ th'[p].cur = th[p].cur
          /\ th'[p].work = th[p].work \ {m}
      BY <1>2, <1>f, <3>1 DEF CleanQueue, At, Others, Thread
    <3>4. TxnOf(th'[p])
      BY <1>f, <3>3 DEF TxnOf, SyncTxn, AsyncTxn
    <3>5. WorkOf(th'[p]) /\ Known(th'[p])
      BY <1>f, <3>3 DEF WorkOf, WorkLabels, Known
    <3>6. Moves(p)
      BY <3>3, <3>4, <3>5 DEF Moves, BeforeQueue
    <3>7. \A n \in Ids : HoldsOwn(p, n)' <=> HoldsOwn(p, n)
      BY <3>2, <3>3 DEF HoldsOwn, SameKinds
    <3>8. \A n \in Ids : (HoldsEnq(p, n)' <=> HoldsEnq(p, n)) /\ (HoldsCur(p, n)' <=> HoldsCur(p, n))
      BY <3>3 DEF HoldsEnq, HoldsCur
    <3>9. \A n \in Ids : HoldsWork(p, n)' <=> HoldsWork(p, n) /\ n # m
      BY <3>3 DEF HoldsWork
    <3>10. UNCHANGED <<next, txn_list, tx_q, hist>>
      BY <1>2 DEF CleanQueue
    <3>11. LocalEffect("work", "none", p, {m})
      BY <3>7, <3>8, <3>9, <3>10, SameListRefs DEF LocalEffect
    <3>12. "work" \in Names /\ Has("work", p, m)
      BY <3>1 DEF Names, ThreadNames, Has, HoldsWork
    <3>13. Lists /\ SentKnown
      BY <3>10, SameLists, SameTxns
    <3> QED
      BY <3>2, <3>6, <3>11, <3>12, <3>13, LoseStep
  <2> QED
    BY <2>1, <2>2
<1>3. CASE DetachList(p)
  <2>u. /\ Others(p) /\ th[p].pc = "detach_l" /\ th'[p].pc = "clean_cb"
        /\ th'[p].txn = th[p].txn /\ th'[p].ret = th[p].ret /\ th'[p].cur = th[p].cur
        /\ th'[p].work = txn_list
    BY <1>3, <1>f DEF DetachList, At, Others, Thread
  <2>k. SameKinds /\ SameRefs /\ SentKnown
    BY <1>3, SameTxns DEF DetachList
  <2>M. PICK M \in SUBSET Ids : M = txn_list
    BY <1>a
  <2>1. TxnOf(th'[p])
    BY <1>f, <2>u DEF TxnOf, SyncTxn, AsyncTxn, SyncLabels, AsyncLabels, EitherLabels, NoTxnLabels, FlushLabels
  <2>2. WorkOf(th'[p]) /\ Known(th'[p])
    BY <1>f, <1>a, <2>u DEF WorkOf, WorkLabels, Known
  <2>3. Moves(p)
    BY <2>u, <2>1, <2>2 DEF Moves, BeforeQueue
  <2>4. txn_list' = {} /\ UNCHANGED <<next, tx_q>>
    BY <1>3 DEF DetachList
  <2>5. Lists
    BY <2>4 DEF Lists, NoRepeats, CountInv, QueueInv
  <2>6. th[p].work = {}
    BY <1>f, <2>u DEF WorkOf, WorkLabels
  <2>7. \A n \in Ids : HoldsOwn(p, n)' <=> HoldsOwn(p, n)
    BY <2>u, <2>k DEF HoldsOwn, SameKinds
  <2>8. \A n \in Ids : (HoldsEnq(p, n)' <=> HoldsEnq(p, n)) /\ (HoldsCur(p, n)' <=> HoldsCur(p, n))
    BY <2>u DEF HoldsEnq, HoldsCur, CurLabels
  <2>9. \A n \in Ids : ~HoldsWork(p, n) /\ (HoldsWork(p, n)' <=> n \in M)
    BY <2>u, <2>6, <2>M DEF HoldsWork
  <2>10. LocalEffect("txn_list", "work", p, M)
    BY <2>4, <2>7, <2>8, <2>9, <2>M DEF LocalEffect
  <2>11. "txn_list" \in Names /\ "work" \in Names
    BY DEF Names, ListNames, ThreadNames
  <2>12. (\A n \in M : Has("txn_list", p, n)) /\ (\A n \in M : ~Has("work", p, n))
    BY <2>9, <2>M DEF Has
  <2> QED
    BY <2>3, <2>k, <2>5, <2>10, <2>11, <2>12, MoveStep
<1>4. CASE CleanFail(p)
  <2>c. th[p].pc = "clean_cb" /\ UNCHANGED <<next, txn_list, tx_q>>
    BY <1>4 DEF CleanFail, At
  <2>1. CASE th[p].work = {}
    <3>1. Return(p) /\ SameKinds /\ SameRefs /\ SentKnown
      BY <1>4, <2>1, SameTxns DEF CleanFail
    <3> QED
      BY <2>1, <2>c, <3>1, ReturnKeep
  <2>2. CASE th[p].work # {}
    <3>1. PICK m \in Ids : /\ m \in th[p].work /\ HandleTxnError(m, CleanupError(p))
                           /\ th' = [th EXCEPT ![p].pc = "clean_inv", ![p].cur = m]
      BY <1>4, <1>f, <2>2 DEF CleanFail
    <3>2. SameKinds /\ SameRefs /\ SentKnown
      BY <1>f, <3>1, HandleFacts
    <3>3. /\ Others(p) /\ th'[p].pc = "clean_inv"
          /\ th'[p].txn = th[p].txn /\ th'[p].ret = th[p].ret /\ th'[p].cur = m
          /\ th'[p].work = th[p].work
      BY ZenonT(60), <1>f, <3>1 DEF Others, Thread
    <3>4. TxnOf(th'[p])
      BY <1>f, <2>c, <3>3 DEF TxnOf, SyncTxn, AsyncTxn, SyncLabels, AsyncLabels, EitherLabels, NoTxnLabels, FlushLabels
    <3>5. WorkOf(th'[p]) /\ Known(th'[p])
      BY <1>f, <3>1, <3>3 DEF WorkOf, WorkLabels, Known
    <3>6. Moves(p)
      BY <3>3, <3>4, <3>5 DEF Moves, BeforeQueue
    <3>7. \A n \in Ids : HoldsOwn(p, n)' <=> HoldsOwn(p, n)
      BY <2>c, <3>2, <3>3 DEF HoldsOwn, SameKinds
    <3>8. \A n \in Ids : (HoldsEnq(p, n)' <=> HoldsEnq(p, n)) /\ (HoldsWork(p, n)' <=> HoldsWork(p, n))
      BY <2>c, <3>3 DEF HoldsEnq, HoldsWork
    <3>9. \A n \in Ids : HoldsCur(p, n)' <=> HoldsCur(p, n)
      BY <2>c, <3>3 DEF HoldsCur, CurLabels
    <3>10. LocalEffect("none", "none", p, {})
      BY <2>c, <3>7, <3>8, <3>9, SameListRefs DEF LocalEffect
    <3> QED
      BY <2>c, <3>2, <3>6, <3>10, SameLists, KeepStep
  <2> QED
    BY <2>1, <2>2
<1>5. CASE CleanInvalidate(p)
  <2>1. Jump(p) /\ <<th[p].pc, th'[p].pc>> \in KeepJumps /\ JumpOk(p)
    BY <1>5, <1>f, GotoJump DEF CleanInvalidate, At, KeepJumps, JumpOk
  <2>2. SameKinds /\ SameRefs
    BY <1>5, <1>f DEF CleanInvalidate, Live, Block, SameKinds, SameRefs
  <2> QED
    BY <1>5, <2>1, <2>2, SameTxns, KeepJump DEF CleanInvalidate
<1>6. CASE CleanDec(p)
  <2>1. PICK m \in Ids : m = th[p].cur
    BY <1>6 DEF CleanDec, Live
  <2>2. SameKinds /\ DropRef(m)
    BY <1>6, <1>f, <2>1, DecFacts DEF CleanDec
  <2>3. /\ Others(p) /\ th[p].pc = "clean_dec" /\ th'[p].pc = "clean_cb"
        /\ th'[p].txn = th[p].txn /\ th'[p].ret = th[p].ret /\ th'[p].cur = th[p].cur
        /\ th'[p].work = th[p].work \ {m}
    BY <1>6, <1>f, <2>1 DEF CleanDec, At, Others, Thread
  <2>4. TxnOf(th'[p])
    BY <1>f, <2>3 DEF TxnOf, SyncTxn, AsyncTxn, SyncLabels, AsyncLabels, EitherLabels, NoTxnLabels, FlushLabels
  <2>5. WorkOf(th'[p]) /\ Known(th'[p])
    BY <1>f, <2>3 DEF WorkOf, WorkLabels, Known
  <2>6. Moves(p)
    BY <2>3, <2>4, <2>5 DEF Moves, BeforeQueue
  <2>7. \A n \in Ids : HoldsOwn(p, n)' <=> HoldsOwn(p, n)
    BY <2>2, <2>3 DEF HoldsOwn, SameKinds
  <2>8. \A n \in Ids : (HoldsEnq(p, n)' <=> HoldsEnq(p, n)) /\ (HoldsCur(p, n)' <=> HoldsCur(p, n))
    BY <2>3 DEF HoldsEnq, HoldsCur, CurLabels
  <2>9. \A n \in Ids : HoldsWork(p, n)' <=> HoldsWork(p, n) /\ n # m
    BY <2>3 DEF HoldsWork
  <2>10. UNCHANGED <<next, txn_list, tx_q, hist>>
    BY <1>6 DEF CleanDec
  <2>11. LocalEffect("work", "none", p, {m})
    BY <2>7, <2>8, <2>9, <2>10, SameListRefs DEF LocalEffect
  <2>12. "work" \in Names /\ Has("work", p, m)
    BY <1>f, <2>1, <2>3 DEF Names, ThreadNames, Has, HoldsWork, WorkOf
  <2>13. Lists /\ SentKnown
    BY <2>10, SameLists, SameTxns
  <2> QED
    BY <2>2, <2>6, <2>11, <2>12, <2>13, LoseStep
<1> QED
  BY <1>1, <1>2, <1>3, <1>4, <1>5, <1>6 DEF Cleanup

(* qmi_cci_flush_tx_q: the queue's reference is given up once, sent or not. *)
LEMMA FlushCounts ==
  ASSUME CountInv, NEW p \in Procs, Flush(p)
  PROVE  Counted'
<1>f. /\ th \in [Procs -> Thread] /\ txn \in [Ids -> Block] /\ hist \in [Ids -> History]
      /\ TxnOf(th[p]) /\ WorkOf(th[p]) /\ Known(th[p])
  BY Facts
<1>1. CASE FlushStart(p)
  <2>1. Jump(p) /\ <<th[p].pc, th'[p].pc>> \in KeepJumps /\ JumpOk(p)
    BY <1>1, <1>f, GotoJump DEF FlushStart, At, KeepJumps, JumpOk
  <2> QED
    BY <1>1, <2>1, SameTxns, KeepJump DEF FlushStart
<1>2. CASE FlushDone(p)
  <2>1. Return(p) /\ th[p].pc = "tx" /\ th[p].work = {}
    BY <1>2, <1>f DEF FlushDone, At, WorkOf, WorkLabels
  <2> QED
    BY <1>2, <2>1, SameTxns, ReturnKeep DEF FlushDone
<1>3. CASE FlushSend(p)
  <2>1. /\ th[p].pc = "tx" /\ tx_q # <<>> /\ UNCHANGED <<next, txn, txn_list, hist>>
    BY <1>3 DEF FlushSend, At
  <2>2. SameKinds /\ SameRefs /\ SentKnown
    BY <2>1, SameTxns
  <2>3. CASE Return(p) /\ UNCHANGED tx_q
    <3>1. th[p].work = {}
      BY <1>f, <2>1 DEF WorkOf, WorkLabels
    <3> QED
      BY <2>1, <2>2, <2>3, <3>1, ReturnKeep
  <2>4. ASSUME NEW r, tx_q' = Tail(tx_q),
               th' = [th EXCEPT ![p].pc = "dec_tx", ![p].cur = Head(tx_q), ![p].rc = r]
        PROVE  Counted'
    <3>1. tx_q \in Seq(Ids) /\ Distinct(tx_q)
      BY DEF CountInv, TypeOK, QueueInv, Distinct
    <3>2. /\ Distinct(Tail(tx_q)) /\ ToSet(Tail(tx_q)) = ToSet(tx_q) \ {Head(tx_q)}
          /\ Head(tx_q) \in ToSet(tx_q)
      BY <2>1, <3>1, TailDistinct
    <3>3. ToSet(tx_q)' = ToSet(tx_q) \ {Head(tx_q)} /\ NoRepeats'
      BY <2>4, <3>2 DEF NoRepeats, Distinct, ToSet
    <3>4. /\ Others(p) /\ th'[p].pc = "dec_tx" /\ th'[p].cur = Head(tx_q)
          /\ th'[p].txn = th[p].txn /\ th'[p].ret = th[p].ret /\ th'[p].work = th[p].work
      BY <1>f, <2>4 DEF Others, Thread
    <3>5. Takes(p, Head(tx_q)) /\ <<th[p].pc, th'[p].pc>> \in TakeSteps
      BY <2>1, <3>4 DEF Takes, TakeSteps
    <3> QED
      BY <2>1, <2>2, <3>2, <3>3, <3>5, TakeQueued
  <2> QED
    BY <1>3, <2>3, <2>4 DEF FlushSend
<1>4. CASE FlushDec(p)
  <2>1. Jump(p) /\ <<th[p].pc, th'[p].pc>> \in DropCur
    BY <1>4, <1>f, GotoJump DEF FlushDec, At, DropCur
  <2>2. th[p].cur \in Ids /\ DecTxn(th[p].cur)
    BY <1>4 DEF FlushDec, Live
  <2>3. SameKinds /\ DropRef(th[p].cur)
    BY <1>f, <2>2, DecFacts
  <2> QED
    BY <1>4, <2>1, <2>2, <2>3, SameTxns, DropCurJump DEF FlushDec
<1>5. CASE FlushFind(p)
  <2>1. th[p].pc = "find" /\ UNCHANGED <<next, txn, tx_q, hist>>
    BY <1>5 DEF FlushFind, At
  <2>2. SameKinds /\ SameRefs /\ SentKnown
    BY <2>1, SameTxns
  <2>3. CASE Goto(p, "tx") /\ UNCHANGED txn_list
    <3>1. Jump(p) /\ <<th[p].pc, th'[p].pc>> \in KeepJumps /\ JumpOk(p)
      BY <1>f, <2>1, <2>3, GotoJump DEF KeepJumps, JumpOk
    <3> QED
      BY <2>1, <2>2, <2>3, <3>1, KeepJump
  <2>4. ASSUME NEW m \in txn_list, txn_list' = txn_list \ {m},
               th' = [th EXCEPT ![p].pc = "fail_cb", ![p].cur = m]
        PROVE  Counted'
    <3>1. /\ Others(p) /\ th'[p].pc = "fail_cb" /\ th'[p].cur = m
          /\ th'[p].txn = th[p].txn /\ th'[p].ret = th[p].ret /\ th'[p].work = th[p].work
      BY <1>f, <2>4 DEF Others, Thread
    <3>2. Takes(p, m) /\ <<th[p].pc, th'[p].pc>> \in TakeSteps
      BY <2>1, <3>1 DEF Takes, TakeSteps
    <3> QED
      BY <2>1, <2>2, <2>4, <3>2, TakeListed
  <2> QED
    BY <1>5, <2>3, <2>4 DEF FlushFind, SameAddr
<1>6. CASE FlushFail(p)
  <2>1. Jump(p) /\ <<th[p].pc, th'[p].pc>> \in KeepJumps /\ JumpOk(p)
    BY <1>6, <1>f, GotoJump DEF FlushFail, At, KeepJumps, JumpOk
  <2>2. SameKinds /\ SameRefs /\ SentKnown
    BY <1>6, <1>f, HandleFacts DEF FlushFail, Live
  <2> QED
    BY <1>6, <2>1, <2>2, KeepJump DEF FlushFail
<1>7. CASE FlushFailDec(p)
  <2>1. Jump(p) /\ <<th[p].pc, th'[p].pc>> \in DropCur
    BY <1>7, <1>f, GotoJump DEF FlushFailDec, At, DropCur
  <2>2. th[p].cur \in Ids /\ DecTxn(th[p].cur)
    BY <1>7 DEF FlushFailDec, Live
  <2>3. SameKinds /\ DropRef(th[p].cur)
    BY <1>f, <2>2, DecFacts
  <2> QED
    BY <1>7, <2>1, <2>2, <2>3, SameTxns, DropCurJump DEF FlushFailDec
<1>8. CASE Cleanup(p)
  BY <1>8, CleanupCounts
<1> QED
  BY <1>1, <1>2, <1>3, <1>4, <1>5, <1>6, <1>7, <1>8 DEF Flush

(* qmi_client_delete_async_txn: the queue's and the list's references are given up. *)
LEMMA DeleteCounts ==
  ASSUME CountInv, NEW p \in Procs, Delete(p)
  PROVE  Counted'
<1>f. /\ th \in [Procs -> Thread] /\ txn \in [Ids -> Block] /\ hist \in [Ids -> History]
      /\ TxnOf(th[p]) /\ WorkOf(th[p]) /\ Known(th[p])
  BY Facts
<1>1. CASE DeleteQueued(p)
  <2>1. th[p].pc = "del_q" /\ UNCHANGED <<next, txn, txn_list, hist>>
    BY <1>1 DEF DeleteQueued, At
  <2>2. SameKinds /\ SameRefs /\ SentKnown
    BY <2>1, SameTxns
  <2>3. CASE Goto(p, "del_l") /\ UNCHANGED tx_q
    <3>1. Jump(p) /\ <<th[p].pc, th'[p].pc>> \in KeepJumps /\ JumpOk(p)
      BY <1>f, <2>1, <2>3, GotoJump DEF KeepJumps, JumpOk
    <3> QED
      BY <2>1, <2>2, <2>3, <3>1, KeepJump
  <2>4. ASSUME NEW i \in DOMAIN tx_q, tx_q' = RemoveAt(tx_q, i),
               th' = [th EXCEPT ![p].pc = "del_dec_q", ![p].cur = tx_q[i]]
        PROVE  Counted'
    <3>1. tx_q \in Seq(Ids) /\ Distinct(tx_q)
      BY DEF CountInv, TypeOK, QueueInv, Distinct
    <3>2. /\ Distinct(RemoveAt(tx_q, i)) /\ ToSet(RemoveAt(tx_q, i)) = ToSet(tx_q) \ {tx_q[i]}
          /\ tx_q[i] \in ToSet(tx_q)
      BY <2>4, <3>1, RemoveAtDistinct DEF ToSet
    <3>3. ToSet(tx_q)' = ToSet(tx_q) \ {tx_q[i]} /\ NoRepeats'
      BY <2>4, <3>2 DEF NoRepeats, Distinct, ToSet
    <3>4. /\ Others(p) /\ th'[p].pc = "del_dec_q" /\ th'[p].cur = tx_q[i]
          /\ th'[p].txn = th[p].txn /\ th'[p].ret = th[p].ret /\ th'[p].work = th[p].work
      BY <1>f, <2>4 DEF Others, Thread
    <3>5. Takes(p, tx_q[i]) /\ <<th[p].pc, th'[p].pc>> \in TakeSteps
      BY <2>1, <3>4 DEF Takes, TakeSteps
    <3> QED
      BY <2>1, <2>2, <3>2, <3>3, <3>5, TakeQueued
  <2> QED
    BY <1>1, <2>3, <2>4 DEF DeleteQueued
<1>2. CASE DeleteQueuedDec(p)
  <2>1. Jump(p) /\ <<th[p].pc, th'[p].pc>> \in DropCur
    BY <1>2, <1>f, GotoJump DEF DeleteQueuedDec, At, DropCur
  <2>2. th[p].cur \in Ids /\ DecTxn(th[p].cur)
    BY <1>2 DEF DeleteQueuedDec, Live
  <2>3. SameKinds /\ DropRef(th[p].cur)
    BY <1>f, <2>2, DecFacts
  <2> QED
    BY <1>2, <2>1, <2>2, <2>3, SameTxns, DropCurJump DEF DeleteQueuedDec
<1>3. CASE DeleteListed(p)
  <2>1. th[p].pc = "del_l" /\ UNCHANGED <<next, txn, tx_q>>
    BY <1>3 DEF DeleteListed, At
  <2>2. SameKinds /\ SameRefs
    BY <2>1, SameTxns
  <2>3. SentKnown
    <3>1. UNCHANGED hist \/ hist' = [hist EXCEPT ![th[p].txn].del = "invalid"]
      BY <1>3 DEF DeleteListed
    <3>2. \A n \in Ids : hist'[n].api = hist[n].api
      BY <3>1, <1>f DEF History
    <3> QED
      BY <3>2 DEF SentKnown
  <2>4. CASE th' = [th EXCEPT ![p] = Idle] /\ UNCHANGED txn_list
    <3>1. GoesIdle(p)
      BY <1>f, <2>4 DEF GoesIdle, Others
    <3>2. th[p].work = {} /\ AsyncTxn(th[p])
      BY <1>f, <2>1 DEF WorkOf, WorkLabels, TxnOf, AsyncLabels
    <3>3. \A n \in Ids : ~HoldsOwn(p, n) /\ ~HoldsEnq(p, n) /\ ~HoldsCur(p, n) /\ ~HoldsWork(p, n)
      BY <2>1, <3>2 DEF HoldsOwn, HoldsEnq, HoldsCur, HoldsWork, CurLabels, AsyncTxn
    <3> QED
      BY <2>1, <2>2, <2>3, <2>4, <3>1, <3>3, IdleKeep
  <2>5. ASSUME NEW m \in txn_list, txn_list' = txn_list \ {m},
               th' = [th EXCEPT ![p].pc = "del_inv", ![p].cur = m]
        PROVE  Counted'
    <3>1. /\ Others(p) /\ th'[p].pc = "del_inv" /\ th'[p].cur = m
          /\ th'[p].txn = th[p].txn /\ th'[p].ret = th[p].ret /\ th'[p].work = th[p].work
      BY <1>f, <2>5 DEF Others, Thread
    <3>2. Takes(p, m) /\ <<th[p].pc, th'[p].pc>> \in TakeSteps
      BY <2>1, <3>1 DEF Takes, TakeSteps
    <3> QED
      BY <2>1, <2>2, <2>3, <2>5, <3>2, TakeListed
  <2> QED
    BY <1>3, <2>4, <2>5 DEF DeleteListed, SameAddr
<1>4. CASE DeleteInvalidate(p)
  <2>1. Jump(p) /\ <<th[p].pc, th'[p].pc>> \in KeepJumps /\ JumpOk(p)
    BY <1>4, <1>f, GotoJump DEF DeleteInvalidate, At, KeepJumps, JumpOk
  <2>2. SameKinds /\ SameRefs
    BY <1>4, <1>f DEF DeleteInvalidate, Live, Block, SameKinds, SameRefs
  <2> QED
    BY <1>4, <2>1, <2>2, SameTxns, KeepJump DEF DeleteInvalidate
<1>5. CASE DeleteReturn(p)
  <2>1. GoesIdle(p) /\ th[p].pc = "del_dec"
    BY <1>5, <1>f DEF DeleteReturn, At, GoesIdle, Others
  <2>2. th[p].cur \in Ids /\ DecTxn(th[p].cur)
    BY <1>5 DEF DeleteReturn, Live
  <2>3. SameKinds /\ DropRef(th[p].cur)
    BY <1>f, <2>2, DecFacts
  <2>4. SentKnown
    BY <1>5, <1>f DEF DeleteReturn, SentKnown, History
  <2> QED
    BY <1>5, <2>1, <2>2, <2>3, <2>4, IdleDropCur DEF DeleteReturn
<1> QED
  BY <1>1, <1>2, <1>3, <1>4, <1>5 DEF Delete

(* qmi_client_release: apart from the cleanup it moves no reference. *)
LEMMA ReleaseCounts ==
  ASSUME CountInv, NEW p \in Procs, Release(p)
  PROVE  Counted'
<1>f. th \in [Procs -> Thread] /\ TxnOf(th[p]) /\ WorkOf(th[p])
  BY Facts
<1>1. CASE StopAccepting(p)
  <2>1. /\ Others(p) /\ th'[p].txn = th[p].txn /\ th'[p].cur = th[p].cur
        /\ th'[p].work = th[p].work /\ <<th[p].pc, th'[p].pc, th'[p].ret>> \in Begins
    BY <1>1, <1>f DEF StopAccepting, At, Others, Begins, Thread
  <2> QED
    BY <1>1, <2>1, SameTxns, BeginKeep DEF StopAccepting
<1>2. CASE CloseXport(p)
  <2>1. Jump(p) /\ <<th[p].pc, th'[p].pc>> \in KeepJumps /\ JumpOk(p)
    BY <1>2, <1>f, GotoJump DEF CloseXport, At, KeepJumps, JumpOk
  <2> QED
    BY <1>2, <2>1, SameTxns, KeepJump DEF CloseXport
<1>3. CASE JoinReader(p)
  <2>1. GoesIdle(p) /\ th[p].pc = "join"
    BY <1>3, <1>f DEF JoinReader, At, GoesIdle, Others
  <2>2. th[p].work = {} /\ th[p].txn \notin Ids
    BY <1>f, <2>1 DEF WorkOf, WorkLabels, TxnOf, NoTxnLabels, NoTxn, Ids
  <2>3. \A n \in Ids : ~HoldsOwn(p, n) /\ ~HoldsEnq(p, n) /\ ~HoldsCur(p, n) /\ ~HoldsWork(p, n)
    BY <2>1, <2>2 DEF HoldsOwn, HoldsEnq, HoldsCur, HoldsWork, CurLabels
  <2> QED
    BY <1>3, <2>1, <2>3, SameTxns, IdleKeep DEF JoinReader
<1> QED
  BY <1>1, <1>2, <1>3 DEF Release

(* The list's reference comes with the allocation. *)
LEMMA GetTxnCounts ==
  ASSUME CountInv, NEW p \in Procs, GetTxn(p)
  PROVE  Counted'
<1>f. /\ th \in [Procs -> Thread] /\ txn \in [Ids -> Block] /\ hist \in [Ids -> History]
      /\ TxnOf(th[p]) /\ WorkOf(th[p]) /\ Known(th[p])
      /\ th[p].txn \in Nat /\ next \in Nat
  BY Facts
<1>i. \A q \in Procs : /\ TxnOf(th[q]) /\ WorkOf(th[q]) /\ Known(th[q])
                       /\ th[q].txn \in Nat /\ th[q].cur \in Nat
  BY Facts
<1>m. PICK m \in Ids : m = next + 1
  BY <1>f, BoundAssumption DEF GetTxn, Ids
<1>1. /\ th[p].pc = "get_txn" /\ th[p].ret \in {"own", "check"} /\ th[p].txn = NoTxn
  BY <1>f DEF GetTxn, At, TxnOf, NoTxnLabels
<1>2. /\ Others(p) /\ th'[p].pc = th[p].ret /\ th'[p].txn = m /\ th'[p].ret = th[p].ret
      /\ th'[p].cur = th[p].cur /\ th'[p].work = th[p].work
  BY <1>f, <1>m DEF GetTxn, Others, Thread
<1>3. /\ \A n \in Ids : n # m => txn'[n] = txn[n]
      /\ txn'[m].ref = 1 /\ txn'[m].kind = IF th[p].ret = "own" THEN "sync" ELSE "async"
  BY <1>f, <1>m DEF GetTxn, Block
<1>4. next' = m /\ txn_list' = txn_list \cup {m} /\ tx_q' = tx_q
  BY <1>m DEF GetTxn
<1>5. \A n \in Ids : hist'[n].api = "sent" => hist[n].api = "sent" /\ n # m
  BY <1>f, <1>m DEF GetTxn, History
<1>6. /\ m \notin txn_list /\ m \notin ToSet(tx_q)
      /\ \A q \in Procs : th[q].txn # m /\ th[q].cur # m /\ m \notin th[q].work
  BY <1>f, <1>m, <1>i DEF CountInv, AllocInv, Known
<1>7. ThreadInv'
  <2> SUFFICES ASSUME NEW q \in Procs PROVE TxnOf(th[q])' /\ WorkOf(th[q])'
    BY DEF ThreadInv
  <2>1. CASE q = p
    <3>1. TxnOf(th[p])'
      BY <1>1, <1>2, <1>3 DEF TxnOf, SyncTxn, AsyncTxn, SyncLabels, AsyncLabels, EitherLabels, NoTxnLabels, FlushLabels
    <3>2. WorkOf(th[p])'
      BY <1>f, <1>1, <1>2 DEF WorkOf, WorkLabels
    <3> QED
      BY <2>1, <3>1, <3>2
  <2>2. CASE q # p
    <3>1. th'[q] = th[q] /\ TxnOf(th[q]) /\ WorkOf(th[q]) /\ th[q].txn # m
      BY <1>2, <1>i, <1>6, <2>2 DEF Others
    <3>2. TxnOf(th[q])'
      BY <1>3, <3>1 DEF TxnOf, SyncTxn, AsyncTxn
    <3> QED
      BY <3>1, <3>2 DEF WorkOf
  <2> QED
    BY <2>1, <2>2
<1>8. QueueInv'
  <2>1. QueueInv
    BY DEF CountInv
  <2>2. \A i, j \in DOMAIN tx_q' : tx_q'[i] = tx_q'[j] => i = j
    BY <1>4, <2>1 DEF QueueInv
  <2>3. \A q \in Procs : th'[q].pc \in BeforeQueue => th'[q].txn \notin ToSet(tx_q)'
    BY <1>2, <1>4, <1>6, <2>1 DEF QueueInv, Others
  <2>4. \A q, r \in Procs : /\ th'[q].pc \in BeforeQueue /\ th'[r].pc \in BeforeQueue
                            /\ th'[q].txn = th'[r].txn
                            => q = r
    BY <1>2, <1>6, <2>1 DEF QueueInv, Others
  <2> QED
    BY <2>2, <2>3, <2>4 DEF QueueInv
<1>9. AllocInv'
  <2>1. AllocInv /\ txn_list \subseteq Ids /\ tx_q \in Seq(Ids)
    BY DEF CountInv, TypeOK
  <2>2. ToSet(tx_q) \subseteq Ids
    BY <2>1 DEF ToSet
  <2>3. \A n \in txn_list' \cup ToSet(tx_q)' : n <= next'
    BY <1>f, <1>m, <1>4, <2>1, <2>2 DEF AllocInv, Ids
  <2>4. ASSUME NEW q \in Procs
        PROVE  /\ th'[q].txn <= next' /\ th'[q].cur <= next'
               /\ \A n \in th'[q].work : n <= next'
    <3>1. /\ Known(th[q]) /\ th[q].txn \in Nat /\ th[q].cur \in Nat /\ th[q].work \subseteq Nat
      BY Facts DEF Ids
    <3>2. /\ th'[q].txn \in {m, th[q].txn} /\ th'[q].cur = th[q].cur /\ th'[q].work = th[q].work
      BY <1>2 DEF Others
    <3> QED
      BY <1>f, <1>m, <1>4, <3>1, <3>2 DEF Known
  <2>5. ASSUME NEW n \in Ids, hist'[n].api = "sent"
        PROVE  n <= next' /\ txn'[n].kind = "async"
    <3>1. hist[n].api = "sent" /\ n # m
      BY <1>5, <2>5
    <3> QED
      BY <1>f, <1>m, <1>3, <1>4, <2>1, <3>1 DEF AllocInv, Ids
  <2> QED
    BY <2>3, <2>4, <2>5 DEF AllocInv
<1>10. RefCountExact'
  <2>1. Effect("none", "txn_list", p, {m})
    <3> SUFFICES ASSUME NEW n \in Ids
        PROVE /\ (n \in txn_list)' <=> n \in txn_list \/ n = m
              /\ (n \in ToSet(tx_q))' <=> n \in ToSet(tx_q)
              /\ \A q \in Procs : /\ HoldsOwn(q, n)' <=> HoldsOwn(q, n)
                                  /\ HoldsEnq(q, n)' <=> HoldsEnq(q, n)
                                  /\ HoldsCur(q, n)' <=> HoldsCur(q, n)
                                  /\ HoldsWork(q, n)' <=> HoldsWork(q, n)
      BY DEF Effect
    <3>1. ASSUME NEW q \in Procs, q # p
          PROVE  /\ HoldsOwn(q, n)' <=> HoldsOwn(q, n)
                 /\ HoldsEnq(q, n)' <=> HoldsEnq(q, n)
                 /\ HoldsCur(q, n)' <=> HoldsCur(q, n)
                 /\ HoldsWork(q, n)' <=> HoldsWork(q, n)
      BY <1>2, <1>3, <1>6, <3>1 DEF Others, HoldsOwn, HoldsEnq, HoldsCur, HoldsWork
    <3>2. ~HoldsOwn(p, n)' /\ ~HoldsOwn(p, n)
      BY <1>1, <1>2, <1>3 DEF HoldsOwn
    <3>3. ~HoldsEnq(p, n)' /\ ~HoldsEnq(p, n)
      BY <1>1, <1>2 DEF HoldsEnq
    <3>4. ~HoldsCur(p, n)' /\ ~HoldsCur(p, n)
      BY <1>1, <1>2 DEF HoldsCur, CurLabels
    <3>5. HoldsWork(p, n)' <=> HoldsWork(p, n)
      BY <1>2 DEF HoldsWork
    <3> QED
      BY <1>4, <3>1, <3>2, <3>3, <3>4, <3>5
  <2>2. Holders(m) = {}
    <3>1. \A q \in Procs : /\ ~HoldsOwn(q, m) /\ ~HoldsEnq(q, m)
                           /\ ~HoldsCur(q, m) /\ ~HoldsWork(q, m)
      BY <1>6 DEF HoldsOwn, HoldsEnq, HoldsCur, HoldsWork
    <3> QED
      BY <1>6, <3>1 DEF Holders
  <2>3. txn[m].ref = 0
    BY <2>2, FS_EmptySet DEF CountInv, RefCountExact
  <2>4. \A n \in Ids : txn'[n].ref = IF n \in {m} THEN txn[n].ref + 1 ELSE txn[n].ref
    BY <1>3, <2>3
  <2>5. "txn_list" \in Names /\ \A n \in {m} : ~Has("txn_list", p, n)
    BY <1>6 DEF Names, ListNames, Has
  <2> QED
    BY <2>1, <2>4, <2>5, GainRef DEF CountInv
<1> QED
  BY <1>7, <1>8, <1>9, <1>10 DEF Counted

(* A transaction enters the queue once, with the reference its sender took. *)
LEMMA EnqueueCounts ==
  ASSUME CountInv, NEW p \in Procs, Enqueue(p)
  PROVE  Counted'
<1>f. /\ th \in [Procs -> Thread] /\ TxnOf(th[p]) /\ WorkOf(th[p]) /\ Known(th[p])
  BY Facts
<1>0. th[p].pc = "enq" /\ UNCHANGED <<next, txn, txn_list, hist>>
  BY DEF Enqueue, At
<1>k. SameKinds /\ SameRefs /\ SentKnown
  BY <1>0, SameTxns
<1>1. CASE ~clnt.accepting
  <2>1. Jump(p) /\ <<th[p].pc, th'[p].pc>> \in KeepJumps /\ JumpOk(p)
    BY <1>f, <1>0, <1>1 DEF Enqueue, Thread, Jump, Others, KeepJumps, JumpOk
  <2> QED
    BY <1>0, <1>1, <1>k, <2>1, KeepJump DEF Enqueue
<1>2. CASE clnt.accepting
  <2>m. PICK m \in Ids : m = th[p].txn
    BY <1>f, <1>0 DEF TxnOf, EitherLabels
  <2>1. tx_q \in Seq(Ids) /\ Distinct(tx_q) /\ m \notin ToSet(tx_q)
    BY <1>0, <2>m DEF CountInv, TypeOK, QueueInv, BeforeQueue, Distinct
  <2>2. tx_q' = Append(tx_q, m)
    BY <1>2, <2>m DEF Enqueue
  <2>3. Distinct(Append(tx_q, m)) /\ ToSet(Append(tx_q, m)) = ToSet(tx_q) \cup {m}
    BY <2>1, AppendDistinct
  <2>4. ToSet(tx_q)' = ToSet(tx_q) \cup {m}
    BY <2>2, <2>3 DEF ToSet
  <2>5. NoRepeats'
    BY <2>2, <2>3 DEF NoRepeats, Distinct
  <2>6. /\ Others(p) /\ th'[p].pc = "flush" /\ th'[p].txn = m
        /\ th'[p].ret = IF Sync(p) THEN "wait" ELSE "sent"
        /\ th'[p].cur = th[p].cur /\ th'[p].work = th[p].work
    BY <1>f, <1>2, <2>m DEF Enqueue, Others, Thread
  <2>7. txn[m].kind \in {"sync", "async"}
    BY Facts DEF Block
  <2>8. TxnOf(th'[p])
    BY <2>m, <2>6, <2>7 DEF Sync, TxnOf, SyncTxn, AsyncTxn, SyncLabels, AsyncLabels, EitherLabels, NoTxnLabels, FlushLabels
  <2>9. WorkOf(th'[p]) /\ Known(th'[p])
    BY <1>f, <1>0, <2>m, <2>6 DEF WorkOf, WorkLabels, Known
  <2>10. Moves(p)
    BY <2>6, <2>8, <2>9 DEF Moves, BeforeQueue
  <2>11. ThreadInv' /\ QueueInv' /\ AllocInv'
    <3>1. \A q \in Procs : th'[q].pc \in BeforeQueue =>
            q # p /\ th[q].pc \in BeforeQueue /\ th'[q].txn = th[q].txn
      BY <2>6 DEF Others, BeforeQueue
    <3>2. th[p].pc \in BeforeQueue
      BY <1>0 DEF BeforeQueue
    <3>3. \A q \in Procs : q # p /\ th[q].pc \in BeforeQueue => th[q].txn # m
      BY <2>m, <3>2 DEF CountInv, QueueInv
    <3>4. \A q \in Procs : th'[q].pc \in BeforeQueue => th'[q].txn \notin ToSet(tx_q)'
      BY <2>4, <3>1, <3>3 DEF CountInv, QueueInv
    <3>5. \A q, r \in Procs : /\ th'[q].pc \in BeforeQueue /\ th'[r].pc \in BeforeQueue
                              /\ th'[q].txn = th'[r].txn
                              => q = r
      BY <3>1 DEF CountInv, QueueInv
    <3>6. QueueInv'
      BY <2>5, <3>4, <3>5 DEF QueueInv, NoRepeats
    <3>7. ThreadInv'
      <4> SUFFICES ASSUME NEW q \in Procs PROVE TxnOf(th[q])' /\ WorkOf(th[q])'
        BY DEF ThreadInv
      <4>1. TxnOf(th'[q]) /\ WorkOf(th'[q])
        BY <2>6, <2>8, <2>9 DEF Others, CountInv, ThreadInv
      <4> QED
        BY <1>0, <4>1 DEF TxnOf, WorkOf, SyncTxn, AsyncTxn
    <3>8. AllocInv'
      <4>1. \A q \in Procs : Known(th'[q])
        BY <2>6, <2>9 DEF Others, CountInv, AllocInv, Known
      <4>2. m <= next
        BY <1>f, <2>m DEF Known
      <4>3. \A n \in txn_list' \cup ToSet(tx_q)' : n <= next'
        BY <1>0, <2>4, <4>2 DEF CountInv, AllocInv
      <4> QED
        BY <1>0, <4>1, <4>3 DEF CountInv, AllocInv, Known
    <3> QED
      BY <3>6, <3>7, <3>8
  <2>12. \A n \in Ids : HoldsOwn(p, n)' <=> HoldsOwn(p, n)
    BY <1>0, <2>m, <2>6 DEF HoldsOwn
  <2>13. \A n \in Ids : ~HoldsEnq(p, n)' /\ (HoldsEnq(p, n) <=> n = m)
    BY <1>0, <2>m, <2>6 DEF HoldsEnq
  <2>14. \A n \in Ids : (HoldsCur(p, n)' <=> HoldsCur(p, n)) /\ (HoldsWork(p, n)' <=> HoldsWork(p, n))
    BY <1>0, <2>6 DEF HoldsCur, CurLabels, HoldsWork
  <2>15. LocalEffect("enq", "tx_q", p, {m})
    BY <1>0, <2>4, <2>12, <2>13, <2>14 DEF LocalEffect
  <2>16. Effect("enq", "tx_q", p, {m})
    BY <1>k, <2>6, <2>15, EffectFromLocal
  <2>17. "enq" \in Names /\ "tx_q" \in Names
    BY DEF Names, ListNames, ThreadNames
  <2>18. (\A n \in {m} : Has("enq", p, n)) /\ (\A n \in {m} : ~Has("tx_q", p, n))
    BY <2>1, <2>13 DEF Has
  <2>19. RefCountExact'
    BY <1>k, <2>16, <2>17, <2>18, MoveRef DEF CountInv, SameRefs
  <2> QED
    BY <2>11, <2>19 DEF Counted
<1> QED
  BY <1>1, <1>2

(* remove_txn: the list's reference, if the transaction is still there. *)
LEMMA RemoveCounts ==
  ASSUME CountInv, NEW p \in Procs, RemoveTxn(p)
  PROVE  Counted'
<1>f. /\ th \in [Procs -> Thread] /\ txn \in [Ids -> Block] /\ hist \in [Ids -> History]
      /\ TxnOf(th[p]) /\ WorkOf(th[p]) /\ Known(th[p])
  BY Facts
<1>0. th[p].pc = "remove" /\ th[p].txn \in Ids /\ UNCHANGED <<next, tx_q>>
  BY <1>f DEF RemoveTxn, At, TxnOf, EitherLabels
<1>s. SentKnown
  BY <1>f DEF RemoveTxn, SentKnown, History
\* Either way the thread's own references are what they were.
<1>t. /\ Moves(p)
      /\ SameKinds =>
           \A n \in Ids : /\ HoldsOwn(p, n)' <=> HoldsOwn(p, n)
                          /\ HoldsEnq(p, n)' <=> HoldsEnq(p, n)
                          /\ HoldsCur(p, n)' <=> HoldsCur(p, n)
                          /\ HoldsWork(p, n)' <=> HoldsWork(p, n)
  <2>1. CASE Sync(p)
    <3>1. Goto(p, "dec_own") /\ SyncTxn(th[p])
      BY <1>0, <2>1 DEF RemoveTxn, Sync, SyncTxn
    <3>2. Jump(p) /\ <<th[p].pc, th'[p].pc>> \in KeepJumps /\ JumpOk(p) /\ th'[p].pc = "dec_own"
      BY <1>f, <1>0, <3>1, GotoJump DEF KeepJumps, JumpOk
    <3>3. Moves(p)
      BY <3>2, JumpMoves
    <3>4. SameKinds => \A n \in Ids : HoldsOwn(p, n)' <=> HoldsOwn(p, n)
      BY <1>0, <3>2 DEF Jump, HoldsOwn, SameKinds
    <3>5. \A n \in Ids : /\ HoldsEnq(p, n)' <=> HoldsEnq(p, n)
                         /\ HoldsCur(p, n)' <=> HoldsCur(p, n)
                         /\ HoldsWork(p, n)' <=> HoldsWork(p, n)
      BY <1>0, <3>2 DEF Jump, HoldsEnq, HoldsCur, HoldsWork, CurLabels
    <3> QED
      BY <3>3, <3>4, <3>5
  <2>2. CASE ~Sync(p)
    <3>1. GoesIdle(p)
      BY <1>f, <2>2 DEF RemoveTxn, GoesIdle, Others
    <3>2. th[p].work = {}
      BY <1>f, <1>0 DEF WorkOf, WorkLabels
    <3>3. \A n \in Ids : ~HoldsOwn(p, n) /\ ~HoldsEnq(p, n) /\ ~HoldsCur(p, n) /\ ~HoldsWork(p, n)
      BY <1>0, <2>2, <3>2 DEF Sync, HoldsOwn, HoldsEnq, HoldsCur, HoldsWork, CurLabels
    <3> QED
      BY <3>1, <3>3, IdleMoves, IdleHoldsNothing
  <2> QED
    BY <2>1, <2>2
<1>1. CASE UNCHANGED <<txn, txn_list>>
  <2>1. SameKinds /\ SameRefs
    BY <1>1, SameTxns
  <2>2. LocalEffect("none", "none", p, {})
    BY <1>0, <1>1, <1>t, <2>1, SameListRefs DEF LocalEffect
  <2> QED
    BY <1>0, <1>1, <1>s, <1>t, <2>1, <2>2, SameLists, KeepStep
<1>2. ASSUME NEW k \in txn_list, DecTxn(k), txn_list' = txn_list \ {k}
      PROVE  Counted'
  <2>m. PICK m \in Ids : m = k
    BY DEF CountInv, TypeOK
  <2>1. SameKinds /\ DropRef(m)
    BY <1>f, <1>2, <2>m, DecFacts
  <2>2. LocalEffect("txn_list", "none", p, {m})
    BY <1>0, <1>2, <1>t, <2>m, <2>1 DEF LocalEffect
  <2>3. "txn_list" \in Names /\ Has("txn_list", p, m)
    BY <1>2, <2>m DEF Names, ListNames, Has
  <2>4. Lists
    BY <1>0, <1>2 DEF Lists, CountInv, QueueInv, NoRepeats
  <2> QED
    BY <1>s, <1>t, <2>1, <2>2, <2>3, <2>4, LoseStep
<1> QED
  BY <1>1, <1>2 DEF RemoveTxn, SameAddr

(* The send calls. *)
LEMMA SendCounts ==
  ASSUME CountInv, NEW p \in Procs, Send(p)
  PROVE  Counted'
<1>f. /\ th \in [Procs -> Thread] /\ txn \in [Ids -> Block] /\ hist \in [Ids -> History]
      /\ TxnOf(th[p]) /\ WorkOf(th[p]) /\ Known(th[p])
  BY Facts
<1>1. CASE GetTxn(p)
  BY <1>1, GetTxnCounts
<1>2. CASE OwnTxn(p)
  <2>1. Jump(p) /\ <<th[p].pc, th'[p].pc>> \in OwnJumps
    BY <1>2, <1>f, GotoJump DEF OwnTxn, At, OwnJumps
  <2>2. SameKinds /\ AddRef(th[p].txn)
    BY <1>2, <1>f DEF OwnTxn, Live, Block, SameKinds, AddRef
  <2> QED
    BY <1>2, <2>1, <2>2, SameTxns, OwnJump DEF OwnTxn
<1>3. CASE ClearSignal(p)
  <2>1. Jump(p) /\ <<th[p].pc, th'[p].pc>> \in KeepJumps /\ JumpOk(p)
    BY <1>3, <1>f, GotoJump DEF ClearSignal, At, KeepJumps, JumpOk
  <2>2. SameKinds /\ SameRefs
    BY <1>3, <1>f DEF ClearSignal, Live, Block, SameKinds, SameRefs
  <2> QED
    BY <1>3, <2>1, <2>2, SameTxns, KeepJump DEF ClearSignal
<1>4. CASE SetRc(p)
  <2>1. Jump(p) /\ <<th[p].pc, th'[p].pc>> \in KeepJumps /\ JumpOk(p)
    BY <1>4, <1>f, GotoJump DEF SetRc, At, KeepJumps, JumpOk
  <2>2. SameKinds /\ SameRefs
    BY <1>4, <1>f DEF SetRc, Live, Block, SameKinds, SameRefs
  <2> QED
    BY <1>4, <2>1, <2>2, SameTxns, KeepJump DEF SetRc
<1>5. CASE CheckServer(p)
  <2>1. th[p].pc = "check" /\ th[p].txn \in Ids
    BY <1>5 DEF CheckServer, At, Live
  <2>2. Jump(p) /\ th'[p].pc \in {"inc", Refused(p)}
    BY <1>5, <1>f DEF CheckServer, Thread, Jump, Others
  <2>3. <<th[p].pc, th'[p].pc>> \in KeepJumps /\ JumpOk(p)
    BY <2>1, <2>2 DEF Refused, Sync, KeepJumps, JumpOk, SyncTxn
  <2> QED
    BY <1>5, <2>2, <2>3, SameTxns, KeepJump DEF CheckServer
<1>6. CASE IncTxn(p)
  <2>1. Jump(p) /\ <<th[p].pc, th'[p].pc>> \in EnqJumps
    BY <1>6, <1>f, GotoJump DEF IncTxn, At, EnqJumps
  <2>2. SameKinds /\ AddRef(th[p].txn)
    BY <1>6, <1>f DEF IncTxn, Live, Block, SameKinds, AddRef
  <2> QED
    BY <1>6, <2>1, <2>2, SameTxns, EnqJump DEF IncTxn
<1>7. CASE Enqueue(p)
  BY <1>7, EnqueueCounts
<1>8. CASE DecEnqueue(p)
  <2>1. th[p].pc = "dec_enq" /\ th[p].txn \in Ids /\ DecTxn(th[p].txn)
    BY <1>8 DEF DecEnqueue, At, Live
  <2>2. Jump(p) /\ th'[p].pc = Refused(p)
    BY <1>8, <1>f, GotoJump DEF DecEnqueue
  <2>3. <<th[p].pc, th'[p].pc>> \in DropEnq /\ JumpOk(p)
    BY <2>1, <2>2 DEF Refused, Sync, DropEnq, JumpOk, SyncTxn
  <2>4. SameKinds /\ DropRef(th[p].txn)
    BY <1>f, <2>1, DecFacts
  <2> QED
    BY <1>8, <2>2, <2>3, <2>4, SameTxns, DropEnqJump DEF DecEnqueue
<1>9. CASE AsyncReturn(p)
  <2>1. GoesIdle(p) /\ th[p].pc = "sent"
    BY <1>9, <1>f DEF AsyncReturn, At, GoesIdle, Others
  <2>2. th[p].work = {} /\ AsyncTxn(th[p])
    BY <1>f, <2>1 DEF WorkOf, WorkLabels, TxnOf, AsyncLabels
  <2>3. \A n \in Ids : ~HoldsOwn(p, n) /\ ~HoldsEnq(p, n) /\ ~HoldsCur(p, n) /\ ~HoldsWork(p, n)
    BY <2>1, <2>2 DEF HoldsOwn, HoldsEnq, HoldsCur, HoldsWork, CurLabels, AsyncTxn
  <2>4. SentKnown
    BY <1>9, <1>f, <2>2 DEF AsyncReturn, SentKnown, History, Known, AsyncTxn
  <2> QED
    BY <1>9, <2>1, <2>3, <2>4, SameTxns, IdleKeep DEF AsyncReturn
<1>10. CASE Wake(p)
  <2>1. Jump(p) /\ <<th[p].pc, th'[p].pc>> \in KeepJumps /\ JumpOk(p)
    BY <1>10, <1>f, GotoJump DEF Wake, At, KeepJumps, JumpOk
  <2> QED
    BY <1>10, <2>1, SameTxns, KeepJump DEF Wake
<1>11. CASE Woken(p)
  <2>1. th[p].pc = "woken" /\ SyncTxn(th[p])
    BY <1>11, <1>f DEF Woken, At, TxnOf, SyncLabels
  <2>2. Jump(p) /\ th'[p].pc \in {"wait", "inval"}
    BY <1>11, <1>f DEF Woken, Thread, Jump, Others
  <2>3. <<th[p].pc, th'[p].pc>> \in KeepJumps /\ JumpOk(p)
    BY <2>1, <2>2 DEF KeepJumps, JumpOk
  <2>4. SameKinds /\ SameRefs
    BY <1>11, <1>f DEF Woken, Live, Block, SameKinds, SameRefs
  <2> QED
    BY <1>11, <2>2, <2>3, <2>4, SameTxns, KeepJump DEF Woken
<1>12. CASE Invalidate(p)
  <2>1. Jump(p) /\ <<th[p].pc, th'[p].pc>> \in KeepJumps /\ JumpOk(p)
    BY <1>12, <1>f, GotoJump DEF Invalidate, At, KeepJumps, JumpOk
  <2>2. SameKinds /\ SameRefs
    BY <1>12, <1>f DEF Invalidate, Live, Block, SameKinds, SameRefs
  <2> QED
    BY <1>12, <2>1, <2>2, SameTxns, KeepJump DEF Invalidate
<1>13. CASE RemoveTxn(p)
  BY <1>13, RemoveCounts
<1>14. CASE SyncReturn(p)
  <2>1. GoesIdle(p) /\ th[p].pc = "dec_own"
    BY <1>14, <1>f DEF SyncReturn, At, GoesIdle, Others
  <2>2. SameKinds /\ DropRef(th[p].txn)
    BY <1>14, <1>f, DecFacts DEF SyncReturn, Live
  <2>3. SentKnown
    BY <1>14, <1>f DEF SyncReturn, SentKnown, History
  <2> QED
    BY <1>14, <2>1, <2>2, <2>3, IdleDropOwn DEF SyncReturn
<1> QED
  BY <1>1, <1>2, <1>3, <1>4, <1>5, <1>6, <1>7, <1>8, <1>9, <1>10, <1>11, <1>12, <1>13, <1>14 DEF Send

(* The transport's up-calls. *)
LEMMA UpcallCounts ==
  ASSUME CountInv, Recv \/ Resume \/ ServerGone \/ UpcallStep
  PROVE  Counted'
<1>p. Reader \in Procs
  BY DEF Procs
<1>f. /\ th \in [Procs -> Thread] /\ txn \in [Ids -> Block] /\ hist \in [Ids -> History]
      /\ TxnOf(th[Reader]) /\ WorkOf(th[Reader]) /\ Known(th[Reader])
  BY <1>p, Facts
<1>1. CASE Recv
  <2>1. th[Reader].pc = "idle" /\ UNCHANGED <<next, txn, tx_q, hist>>
    BY <1>1 DEF Recv, At
  <2>2. SameKinds /\ SameRefs /\ SentKnown
    BY <2>1, SameTxns
  <2>3. CASE UNCHANGED <<th, txn_list>>
    BY <2>1, <2>3, StutterCounts
  <2>4. ASSUME NEW m \in txn_list, NEW b \in {"deliver", "mismatch"}, txn_list' = txn_list \ {m},
               th' = [th EXCEPT ![Reader].pc = b, ![Reader].cur = m]
        PROVE  Counted'
    <3>1. /\ Others(Reader) /\ th'[Reader].pc = b /\ th'[Reader].cur = m
          /\ th'[Reader].txn = th[Reader].txn /\ th'[Reader].ret = th[Reader].ret
          /\ th'[Reader].work = th[Reader].work
      BY <1>p, <1>f, <2>4 DEF Others, Thread
    <3>2. Takes(Reader, m) /\ <<th[Reader].pc, th'[Reader].pc>> \in TakeSteps
      BY <2>1, <2>4, <3>1 DEF Takes, TakeSteps
    <3> QED
      BY <1>p, <2>1, <2>2, <2>4, <3>2, TakeListed
  <2>5. \/ UNCHANGED <<th, txn_list>>
        \/ \E m \in txn_list, b \in {"deliver", "mismatch"} :
             /\ txn_list' = txn_list \ {m}
             /\ th' = [th EXCEPT ![Reader].pc = b, ![Reader].cur = m]
    BY <1>1 DEF Recv
  <2> QED
    BY <2>3, <2>4, <2>5
<1>2. CASE Resume
  <2>1. /\ Others(Reader) /\ th'[Reader].txn = th[Reader].txn /\ th'[Reader].cur = th[Reader].cur
        /\ th'[Reader].work = th[Reader].work
        /\ <<th[Reader].pc, th'[Reader].pc, th'[Reader].ret>> \in Begins
    BY <1>p, <1>2, <1>f DEF Resume, At, Others, Begins, Thread
  <2> QED
    BY <1>p, <1>2, <2>1, SameTxns, BeginKeep DEF Resume
<1>3. CASE ServerGone
  <2>1. /\ Others(Reader) /\ th'[Reader].txn = th[Reader].txn /\ th'[Reader].cur = th[Reader].cur
        /\ th'[Reader].work = th[Reader].work
        /\ <<th[Reader].pc, th'[Reader].pc, th'[Reader].ret>> \in Begins
    BY <1>p, <1>3, <1>f DEF ServerGone, At, Others, Begins, Thread
  <2> QED
    BY <1>p, <1>3, <2>1, SameTxns, BeginKeep DEF ServerGone
<1>4. CASE Deliver
  <2>1. Jump(Reader) /\ <<th[Reader].pc, th'[Reader].pc>> \in KeepJumps /\ JumpOk(Reader)
    BY <1>p, <1>4, <1>f, GotoJump DEF Deliver, At, KeepJumps, JumpOk
  <2>2. SameKinds /\ SameRefs
    BY <1>4, <1>f DEF Deliver, Live, Block, SameKinds, SameRefs
  <2>3. SentKnown
    BY <1>4, <1>f DEF Deliver, Live, History, SentKnown
  <2> QED
    BY <1>p, <1>4, <2>1, <2>2, <2>3, KeepJump DEF Deliver
<1>5. CASE Mismatch
  <2>1. Jump(Reader) /\ <<th[Reader].pc, th'[Reader].pc>> \in KeepJumps /\ JumpOk(Reader)
    BY <1>p, <1>5, <1>f, GotoJump DEF Mismatch, At, KeepJumps, JumpOk
  <2>2. SameKinds /\ SameRefs /\ SentKnown
    BY <1>5, <1>f, HandleFacts DEF Mismatch, Live
  <2> QED
    BY <1>p, <1>5, <2>1, <2>2, KeepJump DEF Mismatch
<1>6. CASE RecvDec
  <2>1. GoesIdle(Reader) /\ th[Reader].pc = "recv_dec"
    BY <1>p, <1>6, <1>f DEF RecvDec, At, GoesIdle, Others
  <2>2. th[Reader].cur \in Ids /\ DecTxn(th[Reader].cur)
    BY <1>6 DEF RecvDec, Live
  <2>3. SameKinds /\ DropRef(th[Reader].cur)
    BY <1>f, <2>2, DecFacts
  <2> QED
    BY <1>p, <1>6, <2>1, <2>2, <2>3, SameTxns, IdleDropCur DEF RecvDec
<1>7. CASE Flush(Reader)
  BY <1>p, <1>7, FlushCounts
<1>8. CASE ReaderExit
  <2>1. Jump(Reader) /\ <<th[Reader].pc, th'[Reader].pc>> \in KeepJumps /\ JumpOk(Reader)
    BY <1>p, <1>8, <1>f, GotoJump DEF ReaderExit, At, KeepJumps, JumpOk
  <2> QED
    BY <1>p, <1>8, <2>1, SameTxns, KeepJump DEF ReaderExit
<1> QED
  BY <1>1, <1>2, <1>3, <1>4, <1>5, <1>6, <1>7, <1>8 DEF UpcallStep

(* The application's choices: to start a call, to give up waiting. *)
LEMMA StartCounts ==
  ASSUME CountInv, NEW p \in Threads, CallStart(p) \/ WaitTimeout(p)
  PROVE  Counted'
<1>p. p \in Procs
  BY DEF Procs
<1>f. /\ th \in [Procs -> Thread] /\ txn \in [Ids -> Block] /\ hist \in [Ids -> History]
      /\ TxnOf(th[p]) /\ WorkOf(th[p]) /\ Known(th[p])
  BY <1>p, Facts
<1>1. ASSUME NEW k \in Kinds, SendStart(p, k) PROVE Counted'
  <2>1. /\ Others(p) /\ th'[p].txn = th[p].txn /\ th'[p].cur = th[p].cur
        /\ th'[p].work = th[p].work /\ <<th[p].pc, th'[p].pc, th'[p].ret>> \in Begins
    BY <1>p, <1>1, <1>f DEF SendStart, At, Others, Begins, Thread
  <2> QED
    BY <1>p, <1>1, <2>1, SameTxns, BeginKeep DEF SendStart
<1>2. CASE DeleteStart(p)
  <2>1. PICK n \in Ids : /\ hist[n].api = "sent"
                         /\ th' = [th EXCEPT ![p].pc = "del_q", ![p].txn = n]
    BY <1>2 DEF DeleteStart
  <2>2. n <= next /\ txn[n].kind = "async"
    BY <2>1 DEF CountInv, AllocInv
  <2>3. /\ Others(p) /\ th[p].pc = "idle" /\ th'[p].pc = "del_q" /\ th'[p].txn = n
        /\ th'[p].ret = th[p].ret /\ th'[p].cur = th[p].cur /\ th'[p].work = th[p].work
    BY <1>p, <1>2, <1>f, <2>1 DEF DeleteStart, At, Others, Thread
  <2>4. TxnOf(th'[p])
    BY <2>2, <2>3 DEF TxnOf, SyncTxn, AsyncTxn, SyncLabels, AsyncLabels, EitherLabels, NoTxnLabels, FlushLabels
  <2>5. WorkOf(th'[p]) /\ Known(th'[p])
    BY <1>f, <2>2, <2>3 DEF WorkOf, WorkLabels, Known
  <2>6. Moves(p)
    BY <2>3, <2>4, <2>5 DEF Moves, BeforeQueue
  <2>7. UNCHANGED <<next, txn, txn_list, tx_q, hist>>
    BY <1>2 DEF DeleteStart
  <2>8. SameKinds /\ SameRefs /\ SentKnown
    BY <2>7, SameTxns
  <2>9. \A i \in Ids : ~HoldsOwn(p, i) /\ ~HoldsOwn(p, i)'
    BY <2>2, <2>3, <2>8 DEF HoldsOwn, SameKinds
  <2>10. \A i \in Ids : /\ ~HoldsEnq(p, i) /\ ~HoldsEnq(p, i)'
                        /\ ~HoldsCur(p, i) /\ ~HoldsCur(p, i)'
                        /\ HoldsWork(p, i)' <=> HoldsWork(p, i)
    BY <2>3 DEF HoldsEnq, HoldsCur, CurLabels, HoldsWork
  <2>11. LocalEffect("none", "none", p, {})
    BY <2>7, <2>9, <2>10, SameListRefs DEF LocalEffect
  <2> QED
    BY <1>p, <2>6, <2>7, <2>8, <2>11, SameLists, KeepStep
<1>3. CASE ReleaseStart(p)
  <2>1. Jump(p) /\ <<th[p].pc, th'[p].pc>> \in KeepJumps /\ JumpOk(p)
    BY <1>p, <1>3, <1>f, GotoJump DEF ReleaseStart, At, KeepJumps, JumpOk
  <2> QED
    BY <1>p, <1>3, <2>1, SameTxns, KeepJump DEF ReleaseStart
<1>4. CASE WaitTimeout(p)
  <2>1. th[p].pc = "wait" /\ SyncTxn(th[p])
    BY <1>4, <1>f DEF WaitTimeout, At, TxnOf, SyncLabels
  <2>2. Jump(p) /\ th'[p].pc = "inval"
    BY <1>p, <1>4, <1>f DEF WaitTimeout, Thread, Jump, Others
  <2>3. <<th[p].pc, th'[p].pc>> \in KeepJumps /\ JumpOk(p)
    BY <2>1, <2>2 DEF KeepJumps, JumpOk
  <2>4. SameKinds /\ SameRefs
    BY <1>4, <1>f DEF WaitTimeout, Live, Block, SameKinds, SameRefs
  <2> QED
    BY <1>p, <1>4, <2>2, <2>3, <2>4, SameTxns, KeepJump DEF WaitTimeout
<1> QED
  BY <1>1, <1>2, <1>3, <1>4 DEF CallStart

(* The inductive invariant holds at the start ... *)
LEMMA InitCounts == Init => CountInv
<1> SUFFICES ASSUME Init PROVE CountInv
  OBVIOUS
<1>1. TypeOK
  BY InitType
<1>2. /\ \A p \in Procs : th[p] = Idle
      /\ txn_list = {} /\ tx_q = <<>> /\ ToSet(tx_q) = {} /\ next = 0
    BY DEF Init, ToSet
<1>3. ThreadInv
  <2>1. TxnOf(Idle) /\ WorkOf(Idle)
    BY DEF Idle, TxnOf, WorkOf, SyncLabels, AsyncLabels, EitherLabels, NoTxnLabels, FlushLabels, WorkLabels
  <2> QED
    BY <1>2, <2>1 DEF ThreadInv
<1>4. QueueInv
  BY <1>2 DEF QueueInv, Idle, BeforeQueue
<1>5. AllocInv
  BY <1>2 DEF AllocInv, Init, Idle, NoTxn
<1>6. RefCountExact
  <2> SUFFICES ASSUME NEW n \in Ids PROVE txn[n].ref = Cardinality(Holders(n))
    BY DEF RefCountExact
  <2>1. \A p \in Procs : ~HoldsOwn(p, n) /\ ~HoldsEnq(p, n) /\ ~HoldsCur(p, n) /\ ~HoldsWork(p, n)
    BY <1>2 DEF Idle, HoldsOwn, HoldsEnq, HoldsCur, HoldsWork, CurLabels
  <2>2. Holders(n) = {}
    BY <1>2, <2>1 DEF Holders
  <2>3. txn[n].ref = 0
    BY DEF Init
  <2> QED
    BY <2>2, <2>3, FS_EmptySet
<1> QED
  BY <1>1, <1>3, <1>4, <1>5, <1>6 DEF CountInv

(* ... and every step preserves it. *)
LEMMA NextCounts == CountInv /\ [Next]_vars => CountInv'
<1> SUFFICES ASSUME CountInv, [Next]_vars PROVE CountInv'
  OBVIOUS
<1>1. TypeOK'
  BY NextType DEF CountInv
<1>2. Counted'
  <2>1. ASSUME NEW p \in Threads, CallStart(p) \/ CallStep(p) \/ WaitTimeout(p) PROVE Counted'
    BY <2>1, StartCounts, SendCounts, FlushCounts, DeleteCounts, ReleaseCounts DEF CallStep, Procs
  <2>2. CASE Recv \/ Resume \/ ServerGone \/ UpcallStep
    BY <2>2, UpcallCounts
  <2>3. ASSUME NEW p \in Procs, UseAfterFree(p) PROVE Counted'
    BY <2>3, StutterCounts DEF UseAfterFree
  <2>4. CASE UNCHANGED vars
    BY <2>4, StutterCounts DEF vars
  <2> QED
    BY <2>1, <2>2, <2>3, <2>4 DEF Next
<1> QED
  BY <1>1, <1>2 DEF CountInv, Counted

(* A transaction's reference count is at all times the number of its holders:
   no path through the code, in any interleaving, gives a reference up twice or
   forgets one. *)
THEOREM RefCounts == Spec => []RefCountExact
<1>1. CountInv => RefCountExact
  BY DEF CountInv
<1> QED
  BY InitCounts, NextCounts, <1>1, PTL DEF Spec
=============================================================================
