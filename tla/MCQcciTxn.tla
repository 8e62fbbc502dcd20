------------------------------ MODULE MCQcciTxn ------------------------------
(* Values for the constants of QcciTxn in TLC's runs. *)
EXTENDS QcciTxnInv

CONSTANTS t1, t2, a1, a2, a3

TwoThreads == {t1, t2}
Symmetry == Permutations({t1, t2}) \cup Permutations({a1, a2, a3})

\* What may come between the calls of a client.  The product of all five is large, so a
\* behaviour of these runs has two of them; the proofs have no such bound.
Disturbances ==
  (IF net.busy > 0 THEN {"push-back"} ELSE {})
    \cup (IF clnt.addr_valid THEN {} ELSE {"exit"})
    \cup (IF clnt.linked THEN {} ELSE {"release"})
    \cup (IF \E n \in Ids : hist[n].del # "no" THEN {"deletion"} ELSE {})
    \cup (IF \E n \in Ids : "timeout" \in {txn[n].rc, hist[n].api} THEN {"time-out"} ELSE {})
MCNext == Next /\ Cardinality(Disturbances') <= 2
MCSpec == Init /\ [][MCNext]_vars

\* For liveness one thread makes all calls and the other only releases the client.
Roles == ~(ReleaseStart(t1) \/ \E k \in Kinds : SendStart(t2, k))
SenderSpec == Init /\ [][MCNext /\ Roles]_vars /\ Fairness
=============================================================================
