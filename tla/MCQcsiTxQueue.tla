--------------------------- MODULE MCQcsiTxQueue ---------------------------
(* QcsiTxQueue for model checking. *)
EXTENDS QcsiTxQueue, TLC

Symmetry == Permutations(Clients)

\* What may happen besides sending, one push-back and its resume.  A behaviour of
\* qcsi_txq_flow has two of these.
Disturbances ==
    (IF handle = "open" THEN {} ELSE {"close"})
      \cup (IF net.gone = {} THEN {} ELSE {"removal"})
      \cup (IF hist.stacked \/ ev.pc = "reply" THEN {"error reply"} ELSE {})
      \cup (IF net.blocks > 1 THEN {"second push-back"} ELSE {})
TwoDisturbances == Cardinality(Disturbances) <= 2

=============================================================================
