--------------------------- MODULE MCQcsiService ---------------------------
(* QcsiService for model checking. *)
EXTENDS QcsiServiceInv, TLC

Symmetry == Permutations(Apps) \cup Permutations(Addrs)

=============================================================================
