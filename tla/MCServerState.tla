--------------------------- MODULE MCServerState ---------------------------
(* Symmetry for TLC: the requests of each kind are alike. *)
EXTENDS ServerState, TLC

Symmetry == Permutations(Readers)
=============================================================================
