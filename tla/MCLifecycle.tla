---------------------------- MODULE MCLifecycle ----------------------------
(***************************************************************************)
(* Symmetry for model checking Lifecycle: PIDs and ports are only compared.*)
(***************************************************************************)
EXTENDS Lifecycle, TLC

Symmetry == Permutations(Procs) \cup Permutations(Ports)
=============================================================================
