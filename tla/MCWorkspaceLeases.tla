------------------------- MODULE MCWorkspaceLeases -------------------------
(* Model-checking instances of WorkspaceLeases. *)
EXTENDS WorkspaceLeases, TLC

Symmetry == Permutations(Threads)
SymmetryAll == Permutations(Threads) \cup Permutations(Leases)
=============================================================================
