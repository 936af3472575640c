------------------------------ MODULE MCTaskActor ------------------------------
(* TLC instances of TaskActor.  Items are interchangeable. *)
EXTENDS TaskActor, TLC

ItemSymmetry == Permutations(Items)
=============================================================================
