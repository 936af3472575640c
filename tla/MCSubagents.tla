------------------------------ MODULE MCSubagents ------------------------------
(* TLC instances of Subagents.  Children are interchangeable. *)
EXTENDS Subagents, TLC

KidSymmetry == Permutations(Kids)
=============================================================================
