---------------------------- MODULE MCCommandInbox ----------------------------
(* The command inbox for TLC: ids, tasks and keys are interchangeable. *)
EXTENDS CommandInbox, TLC

InboxSymmetry == Permutations(Ids) \cup Permutations(Tasks) \cup Permutations(Keys)
===============================================================================
