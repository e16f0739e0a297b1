---- MODULE MCGoalThread ----
(* GoalThread for TLC: the names of the turns in progress. *)
EXTENDS GoalThread, TLC
SymmetricUsers == Permutations(Users)
====
