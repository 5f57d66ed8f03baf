---------------------------- MODULE MCHandleUsers ----------------------------
(* Two processes, one of which is or begins as a fork, with three users each. *)
EXTENDS HandleUsers, TLC

Symmetry == Permutations(User) \cup Permutations(Process \ {First})
=============================================================================
