---------------------------- MODULE MCThreadPool ----------------------------
(* Instances of ThreadPool for TLC: two workers, two or three tasks.       *)
EXTENDS ThreadPool, TLC

Symmetry == Permutations(Workers) \cup Permutations(Tasks)
=============================================================================
