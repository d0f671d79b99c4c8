------------------------------- MODULE MCClient --------------------------------
(* Threads, places and addresses are interchangeable. *)
EXTENDS Client, TLC

Symmetry == Permutations(Threads) \cup Permutations(Objects) \cup Permutations(Handles)
===============================================================================
