----------------------------- MODULE MCLocalStore -----------------------------
(* Model checking of the Agent's store. *)
EXTENDS LocalStore, TLC

\* Goroutines, ids and names are interchangeable (not used with liveness).
Symmetry == Permutations(Worker) \cup Permutations(File) \cup Permutations(Name)
=============================================================================
