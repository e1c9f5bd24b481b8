----------------------------- MODULE MCLifetime -----------------------------
(***************************************************************************)
(* Instances of Lifetime for TLC.  Threads of a process are                *)
(* interchangeable, and so are the processes that are forked.              *)
(***************************************************************************)
EXTENDS Lifetime, TLC

Symmetry == Permutations(Worker) \cup Permutations(Forked)
=============================================================================
