------------------------------ MODULE MCChannel ------------------------------
(***************************************************************************)
(* Instances of Channel for TLC.  Threads of the same kind and values are  *)
(* interchangeable in the runs that check invariants only.                 *)
(***************************************************************************)
EXTENDS Channel, TLC

Symmetry == Permutations(Local \ {Main}) \cup Permutations(Remote)
            \cup Permutations(Item)
=============================================================================
