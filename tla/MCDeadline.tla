----------------------------- MODULE MCDeadline -----------------------------
(***************************************************************************)
(* The instance of Deadline for TLC: seconds of three nanoseconds.         *)
(***************************************************************************)
EXTENDS Deadline
=============================================================================
