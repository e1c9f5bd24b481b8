------------------------------ MODULE MCChunks ------------------------------
(***************************************************************************)
(* The instance of Chunks for TLC.                                         *)
(***************************************************************************)
EXTENDS Chunks

\* One to three chunks, with and without a remainder.
MCSizes == {1, CHUNK_SIZE + 1, 2 * CHUNK_SIZE, 2 * CHUNK_SIZE + 1}
=============================================================================
