--------------------------- MODULE MCCheckpoint -----------------------------
(* Instance of Checkpoint for TLC; the constants are set in the .cfg files. *)
EXTENDS Checkpoint, TLC

Symmetry == Permutations(Files)
=============================================================================
